------------------------------- MODULE GdeltProofs -------------------------------
(***************************************************************************)
(* The two specifications of gdelt_worker.py: the loop in time             *)
(* (GdeltSchedule) and its cycles (GdeltWorker).                           *)
(*                                                                         *)
(* NoExportMissed holds for all lengths of interval, backoff, cycle and    *)
(* period that satisfy RoundFits: the invariant bounds the time until the  *)
(* next poll by what is left of the current phase and the phases that may  *)
(* follow it.  The cycles are proved for any exports, runs, batch sizes    *)
(* and faults, in layers: what Keep, Broadcasts and Ignored return, the    *)
(* types (TInv), what is stored (SInv), and what holds as long as nothing  *)
(* disturbs a cycle (UInv).                                                *)
(***************************************************************************)
EXTENDS GdeltSchedule, GdeltWorker, FiniteSetTheorems, WellFoundedInduction, TLAPS

-----------------------------------------------------------------------------
(* The loop in time.                                                       *)

(* The longest wait for the next poll after the current phase.             *)
Behind == IF phase = "interval" THEN 0
          ELSE IF phase = "cycle" THEN MaxBackoff + Interval ELSE Interval

(* The longest a phase may last.                                           *)
Longest == IF phase = "interval" THEN Interval
           ELSE IF phase = "backoff" THEN MaxBackoff ELSE MaxCycle

InTime == ~polled => age + left + Behind < Period

ScheduleInvariant ==
  /\ ScheduleTypeOK /\ left <= Longest /\ InTime /\ ~missed

(* Doubling keeps the backoff between its bounds.                          *)
LEMMA DoubledInRange ==
  ASSUME NEW b \in InitialBackoff .. MaxBackoff
  PROVE  Doubled(b) \in InitialBackoff .. MaxBackoff
BY ScheduleAssumption DEF Doubled, Least

LEMMA InitSchedule == ScheduleInit => ScheduleInvariant
<1> SUFFICES ASSUME ScheduleInit PROVE ScheduleInvariant
  OBVIOUS
<1>1. polled \in BOOLEAN /\ missed \in BOOLEAN /\ ~missed /\ InTime
  BY Zenon DEF ScheduleInit, InTime
<1>2. ScheduleTypeOK /\ left <= Longest
  BY <1>1, ScheduleAssumption DEF ScheduleInit, ScheduleTypeOK, Longest
<1> QED BY <1>1, <1>2 DEF ScheduleInvariant

LEMMA StepSchedule == ScheduleInvariant /\ [ScheduleNext]_scheduleVars => ScheduleInvariant'
<1> SUFFICES ASSUME ScheduleInvariant, [ScheduleNext]_scheduleVars PROVE ScheduleInvariant'
  OBVIOUS
<1> USE ScheduleAssumption, RoundFits DEF ScheduleInvariant, ScheduleTypeOK, InTime
<1>1. CASE CycleSucceeds
  BY <1>1 DEF CycleSucceeds, Sleep, Longest, Behind
<1>2. CASE CycleFails
  <2>1. Doubled(backoff) \in InitialBackoff .. MaxBackoff
    BY DoubledInRange
  <2>2. CASE phase = "first"
    BY <1>2, <2>2 DEF CycleFails, Sleep, Longest, Behind
  <2>3. CASE phase = "cycle"
    BY <1>2, <2>1, <2>3 DEF CycleFails, Sleep, Longest, Behind
  <2> QED BY <1>2, <2>2, <2>3 DEF CycleFails
<1>3. CASE BackoffEnds
  BY <1>3 DEF BackoffEnds, Sleep, Longest, Behind
<1>4. CASE IntervalEnds
  BY <1>4 DEF IntervalEnds, Sleep, Longest, Behind
<1>5. CASE Tick
  <2>1. left' < left /\ left' \in Nat /\ phase' = phase /\ Longest' = Longest
        /\ Behind' = Behind /\ backoff' = backoff
    BY <1>5 DEF Tick, Longest, Behind
  <2>2. Behind \in Nat /\ Longest + Behind <= Period /\ Longest \in Nat
    BY DEF Longest, Behind
  <2>3. CASE age + 1 = Period
    <3>1. polled
      BY <1>5, <2>2, <2>3 DEF Tick
    <3>2. ~missed' /\ missed' \in BOOLEAN /\ polled' \in BOOLEAN
      BY <1>5, <2>3, <3>1, Zenon DEF Tick
    <3>3. age' = 0
      BY <1>5, <2>3 DEF Tick
    <3> QED BY <1>5, <2>1, <2>2, <3>2, <3>3 DEF Tick
  <2>4. CASE age + 1 # Period
    BY <1>5, <2>1, <2>2, <2>4 DEF Tick
  <2> QED BY <2>3, <2>4
<1>6. CASE UNCHANGED scheduleVars
  BY <1>6 DEF scheduleVars, Longest, Behind
<1> QED BY <1>1, <1>2, <1>3, <1>4, <1>5, <1>6 DEF ScheduleNext

(* gdelt_ingestion_loop keeps its shape, whatever the intervals.           *)
THEOREM ScheduleTypeCorrect == ScheduleSpec => []ScheduleTypeOK
<1>1. ScheduleInvariant => ScheduleTypeOK
  BY DEF ScheduleInvariant
<1> QED BY InitSchedule, StepSchedule, <1>1, PTL DEF ScheduleSpec

(* However many cycles in a row fail, every export of GDELT is polled      *)
(* before it is replaced, if the slowest round fits into its period.       *)
THEOREM EveryExportIsPolled == ScheduleSpec => []NoExportMissed
<1>1. ScheduleInvariant => NoExportMissed
  BY DEF ScheduleInvariant, NoExportMissed
<1> QED BY InitSchedule, StepSchedule, <1>1, PTL DEF ScheduleSpec

-----------------------------------------------------------------------------
(* Operators: parts of sequences, the batch that is inserted.              *)

(* The least of a set of numbers, for arguments along a sequence.          *)
LEMMA LeastExists ==
  ASSUME NEW T \in SUBSET Nat, T # {}
  PROVE  \E m \in T : \A n \in T : m <= n
<1> DEFINE R == OpToRel(<, Nat)
<1>1. IsWellFoundedOn(R, Nat)
  BY NatLessThanWellFounded
<1>2. \A x, y \in Nat : x < y => <<x, y>> \in R
  BY DEF OpToRel
<1> HIDE DEF R
<1>3. PICK m \in T : \A n \in T : ~ (<<n, m>> \in R)
  BY <1>1, WFMin
<1>4. ASSUME NEW n \in T PROVE m <= n
  <2>1. m \in Nat /\ n \in Nat
    OBVIOUS
  <2>2. ~(n < m)
    BY <1>2, <1>3, <2>1, Zenon
  <2> QED BY <2>1, <2>2
<1> QED BY <1>4

(* The recursion of Keeping has a solution, hence is one.                  *)
LEMMA KeepingDef ==
  ASSUME NEW s \in Seq(Events), NEW places
  PROVE  LET kept == Keeping(s, places)
         IN  /\ kept[0] = <<>>
             /\ \A n \in 1 .. Len(s) :
                  kept[n] = IF n \in places THEN Append(kept[n - 1], s[n])
                            ELSE kept[n - 1]
<1> DEFINE More(old, n) == IF n \in places THEN Append(old, s[n]) ELSE old
           Rec(g, m) == g = [n \in 0..m |-> IF n = 0 THEN <<>> ELSE More(g[n - 1], n)]
           T == {m \in Nat : m <= Len(s) /\ ~ \E g : Rec(g, m)}
<1> HIDE DEF More
<1>1. Len(s) \in Nat
  OBVIOUS
<1>2. T = {}
  <2>1. SUFFICES ASSUME T # {} PROVE FALSE
    OBVIOUS
  <2>2. PICK m \in T : \A n \in T : m <= n
    BY <2>1, LeastExists
  <2>3. m \in Nat /\ m <= Len(s) /\ ~ \E g : Rec(g, m)
    BY <2>2
  <2>4. m # 0
    <3>1. SUFFICES ASSUME m = 0 PROVE FALSE
      OBVIOUS
    <3> DEFINE h == [n \in 0..m |-> <<>>]
    <3>2. h = [n \in 0..m |-> IF n = 0 THEN <<>> ELSE More(h[n - 1], n)]
      BY <3>1
    <3> QED BY <2>3, <3>2
  <2>5. m - 1 \in Nat /\ m - 1 <= Len(s) /\ m - 1 \notin T
    <3>1. m - 1 \in Nat /\ m - 1 <= Len(s) /\ m - 1 < m
      BY <1>1, <2>3, <2>4
    <3>2. m - 1 \in T => m <= m - 1
      BY <2>2
    <3> HIDE DEF T
    <3> QED BY <2>3, <3>1, <3>2
  <2>6. PICK g : Rec(g, m - 1)
    BY <2>5
  <2> DEFINE h == [n \in 0..m |-> IF n = m THEN More(g[m - 1], m) ELSE g[n]]
  <2>7. ASSUME NEW n \in 0..m
        PROVE  h[n] = IF n = 0 THEN <<>> ELSE More(h[n - 1], n)
    <3>1. CASE n = m
      BY <2>3, <2>4, <2>7, <3>1
    <3>2. CASE n # m
      <4>1. n \in 0..(m - 1) /\ h[n] = g[n]
        BY <2>3, <2>4, <2>7, <3>2
      <4>2. g[n] = IF n = 0 THEN <<>> ELSE More(g[n - 1], n)
        BY <2>6, <4>1
      <4>3. n # 0 => h[n - 1] = g[n - 1]
        BY <2>3, <2>4, <4>1
      <4> QED BY <4>1, <4>2, <4>3
    <3> QED BY <3>1, <3>2
  <2>8. Rec(h, m)
    <3>1. h = [n \in 0..m |-> h[n]]
      OBVIOUS
    <3> HIDE DEF h
    <3> QED BY <2>7, <3>1
  <2> QED BY <2>3, <2>8
<1>3. \E g : Rec(g, Len(s))
  BY <1>1, <1>2
<1>4. Rec(Keeping(s, places), Len(s))
  BY <1>3 DEF Keeping, More
<1> HIDE DEF T
<1>5. LET kept == Keeping(s, places)
      IN  kept[0] = <<>> /\ \A n \in 1 .. Len(s) : kept[n] = More(kept[n - 1], n)
  BY <1>1, <1>4
<1> QED BY <1>5 DEF More

(* What is kept comes from places that are kept, in their order.           *)
LEMMA KeepFacts ==
  ASSUME NEW s \in Seq(Events), NEW places
  PROVE  LET kept == Keep(s, places)
         IN  /\ kept \in Seq(Events)
             /\ \A i \in DOMAIN kept : \E p \in places \cap DOMAIN s : kept[i] = s[p]
             /\ \A i, j \in DOMAIN kept : i < j =>
                  \E p, q \in places \cap DOMAIN s :
                    p < q /\ kept[i] = s[p] /\ kept[j] = s[q]
<1> DEFINE kept == Keeping(s, places)
           From(n) == places \cap 1 .. n
           Fine(n) ==
             /\ kept[n] \in Seq(Events)
             /\ \A i \in DOMAIN kept[n] : \E p \in From(n) : kept[n][i] = s[p]
             /\ \A i, j \in DOMAIN kept[n] : i < j =>
                  \E p, q \in From(n) : p < q /\ kept[n][i] = s[p] /\ kept[n][j] = s[q]
           T == {m \in Nat : m <= Len(s) /\ ~Fine(m)}
<1>1. Len(s) \in Nat /\ DOMAIN s = 1 .. Len(s)
  OBVIOUS
<1>2. /\ kept[0] = <<>>
      /\ \A n \in 1 .. Len(s) :
           kept[n] = IF n \in places THEN Append(kept[n - 1], s[n]) ELSE kept[n - 1]
  BY KeepingDef
<1> HIDE DEF kept
<1>3. Fine(0)
  BY <1>2
<1>4. ASSUME NEW n \in 1 .. Len(s), Fine(n - 1) PROVE Fine(n)
  <2>1. n \in Nat /\ n - 1 \in Nat /\ From(n - 1) \subseteq From(n) /\ s[n] \in Events
    BY <1>1
  <2>2. CASE n \notin places
    <3>1. kept[n] = kept[n - 1]
      BY <1>2, <2>2
    <3> QED BY <1>4, <2>1, <3>1
  <2>3. CASE n \in places
    <3> DEFINE old == kept[n - 1]
               new == kept[n]
    <3>1. new = Append(old, s[n]) /\ n \in From(n)
      <4>1. n \in From(n)
        BY <2>1, <2>3
      <4>2. new = Append(old, s[n])
        BY <1>2, <2>3
      <4> QED BY <4>1, <4>2
    <3>2. old \in Seq(Events)
      BY <1>4
    <3>3. /\ new \in Seq(Events) /\ Len(old) \in Nat /\ DOMAIN new = 1 .. Len(old) + 1
          /\ DOMAIN old = 1 .. Len(old)
          /\ \A i \in DOMAIN old : new[i] = old[i]
          /\ new[Len(old) + 1] = s[n]
      BY <2>1, <3>1, <3>2
    <3>4. /\ \A i \in DOMAIN old : \E p \in From(n - 1) : old[i] = s[p]
          /\ \A i, j \in DOMAIN old : i < j =>
               \E p, q \in From(n - 1) : p < q /\ old[i] = s[p] /\ old[j] = s[q]
      BY <1>4
    <3>5. \A p \in From(n - 1) : p < n
      BY <2>1
    <3> HIDE DEF old, new, From
    <3>6. ASSUME NEW i \in DOMAIN new PROVE \E p \in From(n) : new[i] = s[p]
      BY <2>1, <3>1, <3>3, <3>4
    <3>7. ASSUME NEW i \in DOMAIN new, NEW j \in DOMAIN new, i < j
          PROVE  \E p, q \in From(n) : p < q /\ new[i] = s[p] /\ new[j] = s[q]
      <4>1. i \in DOMAIN old
        BY <3>3, <3>7
      <4>2. CASE j \in DOMAIN old
        BY <2>1, <3>3, <3>4, <3>7, <4>1, <4>2
      <4>3. CASE j = Len(old) + 1
        <5>1. PICK p \in From(n - 1) : old[i] = s[p]
          BY <3>4, <4>1
        <5> QED BY <2>1, <3>1, <3>3, <3>5, <4>1, <4>3, <5>1
      <4> QED BY <3>3, <3>7, <4>2, <4>3
    <3> QED BY <3>3, <3>6, <3>7 DEF new
  <2> QED BY <2>2, <2>3
<1>5. T = {}
  <2>1. SUFFICES ASSUME T # {} PROVE FALSE
    OBVIOUS
  <2>2. PICK m \in T : \A n \in T : m <= n
    BY <2>1, LeastExists
  <2> HIDE DEF Fine
  <2>3. m \in Nat /\ m <= Len(s) /\ ~Fine(m) /\ m # 0
    BY <1>3, <2>2
  <2>4. m \in 1 .. Len(s) /\ m - 1 \in Nat /\ m - 1 <= Len(s) /\ ~(m <= m - 1)
    BY <1>1, <2>3
  <2>5. m - 1 \notin T
    BY <2>2, <2>4
  <2>6. Fine(m - 1)
    BY <2>4, <2>5
  <2> QED BY <1>4, <2>3, <2>4, <2>6
<1>6. Fine(Len(s))
  BY <1>1, <1>5
<1>7. Keep(s, places) = kept[Len(s)]
  BY DEF Keep, kept
<1> HIDE DEF T
<1> QED BY <1>1, <1>6, <1>7

(* No two elements of a sequence cite one URL.                             *)
DistinctUrls(s) == \A i, j \in DOMAIN s : Url[s[i]] = Url[s[j]] => i = j

(* What is kept of distinct URLs is distinct.                              *)
LEMMA KeepDistinct ==
  ASSUME NEW s \in Seq(Events), NEW places,
         \A p, q \in places \cap DOMAIN s : p < q => Url[s[p]] # Url[s[q]]
  PROVE  DistinctUrls(Keep(s, places))
<1> DEFINE kept == Keep(s, places)
<1>1. /\ kept \in Seq(Events)
      /\ \A i, j \in DOMAIN kept : i < j =>
           \E p, q \in places \cap DOMAIN s : p < q /\ kept[i] = s[p] /\ kept[j] = s[q]
  BY KeepFacts
<1>2. DOMAIN kept \subseteq Nat
  BY <1>1
<1> HIDE DEF kept
<1>3. ASSUME NEW i \in DOMAIN kept, NEW j \in DOMAIN kept, i < j
      PROVE  Url[kept[i]] # Url[kept[j]]
  <2>1. PICK p \in places \cap DOMAIN s, q \in places \cap DOMAIN s :
          p < q /\ kept[i] = s[p] /\ kept[j] = s[q]
    BY <1>1, <1>3
  <2>2. Url[s[p]] # Url[s[q]]
    BY <2>1
  <2> QED BY <2>1, <2>2
<1>4. ASSUME NEW i \in DOMAIN kept, NEW j \in DOMAIN kept, Url[kept[i]] = Url[kept[j]]
      PROVE  i = j
  <2>1. i \in Nat /\ j \in Nat /\ ~(i < j) /\ ~(j < i)
    BY <1>2, <1>3, <1>4
  <2> QED BY <2>1
<1> QED BY <1>4 DEF DistinctUrls, kept

(* The first layer of ingest_gdelt_events leaves one event for each URL.   *)
LEMMA FirstPerUrlDistinct ==
  ASSUME NEW s \in Seq(Events)
  PROVE  FirstPerUrl(s) \in Seq(Events) /\ DistinctUrls(FirstPerUrl(s))
<1>1. ASSUME NEW p \in Firsts(s) \cap DOMAIN s, NEW q \in Firsts(s) \cap DOMAIN s, p < q
      PROVE  Url[s[p]] # Url[s[q]]
  <2>1. p \in 1 .. q - 1
    BY <1>1
  <2> QED BY <2>1 DEF Firsts
<1>2. FirstPerUrl(s) = Keep(s, Firsts(s))
  BY DEF FirstPerUrl
<1>3. Keep(s, Firsts(s)) \in Seq(Events)
  BY KeepFacts
<1>4. DistinctUrls(Keep(s, Firsts(s)))
  BY <1>1, KeepDistinct
<1> QED BY <1>2, <1>3, <1>4

(* A part of distinct URLs is distinct, and in the sequence.               *)
LEMMA PartFacts ==
  ASSUME NEW s \in Seq(Events), NEW places \in SUBSET DOMAIN s
  PROVE  /\ Keep(s, places) \in Seq(Events)
         /\ \A i \in DOMAIN Keep(s, places) :
              \E p \in places : Keep(s, places)[i] = s[p]
         /\ DistinctUrls(s) => DistinctUrls(Keep(s, places))
<1>1. places \cap DOMAIN s = places /\ DOMAIN s \subseteq Nat
  OBVIOUS
<1>2. ASSUME DistinctUrls(s) PROVE DistinctUrls(Keep(s, places))
  <2>1. ASSUME NEW p \in places \cap DOMAIN s, NEW q \in places \cap DOMAIN s, p < q
        PROVE  Url[s[p]] # Url[s[q]]
    <3>1. p # q /\ p \in DOMAIN s /\ q \in DOMAIN s
      BY <1>1, <2>1
    <3> QED BY <1>2, <3>1, Zenon DEF DistinctUrls
  <2> QED BY <2>1, KeepDistinct
<1>3. /\ Keep(s, places) \in Seq(Events)
      /\ \A i \in DOMAIN Keep(s, places) :
           \E p \in places \cap DOMAIN s : Keep(s, places)[i] = s[p]
  BY KeepFacts
<1> QED BY <1>1, <1>2, <1>3

(* Slices.                                                                 *)
LEMMA MostFacts ==
  ASSUME NEW s \in Seq(Events), NEW n \in Nat
  PROVE  /\ Most(s, n) \in Seq(Events) /\ Len(Most(s, n)) <= Len(s)
         /\ Len(Most(s, n)) = (IF Len(s) < n THEN Len(s) ELSE n)
         /\ DOMAIN Most(s, n) = 1 .. Len(Most(s, n))
         /\ DOMAIN Most(s, n) \subseteq DOMAIN s
         /\ \A k \in DOMAIN Most(s, n) : Most(s, n)[k] = s[k]
         /\ DistinctUrls(s) => DistinctUrls(Most(s, n))
<1> DEFINE m == IF Len(s) < n THEN Len(s) ELSE n
<1>1. m \in 0 .. Len(s) /\ Len(s) \in Nat /\ DOMAIN s = 1 .. Len(s)
  OBVIOUS
<1>2. Most(s, n) = SubSeq(s, 1, m)
  BY DEF Most
<1> HIDE DEF m
<1>3. /\ SubSeq(s, 1, m) \in Seq(Events) /\ Len(SubSeq(s, 1, m)) = m
      /\ DOMAIN SubSeq(s, 1, m) = 1 .. m
      /\ \A k \in 1 .. m : SubSeq(s, 1, m)[k] = s[k]
  BY <1>1
<1>4. DistinctUrls(s) => DistinctUrls(Most(s, n))
  BY <1>1, <1>2, <1>3 DEF DistinctUrls
<1> QED BY <1>1, <1>2, <1>3, <1>4 DEF m

(* Broadcasts are candidates, and as distinct as these.                    *)
LEMMA BroadcastsFacts ==
  ASSUME NEW s \in Seq(Events)
  PROVE  /\ Broadcasts(s) \in Seq(Events)
         /\ \A i \in DOMAIN Broadcasts(s) : \E p \in DOMAIN s : Broadcasts(s)[i] = s[p]
         /\ DistinctUrls(s) => DistinctUrls(Broadcasts(s))
<1> DEFINE places(level) == {k \in DOMAIN s : Impact[s[k]] = level}
           part(level) == OfImpact(s, level)
           high == Most(part("High"), HighCap)
           medium == Most(part("Medium"), MediumCap)
<1>1. ASSUME NEW level
      PROVE  /\ part(level) \in Seq(Events)
             /\ \A i \in DOMAIN part(level) : \E p \in DOMAIN s :
                  part(level)[i] = s[p] /\ Impact[s[p]] = level
             /\ DistinctUrls(s) => DistinctUrls(part(level))
  <2>1. part(level) = Keep(s, places(level)) /\ places(level) \subseteq DOMAIN s
    BY DEF OfImpact
  <2>2. \A p \in places(level) : p \in DOMAIN s /\ Impact[s[p]] = level
    OBVIOUS
  <2> HIDE DEF places, part
  <2> QED BY <2>1, <2>2, PartFacts
<1> HIDE DEF part
<1>2. /\ high \in Seq(Events)
      /\ \A i \in DOMAIN high : \E p \in DOMAIN s : high[i] = s[p] /\ Impact[s[p]] = "High"
      /\ DistinctUrls(s) => DistinctUrls(high)
  <2>1. part("High") \in Seq(Events) /\ HighCap \in Nat
    BY <1>1, BoundsAssumption
  <2> QED BY <1>1, <2>1, MostFacts
<1>3. /\ medium \in Seq(Events)
      /\ \A i \in DOMAIN medium : \E p \in DOMAIN s : medium[i] = s[p] /\ Impact[s[p]] = "Medium"
      /\ DistinctUrls(s) => DistinctUrls(medium)
  <2>1. part("Medium") \in Seq(Events) /\ MediumCap \in Nat
    BY <1>1, BoundsAssumption
  <2> QED BY <1>1, <2>1, MostFacts
<1>4. Broadcasts(s) = high \o medium
  BY DEF Broadcasts, part
<1> HIDE DEF high, medium
<1> DEFINE all == high \o medium
<1>5. /\ all \in Seq(Events) /\ Len(high) \in Nat /\ Len(medium) \in Nat
      /\ DOMAIN high = 1 .. Len(high) /\ DOMAIN medium = 1 .. Len(medium)
      /\ DOMAIN all = 1 .. Len(high) + Len(medium)
      /\ \A i \in DOMAIN high : all[i] = high[i]
      /\ \A i \in DOMAIN all \ DOMAIN high :
           i - Len(high) \in DOMAIN medium /\ all[i] = medium[i - Len(high)]
  BY <1>2, <1>3
<1> HIDE DEF all
<1>6. \A i \in DOMAIN all : \E p \in DOMAIN s : all[i] = s[p]
  BY <1>2, <1>3, <1>5
<1>7. ASSUME DistinctUrls(s), NEW i \in DOMAIN all, NEW j \in DOMAIN all,
             Url[all[i]] = Url[all[j]]
      PROVE  i = j
  <2>1. \A p, q \in DOMAIN s : Url[s[p]] = Url[s[q]] => p = q
    BY <1>7 DEF DistinctUrls
  <2>2. /\ \A k, l \in DOMAIN high : Url[high[k]] = Url[high[l]] => k = l
        /\ \A k, l \in DOMAIN medium : Url[medium[k]] = Url[medium[l]] => k = l
    BY <1>2, <1>3, <1>7 DEF DistinctUrls
  <2>3. \A k \in DOMAIN high, l \in DOMAIN medium : Url[high[k]] # Url[medium[l]]
    <3>1. SUFFICES ASSUME NEW k \in DOMAIN high, NEW l \in DOMAIN medium,
                          Url[high[k]] = Url[medium[l]]
                   PROVE  FALSE
      OBVIOUS
    <3>2. PICK p \in DOMAIN s : high[k] = s[p] /\ Impact[s[p]] = "High"
      BY <1>2
    <3>3. PICK q \in DOMAIN s : medium[l] = s[q] /\ Impact[s[q]] = "Medium"
      BY <1>3
    <3>4. p = q
      BY <2>1, <3>1, <3>2, <3>3, Zenon
    <3> QED BY <3>2, <3>3, <3>4
  <2>4. i \in Nat /\ j \in Nat
    BY <1>5
  <2>5. CASE i \in DOMAIN high /\ j \in DOMAIN high
    BY <1>5, <1>7, <2>2, <2>5
  <2>6. CASE i \notin DOMAIN high /\ j \notin DOMAIN high
    <3>1. i - Len(high) = j - Len(high)
      BY <1>5, <1>7, <2>2, <2>6
    <3> QED BY <1>5, <2>4, <3>1
  <2>7. CASE i \in DOMAIN high /\ j \notin DOMAIN high
    BY <1>5, <1>7, <2>3, <2>7
  <2>8. CASE i \notin DOMAIN high /\ j \in DOMAIN high
    BY <1>5, <1>7, <2>3, <2>8
  <2> QED BY <2>5, <2>6, <2>7, <2>8
<1>8. DistinctUrls(s) => DistinctUrls(all)
  BY <1>7 DEF DistinctUrls
<1> QED BY <1>4, <1>5, <1>6, <1>8 DEF all

(* What INSERT OR IGNORE adds: nothing but mappings of the batch, each URL *)
(* of which is in the table afterwards.                                    *)
LEMMA IgnoredFacts ==
  ASSUME rows \subseteq Events, NEW batch \in Seq(Events)
  PROVE  /\ rows \subseteq Ignored(batch) /\ Ignored(batch) \subseteq Events
         /\ \A e \in Ignored(batch) : e \in rows \/ \E k \in DOMAIN batch : e = batch[k]
         /\ \A k \in DOMAIN batch :
              Url[batch[k]] \in {Url[e] : e \in Ignored(batch)} \cup others
<1> DEFINE new == {i \in Firsts(batch) : Url[batch[i]] \notin TakenUrls}
<1>1. Ignored(batch) = rows \cup {batch[k] : k \in new}
  BY DEF Ignored
<1>2. new \subseteq DOMAIN batch /\ DOMAIN batch \subseteq Nat /\ \A k \in DOMAIN batch : batch[k] \in Events
  BY DEF Firsts
<1>3. ASSUME NEW k \in DOMAIN batch
      PROVE  Url[batch[k]] \in {Url[e] : e \in Ignored(batch)} \cup others
  <2>1. CASE Url[batch[k]] \in TakenUrls
    BY <1>1, <2>1 DEF TakenUrls
  <2>2. CASE Url[batch[k]] \notin TakenUrls
    <3> DEFINE same == {j \in DOMAIN batch : Url[batch[j]] = Url[batch[k]]}
    <3>1. PICK f \in same : \A j \in same : f <= j
      <4>1. same \in SUBSET Nat /\ same # {}
        BY <1>2
      <4> HIDE DEF same
      <4> QED BY <4>1, LeastExists
    <3>2. f \in DOMAIN batch /\ Url[batch[f]] = Url[batch[k]]
      BY <3>1
    <3>3. ASSUME NEW j \in 1 .. f - 1 PROVE Url[batch[j]] # Url[batch[f]]
      <4>1. j \in DOMAIN batch /\ ~(f <= j)
        BY <3>2
      <4> QED BY <3>1, <3>2, <4>1
    <3>4. f \in new
      BY <2>2, <3>2, <3>3 DEF Firsts
    <3>5. batch[f] \in Ignored(batch)
      BY <1>1, <3>4
    <3> QED BY <3>2, <3>5
  <2> QED BY <2>1, <2>2
<1> HIDE DEF new
<1> QED BY <1>1, <1>2, <1>3

(* A batch of distinct new URLs adds a row for each of its mappings.       *)
LEMMA IgnoredCount ==
  ASSUME rows \subseteq Events, IsFiniteSet(rows), NEW batch \in Seq(Events),
         DistinctUrls(batch), \A k \in DOMAIN batch : Url[batch[k]] \notin TakenUrls
  PROVE  IsFiniteSet(Ignored(batch))
         /\ Cardinality(Ignored(batch)) = Cardinality(rows) + Len(batch)
<1> DEFINE places == 1 .. Len(batch)
           new == {batch[k] : k \in places}
           f == [k \in places |-> batch[k]]
<1>1. Len(batch) \in Nat /\ DOMAIN batch = places /\ \A k \in places : batch[k] \in Events
  OBVIOUS
<1>2. {i \in Firsts(batch) : Url[batch[i]] \notin TakenUrls} = places
  <2>1. ASSUME NEW k \in places PROVE k \in Firsts(batch)
    <3>1. \A j \in 1 .. k - 1 : j \in places /\ j # k
      BY <1>1
    <3>2. \A j \in 1 .. k - 1 : Url[batch[j]] # Url[batch[k]]
      BY <1>1, <3>1 DEF DistinctUrls
    <3> QED BY <1>1, <3>2 DEF Firsts
  <2>2. Firsts(batch) \subseteq places
    BY <1>1 DEF Firsts
  <2> QED BY <1>1, <2>1, <2>2
<1>3. Ignored(batch) = rows \cup new
  BY <1>2 DEF Ignored
<1>4. rows \cap new = {}
  BY <1>1 DEF TakenUrls
<1>5. IsFiniteSet(places) /\ Cardinality(places) = Len(batch)
  BY <1>1, FS_Interval
<1>6. f \in Bijection(places, new)
  <2>1. \A k, l \in places : f[k] = f[l] => k = l
    BY <1>1 DEF DistinctUrls
  <2>2. f \in [places -> new] /\ \A e \in new : \E k \in places : f[k] = e
    OBVIOUS
  <2> HIDE DEF places, new, f
  <2> QED BY <2>1, <2>2 DEF Bijection, Injection, Surjection, IsInjective
<1> HIDE DEF f
<1>7. IsFiniteSet(new) /\ Cardinality(new) = Len(batch)
  <2>1. ExistsBijection(places, new)
    BY <1>6 DEF ExistsBijection
  <2> HIDE DEF places, new
  <2> QED BY <1>5, <2>1, FS_Bijection
<1> HIDE DEF new, places
<1>8. IsFiniteSet(rows \cup new)
      /\ Cardinality(rows \cup new) = Cardinality(rows) + Cardinality(new) - Cardinality(rows \cap new)
  BY <1>7, FS_Union
<1>9. Cardinality({}) = 0 /\ Cardinality(rows) \in Nat
  BY FS_EmptySet, FS_CardinalityType
<1>10. Cardinality(rows \cap new) = 0
  BY <1>4, <1>9
<1>11. Cardinality(rows \cup new) = Cardinality(rows) + Len(batch)
  BY <1>1, <1>7, <1>8, <1>9, <1>10
<1> QED BY <1>3, <1>8, <1>11

-----------------------------------------------------------------------------
(* Types.                                                                  *)

(* What the inserts of a cycle have done and have still to do.             *)
CandidatesOK ==
  \A r \in Runs :
    /\ pc[r] \in {"idle", "ids", "urls"} => inserted[r] = 0
    /\ pc[r] = "insert" =>
         \A k \in DOMAIN rest[r] : rest[r][k] = cand[r][inserted[r] + k]

TInv == TypeOK /\ CandidatesOK

LEMMA InitTInv == Init => TInv
<1> SUFFICES ASSUME Init PROVE TInv
  OBVIOUS
<1>1. 1 \in 1 .. Len(Updates)
  BY UpdatesAssumption
<1>2. redisUp \in BOOLEAN /\ undisturbed \in BOOLEAN
  BY Zenon DEF Init
<1>3. CandidatesOK
  BY DEF Init, CandidatesOK
<1>4. \A r \in Runs : pc[r] = "idle"
  BY DEF Init
<1>5. TypeOK
  BY <1>1, <1>2, <1>4, BoundsAssumption DEF Init, TypeOK
<1> QED BY <1>3, <1>5 DEF TInv

(* A run that changes its own entries only: what is to be shown of it.     *)
LEMMA OneRun ==
  ASSUME TInv, NEW r \in Runs,
         pc' = [pc EXCEPT ![r] = pc'[r]], cand' = [cand EXCEPT ![r] = cand'[r]],
         rest' = [rest EXCEPT ![r] = rest'[r]],
         inserted' = [inserted EXCEPT ![r] = inserted'[r]],
         casts' = [casts EXCEPT ![r] = casts'[r]],
         pc'[r] \in {"idle", "ids", "urls", "insert", "announce"},
         cand'[r] \in Seq(Events), rest'[r] \in Seq(Events), casts'[r] \in Seq(Events),
         inserted'[r] \in Nat,
         pc'[r] \in {"insert", "announce"} => inserted'[r] + Len(rest'[r]) = Len(cand'[r]),
         pc'[r] \in {"idle", "ids", "urls"} => inserted'[r] = 0,
         pc'[r] = "insert" =>
           \A k \in DOMAIN rest'[r] : rest'[r][k] = cand'[r][inserted'[r] + k],
         update' = update, rows' \subseteq Events, others' = others,
         announced' \in [Events -> Nat], counter' \in Nat, redisUp' = redisUp,
         faults' \in 0 .. MaxFaults, undisturbed' \in BOOLEAN
  PROVE  TInv'
<1>1. /\ pc \in [Runs -> {"idle", "ids", "urls", "insert", "announce"}]
      /\ cand \in [Runs -> Seq(Events)] /\ rest \in [Runs -> Seq(Events)]
      /\ casts \in [Runs -> Seq(Events)] /\ inserted \in [Runs -> Nat]
  BY DEF TInv, TypeOK
<1>2. /\ pc' \in [Runs -> {"idle", "ids", "urls", "insert", "announce"}]
      /\ cand' \in [Runs -> Seq(Events)] /\ rest' \in [Runs -> Seq(Events)]
      /\ casts' \in [Runs -> Seq(Events)] /\ inserted' \in [Runs -> Nat]
  BY <1>1
<1>3. \A q \in Runs \ {r} :
        pc'[q] = pc[q] /\ cand'[q] = cand[q] /\ rest'[q] = rest[q] /\ inserted'[q] = inserted[q]
  BY <1>1
<1>4. CandidatesOK'
  <2>1. ASSUME NEW q \in Runs
        PROVE  /\ pc'[q] \in {"idle", "ids", "urls"} => inserted'[q] = 0
               /\ pc'[q] = "insert" =>
                    \A k \in DOMAIN rest'[q] : rest'[q][k] = cand'[q][inserted'[q] + k]
    <3>1. CASE q = r
      BY <3>1
    <3>2. CASE q # r
      BY <1>3, <3>2 DEF TInv, CandidatesOK
    <3> QED BY <3>1, <3>2
  <2> QED BY <2>1 DEF CandidatesOK
<1>5. \A q \in Runs : pc'[q] \in {"insert", "announce"} =>
        inserted'[q] + Len(rest'[q]) = Len(cand'[q])
  BY <1>3 DEF TInv, TypeOK
<1>6. TypeOK'
  <2>1. /\ update' \in 1 .. Len(Updates)
        /\ others' \subseteq Others /\ redisUp' \in BOOLEAN
    BY DEF TInv, TypeOK
  <2> QED BY <1>2, <1>5, <2>1 DEF TypeOK
<1> QED BY <1>4, <1>6 DEF TInv

(* The types, for one run.                                                 *)
LEMMA RunTypes ==
  ASSUME TInv, NEW r \in Runs
  PROVE  /\ pc \in [Runs -> {"idle", "ids", "urls", "insert", "announce"}]
         /\ cand \in [Runs -> Seq(Events)] /\ rest \in [Runs -> Seq(Events)]
         /\ casts \in [Runs -> Seq(Events)] /\ inserted \in [Runs -> Nat]
         /\ cand[r] \in Seq(Events) /\ rest[r] \in Seq(Events) /\ casts[r] \in Seq(Events)
         /\ inserted[r] \in Nat
         /\ rows \subseteq Events /\ announced \in [Events -> Nat] /\ counter \in Nat
         /\ faults \in 0 .. MaxFaults /\ undisturbed \in BOOLEAN /\ update \in 1 .. Len(Updates)
BY DEF TInv, TypeOK

LEMMA FetchTInv ==
  ASSUME TInv, NEW r \in Runs, Fetch(r) PROVE TInv'
<1>1. Updates[update] \in Seq(Events)
  BY RunTypes, UpdatesAssumption
<1>2. FirstPerUrl(Updates[update]) \in Seq(Events)
  BY <1>1, FirstPerUrlDistinct
<1>3. inserted[r] = 0
  BY DEF TInv, CandidatesOK, Fetch
<1>4. undisturbed' \in BOOLEAN
  BY Zenon DEF Fetch
<1> HIDE DEF FirstPerUrl
<1>5. /\ pc' = [pc EXCEPT ![r] = "ids"]
      /\ cand' = [cand EXCEPT ![r] = FirstPerUrl(Updates[update])]
      /\ UNCHANGED <<update, rows, others, announced, counter, redisUp, faults, rest, inserted, casts>>
  BY DEF Fetch, table
<1> QED BY <1>2, <1>3, <1>4, <1>5, OneRun, RunTypes

(* The second and the third layer keep a part of the candidates.           *)
LEMMA CheckIdsParts ==
  ASSUME TInv, NEW r \in Runs, CheckIds(r)
  PROVE  \E places \in SUBSET DOMAIN cand[r] :
           cand' = [cand EXCEPT ![r] = Keep(cand[r], places)]
<1> DEFINE places == {k \in DOMAIN cand[r] : cand[r][k] \notin rows}
<1>1. cand' = [cand EXCEPT ![r] = Keep(cand[r], places)]
  BY RunTypes DEF CheckIds
<1> QED BY <1>1

LEMMA CheckIdsTInv ==
  ASSUME TInv, NEW r \in Runs, CheckIds(r) PROVE TInv'
<1>1. PICK places \in SUBSET DOMAIN cand[r] :
        cand' = [cand EXCEPT ![r] = Keep(cand[r], places)]
  BY CheckIdsParts
<1>2. Keep(cand[r], places) \in Seq(Events)
  BY RunTypes, PartFacts
<1>3. inserted[r] = 0
  BY DEF TInv, CandidatesOK, CheckIds
<1>4. /\ pc' = [pc EXCEPT ![r] = "urls"]
      /\ UNCHANGED <<update, rows, others, announced, counter, redisUp, faults, undisturbed,
                     rest, inserted, casts>>
  BY DEF CheckIds, table, env
<1> QED BY <1>1, <1>2, <1>3, <1>4, OneRun, RunTypes

(* A cycle that returns, for whatever reason.                              *)
LEMMA LeaveTInv ==
  ASSUME TInv, NEW r \in Runs, Leave(r), UNCHANGED <<update, table, announced, redisUp>>,
         counter' \in Nat, faults' \in 0 .. MaxFaults, undisturbed' \in BOOLEAN
  PROVE  TInv'
<1>1. <<>> \in Seq(Events) /\ 0 \in Nat
  OBVIOUS
<1>2. /\ pc' = [pc EXCEPT ![r] = "idle"] /\ cand' = [cand EXCEPT ![r] = <<>>]
      /\ rest' = [rest EXCEPT ![r] = <<>>] /\ casts' = [casts EXCEPT ![r] = <<>>]
      /\ inserted' = [inserted EXCEPT ![r] = 0]
      /\ UNCHANGED <<update, rows, others, announced, redisUp>>
  BY DEF Leave, table
<1> QED BY <1>1, <1>2, OneRun, RunTypes

LEMMA CheckUrlsTInv ==
  ASSUME TInv, NEW r \in Runs, CheckUrls(r) PROVE TInv'
<1> DEFINE places == {k \in DOMAIN cand[r] : Url[cand[r][k]] \notin TakenUrls}
           new == Keep(cand[r], places)
<1>1. new \in Seq(Events)
  BY RunTypes, PartFacts
<1>2. inserted[r] = 0
  BY DEF TInv, CandidatesOK, CheckUrls
<1>3. UNCHANGED <<update, rows, others, table, announced, counter, redisUp, faults, undisturbed>>
  BY DEF CheckUrls, table, env
<1>4. CASE Leave(r)
  BY <1>3, <1>4, LeaveTInv, RunTypes
<1>5. CASE ~Leave(r)
  <2>1. /\ pc' = [pc EXCEPT ![r] = "insert"]
        /\ cand' = [cand EXCEPT ![r] = new] /\ rest' = [rest EXCEPT ![r] = new]
        /\ UNCHANGED <<inserted, casts>>
    BY <1>5 DEF CheckUrls
  <2> HIDE DEF new
  <2>2. /\ pc'[r] = "insert" /\ cand'[r] = new /\ rest'[r] = new /\ inserted'[r] = 0
        /\ casts'[r] \in Seq(Events)
    BY <1>2, <2>1, RunTypes
  <2>3. \A k \in DOMAIN new : new[k] = new[0 + k]
    BY <1>1
  <2>4. 0 + Len(new) = Len(new)
    BY <1>1
  <2>5. /\ pc' = [pc EXCEPT ![r] = pc'[r]] /\ cand' = [cand EXCEPT ![r] = cand'[r]]
        /\ rest' = [rest EXCEPT ![r] = rest'[r]]
        /\ inserted' = [inserted EXCEPT ![r] = inserted'[r]]
        /\ casts' = [casts EXCEPT ![r] = casts'[r]]
    BY <2>1, <2>2, RunTypes
  <2>6. /\ pc'[r] = "insert" /\ cand'[r] \in Seq(Events) /\ rest'[r] \in Seq(Events)
        /\ casts'[r] \in Seq(Events) /\ inserted'[r] \in Nat
        /\ inserted'[r] + Len(rest'[r]) = Len(cand'[r])
        /\ \A k \in DOMAIN rest'[r] : rest'[r][k] = cand'[r][inserted'[r] + k]
    BY <1>1, <2>2, <2>3, <2>4
  <2>7. /\ update' = update /\ rows' \subseteq Events /\ others' = others
        /\ announced' \in [Events -> Nat] /\ counter' \in Nat /\ redisUp' = redisUp
        /\ faults' \in 0 .. MaxFaults /\ undisturbed' \in BOOLEAN
    BY <1>3, RunTypes
  <2> QED BY <2>5, <2>6, <2>7, OneRun
<1> QED BY <1>4, <1>5

(* The batch that is inserted, and what it leaves.                         *)
LEMMA BatchFacts ==
  ASSUME TInv, NEW r \in Runs, InsertBatch(r)
  PROVE  LET batch == Most(rest[r], BatchSize)
         IN  /\ batch \in Seq(Events) /\ Len(batch) <= Len(rest[r])
             /\ DOMAIN batch = 1 .. Len(batch)
             /\ \A k \in DOMAIN batch :
                  batch[k] = rest[r][k] /\ rest[r][k] = cand[r][inserted[r] + k]
             /\ rows' = Ignored(batch) /\ inserted'[r] = inserted[r] + Len(batch)
             /\ rest'[r] \in Seq(Events) /\ Len(rest'[r]) = Len(rest[r]) - Len(batch)
             /\ \A k \in DOMAIN rest'[r] :
                  /\ Len(batch) + k \in DOMAIN rest[r]
                  /\ rest'[r][k] = rest[r][Len(batch) + k]
<1> DEFINE q == rest[r]
           batch == Most(q, BatchSize)
<1>1. q \in Seq(Events) /\ BatchSize \in Nat /\ BatchSize # 0 /\ Len(q) \in Nat /\ q # <<>>
      /\ DOMAIN q = 1 .. Len(q) /\ rest \in [Runs -> Seq(Events)] /\ inserted \in [Runs -> Nat]
  BY RunTypes, BoundsAssumption DEF InsertBatch
<1>2. /\ rows' = Ignored(batch)
      /\ inserted' = [inserted EXCEPT ![r] = @ + Len(batch)]
      /\ rest' = [rest EXCEPT ![r] = SubSeq(@, BatchSize + 1, Len(@))]
      /\ pc[r] = "insert"
  BY DEF InsertBatch
<1>3. /\ batch \in Seq(Events) /\ Len(batch) <= Len(q)
      /\ Len(batch) = (IF Len(q) < BatchSize THEN Len(q) ELSE BatchSize)
      /\ DOMAIN batch = 1 .. Len(batch) /\ DOMAIN batch \subseteq DOMAIN q
      /\ \A k \in DOMAIN batch : batch[k] = q[k]
  BY <1>1, MostFacts
<1> HIDE DEF batch
<1>4. \A k \in DOMAIN q : q[k] = cand[r][inserted[r] + k]
  BY <1>2 DEF TInv, CandidatesOK
<1>5. rest'[r] = SubSeq(q, BatchSize + 1, Len(q)) /\ inserted'[r] = inserted[r] + Len(batch)
  BY <1>1, <1>2
<1> HIDE DEF q
<1> DEFINE after == SubSeq(q, BatchSize + 1, Len(q))
<1>6. /\ after \in Seq(Events)
      /\ Len(after) = IF BatchSize + 1 <= Len(q) THEN Len(q) - BatchSize ELSE 0
      /\ DOMAIN after = 1 .. Len(after)
      /\ \A k \in DOMAIN after : BatchSize + k \in DOMAIN q /\ after[k] = q[BatchSize + k]
  <2>1. CASE BatchSize + 1 <= Len(q)
    <3> DEFINE m == BatchSize + 1
    <3>1. m \in 1 .. Len(q) + 1
      BY <1>1, <2>1
    <3> HIDE DEF m
    <3>2. /\ SubSeq(q, m, Len(q)) \in Seq(Events)
          /\ Len(SubSeq(q, m, Len(q))) = Len(q) - m + 1
          /\ \A k \in 1 .. Len(q) - m + 1 : SubSeq(q, m, Len(q))[k] = q[m + k - 1]
      BY <1>1, <3>1
    <3>3. Len(q) - m + 1 = Len(q) - BatchSize /\ \A k \in Nat : m + k - 1 = BatchSize + k
      BY <1>1 DEF m
    <3> QED BY <1>1, <2>1, <3>2, <3>3 DEF m
  <2>2. CASE ~(BatchSize + 1 <= Len(q))
    <3>1. after = <<>>
      BY <1>1, <2>2
    <3> HIDE DEF after
    <3>2. after \in Seq(Events) /\ Len(after) = 0 /\ DOMAIN after = {} /\ 1 .. 0 = {}
      BY <3>1
    <3> QED BY <2>2, <3>2
  <2> QED BY <2>1, <2>2
<1> HIDE DEF after
<1>7. Len(after) = Len(q) - Len(batch) /\ (Len(after) # 0 => Len(batch) = BatchSize)
  <2>1. /\ Len(batch) = (IF Len(q) < BatchSize THEN Len(q) ELSE BatchSize)
        /\ Len(after) = (IF BatchSize + 1 <= Len(q) THEN Len(q) - BatchSize ELSE 0)
    BY <1>3, <1>6, Zenon
  <2>2. BatchSize \in Nat /\ Len(q) \in Nat
    BY <1>1
  <2>3. CASE Len(q) < BatchSize + 1
    <3>1. ~(BatchSize + 1 <= Len(q))
      BY <2>2, <2>3
    <3>2. Len(after) = 0
      BY <2>1, <3>1, Zenon
    <3>3. ~(Len(q) < BatchSize) => Len(q) = BatchSize
      BY <2>2, <2>3
    <3>4. Len(batch) = Len(q)
      BY <2>1, <3>3, Zenon
    <3> QED BY <2>2, <3>2, <3>4
  <2>4. CASE ~(Len(q) < BatchSize + 1)
    <3>1. Len(batch) = BatchSize /\ Len(after) = Len(q) - BatchSize
      BY <2>1, <2>2, <2>4
    <3> QED BY <2>2, <3>1
  <2> QED BY <2>3, <2>4
<1>8. /\ Len(after) = Len(q) - Len(batch) /\ after \in Seq(Events)
      /\ \A k \in DOMAIN after :
           Len(batch) + k \in DOMAIN q /\ after[k] = q[Len(batch) + k]
  BY <1>6, <1>7
<1>9. rest'[r] = after
  BY <1>5 DEF after
<1>10. \A k \in DOMAIN batch : batch[k] = q[k] /\ q[k] = cand[r][inserted[r] + k]
  BY <1>3, <1>4
<1> QED BY <1>2, <1>3, <1>5, <1>8, <1>9, <1>10 DEF q, batch

LEMMA InsertBatchTInv ==
  ASSUME TInv, NEW r \in Runs, InsertBatch(r) PROVE TInv'
<1> DEFINE batch == Most(rest[r], BatchSize)
<1>1. /\ batch \in Seq(Events) /\ Len(batch) <= Len(rest[r])
      /\ rows' = Ignored(batch) /\ inserted'[r] = inserted[r] + Len(batch)
      /\ rest'[r] \in Seq(Events) /\ Len(rest'[r]) = Len(rest[r]) - Len(batch)
      /\ \A k \in DOMAIN rest'[r] :
           Len(batch) + k \in DOMAIN rest[r] /\ rest'[r][k] = rest[r][Len(batch) + k]
  BY BatchFacts
<1>2. Len(batch) \in Nat /\ Len(rest[r]) \in Nat /\ Len(cand[r]) \in Nat /\ inserted[r] \in Nat
  BY <1>1, RunTypes
<1>3. Ignored(batch) \subseteq Events
  BY <1>1, IgnoredFacts, RunTypes
<1>4. /\ pc[r] = "insert"
      /\ UNCHANGED <<update, others, announced, counter, redisUp, faults, undisturbed,
                     pc, cand, casts>>
  BY DEF InsertBatch, env
<1>5. /\ inserted' = [inserted EXCEPT ![r] = inserted[r] + Len(batch)]
      /\ \E s : rest' = [rest EXCEPT ![r] = s]
  BY DEF InsertBatch
<1> HIDE DEF batch
<1>6. inserted[r] + Len(rest[r]) = Len(cand[r])
  BY <1>4 DEF TInv, TypeOK
<1>7. inserted'[r] \in Nat /\ inserted'[r] + Len(rest'[r]) = Len(cand[r])
  BY <1>1, <1>2, <1>6
<1>8. ASSUME NEW k \in DOMAIN rest'[r] PROVE rest'[r][k] = cand[r][inserted'[r] + k]
  <2>1. Len(batch) + k \in DOMAIN rest[r] /\ rest'[r][k] = rest[r][Len(batch) + k] /\ k \in Nat
    BY <1>1
  <2>2. rest[r][Len(batch) + k] = cand[r][inserted[r] + (Len(batch) + k)]
    BY <1>4, <2>1 DEF TInv, CandidatesOK
  <2>3. inserted[r] + (Len(batch) + k) = inserted'[r] + k
    BY <1>1, <1>2, <2>1
  <2> QED BY <2>1, <2>2, <2>3
<1>9. /\ rest' = [rest EXCEPT ![r] = rest'[r]] /\ inserted' = [inserted EXCEPT ![r] = inserted'[r]]
      /\ pc' = [pc EXCEPT ![r] = pc'[r]] /\ cand' = [cand EXCEPT ![r] = cand'[r]]
      /\ casts' = [casts EXCEPT ![r] = casts'[r]]
  BY <1>4, <1>5, RunTypes
<1>10. pc'[r] = "insert" /\ cand'[r] = cand[r] /\ casts'[r] = casts[r]
  BY <1>4
<1> QED BY <1>1, <1>3, <1>4, <1>7, <1>8, <1>9, <1>10, OneRun, RunTypes

LEMMA ChooseBroadcastsTInv ==
  ASSUME TInv, NEW r \in Runs, ChooseBroadcasts(r) PROVE TInv'
<1>1. Broadcasts(cand[r]) \in Seq(Events)
  BY BroadcastsFacts, RunTypes
<1>2. /\ pc[r] = "insert" /\ pc' = [pc EXCEPT ![r] = "announce"]
      /\ casts' = [casts EXCEPT ![r] = Broadcasts(cand[r])]
      /\ UNCHANGED <<update, rows, others, announced, counter, redisUp, faults, undisturbed,
                     cand, rest, inserted>>
  BY DEF ChooseBroadcasts, table, env
<1>3. inserted[r] + Len(rest[r]) = Len(cand[r])
  BY <1>2 DEF TInv, TypeOK
<1> QED BY <1>1, <1>2, <1>3, OneRun, RunTypes

LEMMA AnnounceTInv ==
  ASSUME TInv, NEW r \in Runs, Announce(r) PROVE TInv'
<1>1. Tail(casts[r]) \in Seq(Events) /\ Head(casts[r]) \in Events
  BY RunTypes DEF Announce
<1>2. announced' \in [Events -> Nat]
  BY <1>1, RunTypes DEF Announce
<1>3. /\ pc[r] = "announce" /\ casts' = [casts EXCEPT ![r] = Tail(casts[r])]
      /\ UNCHANGED <<update, rows, others, counter, redisUp, faults, undisturbed,
                     pc, cand, rest, inserted>>
  BY RunTypes DEF Announce, table, env
<1>4. inserted[r] + Len(rest[r]) = Len(cand[r])
  BY <1>3 DEF TInv, TypeOK
<1> QED BY <1>1, <1>2, <1>3, <1>4, OneRun, RunTypes

LEMMA FinishTInv ==
  ASSUME TInv, NEW r \in Runs, Finish(r) PROVE TInv'
<1>1. counter' \in Nat
  BY RunTypes DEF Finish
<1> QED BY <1>1, LeaveTInv, RunTypes DEF Finish, env

LEMMA StatementFailsTInv ==
  ASSUME TInv, NEW r \in Runs, StatementFails(r) PROVE TInv'
<1>1. faults' \in 0 .. MaxFaults
  BY RunTypes, BoundsAssumption DEF StatementFails
<1> QED BY <1>1, LeaveTInv, RunTypes DEF StatementFails

LEMMA StepTInv == TInv /\ [Next]_vars => TInv'
<1> SUFFICES ASSUME TInv, [Next]_vars PROVE TInv'
  OBVIOUS
<1>1. ASSUME NEW r \in Runs, Proceed(r) PROVE TInv'
  BY <1>1, CheckIdsTInv, CheckUrlsTInv, InsertBatchTInv, ChooseBroadcastsTInv, AnnounceTInv,
     FinishTInv DEF Proceed
<1>2. CASE NewUpdate
  <2>1. update' \in 1 .. Len(Updates)
    BY <1>2, UpdatesAssumption DEF NewUpdate, TInv, TypeOK
  <2> QED BY <1>2, <2>1 DEF NewUpdate, TInv, TypeOK, CandidatesOK, table, env, local
<1>3. CASE ToggleRedis
  <2>1. redisUp' \in BOOLEAN
    BY <1>3, Zenon DEF ToggleRedis, TInv, TypeOK
  <2> QED BY <1>3, <2>1 DEF ToggleRedis, TInv, TypeOK, CandidatesOK, table, local
<1>4. ASSUME NEW u \in Others, StoreOther(u) PROVE TInv'
  <2>1. undisturbed' \in BOOLEAN
    BY <1>4, Zenon DEF StoreOther
  <2>2. others' \subseteq Others
    BY <1>4 DEF StoreOther, TInv, TypeOK
  <2> QED BY <1>4, <2>1, <2>2 DEF StoreOther, TInv, TypeOK, CandidatesOK, local
<1>5. CASE UNCHANGED vars
  BY <1>5 DEF vars, TInv, TypeOK, CandidatesOK, table, env, local
<1> QED BY <1>1, <1>2, <1>3, <1>4, <1>5, FetchTInv, StatementFailsTInv DEF Next

-----------------------------------------------------------------------------
(* What is announced is stored.                                            *)

(* What a cycle has inserted is in the table, and so is what it announces. *)
StoredOK ==
  /\ AnnouncedIsStored
  /\ \A r \in Runs :
       /\ pc[r] = "insert" =>
            \A k \in 1 .. inserted[r] : Url[cand[r][k]] \in TakenUrls
       /\ pc[r] = "announce" =>
            \A k \in DOMAIN casts[r] : Url[casts[r][k]] \in TakenUrls

SInv == TInv /\ StoredOK

(* A step of one run leaves the entries of the others alone.               *)
RunStep(r) == Fetch(r) \/ Proceed(r) \/ StatementFails(r)
OnlyRun(r) ==
  \A q \in Runs \ {r} :
    /\ pc'[q] = pc[q] /\ cand'[q] = cand[q] /\ rest'[q] = rest[q]
    /\ inserted'[q] = inserted[q] /\ casts'[q] = casts[q]

LEMMA StepOfOneRun ==
  ASSUME TInv, NEW r \in Runs, RunStep(r) PROVE OnlyRun(r)
<1>1. /\ pc' \in {[pc EXCEPT ![r] = pc'[r]], pc}
      /\ cand' \in {[cand EXCEPT ![r] = cand'[r]], cand}
      /\ rest' \in {[rest EXCEPT ![r] = rest'[r]], rest}
      /\ inserted' \in {[inserted EXCEPT ![r] = inserted'[r]], inserted}
      /\ casts' \in {[casts EXCEPT ![r] = casts'[r]], casts}
  <2> USE RunTypes
  <2>1. CASE Fetch(r)
    BY <2>1 DEF Fetch
  <2>2. CASE CheckIds(r)
    <3>1. PICK places \in SUBSET DOMAIN cand[r] :
            cand' = [cand EXCEPT ![r] = Keep(cand[r], places)]
      BY <2>2, CheckIdsParts
    <3> QED BY <2>2, <3>1 DEF CheckIds
  <2>3. CASE Leave(r)
    BY <2>3 DEF Leave
  <2>4. CASE CheckUrls(r) /\ ~Leave(r)
    <3>1. \E new : /\ pc' = [pc EXCEPT ![r] = "insert"]
                   /\ cand' = [cand EXCEPT ![r] = new] /\ rest' = [rest EXCEPT ![r] = new]
                   /\ UNCHANGED <<inserted, casts>>
      BY <2>4 DEF CheckUrls
    <3> QED BY <3>1
  <2>5. CASE InsertBatch(r)
    <3>1. \E n, s : /\ inserted' = [inserted EXCEPT ![r] = n]
                    /\ rest' = [rest EXCEPT ![r] = s]
                    /\ UNCHANGED <<pc, cand, casts>>
      BY <2>5 DEF InsertBatch
    <3> QED BY <3>1
  <2>6. CASE ChooseBroadcasts(r)
    <3>1. \E s : /\ pc' = [pc EXCEPT ![r] = "announce"]
                 /\ casts' = [casts EXCEPT ![r] = s]
                 /\ UNCHANGED <<cand, rest, inserted>>
      BY <2>6 DEF ChooseBroadcasts
    <3> QED BY <3>1
  <2>7. CASE Announce(r)
    <3>1. \E s : /\ casts' = [casts EXCEPT ![r] = s]
                 /\ UNCHANGED <<pc, cand, rest, inserted>>
      BY <2>7 DEF Announce
    <3> QED BY <3>1
  <2>8. Finish(r) \/ StatementFails(r) => Leave(r)
    BY DEF Finish, StatementFails
  <2> QED BY <2>1, <2>2, <2>3, <2>4, <2>5, <2>6, <2>7, <2>8 DEF RunStep, Proceed
<1> QED BY <1>1, RunTypes DEF OnlyRun

(* Nothing leaves the table.                                               *)
LEMMA TakenGrows == TInv /\ [Next]_vars => TakenUrls \subseteq TakenUrls'
<1> SUFFICES ASSUME TInv, [Next]_vars PROVE TakenUrls \subseteq TakenUrls'
  OBVIOUS
<1>1. rows \subseteq rows' /\ others \subseteq others'
  <2>1. ASSUME NEW r \in Runs, InsertBatch(r) PROVE rows \subseteq rows' /\ others' = others
    <3>1. /\ Most(rest[r], BatchSize) \in Seq(Events)
          /\ rows' = Ignored(Most(rest[r], BatchSize))
      BY <2>1, BatchFacts
    <3>2. others' = others
      BY <2>1 DEF InsertBatch
    <3> QED BY <3>1, <3>2, IgnoredFacts, RunTypes, <2>1
  <2>2. ASSUME NEW r \in Runs, RunStep(r), ~InsertBatch(r) PROVE UNCHANGED table
    BY <2>2 DEF RunStep, Proceed, Fetch, CheckIds, CheckUrls, ChooseBroadcasts, Announce,
                Finish, StatementFails
  <2>3. NewUpdate \/ ToggleRedis \/ UNCHANGED vars => UNCHANGED table
    BY DEF NewUpdate, ToggleRedis, vars
  <2>4. ASSUME NEW u \in Others, StoreOther(u) PROVE rows' = rows /\ others \subseteq others'
    BY <2>4 DEF StoreOther
  <2> QED BY <2>1, <2>2, <2>3, <2>4 DEF Next, RunStep, table
<1> QED BY <1>1 DEF TakenUrls

LEMMA StoredOneRun ==
  ASSUME SInv, NEW r \in Runs, OnlyRun(r), TakenUrls \subseteq TakenUrls',
         AnnouncedIsStored',
         pc'[r] = "insert" =>
           \A k \in 1 .. inserted'[r] : Url[cand'[r][k]] \in TakenUrls',
         pc'[r] = "announce" =>
           \A k \in DOMAIN casts'[r] : Url[casts'[r][k]] \in TakenUrls'
  PROVE  StoredOK'
<1>1. ASSUME NEW q \in Runs
      PROVE  /\ pc'[q] = "insert" =>
                  \A k \in 1 .. inserted'[q] : Url[cand'[q][k]] \in TakenUrls'
             /\ pc'[q] = "announce" =>
                  \A k \in DOMAIN casts'[q] : Url[casts'[q][k]] \in TakenUrls'
  <2>1. CASE q = r
    BY <2>1
  <2>2. CASE q # r
    <3>1. pc'[q] = pc[q] /\ cand'[q] = cand[q] /\ inserted'[q] = inserted[q] /\ casts'[q] = casts[q]
      BY <2>2 DEF OnlyRun
    <3>2. /\ pc[q] = "insert" =>
               \A k \in 1 .. inserted[q] : Url[cand[q][k]] \in TakenUrls
          /\ pc[q] = "announce" =>
               \A k \in DOMAIN casts[q] : Url[casts[q][k]] \in TakenUrls
      BY DEF SInv, StoredOK
    <3> QED BY <3>1, <3>2
  <2> QED BY <2>1, <2>2
<1> QED BY <1>1 DEF StoredOK

(* Where nothing is announced, what was announced stays stored.            *)
LEMMA StaysStored ==
  ASSUME SInv, announced' = announced, TakenUrls \subseteq TakenUrls'
  PROVE  AnnouncedIsStored'
BY DEF SInv, StoredOK, AnnouncedIsStored

LEMMA InsertBatchStored ==
  ASSUME SInv, NEW r \in Runs, InsertBatch(r), TakenUrls \subseteq TakenUrls'
  PROVE  \A k \in 1 .. inserted'[r] : Url[cand'[r][k]] \in TakenUrls'
<1> DEFINE batch == Most(rest[r], BatchSize)
<1>0. TInv
  BY DEF SInv
<1>1. /\ batch \in Seq(Events) /\ DOMAIN batch = 1 .. Len(batch)
      /\ \A k \in DOMAIN batch : batch[k] = cand[r][inserted[r] + k]
      /\ rows' = Ignored(batch) /\ inserted'[r] = inserted[r] + Len(batch)
  <2>1. /\ batch \in Seq(Events) /\ DOMAIN batch = 1 .. Len(batch)
        /\ \A k \in DOMAIN batch :
             batch[k] = rest[r][k] /\ rest[r][k] = cand[r][inserted[r] + k]
        /\ rows' = Ignored(batch) /\ inserted'[r] = inserted[r] + Len(batch)
    BY <1>0, BatchFacts, Zenon
  <2> HIDE DEF batch
  <2> QED BY <2>1
<1>2. pc[r] = "insert" /\ cand' = cand /\ others' = others
  BY DEF InsertBatch
<1>3. inserted[r] \in Nat /\ Len(batch) \in Nat /\ rows \subseteq Events
  BY <1>1, RunTypes DEF SInv
<1> HIDE DEF batch
<1>4. \A k \in DOMAIN batch : Url[batch[k]] \in TakenUrls'
  <2>1. \A k \in DOMAIN batch :
          Url[batch[k]] \in {Url[e] : e \in Ignored(batch)} \cup others
    BY <1>1, <1>3, IgnoredFacts
  <2>2. TakenUrls' = {Url[e] : e \in Ignored(batch)} \cup others
    BY <1>1, <1>2 DEF TakenUrls
  <2> QED BY <2>1, <2>2
<1>5. ASSUME NEW k \in 1 .. inserted'[r] PROVE Url[cand'[r][k]] \in TakenUrls'
  <2>1. CASE k <= inserted[r]
    BY <1>1, <1>2, <1>3, <2>1 DEF SInv, StoredOK
  <2>2. CASE ~(k <= inserted[r])
    <3>1. k - inserted[r] \in DOMAIN batch /\ inserted[r] + (k - inserted[r]) = k
      BY <1>1, <1>3, <2>2
    <3>2. batch[k - inserted[r]] = cand[r][k]
      BY <1>1, <3>1
    <3> QED BY <1>2, <1>4, <3>1, <3>2
  <2> QED BY <2>1, <2>2
<1> QED BY <1>5

LEMMA ChosenAreStored ==
  ASSUME SInv, NEW r \in Runs, ChooseBroadcasts(r)
  PROVE  \A k \in DOMAIN casts'[r] : Url[casts'[r][k]] \in TakenUrls
<1>1. pc[r] = "insert" /\ rest[r] = <<>> /\ casts'[r] = Broadcasts(cand[r])
  BY RunTypes DEF ChooseBroadcasts, SInv
<1>2. inserted[r] + 0 = Len(cand[r]) /\ cand[r] \in Seq(Events) /\ inserted[r] \in Nat
  BY <1>1, RunTypes DEF SInv, TInv, TypeOK
<1>3. DOMAIN cand[r] = 1 .. inserted[r]
  BY <1>2
<1>4. \A k \in DOMAIN Broadcasts(cand[r]) : \E p \in DOMAIN cand[r] : Broadcasts(cand[r])[k] = cand[r][p]
  BY <1>2, BroadcastsFacts
<1>5. \A k \in 1 .. inserted[r] : Url[cand[r][k]] \in TakenUrls
  BY <1>1 DEF SInv, StoredOK
<1> QED BY <1>1, <1>3, <1>4, <1>5

LEMMA AnnounceStored ==
  ASSUME SInv, NEW r \in Runs, Announce(r)
  PROVE  /\ AnnouncedIsStored'
         /\ \A k \in DOMAIN casts'[r] : Url[casts'[r][k]] \in TakenUrls'
<1> DEFINE q == casts[r]
<1>1. q \in Seq(Events) /\ q # <<>> /\ casts'[r] = Tail(q) /\ pc[r] = "announce"
      /\ announced \in [Events -> Nat]
  BY RunTypes DEF Announce, SInv
<1>2. \A k \in DOMAIN q : Url[q[k]] \in TakenUrls
  BY <1>1 DEF SInv, StoredOK
<1>3. TakenUrls' = TakenUrls
  BY DEF Announce, table, TakenUrls
<1>4. announced' = announced \/ announced' = [announced EXCEPT ![Head(q)] = @ + 1]
  BY DEF Announce
<1> HIDE DEF q
<1>5. 1 \in DOMAIN q /\ Head(q) = q[1]
      /\ \A k \in DOMAIN Tail(q) : k + 1 \in DOMAIN q /\ Tail(q)[k] = q[k + 1]
  BY <1>1
<1>6. \A e \in Events : announced'[e] > 0 => announced[e] > 0 \/ e = Head(q)
  BY <1>1, <1>4
<1>7. AnnouncedIsStored'
  BY <1>2, <1>3, <1>5, <1>6 DEF AnnouncedIsStored, SInv, StoredOK
<1>8. \A k \in DOMAIN Tail(q) : Url[Tail(q)[k]] \in TakenUrls'
  BY <1>2, <1>3, <1>5
<1> QED BY <1>1, <1>7, <1>8

LEMMA InitSInv == Init => SInv
<1> SUFFICES ASSUME Init PROVE StoredOK
  BY InitTInv DEF SInv
<1> QED BY DEF Init, StoredOK, AnnouncedIsStored

LEMMA StepSInv == SInv /\ [Next]_vars => SInv'
<1> SUFFICES ASSUME SInv, [Next]_vars PROVE StoredOK'
  BY StepTInv DEF SInv
<1>1. TInv /\ TakenUrls \subseteq TakenUrls'
  BY TakenGrows DEF SInv
<1>2. ASSUME NEW r \in Runs, RunStep(r) PROVE StoredOK'
  <2>1. OnlyRun(r)
    BY <1>1, <1>2, StepOfOneRun
  <2>2. CASE Announce(r)
    <3>1. pc'[r] = "announce"
      BY <2>2 DEF Announce
    <3> QED BY <1>1, <2>1, <2>2, <3>1, AnnounceStored, StoredOneRun
  <2>3. CASE ~Announce(r)
    <3>1. announced' = announced
      BY <1>2, <2>3 DEF RunStep, Proceed, Fetch, CheckIds, CheckUrls, InsertBatch,
                        ChooseBroadcasts, Finish, StatementFails
    <3>2. AnnouncedIsStored'
      BY <1>1, <3>1, StaysStored
    <3>3. CASE InsertBatch(r)
      <4>1. pc'[r] = "insert"
        BY <3>3 DEF InsertBatch
      <4> QED BY <1>1, <2>1, <3>2, <3>3, <4>1, InsertBatchStored, StoredOneRun
    <3>4. CASE ChooseBroadcasts(r)
      <4>1. pc'[r] = "announce"
        BY <1>1, <3>4, RunTypes DEF ChooseBroadcasts
      <4>2. \A k \in DOMAIN casts'[r] : Url[casts'[r][k]] \in TakenUrls
        BY <3>4, ChosenAreStored
      <4> QED BY <1>1, <2>1, <3>2, <4>1, <4>2, StoredOneRun
    <3>5. CASE CheckUrls(r) /\ ~Leave(r)
      <4>1. pc' = [pc EXCEPT ![r] = "insert"] /\ inserted' = inserted /\ pc[r] = "urls"
        BY <3>5 DEF CheckUrls
      <4>2. pc'[r] = "insert" /\ inserted'[r] = 0
        BY <1>1, <4>1, RunTypes DEF TInv, CandidatesOK
      <4> QED BY <1>1, <2>1, <3>2, <4>2, StoredOneRun
    <3>6. CASE Fetch(r) \/ CheckIds(r) \/ Leave(r)
      <4>1. pc'[r] \in {"ids", "urls", "idle"}
        BY <1>1, <3>6, RunTypes DEF Fetch, CheckIds, Leave
      <4> QED BY <1>1, <2>1, <3>2, <4>1, StoredOneRun
    <3>7. Finish(r) \/ StatementFails(r) => Leave(r)
      BY DEF Finish, StatementFails
    <3> QED BY <1>2, <2>3, <3>3, <3>4, <3>5, <3>6, <3>7 DEF RunStep, Proceed
  <2> QED BY <2>2, <2>3
<1>3. ASSUME UNCHANGED <<announced, local>> PROVE StoredOK'
  <2>1. AnnouncedIsStored'
    BY <1>1, <1>3, StaysStored
  <2>2. UNCHANGED <<pc, cand, inserted, casts>>
    BY <1>3 DEF local
  <2> QED BY <1>1, <2>1, <2>2 DEF SInv, StoredOK
<1>4. NewUpdate \/ ToggleRedis \/ UNCHANGED vars \/ (\E u \in Others : StoreOther(u))
        => UNCHANGED <<announced, local>>
  BY DEF NewUpdate, ToggleRedis, StoreOther, vars, local
<1> QED BY <1>2, <1>3, <1>4 DEF Next, RunStep

(* What is announced on live_stream is in high_impact_articles, however    *)
(* cycles overlap and whatever the article pipeline stored first           *)
(* (ingest_gdelt_events).                                                  *)
THEOREM AnnouncementsAreStored == Spec => []AnnouncedIsStored
<1>1. SInv => AnnouncedIsStored
  BY DEF SInv, StoredOK
<1> QED BY <1>1, InitSInv, StepSInv, PTL DEF Spec

(* The types of a cycle, and that each of its candidates is inserted once. *)
THEOREM WorkerTypeOK == Spec => []TypeOK
<1>1. TInv => TypeOK
  BY DEF TInv
<1> QED BY <1>1, InitTInv, StepTInv, PTL DEF Spec

-----------------------------------------------------------------------------
(* Cycles that nothing disturbs.                                           *)

Unannounced(u) == \A e \in Events : Url[e] = u => announced[e] = 0

(* A cycle that is alone: its candidates are distinct and new, what is     *)
(* still to be inserted is not in the table, and it has counted the rows.  *)
AloneOK(r) ==
  /\ pc[r] \in {"ids", "urls", "insert"} => DistinctUrls(cand[r])
  /\ pc[r] = "insert" =>
       /\ \A k \in DOMAIN cand[r] : Unannounced(Url[cand[r][k]])
       /\ \A k \in DOMAIN rest[r] : Url[rest[r][k]] \notin TakenUrls
  /\ pc[r] = "announce" =>
       /\ DistinctUrls(casts[r])
       /\ \A k \in DOMAIN casts[r] : Unannounced(Url[casts[r][k]])
  /\ counter + inserted[r] = Cardinality(rows)

OnceBody ==
  \A e, f \in Events :
    announced[e] > 0 /\ announced[f] > 0 /\ Url[e] = Url[f] => e = f /\ announced[e] = 1

(* As long as nothing disturbed a cycle, one at most is under way.         *)
UndisturbedOK ==
  undisturbed =>
    /\ \A q, r \in Runs : pc[q] # "idle" /\ pc[r] # "idle" => q = r
    /\ OnceBody /\ IsFiniteSet(rows)
    /\ (\A r \in Runs : pc[r] = "idle") => counter = Cardinality(rows)
    /\ \A r \in Runs : pc[r] # "idle" => AloneOK(r)

UInv == SInv /\ UndisturbedOK

LEMMA InitUInv == Init => UInv
<1> SUFFICES ASSUME Init PROVE UndisturbedOK
  BY InitSInv DEF UInv
<1>1. Cardinality({}) = 0 /\ IsFiniteSet({})
  BY FS_EmptySet
<1>2. OnceBody
  BY DEF Init, OnceBody
<1> QED BY <1>1, <1>2 DEF Init, UndisturbedOK

(* A step of the only cycle under way.                                     *)
LEMMA AloneStep ==
  ASSUME SInv, NEW r \in Runs, OnlyRun(r), \A q \in Runs \ {r} : pc[q] = "idle",
         OnceBody', IsFiniteSet(rows)',
         pc'[r] = "idle" => counter' = Cardinality(rows'),
         pc'[r] # "idle" => AloneOK(r)'
  PROVE  UndisturbedOK'
<1>1. \A q \in Runs \ {r} : pc'[q] = "idle"
  BY DEF OnlyRun
<1> QED BY <1>1 DEF UndisturbedOK

(* What is known before a step of a run that does not disturb.             *)
LEMMA BeforeStep ==
  ASSUME UInv, NEW r \in Runs, RunStep(r), undisturbed'
  PROVE  /\ undisturbed /\ \A q \in Runs \ {r} : pc[q] = "idle"
         /\ OnceBody /\ IsFiniteSet(rows) /\ OnlyRun(r)
         /\ ~Fetch(r) => pc[r] # "idle" /\ AloneOK(r)
         /\ Fetch(r) => counter = Cardinality(rows)
<1>1. OnlyRun(r)
  BY StepOfOneRun DEF UInv, SInv
<1>2. CASE Fetch(r)
  <2>1. undisturbed /\ (\A q \in Runs : pc[q] = "idle")
    BY <1>2 DEF Fetch
  <2> QED BY <1>1, <1>2, <2>1 DEF UInv, UndisturbedOK
<1>3. CASE ~Fetch(r)
  <2>1. ~StatementFails(r)
    BY DEF StatementFails
  <2>2. Proceed(r)
    BY <1>3, <2>1 DEF RunStep
  <2>3. undisturbed /\ pc[r] # "idle"
    BY <2>2 DEF Proceed, CheckIds, CheckUrls, InsertBatch, ChooseBroadcasts, Announce, Finish, env
  <2>4. \A q \in Runs \ {r} : pc[q] = "idle"
    BY <2>3 DEF UInv, UndisturbedOK
  <2> QED BY <1>1, <1>3, <2>3, <2>4 DEF UInv, UndisturbedOK
<1> QED BY <1>2, <1>3

LEMMA FetchAlone ==
  ASSUME UInv, NEW r \in Runs, Fetch(r), undisturbed' PROVE UndisturbedOK'
<1>1. SInv /\ TInv
  BY DEF UInv, SInv
<1>2. /\ \A q \in Runs \ {r} : pc[q] = "idle"
      /\ OnceBody /\ IsFiniteSet(rows) /\ OnlyRun(r) /\ counter = Cardinality(rows)
  BY BeforeStep DEF RunStep
<1>3. /\ pc'[r] = "ids" /\ cand'[r] = FirstPerUrl(Updates[update])
      /\ inserted'[r] = inserted[r] /\ rows' = rows /\ announced' = announced
      /\ counter' = counter /\ pc[r] = "idle"
  BY <1>1, RunTypes DEF Fetch, table
<1>4. DistinctUrls(cand'[r])
  <2>1. Updates[update] \in Seq(Events)
    BY <1>1, RunTypes, UpdatesAssumption
  <2> QED BY <1>3, <2>1, FirstPerUrlDistinct
<1>5. inserted[r] = 0 /\ counter \in Nat
  BY <1>1, <1>3, RunTypes DEF TInv, CandidatesOK
<1>6. AloneOK(r)'
  BY <1>2, <1>3, <1>4, <1>5 DEF AloneOK, DistinctUrls
<1> QED BY <1>1, <1>2, <1>3, <1>6, AloneStep DEF OnceBody

LEMMA CheckIdsAlone ==
  ASSUME UInv, NEW r \in Runs, CheckIds(r), undisturbed' PROVE UndisturbedOK'
<1>1. SInv /\ TInv /\ pc[r] = "ids" /\ ~Fetch(r)
  BY DEF UInv, SInv, CheckIds, Fetch
<1>2. /\ \A q \in Runs \ {r} : pc[q] = "idle"
      /\ OnceBody /\ IsFiniteSet(rows) /\ OnlyRun(r) /\ AloneOK(r)
  BY <1>1, BeforeStep DEF RunStep, Proceed
<1>3. PICK places \in SUBSET DOMAIN cand[r] :
        cand' = [cand EXCEPT ![r] = Keep(cand[r], places)]
  BY <1>1, CheckIdsParts
<1>4. /\ pc'[r] = "urls" /\ cand'[r] = Keep(cand[r], places)
      /\ inserted'[r] = inserted[r] /\ rows' = rows /\ announced' = announced
      /\ counter' = counter
  BY <1>1, <1>3, RunTypes DEF CheckIds, table
<1>5. DistinctUrls(cand'[r])
  BY <1>1, <1>2, <1>4, PartFacts, RunTypes DEF AloneOK
<1>6. AloneOK(r)'
  BY <1>2, <1>4, <1>5 DEF AloneOK, DistinctUrls
<1> QED BY <1>1, <1>2, <1>4, <1>6, AloneStep DEF OnceBody

LEMMA CheckUrlsAlone ==
  ASSUME UInv, NEW r \in Runs, CheckUrls(r), undisturbed' PROVE UndisturbedOK'
<1>1. SInv /\ TInv /\ pc[r] = "urls" /\ ~Fetch(r)
  BY DEF UInv, SInv, CheckUrls, Fetch
<1>2. /\ \A q \in Runs \ {r} : pc[q] = "idle"
      /\ OnceBody /\ IsFiniteSet(rows) /\ OnlyRun(r) /\ AloneOK(r)
  BY <1>1, BeforeStep DEF RunStep, Proceed
<1>3. /\ rows' = rows /\ others' = others /\ announced' = announced /\ counter' = counter
      /\ OnceBody'
  BY <1>2 DEF CheckUrls, table, OnceBody
<1>4. inserted[r] = 0 /\ counter \in Nat /\ counter + inserted[r] = Cardinality(rows)
  BY <1>1, <1>2, RunTypes DEF TInv, CandidatesOK, AloneOK
<1>5. CASE Leave(r)
  <2>1. pc'[r] = "idle"
    BY <1>1, <1>5, RunTypes DEF Leave
  <2>2. counter' = Cardinality(rows')
    BY <1>3, <1>4
  <2> QED BY <1>1, <1>2, <1>3, <2>1, <2>2, AloneStep
<1>6. CASE ~Leave(r)
  <2> DEFINE places == {k \in DOMAIN cand[r] : Url[cand[r][k]] \notin TakenUrls}
             new == Keep(cand[r], places)
  <2>1. /\ pc' = [pc EXCEPT ![r] = "insert"]
        /\ cand' = [cand EXCEPT ![r] = new] /\ rest' = [rest EXCEPT ![r] = new]
        /\ inserted' = inserted
    BY <1>6 DEF CheckUrls
  <2>2. \A p \in places : Url[cand[r][p]] \notin TakenUrls
    OBVIOUS
  <2>3. /\ new \in Seq(Events)
        /\ \A k \in DOMAIN new : \E p \in places : new[k] = cand[r][p]
        /\ DistinctUrls(new)
    <3>1. cand[r] \in Seq(Events) /\ DistinctUrls(cand[r]) /\ places \subseteq DOMAIN cand[r]
      BY <1>1, <1>2, RunTypes DEF AloneOK
    <3> HIDE DEF places
    <3> QED BY <3>1, PartFacts
  <2> HIDE DEF places, new
  <2>4. /\ pc'[r] = "insert" /\ cand'[r] = new /\ rest'[r] = new /\ inserted'[r] = inserted[r]
    BY <1>1, <2>1, RunTypes
  <2>5. TakenUrls' = TakenUrls
    BY <1>3 DEF TakenUrls
  <2>6. ASSUME NEW k \in DOMAIN new
        PROVE  /\ Url[new[k]] \notin TakenUrls
               /\ \A e \in Events : Url[e] = Url[new[k]] => announced'[e] = 0
    <3>1. Url[new[k]] \notin TakenUrls
      BY <2>2, <2>3
    <3>2. \A e \in Events : announced[e] > 0 => Url[e] \in TakenUrls
      BY <1>1 DEF SInv, StoredOK, AnnouncedIsStored
    <3>3. \A e \in Events : announced[e] \in Nat
      BY <1>1, RunTypes
    <3> QED BY <1>3, <3>1, <3>2, <3>3
  <2>7. AloneOK(r)'
    <3>1. DistinctUrls(cand[r])'
      BY <2>3, <2>4 DEF DistinctUrls
    <3>2. \A k \in DOMAIN cand'[r] : Unannounced(Url[cand[r][k]])'
      BY <2>4, <2>6 DEF Unannounced
    <3>3. \A k \in DOMAIN rest'[r] : Url[rest'[r][k]] \notin TakenUrls'
      BY <2>4, <2>5, <2>6
    <3>4. counter' + inserted'[r] = Cardinality(rows')
      BY <1>3, <1>4, <2>4
    <3> QED BY <2>4, <3>1, <3>2, <3>3, <3>4 DEF AloneOK
  <2> QED BY <1>1, <1>2, <1>3, <2>4, <2>7, AloneStep
<1> QED BY <1>5, <1>6

(* A batch of a cycle that is alone: all its mappings become rows, and     *)
(* none of their URLs is left to be inserted.                              *)
LEMMA BatchAlone ==
  ASSUME UInv, NEW r \in Runs, InsertBatch(r), AloneOK(r), IsFiniteSet(rows)
  PROVE  /\ IsFiniteSet(rows')
         /\ counter + inserted'[r] = Cardinality(rows')
         /\ \A k \in DOMAIN rest'[r] : Url[rest'[r][k]] \notin TakenUrls'
<1> DEFINE batch == Most(rest[r], BatchSize)
<1>1. SInv /\ TInv /\ pc[r] = "insert" /\ others' = others
  BY DEF UInv, SInv, InsertBatch
<1>2. /\ batch \in Seq(Events) /\ Len(batch) <= Len(rest[r])
      /\ DOMAIN batch = 1 .. Len(batch)
      /\ \A k \in DOMAIN batch :
           batch[k] = rest[r][k] /\ rest[r][k] = cand[r][inserted[r] + k]
      /\ rows' = Ignored(batch) /\ inserted'[r] = inserted[r] + Len(batch)
      /\ rest'[r] \in Seq(Events) /\ Len(rest'[r]) = Len(rest[r]) - Len(batch)
      /\ \A k \in DOMAIN rest'[r] :
           Len(batch) + k \in DOMAIN rest[r] /\ rest'[r][k] = rest[r][Len(batch) + k]
  BY <1>1, BatchFacts, Zenon
<1> HIDE DEF batch
<1>3. /\ inserted[r] \in Nat /\ counter \in Nat /\ Len(batch) \in Nat /\ Len(rest[r]) \in Nat
      /\ rows \subseteq Events /\ DOMAIN rest[r] = 1 .. Len(rest[r])
      /\ cand[r] \in Seq(Events) /\ DOMAIN cand[r] = 1 .. Len(cand[r])
  <2>1. cand[r] \in Seq(Events) /\ rest[r] \in Seq(Events)
    BY <1>1, RunTypes
  <2> QED BY <1>1, <1>2, <2>1, RunTypes
<1>4. /\ inserted[r] + Len(rest[r]) = Len(cand[r])
      /\ \A k \in DOMAIN rest[r] : rest[r][k] = cand[r][inserted[r] + k]
  BY <1>1 DEF TInv, TypeOK, CandidatesOK
<1>5. /\ \A i, j \in DOMAIN cand[r] : Url[cand[r][i]] = Url[cand[r][j]] => i = j
      /\ \A k \in DOMAIN rest[r] : Url[rest[r][k]] \notin TakenUrls
      /\ counter + inserted[r] = Cardinality(rows)
  BY <1>1 DEF AloneOK, DistinctUrls
<1>6. \A j, k \in DOMAIN rest[r] : Url[rest[r][j]] = Url[rest[r][k]] => j = k
  <2>1. SUFFICES ASSUME NEW j \in DOMAIN rest[r], NEW k \in DOMAIN rest[r],
                        Url[rest[r][j]] = Url[rest[r][k]]
                 PROVE  j = k
    OBVIOUS
  <2>2. inserted[r] + j \in DOMAIN cand[r] /\ inserted[r] + k \in DOMAIN cand[r]
    BY <1>3, <1>4
  <2>3. inserted[r] + j = inserted[r] + k
    BY <1>4, <1>5, <2>1, <2>2
  <2> QED BY <1>3, <2>3
<1>7. DOMAIN batch \subseteq DOMAIN rest[r] /\ \A k \in DOMAIN batch : batch[k] = rest[r][k]
  BY <1>2, <1>3
<1>8. DistinctUrls(batch) /\ \A k \in DOMAIN batch : Url[batch[k]] \notin TakenUrls
  BY <1>5, <1>6, <1>7 DEF DistinctUrls
<1>9. /\ IsFiniteSet(Ignored(batch))
      /\ Cardinality(Ignored(batch)) = Cardinality(rows) + Len(batch)
  BY <1>2, <1>3, <1>8, IgnoredCount
<1>10. counter + inserted'[r] = Cardinality(rows')
  BY <1>2, <1>3, <1>5, <1>9
<1>11. ASSUME NEW k \in DOMAIN rest'[r] PROVE Url[rest'[r][k]] \notin TakenUrls'
  <2> DEFINE place == Len(batch) + k
  <2>1. place \in DOMAIN rest[r] /\ rest'[r][k] = rest[r][place] /\ k \in Nat /\ k # 0
    BY <1>2, <1>11
  <2>2. place \notin DOMAIN batch
    BY <1>2, <1>3, <2>1
  <2> HIDE DEF place
  <2>3. Url[rest[r][place]] \notin TakenUrls
    BY <1>5, <2>1
  <2>4. \A e \in Ignored(batch) : e \in rows \/ \E j \in DOMAIN batch : e = batch[j]
    BY <1>2, <1>3, IgnoredFacts
  <2>5. \A j \in DOMAIN batch : Url[batch[j]] # Url[rest[r][place]]
    BY <1>6, <1>7, <2>1, <2>2
  <2>6. TakenUrls' = {Url[e] : e \in Ignored(batch)} \cup others
    BY <1>1, <1>2 DEF TakenUrls
  <2>7. Url[rest[r][place]] \notin TakenUrls'
    BY <2>3, <2>4, <2>5, <2>6 DEF TakenUrls
  <2> QED BY <2>1, <2>7
<1> QED BY <1>2, <1>9, <1>10, <1>11

LEMMA InsertBatchAlone ==
  ASSUME UInv, NEW r \in Runs, InsertBatch(r), undisturbed' PROVE UndisturbedOK'
<1>1. SInv /\ TInv /\ pc[r] = "insert" /\ ~Fetch(r)
  BY DEF UInv, SInv, InsertBatch, Fetch
<1>2. /\ \A q \in Runs \ {r} : pc[q] = "idle"
      /\ OnceBody /\ IsFiniteSet(rows) /\ OnlyRun(r) /\ AloneOK(r)
  BY <1>1, BeforeStep DEF RunStep, Proceed
<1>3. /\ pc'[r] = "insert" /\ cand'[r] = cand[r] /\ announced' = announced
      /\ counter' = counter
  BY <1>1 DEF InsertBatch
<1>4. OnceBody'
  BY <1>2, <1>3 DEF OnceBody
<1>5. /\ IsFiniteSet(rows')
      /\ counter' + inserted'[r] = Cardinality(rows')
      /\ \A k \in DOMAIN rest'[r] : Url[rest'[r][k]] \notin TakenUrls'
  BY <1>2, <1>3, BatchAlone
<1>6. AloneOK(r)'
  <2>1. DistinctUrls(cand[r])' /\ \A k \in DOMAIN cand'[r] : Unannounced(Url[cand[r][k]])'
    BY <1>1, <1>2, <1>3 DEF AloneOK, DistinctUrls, Unannounced
  <2> QED BY <1>3, <1>5, <2>1 DEF AloneOK
<1> QED BY <1>1, <1>2, <1>3, <1>4, <1>5, <1>6, AloneStep

LEMMA ChooseBroadcastsAlone ==
  ASSUME UInv, NEW r \in Runs, ChooseBroadcasts(r), undisturbed' PROVE UndisturbedOK'
<1>1. SInv /\ TInv /\ pc[r] = "insert" /\ ~Fetch(r)
  BY DEF UInv, SInv, ChooseBroadcasts, Fetch
<1>2. /\ \A q \in Runs \ {r} : pc[q] = "idle"
      /\ OnceBody /\ IsFiniteSet(rows) /\ OnlyRun(r) /\ AloneOK(r)
  BY <1>1, BeforeStep DEF RunStep, Proceed
<1>3. /\ pc'[r] = "announce" /\ casts'[r] = Broadcasts(cand[r]) /\ announced' = announced
      /\ counter' = counter /\ rows' = rows /\ inserted' = inserted
  BY <1>1, RunTypes DEF ChooseBroadcasts, table
<1>4. OnceBody'
  BY <1>2, <1>3 DEF OnceBody
<1>5. /\ DistinctUrls(cand[r]) /\ counter + inserted[r] = Cardinality(rows)
      /\ \A k \in DOMAIN cand[r] : \A e \in Events :
           Url[e] = Url[cand[r][k]] => announced[e] = 0
  BY <1>1, <1>2 DEF AloneOK, Unannounced
<1>6. /\ DistinctUrls(Broadcasts(cand[r]))
      /\ \A k \in DOMAIN Broadcasts(cand[r]) : \E p \in DOMAIN cand[r] :
           Broadcasts(cand[r])[k] = cand[r][p]
  BY <1>1, <1>5, BroadcastsFacts, RunTypes
<1>7. DistinctUrls(casts[r])'
  BY <1>3, <1>6 DEF DistinctUrls
<1>8. \A k \in DOMAIN casts'[r] : Unannounced(Url[casts[r][k]])'
  BY <1>3, <1>5, <1>6 DEF Unannounced
<1>9. AloneOK(r)'
  BY <1>3, <1>5, <1>7, <1>8 DEF AloneOK
<1> QED BY <1>1, <1>2, <1>3, <1>4, <1>9, AloneStep

LEMMA AnnounceAlone ==
  ASSUME UInv, NEW r \in Runs, Announce(r), undisturbed' PROVE UndisturbedOK'
<1>1. SInv /\ TInv /\ pc[r] = "announce" /\ ~Fetch(r)
  BY DEF UInv, SInv, Announce, Fetch
<1>2. /\ \A q \in Runs \ {r} : pc[q] = "idle"
      /\ OnceBody /\ IsFiniteSet(rows) /\ OnlyRun(r) /\ AloneOK(r)
  BY <1>1, BeforeStep DEF RunStep, Proceed
<1>3. PICK q : q = casts[r]
  OBVIOUS
<1>4. /\ q \in Seq(Events) /\ q # <<>> /\ casts'[r] = Tail(q) /\ pc'[r] = "announce"
      /\ counter' = counter /\ rows' = rows /\ inserted' = inserted
      /\ announced \in [Events -> Nat]
      /\ announced' = announced \/ announced' = [announced EXCEPT ![Head(q)] = @ + 1]
  BY <1>1, <1>3, RunTypes DEF Announce, table
<1>5. /\ \A i, j \in DOMAIN q : Url[q[i]] = Url[q[j]] => i = j
      /\ \A k \in DOMAIN q : \A e \in Events : Url[e] = Url[q[k]] => announced[e] = 0
      /\ counter + inserted[r] = Cardinality(rows)
  BY <1>1, <1>2, <1>3 DEF AloneOK, DistinctUrls, Unannounced
<1>6. /\ 1 \in DOMAIN q /\ Head(q) = q[1] /\ Head(q) \in Events
      /\ \A k \in DOMAIN Tail(q) :
           k \in Nat /\ k # 0 /\ k + 1 # 1 /\ k + 1 \in DOMAIN q /\ Tail(q)[k] = q[k + 1]
  BY <1>4
<1>7. \A e \in Events : announced'[e] = announced[e] \/ (e = Head(q) /\ announced'[e] = 1)
  <2>1. announced[Head(q)] = 0
    BY <1>5, <1>6
  <2>2. CASE announced' = announced
    BY <2>2
  <2>3. CASE announced' = [announced EXCEPT ![Head(q)] = @ + 1]
    <3>1. announced'[Head(q)] = 1 /\ \A e \in Events : e # Head(q) => announced'[e] = announced[e]
      BY <1>4, <1>6, <2>1, <2>3
    <3> QED BY <3>1
  <2> QED BY <1>4, <2>2, <2>3
<1>8. OnceBody'
  <2>1. SUFFICES ASSUME NEW e \in Events, NEW f \in Events, announced'[e] > 0,
                        announced'[f] > 0, Url[e] = Url[f]
                 PROVE  e = f /\ announced'[e] = 1
    BY DEF OnceBody
  <2>2. CASE announced[e] > 0 /\ announced[f] > 0
    <3>1. e = f /\ announced[e] = 1
      BY <1>2, <2>1, <2>2 DEF OnceBody
    <3>2. Url[e] # Url[Head(q)]
      BY <1>5, <1>6, <2>2
    <3> QED BY <1>7, <3>1, <3>2
  <2>3. CASE ~(announced[e] > 0 /\ announced[f] > 0)
    <3>1. e = Head(q) \/ f = Head(q)
      BY <1>4, <1>7, <2>1, <2>3
    <3>2. Url[e] = Url[q[1]] /\ Url[f] = Url[q[1]]
      BY <1>6, <2>1, <3>1
    <3>3. announced[e] = 0 /\ announced[f] = 0
      BY <1>5, <1>6, <3>2
    <3> QED BY <1>7, <2>1, <3>3
  <2> QED BY <2>2, <2>3
<1>9. DistinctUrls(casts[r])'
  <2>1. SUFFICES ASSUME NEW i \in DOMAIN Tail(q), NEW j \in DOMAIN Tail(q),
                        Url[Tail(q)[i]] = Url[Tail(q)[j]]
                 PROVE  i = j
    BY <1>4 DEF DistinctUrls
  <2>2. i + 1 = j + 1
    BY <1>5, <1>6, <2>1
  <2> QED BY <1>6, <2>2
<1>10. ASSUME NEW k \in DOMAIN Tail(q), NEW e \in Events, Url[e] = Url[Tail(q)[k]]
       PROVE  announced'[e] = 0
  <2>1. k + 1 \in DOMAIN q /\ k + 1 # 1 /\ Url[e] = Url[q[k + 1]]
    BY <1>6, <1>10
  <2>2. e # Head(q)
    BY <1>5, <1>6, <2>1
  <2> QED BY <1>5, <1>7, <2>1, <2>2
<1>11. \A k \in DOMAIN casts'[r] : Unannounced(Url[casts[r][k]])'
  BY <1>4, <1>10 DEF Unannounced
<1>12. AloneOK(r)'
  BY <1>4, <1>5, <1>9, <1>11 DEF AloneOK
<1> QED BY <1>1, <1>2, <1>4, <1>8, <1>12, AloneStep

LEMMA FinishAlone ==
  ASSUME UInv, NEW r \in Runs, Finish(r), undisturbed' PROVE UndisturbedOK'
<1>1. SInv /\ TInv /\ pc[r] = "announce" /\ ~Fetch(r)
  BY DEF UInv, SInv, Finish, Fetch
<1>2. /\ \A q \in Runs \ {r} : pc[q] = "idle"
      /\ OnceBody /\ IsFiniteSet(rows) /\ OnlyRun(r) /\ AloneOK(r)
  BY <1>1, BeforeStep DEF RunStep, Proceed
<1>3. /\ pc'[r] = "idle" /\ announced' = announced
      /\ counter' = counter + inserted[r] /\ rows' = rows
  BY <1>1, RunTypes DEF Finish, Leave, table
<1>4. OnceBody' /\ counter' = Cardinality(rows')
  BY <1>2, <1>3 DEF OnceBody, AloneOK
<1> QED BY <1>1, <1>2, <1>3, <1>4, AloneStep

LEMMA StepUInv == UInv /\ [Next]_vars => UInv'
<1> SUFFICES ASSUME UInv, [Next]_vars PROVE UndisturbedOK'
  BY StepSInv DEF UInv
<1> SUFFICES ASSUME undisturbed' PROVE UndisturbedOK'
  BY DEF UndisturbedOK
<1>1. ASSUME NEW r \in Runs, Proceed(r) PROVE UndisturbedOK'
  BY <1>1, CheckIdsAlone, CheckUrlsAlone, InsertBatchAlone, ChooseBroadcastsAlone,
     AnnounceAlone, FinishAlone DEF Proceed
<1>2. ASSUME NEW r \in Runs, StatementFails(r) PROVE UndisturbedOK'
  BY <1>2 DEF StatementFails
<1>3. ASSUME UNCHANGED <<announced, counter, local>>, UNCHANGED rows, undisturbed,
             others' = others \/ \A r \in Runs : pc[r] = "idle"
      PROVE  UndisturbedOK'
  <2>1. /\ \A q, r \in Runs : pc[q] # "idle" /\ pc[r] # "idle" => q = r
        /\ OnceBody /\ IsFiniteSet(rows)
        /\ (\A r \in Runs : pc[r] = "idle") => counter = Cardinality(rows)
        /\ \A r \in Runs : pc[r] # "idle" => AloneOK(r)
    BY <1>3 DEF UInv, UndisturbedOK
  <2>2. pc' = pc /\ cand' = cand /\ rest' = rest /\ inserted' = inserted /\ casts' = casts
    BY <1>3 DEF local
  <2>3. OnceBody'
    BY <1>3, <2>1 DEF OnceBody
  <2>4. ASSUME NEW r \in Runs, pc'[r] # "idle" PROVE AloneOK(r)'
    <3>1. TakenUrls' = TakenUrls /\ AloneOK(r)
      BY <1>3, <2>1, <2>2, <2>4 DEF TakenUrls
    <3> QED BY <1>3, <2>2, <3>1 DEF AloneOK, DistinctUrls, Unannounced
  <2> QED BY <1>3, <2>1, <2>2, <2>3, <2>4 DEF UndisturbedOK
<1>4. CASE NewUpdate \/ ToggleRedis \/ UNCHANGED vars
  BY <1>3, <1>4 DEF NewUpdate, ToggleRedis, vars, env, table
<1>5. ASSUME NEW u \in Others, StoreOther(u) PROVE UndisturbedOK'
  BY <1>3, <1>5 DEF StoreOther
<1> QED BY <1>1, <1>2, <1>4, <1>5, FetchAlone DEF Next

(* Cycles that nothing disturbs publish no article twice on live_stream:   *)
(* the three layers of ingest_gdelt_events together leave nothing that was *)
(* announced, or that a second event of the export cites.                  *)
THEOREM ArticlesAreAnnouncedOnce == Spec => []AnnouncedOnce
<1>1. UInv => AnnouncedOnce
  BY DEF UInv, UndisturbedOK, OnceBody, AnnouncedOnce
<1> QED BY <1>1, InitUInv, StepUInv, PTL DEF Spec

(* gdelt_events_inserted_total is the number of rows after cycles that     *)
(* nothing disturbed, for any batch size and any exports.                  *)
THEOREM CounterCountsRows == Spec => []CounterIsTruth
<1>1. UInv => CounterIsTruth
  BY DEF UInv, UndisturbedOK, CounterIsTruth
<1> QED BY <1>1, InitUInv, StepUInv, PTL DEF Spec

-----------------------------------------------------------------------------
(* Cycles that overlap.                                                    *)

(* The mappings that cycles under way have counted, one by one.            *)
Counted(ins) == {p \in Runs \X Nat : p[2] \in 1 .. ins[p[1]]}

LEMMA CountedGrows ==
  ASSUME NEW ins \in [Runs -> Nat], NEW r \in Runs, NEW n \in Nat,
         IsFiniteSet(Counted(ins))
  PROVE  LET more == Counted([ins EXCEPT ![r] = ins[r] + n])
         IN  IsFiniteSet(more) /\ Cardinality(more) = Cardinality(Counted(ins)) + n
<1> DEFINE places == ins[r] + 1 .. ins[r] + n
           new == {r} \X places
           more == Counted([ins EXCEPT ![r] = ins[r] + n])
           f == [k \in places |-> <<r, k>>]
<1>1. more = Counted(ins) \cup new
  <2>1. ASSUME NEW p \in Runs \X Nat
        PROVE  p \in more <=> p \in Counted(ins) \/ p \in new
    <3>1. p[1] \in Runs /\ p[2] \in Nat /\ ins[p[1]] \in Nat /\ ins[r] \in Nat /\ p = <<p[1], p[2]>>
      OBVIOUS
    <3>2. CASE p[1] = r
      <4>1. p \in new <=> p[2] \in places
        BY <3>1, <3>2
      <4>2. p \in more <=> p[2] \in 1 .. ins[r] + n
        BY <3>2 DEF Counted
      <4>3. p \in Counted(ins) <=> p[2] \in 1 .. ins[r]
        BY <3>2 DEF Counted
      <4> HIDE DEF more, new
      <4> QED BY <3>1, <4>1, <4>2, <4>3
    <3>3. CASE p[1] # r
      <4>1. p \notin new
        BY <3>1, <3>3
      <4>2. p \in more <=> p \in Counted(ins)
        BY <3>1, <3>3 DEF Counted
      <4> QED BY <4>1, <4>2
    <3> QED BY <3>2, <3>3
  <2>2. more \subseteq Runs \X Nat /\ Counted(ins) \subseteq Runs \X Nat
    BY DEF Counted
  <2>3. new \subseteq Runs \X Nat
    OBVIOUS
  <2> HIDE DEF more, new
  <2> QED BY <2>1, <2>2, <2>3
<1>2. Counted(ins) \cap new = {}
  BY DEF Counted
<1>3. IsFiniteSet(places) /\ Cardinality(places) = n
  <2>1. ins[r] + 1 \in Int /\ ins[r] + n \in Int /\ ins[r] \in Nat
    OBVIOUS
  <2>2. /\ IsFiniteSet(places)
        /\ Cardinality(places) = IF ins[r] + 1 > ins[r] + n THEN 0
                                 ELSE (ins[r] + n) - (ins[r] + 1) + 1
    BY <2>1, FS_Interval
  <2> HIDE DEF places
  <2> QED BY <2>1, <2>2
<1>4. f \in Bijection(places, new)
  <2>1. \A k, l \in places : f[k] = f[l] => k = l
    OBVIOUS
  <2>2. f \in [places -> new] /\ \A e \in new : \E k \in places : f[k] = e
    OBVIOUS
  <2> HIDE DEF places, new, f
  <2> QED BY <2>1, <2>2 DEF Bijection, Injection, Surjection, IsInjective
<1> HIDE DEF f
<1>5. IsFiniteSet(new) /\ Cardinality(new) = n
  <2>1. ExistsBijection(places, new)
    BY <1>4 DEF ExistsBijection
  <2> HIDE DEF places, new
  <2> QED BY <1>3, <2>1, FS_Bijection
<1> DEFINE old == Counted(ins)
<1> HIDE DEF new, more, old
<1>6. IsFiniteSet(old \cup new)
      /\ Cardinality(old \cup new) = Cardinality(old) + Cardinality(new) - Cardinality(old \cap new)
  BY <1>5, FS_Union DEF old
<1>7. Cardinality({}) = 0 /\ Cardinality(old) \in Nat
  BY FS_EmptySet, FS_CardinalityType DEF old
<1>8. Cardinality(old \cap new) = 0
  BY <1>2, <1>7 DEF old
<1>9. Cardinality(old \cup new) = Cardinality(old) + n
  BY <1>5, <1>6, <1>7, <1>8
<1> QED BY <1>1, <1>6, <1>9 DEF old, more

(* INSERT OR IGNORE adds a row per mapping at most.                        *)
LEMMA IgnoredBound ==
  ASSUME IsFiniteSet(rows), NEW batch \in Seq(Events)
  PROVE  /\ IsFiniteSet(Ignored(batch))
         /\ Cardinality(Ignored(batch)) <= Cardinality(rows) + Len(batch)
<1> DEFINE places == 1 .. Len(batch)
           all == {batch[k] : k \in places}
           f == [k \in places |-> batch[k]]
<1>1. Len(batch) \in Nat /\ DOMAIN batch = places
  OBVIOUS
<1>2. IsFiniteSet(places) /\ Cardinality(places) = Len(batch)
  BY <1>1, FS_Interval
<1>3. f \in Surjection(places, all)
  BY DEF Surjection
<1>4. Ignored(batch) \subseteq rows \cup all
  BY <1>1 DEF Ignored, Firsts
<1> HIDE DEF places, all, f
<1>5. IsFiniteSet(all) /\ Cardinality(all) <= Len(batch)
  BY <1>2, <1>3, FS_Surjection DEF ExistsSurjection
<1>6. IsFiniteSet(rows \cup all)
      /\ Cardinality(rows \cup all) = Cardinality(rows) + Cardinality(all) - Cardinality(rows \cap all)
  BY <1>5, FS_Union
<1>7. IsFiniteSet(rows \cap all)
  BY FS_Subset
<1>8. /\ Cardinality(rows) \in Nat /\ Cardinality(all) \in Nat
      /\ Cardinality(rows \cap all) \in Nat
  BY <1>5, <1>7, FS_CardinalityType
<1>9. IsFiniteSet(Ignored(batch)) /\ Cardinality(Ignored(batch)) <= Cardinality(rows \cup all)
  BY <1>4, <1>6, FS_Subset
<1>10. Cardinality(Ignored(batch)) \in Nat
  BY <1>9, FS_CardinalityType
<1> QED BY <1>1, <1>5, <1>6, <1>8, <1>9, <1>10

(* What cycles under way have counted is not lost.                         *)
CountedOK ==
  faults = MaxFaults =>
    /\ IsFiniteSet(rows) /\ IsFiniteSet(Counted(inserted))
    /\ Cardinality(rows) <= counter + Cardinality(Counted(inserted))

LEMMA NothingCounted ==
  ASSUME NEW ins, \A q \in Runs : ins[q] = 0
  PROVE  Counted(ins) = {}
BY DEF Counted

LEMMA InitCounted == Init => CountedOK
<1> SUFFICES ASSUME Init PROVE CountedOK
  OBVIOUS
<1>1. Counted(inserted) = {} /\ rows = {} /\ counter = 0
  BY NothingCounted DEF Init
<1>2. Cardinality({}) = 0 /\ IsFiniteSet({})
  BY FS_EmptySet
<1> QED BY <1>1, <1>2 DEF CountedOK

LEMMA InsertBatchCounted ==
  ASSUME TInv, CountedOK, faults = MaxFaults, NEW r \in Runs, InsertBatch(r)
  PROVE  CountedOK'
<1> DEFINE batch == Most(rest[r], BatchSize)
           ins == inserted
           more == [ins EXCEPT ![r] = ins[r] + Len(batch)]
<1>1. batch \in Seq(Events) /\ rows' = Ignored(batch)
  BY BatchFacts
<1>2. inserted' = more /\ counter' = counter
  BY DEF InsertBatch
<1>3. inserted \in [Runs -> Nat] /\ counter \in Nat
  BY RunTypes
<1>4. /\ IsFiniteSet(rows) /\ IsFiniteSet(Counted(ins))
      /\ Cardinality(rows) <= counter + Cardinality(Counted(ins))
  BY DEF CountedOK
<1> HIDE DEF batch
<1>5. Len(batch) \in Nat
  BY <1>1
<1>6. /\ IsFiniteSet(Counted(more))
      /\ Cardinality(Counted(more)) = Cardinality(Counted(ins)) + Len(batch)
  BY <1>3, <1>4, <1>5, CountedGrows
<1>7. IsFiniteSet(rows') /\ Cardinality(rows') <= Cardinality(rows) + Len(batch)
  BY <1>1, <1>4, IgnoredBound
<1>8. /\ Cardinality(rows) \in Nat /\ Cardinality(rows') \in Nat
      /\ Cardinality(Counted(ins)) \in Nat
  BY <1>4, <1>7, FS_CardinalityType
<1> DEFINE before == Cardinality(Counted(ins))  after == Cardinality(Counted(more))
<1> HIDE DEF before, after, more
<1>9. Cardinality(rows') <= counter + after
  <2>1. before \in Nat /\ after = before + Len(batch) /\ Cardinality(rows) <= counter + before
    BY <1>4, <1>6, <1>8 DEF before, after
  <2> QED BY <1>3, <1>5, <1>7, <1>8, <2>1
<1> QED BY <1>2, <1>6, <1>7, <1>9 DEF CountedOK, after

LEMMA FinishCounted ==
  ASSUME TInv, CountedOK, faults = MaxFaults, NEW r \in Runs, Finish(r)
  PROVE  CountedOK'
<1> DEFINE ins == [inserted EXCEPT ![r] = 0]
<1>1. inserted' = ins /\ rows' = rows /\ counter' = counter + inserted[r]
  BY DEF Finish, Leave, table
<1>2. inserted \in [Runs -> Nat] /\ counter \in Nat /\ inserted[r] \in Nat
  BY RunTypes
<1>3. /\ IsFiniteSet(rows) /\ IsFiniteSet(Counted(inserted))
      /\ Cardinality(rows) <= counter + Cardinality(Counted(inserted))
  BY DEF CountedOK
<1>4. ins \in [Runs -> Nat] /\ ins[r] = 0 /\ inserted = [ins EXCEPT ![r] = ins[r] + inserted[r]]
  <2>1. ins \in [Runs -> Nat] /\ ins[r] = 0 /\ ins[r] + inserted[r] = inserted[r]
    BY <1>2
  <2>2. inserted = [ins EXCEPT ![r] = inserted[r]]
    BY <1>2
  <2> QED BY <2>1, <2>2
<1>5. Counted(ins) \subseteq Counted(inserted)
  BY <1>2 DEF Counted
<1> HIDE DEF ins
<1>6. IsFiniteSet(Counted(ins))
  BY <1>3, <1>5, FS_Subset
<1>7. Cardinality(Counted(inserted)) = Cardinality(Counted(ins)) + inserted[r]
  BY <1>2, <1>4, <1>6, CountedGrows
<1>8. Cardinality(rows) \in Nat /\ Cardinality(Counted(ins)) \in Nat
  BY <1>3, <1>6, FS_CardinalityType
<1> DEFINE before == Cardinality(Counted(inserted))  after == Cardinality(Counted(ins))
<1> HIDE DEF before, after
<1>9. Cardinality(rows) <= counter + inserted[r] + after
  <2>1. after \in Nat /\ before = after + inserted[r] /\ Cardinality(rows) <= counter + before
    BY <1>3, <1>7, <1>8 DEF before, after
  <2> QED BY <1>2, <1>8, <2>1
<1> QED BY <1>1, <1>3, <1>6, <1>9 DEF CountedOK, after

LEMMA StepCounted == TInv /\ CountedOK /\ [Next]_vars => CountedOK'
<1> SUFFICES ASSUME TInv, CountedOK, [Next]_vars, faults' = MaxFaults PROVE CountedOK'
  BY DEF CountedOK
<1>1. faults \in 0 .. MaxFaults /\ MaxFaults \in Nat
  BY BoundsAssumption DEF TInv, TypeOK
<1>2. ASSUME faults' = faults, UNCHANGED <<rows, counter, inserted>> PROVE CountedOK'
  BY <1>2 DEF CountedOK
<1>3. ASSUME NEW r \in Runs, StatementFails(r) PROVE FALSE
  BY <1>1, <1>3 DEF StatementFails
<1>4. ASSUME NEW r \in Runs, CheckUrls(r) PROVE CountedOK'
  <2>1. inserted[r] = 0 /\ inserted \in [Runs -> Nat]
    BY <1>4, RunTypes DEF CheckUrls, TInv, CandidatesOK
  <2>2. inserted' = inserted \/ inserted' = [inserted EXCEPT ![r] = 0]
    BY <1>4 DEF CheckUrls, Leave
  <2>3. inserted' = inserted
    BY <2>1, <2>2
  <2> QED BY <1>2, <1>4, <2>3 DEF CheckUrls, table, env
<1>5. ASSUME NEW r \in Runs, InsertBatch(r) PROVE CountedOK'
  <2>1. faults' = faults
    BY <1>5 DEF InsertBatch, env
  <2> QED BY <1>5, <2>1, InsertBatchCounted
<1>6. ASSUME NEW r \in Runs, Finish(r) PROVE CountedOK'
  <2>1. faults' = faults
    BY <1>6 DEF Finish, env
  <2> QED BY <1>6, <2>1, FinishCounted
<1>7. ASSUME NEW r \in Runs, Fetch(r) \/ CheckIds(r) \/ ChooseBroadcasts(r) \/ Announce(r)
      PROVE  CountedOK'
  BY <1>2, <1>7 DEF Fetch, CheckIds, ChooseBroadcasts, Announce, table, env
<1>8. CASE NewUpdate \/ ToggleRedis \/ UNCHANGED vars \/ \E u \in Others : StoreOther(u)
  BY <1>2, <1>8 DEF NewUpdate, ToggleRedis, StoreOther, vars, table, env, local
<1> QED BY <1>3, <1>4, <1>5, <1>6, <1>7, <1>8 DEF Next, Proceed

(* The counter of stored events falls short of the table only after a      *)
(* failed statement, however many cycles overlap (ingest_gdelt_events,     *)
(* gdelt_events_inserted_total).                                           *)
THEOREM CounterNeverBehind == Spec => []CounterNeverShort
<1>1. TInv /\ CountedOK => CounterNeverShort
  <2> SUFFICES ASSUME TInv, CountedOK, faults = MaxFaults, \A r \in Runs : pc[r] = "idle"
               PROVE  Cardinality(rows) <= counter
    BY DEF CounterNeverShort
  <2>1. Counted(inserted) = {}
    BY NothingCounted DEF TInv, CandidatesOK
  <2>2. Cardinality({}) = 0 /\ counter \in Nat
    BY FS_EmptySet DEF TInv, TypeOK
  <2> QED BY <2>1, <2>2 DEF CountedOK
<1> QED BY InitTInv, StepTInv, InitCounted, StepCounted, <1>1, PTL DEF Spec
================================================================================
