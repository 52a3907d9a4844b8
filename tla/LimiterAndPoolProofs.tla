------------------------- MODULE LimiterAndPoolProofs --------------------------
(***************************************************************************)
(* What a request meets before and beside its handler: the rate limiter    *)
(* and the pool of Redis.                                                  *)
(*                                                                         *)
(* A sliding window never lets more than its limit through, what           *)
(* Retry-After says holds to a second, and the pruned lists decide as the  *)
(* whole history would, for every set of clients and routes, every limit,  *)
(* window and length of a second.                                          *)
(*                                                                         *)
(* WindowLimit is not inductive: it says nothing of the lists the code     *)
(* consults.  IInv adds that the grants are ordered in time and that a     *)
(* grant still inside the window is always listed, whatever was pruned.    *)
(* For Retry-After, TInv adds that no list is longer than its limit, and   *)
(* that a listed request leaves the window less than a second after the    *)
(* time that was told: by then the list is shorter than its limit.         *)
(*                                                                         *)
(* The pool's lock is held by the one call that creates a client, or by    *)
(* one that pings or closes under it, for any number of callers.           *)
(***************************************************************************)
EXTENDS RateLimiter, RedisPool, FiniteSetTheorems, WellFoundedInduction, TLAPS

Shape ==
  /\ now \in Nat
  /\ granted \in [Buckets -> Seq(Nat)]
  /\ log \in [Buckets -> SUBSET Nat]
  /\ \A b \in Buckets : log[b] \subseteq DOMAIN granted[b]

InOrder ==
  \A b \in Buckets : \A m, n \in DOMAIN granted[b] :
    /\ granted[b][n] <= now
    /\ m <= n => granted[b][m] <= granted[b][n]

Listed ==
  \A b \in Buckets : \A n \in DOMAIN granted[b] :
    granted[b][n] + Window > now => n \in log[b]

IInv == Shape /\ InOrder /\ Listed /\ WindowLimit

(* The limit of a bucket is a positive number.                             *)
LEMMA LimitOfBucket == \A b \in Buckets : b.limit \in Nat \ {0}
  BY LimiterAssumption DEF Buckets, Bucket

(* The initial state satisfies the invariant.                              *)
LEMMA InitIInv == Init => IInv
  BY DEF Init, IInv, Shape, InOrder, Listed, WindowLimit

(* Where a request finds room, the request `limit` places earlier is out   *)
(* of the window: otherwise all requests since would be listed.            *)
LEMMA RoomMeansOld ==
  ASSUME IInv, NEW b \in Buckets, Cardinality(InWindow(b)) < b.limit,
         NEW n \in DOMAIN granted[b], Len(granted[b]) + 1 = n + b.limit
  PROVE  granted[b][n] + Window <= now
<1> DEFINE last == Len(granted[b])
<1>1. /\ granted[b] \in Seq(Nat) /\ last \in Nat /\ n \in 1..last
      /\ b.limit \in Nat \ {0} /\ now \in Nat /\ Window \in Nat
      /\ last + 1 = n + b.limit /\ DOMAIN granted[b] = 1..last
  BY LimitOfBucket, LimiterAssumption DEF IInv, Shape
<1> HIDE DEF last
<1>2. SUFFICES ASSUME granted[b][n] + Window > now PROVE FALSE
  BY <1>1
<1>3. n..last \subseteq InWindow(b)
  <2>1. SUFFICES ASSUME NEW m \in n..last PROVE m \in InWindow(b)
    OBVIOUS
  <2>2. m \in DOMAIN granted[b] /\ n <= m
    BY <1>1
  <2>3. granted[b][n] <= granted[b][m] /\ granted[b][m] \in Nat /\ granted[b][n] \in Nat
    <3>1. granted[b][n] <= granted[b][m]
      BY <2>2 DEF IInv, InOrder
    <3>2. n \in 1..last /\ m \in 1..last
      BY <1>1, <2>2
    <3>3. \A k \in 1..last : granted[b][k] \in Nat
      BY <1>1
    <3> QED BY <3>1, <3>2, <3>3
  <2>4. granted[b][m] + Window > now
    <3>1. now \in Nat /\ Window \in Nat
      BY <1>1
    <3> QED BY <3>1, <1>2, <2>3
  <2>5. m \in log[b]
    BY <2>2, <2>4 DEF IInv, Listed
  <2> QED BY <2>4, <2>5 DEF InWindow
<1>4. IsFiniteSet(InWindow(b))
  <2>1. IsFiniteSet(1..last)
    <3>1. 1 \in Int /\ last \in Int
      BY <1>1
    <3> QED BY <3>1, FS_Interval
  <2>2. InWindow(b) \subseteq 1..last
    BY <1>1 DEF IInv, Shape, InWindow
  <2> QED BY <2>1, <2>2, FS_Subset
<1>5. Cardinality(n..last) = b.limit
  <2>1. n \in Int /\ last \in Int /\ n <= last /\ last - n + 1 = b.limit
    BY <1>1
  <2>2. Cardinality(n..last) = IF n > last THEN 0 ELSE last - n + 1
    BY <2>1, FS_Interval
  <2> QED BY <2>1, <2>2
<1>6. Cardinality(n..last) <= Cardinality(InWindow(b))
  BY <1>3, <1>4, FS_Subset
<1>7. Cardinality(InWindow(b)) \in Nat
  BY <1>4, FS_CardinalityType
<1> QED BY <1>1, <1>5, <1>6, <1>7

(* Letting a request through preserves the invariant.                      *)
LEMMA AdmitIInv ==
  ASSUME IInv, NEW b \in Buckets, Admit(b)
  PROVE  IInv'
<1> DEFINE g == granted[b]
           next == Len(granted[b]) + 1
<1>1. /\ g \in Seq(Nat) /\ now \in Nat /\ Window \in Nat /\ b.limit \in Nat \ {0}
      /\ Len(g) \in Nat /\ next \in Nat
  BY LimitOfBucket, LimiterAssumption DEF IInv, Shape
<1>2. /\ granted' = [granted EXCEPT ![b] = Append(g, now)]
      /\ log' = [log EXCEPT ![b] = InWindow(b) \cup {next}]
      /\ now' = now
      /\ Cardinality(InWindow(b)) < b.limit
  BY DEF Admit
<1>3. /\ granted'[b] = Append(g, now) /\ log'[b] = InWindow(b) \cup {next}
      /\ \A c \in Buckets \ {b} : granted'[c] = granted[c] /\ log'[c] = log[c]
  BY <1>2 DEF IInv, Shape
<1>4. /\ Append(g, now) \in Seq(Nat)
      /\ DOMAIN Append(g, now) = 1..next
      /\ Append(g, now)[next] = now
      /\ \A n \in DOMAIN g : n \in 1..Len(g) /\ Append(g, now)[n] = g[n]
      /\ \A n \in 1..next : n \in DOMAIN g \/ n = next
  BY <1>1
<1>5. InWindow(b) \subseteq log[b] /\ log[b] \subseteq DOMAIN g
  BY DEF InWindow, IInv, Shape
<1>6. Shape'
  <2>1. granted' \in [Buckets -> Seq(Nat)]
    BY <1>2, <1>4 DEF IInv, Shape
  <2>2. log' \in [Buckets -> SUBSET Nat]
    BY <1>1, <1>2, <1>5 DEF IInv, Shape
  <2>3. ASSUME NEW c \in Buckets PROVE log'[c] \subseteq DOMAIN granted'[c]
    <3>1. CASE c # b
      BY <1>3, <3>1 DEF IInv, Shape
    <3>2. CASE c = b
      <4>1. DOMAIN g \subseteq 1..next /\ next \in 1..next
        BY <1>1
      <4> QED BY <1>3, <1>4, <1>5, <3>2, <4>1
    <3> QED BY <3>1, <3>2
  <2> QED BY <1>2, <2>1, <2>2, <2>3 DEF IInv, Shape
<1>7. InOrder'
  <2>1. SUFFICES ASSUME NEW c \in Buckets, NEW m \in DOMAIN granted'[c],
                        NEW n \in DOMAIN granted'[c]
                 PROVE  /\ granted'[c][n] <= now
                        /\ m <= n => granted'[c][m] <= granted'[c][n]
    BY <1>2 DEF InOrder
  <2>2. CASE c # b
    BY <1>3, <2>2 DEF IInv, InOrder
  <2>3. CASE c = b
    <3>1. \A k \in DOMAIN g : g[k] <= now
      BY DEF IInv, InOrder
    <3>2. \A j, k \in DOMAIN g : j <= k => g[j] <= g[k]
      BY DEF IInv, InOrder
    <3>3. /\ granted'[c] = Append(g, now) /\ m \in 1..next /\ n \in 1..next
      BY <1>3, <1>4, <2>1, <2>3
    <3>4. CASE n = next
      BY <1>1, <1>4, <3>1, <3>3, <3>4
    <3>5. CASE n \in DOMAIN g /\ m \in DOMAIN g
      BY <1>4, <3>1, <3>2, <3>3, <3>5
    <3>6. CASE n \in DOMAIN g /\ m = next
      BY <1>1, <1>4, <3>1, <3>3, <3>6
    <3> QED BY <1>4, <3>3, <3>4, <3>5, <3>6
  <2> QED BY <2>2, <2>3
<1>8. Listed'
  <2>1. SUFFICES ASSUME NEW c \in Buckets, NEW n \in DOMAIN granted'[c],
                        granted'[c][n] + Window > now
                 PROVE  n \in log'[c]
    BY <1>2 DEF Listed
  <2>2. CASE c # b
    BY <1>3, <2>1, <2>2 DEF IInv, Listed
  <2>3. CASE c = b
    <3>1. CASE n \in DOMAIN g
      BY <1>3, <1>4, <2>1, <2>3, <3>1 DEF IInv, Listed, InWindow
    <3>2. CASE n = next
      BY <1>3, <2>3, <3>2
    <3> QED BY <1>3, <1>4, <2>3, <3>1, <3>2
  <2> QED BY <2>2, <2>3
<1>9. WindowLimit'
  <2>1. SUFFICES ASSUME NEW c \in Buckets, NEW n \in DOMAIN granted'[c],
                        n + c.limit \in DOMAIN granted'[c]
                 PROVE  granted'[c][n + c.limit] >= granted'[c][n] + Window
    BY DEF WindowLimit
  <2>2. CASE c # b
    <3>1. /\ granted'[c] = granted[c] /\ n \in DOMAIN granted[c]
          /\ n + c.limit \in DOMAIN granted[c]
      BY <1>3, <2>1, <2>2
    <3>2. WindowLimit
      BY DEF IInv
    <3>3. granted[c][n + c.limit] >= granted[c][n] + Window
      BY <2>1, <3>1, <3>2 DEF WindowLimit
    <3> QED BY <3>1, <3>3
  <2>3. CASE c = b
    <3>1. n \in Nat /\ n \in 1..next /\ n + b.limit \in 1..next
      <4>1. DOMAIN granted'[b] = 1..next
        BY <1>3, <1>4
      <4>2. n \in 1..next /\ n + b.limit \in 1..next
        BY <2>1, <2>3, <4>1
      <4> QED BY <1>1, <4>2
    <3>2. n \in DOMAIN g
      BY <1>1, <1>4, <3>1
    <3>3. CASE n + b.limit = next
      <4>1. g[n] + Window <= now
        BY <1>2, <3>2, <3>3, RoomMeansOld
      <4>2. granted'[c][n + c.limit] = now /\ granted'[c][n] = g[n] /\ g[n] \in Nat
        <5>1. c.limit = b.limit /\ granted'[c] = Append(g, now)
          BY <1>3, <2>3
        <5>2. n + c.limit = next /\ Append(g, now)[n] = g[n] /\ g[n] \in Nat
          BY <1>1, <1>4, <3>2, <3>3, <5>1
        <5> QED BY <1>4, <5>1, <5>2
      <4> QED BY <1>1, <4>1, <4>2
    <3>4. CASE n + b.limit # next
      <4>1. n + b.limit \in DOMAIN g
        BY <1>4, <3>1, <3>4
      <4>2. g[n + b.limit] >= g[n] + Window
        BY <3>2, <4>1 DEF IInv, WindowLimit
      <4> QED BY <1>3, <1>4, <2>3, <3>2, <4>1, <4>2
    <3> QED BY <3>3, <3>4
  <2> QED BY <2>2, <2>3
<1> QED BY <1>6, <1>7, <1>8, <1>9 DEF IInv

(* A refusal only prunes.                                                  *)
LEMMA RefuseIInv ==
  ASSUME IInv, NEW b \in Buckets, Refuse(b)
  PROVE  IInv'
<1>1. /\ log' = [log EXCEPT ![b] = InWindow(b)]
      /\ UNCHANGED <<now, granted>>
      /\ InWindow(b) \subseteq log[b]
  BY DEF Refuse, InWindow
<1>2. Shape'
  BY <1>1 DEF IInv, Shape
<1>3. InOrder' /\ WindowLimit'
  BY <1>1 DEF IInv, InOrder, WindowLimit
<1>4. Listed'
  BY <1>1 DEF IInv, Shape, Listed, InWindow
<1> QED BY <1>2, <1>3, <1>4 DEF IInv

(* A later clock only takes grants out of the window.                      *)
LEMMA TickIInv ==
  ASSUME IInv, Tick
  PROVE  IInv'
<1>1. /\ now' = now + 1 /\ granted' = granted /\ log' = log
      /\ now \in Nat /\ Window \in Nat
      /\ \A b \in Buckets : granted[b] \in Seq(Nat)
      /\ \A b \in Buckets : \A n \in DOMAIN granted[b] : granted[b][n] \in Nat
  BY LimiterAssumption DEF Tick, IInv, Shape
<1>2. Shape'
  BY <1>1 DEF IInv, Shape
<1>3. InOrder'
  BY <1>1 DEF IInv, InOrder
<1>4. Listed'
  BY <1>1 DEF IInv, Listed
<1>5. WindowLimit'
  BY <1>1 DEF IInv, WindowLimit
<1> QED BY <1>2, <1>3, <1>4, <1>5 DEF IInv

(* Every step preserves the invariant.                                     *)
LEMMA StepIInv == IInv /\ [Next]_vars => IInv'
<1>1. SUFFICES ASSUME IInv, [Next]_vars PROVE IInv'
  OBVIOUS
<1>2. ASSUME NEW c \in Clients, NEW r \in Routes,
             Admit(Bucket(c, r)) \/ Refuse(Bucket(c, r))
      PROVE  IInv'
  BY <1>1, <1>2, AdmitIInv, RefuseIInv DEF Buckets
<1>3. CASE Tick
  BY <1>1, <1>3, TickIInv
<1>4. CASE UNCHANGED vars
  BY <1>1, <1>4 DEF vars, IInv, Shape, InOrder, Listed, WindowLimit
<1> QED BY <1>1, <1>2, <1>3, <1>4 DEF Next

(* No window of a bucket ever holds more requests than its limit           *)
(* (SlidingWindowRateLimiter.is_allowed).                                  *)
THEOREM WindowLimitHolds == Spec => []WindowLimit
<1>1. IInv => WindowLimit
  BY DEF IInv
<1> QED BY InitIInv, StepIInv, <1>1, PTL DEF Spec


-----------------------------------------------------------------------------
(* Every set of times has an earliest.                                     *)
LEMMA MinFacts ==
  ASSUME NEW T \in SUBSET Nat, T # {}
  PROVE  Min(T) \in T /\ \A y \in T : Min(T) <= y
<1> DEFINE R == OpToRel(<, Nat)
<1>1. IsWellFoundedOn(R, Nat)
  BY NatLessThanWellFounded
<1>2. \A x, y \in Nat : x < y => <<x, y>> \in R
  BY DEF OpToRel
<1> HIDE DEF R
<1>3. PICK x \in T : \A y \in T : ~ (<<y, x>> \in R)
  BY <1>1, WFMin
<1>4. ASSUME NEW y \in T PROVE x <= y
  <2>1. x \in Nat /\ y \in Nat
    OBVIOUS
  <2>2. ~(y < x)
    BY <1>2, <1>3, <2>1, Zenon
  <2> QED BY <2>1, <2>2
<1> QED BY <1>4 DEF Min

(* The larger of two numbers.                                              *)
LEMMA MaxFacts ==
  ASSUME NEW k \in Nat
  PROVE  Max({1, k}) \in Nat /\ Max({1, k}) >= 1 /\ Max({1, k}) >= k
<1>1. \E x \in {1, k} : \A y \in {1, k} : x >= y
  <2>1. CASE k >= 1
    BY <2>1
  <2>2. CASE k = 0
    BY <2>2
  <2> QED BY <2>1, <2>2
<1>2. Max({1, k}) \in {1, k} /\ \A y \in {1, k} : Max({1, k}) >= y
  BY <1>1 DEF Max
<1> QED BY <1>2

(* Seconds are rounded down, by less than one.                             *)
LEMMA SecondsFacts ==
  ASSUME NEW x \in Nat, NEW s \in Nat \ {0}
  PROVE  x \div s \in Nat /\ x < s * (x \div s) + s
OBVIOUS

LEMMA TimesMonotone ==
  ASSUME NEW s \in Nat, NEW a \in Nat, NEW b \in Nat, a >= b
  PROVE  s * a \in Nat /\ s * b \in Nat /\ s * a >= s * b
OBVIOUS

(* A list never holds more than its limit, and what a client was told ends *)
(* at most a second before a listed request leaves the window.             *)
ListsBounded ==
  \A b \in Buckets : IsFiniteSet(log[b]) /\ Cardinality(log[b]) <= b.limit
ToldOK ==
  /\ told \in [Buckets -> Nat]
  /\ \A b \in Buckets : told[b] # 0 =>
       \E n \in log[b] : granted[b][n] + Window < told[b] + Second
TInv == ListsBounded /\ ToldOK

(* What is left after pruning.                                             *)
LEMMA WindowFacts ==
  ASSUME IInv, ListsBounded, NEW b \in Buckets
  PROVE  /\ InWindow(b) \subseteq log[b] /\ IsFiniteSet(InWindow(b))
         /\ Cardinality(InWindow(b)) \in Nat /\ Cardinality(log[b]) \in Nat
         /\ Cardinality(InWindow(b)) <= Cardinality(log[b])
         /\ Cardinality(InWindow(b)) = Cardinality(log[b]) => InWindow(b) = log[b]
         /\ \A n \in InWindow(b) : granted[b][n] \in Nat
<1>1. InWindow(b) \subseteq log[b]
  BY DEF InWindow
<1>2. IsFiniteSet(log[b])
  BY DEF ListsBounded
<1>3. /\ IsFiniteSet(InWindow(b)) /\ Cardinality(InWindow(b)) <= Cardinality(log[b])
      /\ Cardinality(InWindow(b)) = Cardinality(log[b]) => InWindow(b) = log[b]
  BY <1>1, <1>2, FS_Subset
<1>4. Cardinality(InWindow(b)) \in Nat /\ Cardinality(log[b]) \in Nat
  BY <1>2, <1>3, FS_CardinalityType
<1>5. \A n \in InWindow(b) : granted[b][n] \in Nat
  <2>1. granted[b] \in Seq(Nat) /\ InWindow(b) \subseteq DOMAIN granted[b]
    BY <1>1 DEF IInv, Shape
  <2> QED BY <2>1
<1> QED BY <1>1, <1>3, <1>4, <1>5

(* What a refused client is told: some request in the window leaves it     *)
(* less than a second after.                                               *)
LEMMA RetryFacts ==
  ASSUME IInv, ListsBounded, NEW b \in Buckets, InWindow(b) # {}
  PROVE  /\ RetryAfter(b) \in Nat
         /\ \E n \in InWindow(b) : granted[b][n] + Window < (now + RetryAfter(b)) + Second
<1> DEFINE T == {granted[b][n] : n \in InWindow(b)}
           x == Min(T) + Window - now
           k == x \div Second
<1>1. now \in Nat /\ Window \in Nat /\ Second \in Nat \ {0}
  BY LimiterAssumption DEF IInv, Shape
<1>2. T \in SUBSET Nat /\ T # {}
  BY WindowFacts
<1>3. Min(T) \in T
  BY <1>2, MinFacts
<1>4. PICK n \in InWindow(b) : granted[b][n] = Min(T)
  BY <1>3
<1>5. Min(T) \in Nat /\ Min(T) + Window > now
  BY <1>2, <1>3, <1>4 DEF InWindow
<1>6. RetryAfter(b) = Second * Max({1, k})
  BY DEF RetryAfter
<1> DEFINE oldest == Min(T)
<1> HIDE DEF T, k
<1>7. x \in Nat /\ now + x = oldest + Window
  BY <1>1, <1>5
<1> HIDE DEF x
<1>8. k \in Nat /\ x < Second * k + Second
  BY <1>1, <1>7, SecondsFacts DEF k
<1>9. Max({1, k}) \in Nat /\ Max({1, k}) >= k
  BY <1>8, MaxFacts
<1> DEFINE a == Second * k  c == RetryAfter(b)
<1>10. a \in Nat /\ c \in Nat /\ c >= a
  BY <1>1, <1>6, <1>8, <1>9, TimesMonotone
<1>11. x < a + Second
  BY <1>8
<1> HIDE DEF a, c
<1>12. oldest + Window < (now + c) + Second
  BY <1>1, <1>5, <1>7, <1>10, <1>11
<1> QED BY <1>4, <1>10, <1>12 DEF c

LEMMA AdmitTold ==
  ASSUME IInv, TInv, NEW b \in Buckets, Admit(b) PROVE TInv'
<1> DEFINE next == Len(granted[b]) + 1
<1>1. /\ granted' = [granted EXCEPT ![b] = Append(granted[b], now)]
      /\ log' = [log EXCEPT ![b] = InWindow(b) \cup {next}]
      /\ told' = [told EXCEPT ![b] = 0]
      /\ Cardinality(InWindow(b)) < b.limit
  BY DEF Admit
<1> HIDE DEF next
<1>2. /\ log'[b] = InWindow(b) \cup {next} /\ told'[b] = 0
      /\ \A c \in Buckets \ {b} : /\ granted'[c] = granted[c]
                                  /\ log'[c] = log[c] /\ told'[c] = told[c]
  BY <1>1 DEF IInv, Shape, TInv, ToldOK
<1>3. ListsBounded'
  <2>1. IsFiniteSet(log'[b]) /\ Cardinality(log'[b]) <= b.limit
    <3>1. IsFiniteSet(InWindow(b)) /\ Cardinality(InWindow(b)) \in Nat
      BY WindowFacts DEF TInv
    <3>2. /\ IsFiniteSet(InWindow(b) \cup {next})
          /\ Cardinality(InWindow(b) \cup {next}) =
               IF next \in InWindow(b) THEN Cardinality(InWindow(b))
               ELSE Cardinality(InWindow(b)) + 1
      BY <3>1, FS_AddElement
    <3>3. Cardinality(InWindow(b) \cup {next}) <= b.limit
      BY <1>1, <3>1, <3>2, LimitOfBucket
    <3> QED BY <1>2, <3>2, <3>3
  <2> QED BY <1>2, <2>1 DEF TInv, ListsBounded
<1>4. ToldOK'
  <2>1. told' \in [Buckets -> Nat]
    BY <1>1 DEF TInv, ToldOK
  <2>2. ASSUME NEW c \in Buckets, told'[c] # 0
        PROVE  \E n \in log'[c] : granted'[c][n] + Window < told'[c] + Second
    BY <1>2, <2>2 DEF TInv, ToldOK
  <2> QED BY <2>1, <2>2 DEF ToldOK
<1> QED BY <1>3, <1>4 DEF TInv

LEMMA RefuseTold ==
  ASSUME IInv, TInv, NEW b \in Buckets, Refuse(b) PROVE TInv'
<1>1. /\ log' = [log EXCEPT ![b] = InWindow(b)]
      /\ told' = [told EXCEPT ![b] = now + RetryAfter(b)]
      /\ granted' = granted /\ Cardinality(InWindow(b)) >= b.limit
  BY DEF Refuse
<1>2. /\ IsFiniteSet(InWindow(b)) /\ Cardinality(InWindow(b)) \in Nat
      /\ Cardinality(log[b]) \in Nat /\ Cardinality(InWindow(b)) <= Cardinality(log[b])
      /\ b.limit \in Nat \ {0}
  BY WindowFacts, LimitOfBucket DEF TInv
<1>3. InWindow(b) # {}
  <2>1. Cardinality({}) = 0
    BY FS_EmptySet
  <2>2. Cardinality(InWindow(b)) # 0
    BY <1>1, <1>2
  <2> QED BY <2>1, <2>2
<1>4. /\ now + RetryAfter(b) \in Nat
      /\ \E n \in InWindow(b) : granted[b][n] + Window < (now + RetryAfter(b)) + Second
  <2>1. now \in Nat /\ RetryAfter(b) \in Nat
    BY <1>3, RetryFacts DEF TInv, IInv, Shape
  <2> QED BY <1>3, <2>1, RetryFacts DEF TInv
<1>5. /\ log'[b] = InWindow(b) /\ told'[b] = now + RetryAfter(b)
      /\ \A c \in Buckets \ {b} : log'[c] = log[c] /\ told'[c] = told[c]
  BY <1>1 DEF IInv, Shape, TInv, ToldOK
<1>6. ListsBounded'
  <2>1. Cardinality(log[b]) <= b.limit
    BY DEF TInv, ListsBounded
  <2>2. IsFiniteSet(log'[b]) /\ Cardinality(log'[b]) <= b.limit
    BY <1>2, <1>5, <2>1
  <2> QED BY <1>5, <2>2 DEF TInv, ListsBounded
<1>7. ToldOK'
  <2>1. told' \in [Buckets -> Nat]
    BY <1>1, <1>4 DEF TInv, ToldOK
  <2>2. ASSUME NEW c \in Buckets, told'[c] # 0
        PROVE  \E n \in log'[c] : granted'[c][n] + Window < told'[c] + Second
    <3>1. CASE c = b
      BY <1>1, <1>4, <1>5, <3>1
    <3>2. CASE c # b
      BY <1>1, <1>5, <2>2, <3>2 DEF TInv, ToldOK
    <3> QED BY <3>1, <3>2
  <2> QED BY <2>1, <2>2 DEF ToldOK
<1> QED BY <1>6, <1>7 DEF TInv

(* What clients were told stays true, whatever is let through or refused.  *)
LEMMA ToldStep == IInv /\ TInv /\ [Next]_vars => TInv'
<1> SUFFICES ASSUME IInv, TInv, [Next]_vars PROVE TInv'
  OBVIOUS
<1>1. ASSUME NEW c \in Clients, NEW r \in Routes,
             Admit(Bucket(c, r)) \/ Refuse(Bucket(c, r))
      PROVE  TInv'
  BY <1>1, AdmitTold, RefuseTold DEF Buckets
<1>2. CASE Tick \/ UNCHANGED vars
  BY <1>2 DEF Tick, vars, TInv, ListsBounded, ToldOK
<1> QED BY <1>1, <1>2 DEF Next

LEMMA InitTold == Init => TInv
<1>1. IsFiniteSet({}) /\ Cardinality({}) = 0
  BY FS_EmptySet
<1> QED BY <1>1, LimitOfBucket DEF Init, TInv, ListsBounded, ToldOK

(* The lists name requests that were let through, and Retry-After is a     *)
(* number whatever the times in the list (is_allowed).                     *)
THEOREM LimiterTypeOK == Spec => []TypeOK
<1>1. IInv /\ TInv => TypeOK
  BY DEF IInv, Shape, TInv, ToldOK, TypeOK
<1> QED BY InitIInv, StepIInv, InitTold, ToldStep, <1>1, PTL DEF Spec

(* A client that was refused and waits a second longer than Retry-After    *)
(* says finds room, unless others were let through meanwhile (is_allowed,  *)
(* the header set by RateLimitMiddleware.dispatch).                        *)
THEOREM RetryAfterHolds == Spec => []RetryAfterNearlySuffices
<1>1. IInv /\ TInv => RetryAfterNearlySuffices
  <2> SUFFICES ASSUME IInv, TInv, NEW b \in Buckets, told[b] # 0, now >= told[b] + Second
               PROVE  Cardinality(InWindow(b)) < b.limit
    BY DEF RetryAfterNearlySuffices
  <2>1. PICK n \in log[b] : granted[b][n] + Window < told[b] + Second
    BY DEF TInv, ToldOK
  <2>2. granted[b][n] \in Nat /\ told[b] \in Nat /\ now \in Nat /\ Window \in Nat
        /\ Second \in Nat
    BY LimiterAssumption DEF IInv, Shape, TInv, ToldOK
  <2>3. ~(granted[b][n] + Window > now)
    BY <2>1, <2>2
  <2>4. InWindow(b) # log[b]
    BY <2>1, <2>3 DEF InWindow
  <2>5. /\ Cardinality(InWindow(b)) \in Nat /\ Cardinality(log[b]) \in Nat
        /\ Cardinality(InWindow(b)) <= Cardinality(log[b])
        /\ Cardinality(InWindow(b)) # Cardinality(log[b])
        /\ Cardinality(log[b]) <= b.limit /\ b.limit \in Nat
    BY <2>4, WindowFacts, LimitOfBucket DEF TInv, ListsBounded
  <2> QED BY <2>5
<1> QED BY InitIInv, StepIInv, InitTold, ToldStep, <1>1, PTL DEF Spec

-----------------------------------------------------------------------------
(* The pruned list and the whole history agree on the last window: what    *)
(* was pruned has left it for good.                                        *)
LEMMA WindowIsRecent ==
  ASSUME IInv, NEW b \in Buckets
  PROVE  InWindow(b) = Sliding!Recent(b)
BY DEF IInv, Shape, Listed, InWindow, Sliding!Recent

(* Rounded seconds, one at least, are no more than there are, unless one.  *)
LEMMA SecondsNotLate ==
  ASSUME NEW x \in Nat, NEW s \in Nat \ {0}
  PROVE  LET r == s * Max({1, x \div s})
         IN  r \in Nat /\ r >= s /\ (r > s => r <= x)
<1> DEFINE k == x \div s  m == Max({1, k})
<1>1. k \in Nat /\ s * k <= x
  OBVIOUS
<1> HIDE DEF k
<1>2. m \in {1, k} /\ m \in Nat /\ m >= 1
  <2>1. \E z \in {1, k} : \A y \in {1, k} : z >= y
    <3>1. CASE k >= 1
      BY <1>1, <3>1
    <3>2. CASE k = 0
      BY <3>2
    <3> QED BY <1>1, <3>1, <3>2
  <2>2. m \in {1, k}
    BY <2>1 DEF Max
  <2>3. m >= 1
    BY <1>1, MaxFacts
  <2> QED BY <1>1, <2>2, <2>3
<1> HIDE DEF m
<1>3. s * m \in Nat /\ s * m >= s
  <2>1. s * m >= s * 1
    BY <1>2, TimesMonotone
  <2> QED BY <1>2, <2>1, TimesMonotone
<1>4. s * m > s => s * m <= x
  <2>1. CASE m = 1
    BY <2>1
  <2>2. CASE m = k
    BY <1>1, <2>2
  <2> QED BY <1>2, <2>1, <2>2
<1> QED BY <1>3, <1>4 DEF m, k

(* What a refused client is told is what the specification of the window   *)
(* allows.                                                                 *)
LEMMA RefusedFairly ==
  ASSUME IInv, ListsBounded, NEW b \in Buckets, InWindow(b) # {}
  PROVE  Sliding!FairlyTold(b, now + RetryAfter(b))
<1> DEFINE T == {granted[b][n] : n \in InWindow(b)}
           x == Min(T) + Window - now
<1>1. now \in Nat /\ Window \in Nat /\ Second \in Nat \ {0}
  BY LimiterAssumption DEF IInv, Shape
<1>2. T \in SUBSET Nat /\ T # {}
  BY WindowFacts
<1>3. Min(T) \in T /\ \A y \in T : Min(T) <= y
  BY <1>2, MinFacts
<1>4. PICK o \in InWindow(b) : granted[b][o] = Min(T)
  BY <1>3
<1>5. Min(T) \in Nat /\ Min(T) + Window > now
  BY <1>2, <1>3, <1>4 DEF InWindow
<1>6. RetryAfter(b) = Second * Max({1, x \div Second})
  BY DEF RetryAfter
<1>7. \A n \in InWindow(b) : granted[b][n] \in Nat /\ Min(T) <= granted[b][n]
  BY <1>2, <1>3
<1> DEFINE oldest == Min(T)
<1> HIDE DEF T
<1>8. x \in Nat /\ now + x = oldest + Window
  BY <1>1, <1>5
<1> HIDE DEF x, oldest
<1> DEFINE c == RetryAfter(b)
<1>9. c \in Nat /\ c >= Second /\ (c > Second => c <= x)
  BY <1>1, <1>6, <1>8, SecondsNotLate
<1> HIDE DEF c
<1>10. now + c >= now + Second
  BY <1>1, <1>9
<1>11. \E n \in InWindow(b) : granted[b][n] + Window < (now + c) + Second
  BY RetryFacts DEF c
<1>12. ASSUME NEW n \in InWindow(b), now + c > now + Second
       PROVE  granted[b][n] + Window >= now + c
  <2>1. c <= x
    BY <1>1, <1>9, <1>12
  <2>2. oldest <= granted[b][n] /\ granted[b][n] \in Nat /\ oldest \in Nat
    BY <1>5, <1>7 DEF oldest
  <2> QED BY <1>1, <1>8, <1>9, <2>1, <2>2
<1> QED BY <1>10, <1>11, <1>12, WindowIsRecent DEF c, Sliding!FairlyTold

(* The specification of the window counts as this one does.                *)
LEMMA SameCount ==
  ASSUME NEW S PROVE Sliding!Cardinality(S) = Cardinality(S)
BY DEF Sliding!Cardinality, Cardinality, Sliding!IsFiniteSet, IsFiniteSet

(* Every step of the limiter is one of the window, or none.                *)
LEMMA WindowStep ==
  ASSUME IInv, TInv, [Next]_vars
  PROVE  [Sliding!Next]_(Sliding!windowVars)
<1> DEFINE LimitOf == [b \in Buckets |-> b.limit]
<1>1. ASSUME NEW b \in Buckets, Admit(b) PROVE Sliding!Grant(b)
  <2>1. InWindow(b) = Sliding!Recent(b)
    BY WindowIsRecent
  <2>2. Sliding!Cardinality(Sliding!Recent(b)) < LimitOf[b]
    BY <1>1, <2>1, SameCount DEF Admit
  <2> QED BY <1>1, <2>2 DEF Admit, Sliding!Grant
<1>2. ASSUME NEW b \in Buckets, Refuse(b) PROVE Sliding!Refuse(b)
  <2>1. /\ Cardinality(InWindow(b)) >= b.limit
        /\ told' = [told EXCEPT ![b] = now + RetryAfter(b)]
        /\ UNCHANGED <<now, granted>>
    BY <1>2 DEF Refuse
  <2>2. told'[b] = now + RetryAfter(b)
    BY <2>1 DEF TInv, ToldOK
  <2>3. InWindow(b) # {}
    <3>1. Cardinality({}) = 0 /\ b.limit \in Nat \ {0}
      BY FS_EmptySet, LimitOfBucket
    <3> QED BY <2>1, <3>1
  <2>4. Sliding!FairlyTold(b, told'[b])
    BY <2>2, <2>3, RefusedFairly DEF TInv
  <2>5. Sliding!Cardinality(Sliding!Recent(b)) >= LimitOf[b]
    BY <2>1, WindowIsRecent, SameCount
  <2> QED BY <2>1, <2>2, <2>4, <2>5 DEF Sliding!Refuse
<1>3. ASSUME NEW c \in Clients, NEW r \in Routes,
             Admit(Bucket(c, r)) \/ Refuse(Bucket(c, r))
      PROVE  Sliding!Next
  <2>1. Bucket(c, r) \in Buckets
    BY DEF Buckets
  <2> QED BY <1>1, <1>2, <1>3, <2>1 DEF Sliding!Next
<1>4. CASE Tick
  BY <1>4 DEF Tick, Sliding!Next, Sliding!Tick
<1>5. CASE UNCHANGED vars
  BY <1>5 DEF vars, Sliding!windowVars
<1> QED BY <1>3, <1>4, <1>5 DEF Next

(* The limiter, whatever it prunes, implements the sliding window over the *)
(* whole history (is_allowed).                                             *)
THEOREM LimiterImplementsWindow == Spec => ImplementsSlidingWindow
<1>1. Init => Sliding!Init
  BY DEF Init, Sliding!Init
<1>2. IInv /\ TInv /\ [Next]_vars => [Sliding!Next]_(Sliding!windowVars)
  BY WindowStep
<1> QED BY InitIInv, StepIInv, InitTold, ToldStep, <1>1, <1>2, PTL
        DEF Spec, ImplementsSlidingWindow, Sliding!Spec

-----------------------------------------------------------------------------
(* The lock and the calls of the pool agree.                               *)
PoolInv == PoolTypeOK /\ OneCreator

LEMMA PoolInitInv == PoolInit => PoolInv
<1> SUFFICES ASSUME PoolInit PROVE PoolInv
  OBVIOUS
<1>1. redisUp \in BOOLEAN /\ cooling \in BOOLEAN
  BY Zenon DEF PoolInit
<1>2. faults \in 0 .. MaxFaults
  BY PoolAssumption DEF PoolInit
<1> QED BY <1>1, <1>2, PoolAssumption DEF PoolInit, PoolInv, PoolTypeOK, OneCreator

(* A client that is free is a client.                                      *)
LEMMA CreateFacts ==
  ASSUME PoolTypeOK, NEW c \in Callers, Create(c)
  PROVE  /\ pool' \in RedisClients /\ pc' = [pc EXCEPT ![c] = "new"]
         /\ mine' = [mine EXCEPT ![c] = pool']
<1> DEFINE p == CHOOSE p \in Free : TRUE
<1>1. p \in Free
  BY DEF Create
<1>2. pool' = p /\ Goto(c, "new", p)
  BY DEF Create
<1> HIDE DEF p
<1> QED BY <1>1, <1>2 DEF Free, Goto

(* Forgetting the pool leaves the lock to who holds it.                    *)
LEMMA ForgetFacts ==
  ASSUME PoolTypeOK, NEW c \in Callers, Forget(c)
  PROVE  /\ pool' \in RedisClients \cup {NoPool}
         /\ mine' = [mine EXCEPT ![c] = pool']
         /\ pc' = [pc EXCEPT ![c] = IF lock = c THEN "new" ELSE "waiting"]
<1>1. CASE lock = c
  BY <1>1, CreateFacts DEF Forget
<1>2. CASE lock # c
  BY <1>2 DEF Forget, Goto
<1> QED BY <1>1, <1>2

(* Whoever creates, returns or waits, the lock stays with a caller inside. *)
LEMMA PoolStep == PoolInv /\ [PoolNext]_poolVars => PoolInv'
<1> SUFFICES ASSUME PoolInv, [PoolNext]_poolVars PROVE PoolInv'
  OBVIOUS
<1> USE PoolAssumption DEF PoolInv, PoolTypeOK, OneCreator, outside
<1>1. ASSUME NEW c \in Callers, Call(c) PROVE PoolInv'
  <2>1. CASE cooling
    BY <1>1, <2>1 DEF Call, Return, Goto
  <2>2. CASE ~cooling
    BY <1>1, <2>2 DEF Call, Goto
  <2> QED BY <2>1, <2>2
<1>2. ASSUME NEW c \in Callers, PingOk(c) PROVE PoolInv'
  BY <1>2 DEF PingOk, Return, Goto
<1>3. ASSUME NEW c \in Callers, PingFails(c) PROVE PoolInv'
  <2>1. CASE pool = NoPool
    BY <1>3, <2>1, ForgetFacts DEF PingFails
  <2>2. CASE pool # NoPool
    BY <1>3, <2>2 DEF PingFails, Goto
  <2> QED BY <2>1, <2>2
<1>4. ASSUME NEW c \in Callers, Closed(c) PROVE PoolInv'
  <2>1. faults' \in 0 .. MaxFaults /\ cut' \subseteq Callers
    BY <1>4 DEF Closed, CutOff
  <2> QED BY <1>4, <2>1, ForgetFacts DEF Closed
<1>5. ASSUME NEW c \in Callers, Acquire(c) PROVE PoolInv'
  <2>1. CASE pool = NoPool
    BY <1>5, <2>1, CreateFacts DEF Acquire
  <2>2. CASE pool # NoPool
    BY <1>5, <2>2 DEF Acquire, Goto
  <2> QED BY <2>1, <2>2
<1>6. ASSUME NEW c \in Callers, NewWorks(c) PROVE PoolInv'
  BY <1>6 DEF NewWorks, Return, Goto
<1>7. ASSUME NEW c \in Callers, NewFails(c) PROVE PoolInv'
  BY <1>7 DEF NewFails, Return, Goto
<1>8. CASE RedisDown \/ RedisReturns \/ CooldownEnds
  <2>1. UNCHANGED <<pool, lock, pc, mine, cut, answer>>
    BY <1>8 DEF RedisDown, RedisReturns, CooldownEnds, inside
  <2>2. redisUp' \in BOOLEAN /\ cooling' \in BOOLEAN
    BY <1>8, Zenon DEF RedisDown, RedisReturns, CooldownEnds, inside
  <2>3. faults' \in 0 .. MaxFaults
    BY <1>8 DEF RedisDown, RedisReturns, CooldownEnds, inside
  <2> QED BY <2>1, <2>2, <2>3
<1>9. CASE UNCHANGED poolVars
  BY <1>9 DEF poolVars
<1> QED BY <1>1, <1>2, <1>3, <1>4, <1>5, <1>6, <1>7, <1>8, <1>9 DEF PoolNext, Resume

(* The places of the callers, and the clients they refer to                *)
(* (get_redis_pool).                                                       *)
THEOREM PoolTypeCorrect == PoolSpec => []PoolTypeOK
<1>1. PoolInv => PoolTypeOK
  BY DEF PoolInv
<1> QED BY PoolInitInv, PoolStep, <1>1, PTL DEF PoolSpec

(* One call at a time creates a client, and no return leaves the lock      *)
(* behind (get_redis_pool).                                                *)
THEOREM OneCreatorHolds == PoolSpec => []OneCreator
<1>1. PoolInv => OneCreator
  BY DEF PoolInv
<1> QED BY PoolInitInv, PoolStep, <1>1, PTL DEF PoolSpec
================================================================================
