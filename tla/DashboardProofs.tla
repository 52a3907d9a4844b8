----------------------------- MODULE DashboardProofs -----------------------------
(***************************************************************************)
(* The dashboard, for any number of signals, categories, countries,        *)
(* overlapping loads, sessions and faults, in layers: operators of         *)
(* sequences and dossiers, SpinnerHasALoad, the types with the lengths of  *)
(* the lists, for which loads and cached answers hold stored signals only  *)
(* (TInv), the counting of copies (CInv), and what a step may take from    *)
(* the page.                                                               *)
(***************************************************************************)
EXTENDS Dashboard, FiniteSetTheorems, WellFoundedInduction, TLAPS

-----------------------------------------------------------------------------
(* Operators: minima, positions in a sequence, dossiers, Prepending.       *)

(* The lesser and the greater of two numbers.                              *)
LEMMA MinOfTwo ==
  ASSUME NEW a \in Nat, NEW b \in Nat
  PROVE  Min({a, b}) = IF a <= b THEN a ELSE b
<1>1. CASE a <= b
  <2>1. \A x \in {a, b} : (\A y \in {a, b} : x <= y) <=> x = a
    BY <1>1
  <2> QED BY <1>1, <2>1 DEF Min
<1>2. CASE ~(a <= b)
  <2>1. \A x \in {a, b} : (\A y \in {a, b} : x <= y) <=> x = b
    BY <1>2
  <2> QED BY <1>2, <2>1 DEF Min
<1> QED BY <1>1, <1>2

LEMMA MaxOfTwo ==
  ASSUME NEW a \in Nat, NEW b \in Nat
  PROVE  Max({a, b}) = IF a >= b THEN a ELSE b
<1>1. CASE a >= b
  <2>1. \A x \in {a, b} : (\A y \in {a, b} : x >= y) <=> x = a
    BY <1>1
  <2> QED BY <1>1, <2>1 DEF Max
<1>2. CASE ~(a >= b)
  <2>1. \A x \in {a, b} : (\A y \in {a, b} : x >= y) <=> x = b
    BY <1>2
  <2> QED BY <1>2, <2>1 DEF Max
<1> QED BY <1>1, <1>2

LEMMA BoundsAreNumbers ==
  /\ Copies \in Nat /\ Cap \in Nat /\ Fill \in Nat /\ MaxSockets \in Nat \ {0}
  /\ MaxLoads \in Nat \ {0} /\ MaxFetches \in Nat \ {0}
  /\ MaxChanges \in Nat /\ MaxFaults \in Nat
BY BoundsAssumption

(* A sequence without repetition that enumerates a set has its length.     *)
LEMMA EnumerationFacts ==
  ASSUME NEW S \in SUBSET Signals
  PROVE  IsFiniteSet(S) /\ Len(NewestFirst(S)) = Cardinality(S)
<1> DEFINE q == NewestFirst(S)
           n == Len(q)
<1>1. q \in Seq(Signals) /\ Range(q) = S /\ IsInjective(q)
  BY SignalsAssumption
<1>2. n \in Nat /\ DOMAIN q = 1..n
  BY <1>1
<1>3. q \in [1..n -> S]
  BY <1>1, <1>2 DEF Range
<1>4. q \in Bijection(1..n, S)
  BY <1>1, <1>2, <1>3 DEF Bijection, Injection, Surjection, Range
<1>5. ExistsBijection(1..n, S)
  BY <1>4 DEF ExistsBijection
<1>6. IsFiniteSet(S)
  BY <1>2, <1>5, FS_NatBijection
<1>7. Cardinality(S) = n
  BY <1>2, <1>5, FS_CountingElements
<1> QED BY <1>6, <1>7

(* The newest of a set: no more than asked for, each of the set and once.  *)
LEMMA NewestFacts ==
  ASSUME NEW k \in Nat, NEW S \in SUBSET Signals
  PROVE  /\ NewestOf(k, S) \in Seq(Signals) /\ IsInjective(NewestOf(k, S))
         /\ Len(NewestOf(k, S)) <= k /\ Len(NewestOf(k, S)) <= Cardinality(S)
         /\ Range(NewestOf(k, S)) \subseteq S
<1> DEFINE q == NewestFirst(S)
           n == Min({k, Len(q)})
<1>1. q \in Seq(Signals) /\ Range(q) = S /\ IsInjective(q)
  BY SignalsAssumption
<1>2. Len(q) \in Nat /\ n \in Nat /\ n <= k /\ n <= Len(q)
  BY <1>1, MinOfTwo
<1>3. NewestOf(k, S) = SubSeq(q, 1, n)
  BY DEF NewestOf
<1>4. Len(q) = Cardinality(S) /\ IsFiniteSet(S)
  BY EnumerationFacts
<1> HIDE DEF q, n
<1>6. /\ SubSeq(q, 1, n) \in Seq(Signals) /\ Len(SubSeq(q, 1, n)) = n
      /\ DOMAIN SubSeq(q, 1, n) = 1..n
      /\ \A i \in 1..n : SubSeq(q, 1, n)[i] = q[i]
  BY <1>1, <1>2
<1>7. IsInjective(SubSeq(q, 1, n))
  BY <1>1, <1>2, <1>6 DEF IsInjective
<1>8. Range(SubSeq(q, 1, n)) \subseteq S
  BY <1>1, <1>2, <1>6 DEF Range
<1> QED BY <1>2, <1>3, <1>4, <1>6, <1>7, <1>8

(* So is what a country is listed with.                                    *)
LEMMA ListingFacts ==
  ASSUME NEW c, NEW f, NEW rows \in SUBSET Signals
  PROVE  /\ Listing(c, f, rows) \in Seq(Signals) /\ IsInjective(Listing(c, f, rows))
         /\ Len(Listing(c, f, rows)) <= Cardinality(OfCountry(c, rows))
<1> DEFINE own == {s \in rows : Country[s] = c}
           match == {s \in own : Accepts(f, s)}
           short == IF Fill > Cardinality(match) THEN Fill - Cardinality(match) ELSE 0
           extra == Range(NewestOf(short, own \ match))
<1>1. Cardinality(match) \in Nat /\ Cardinality(own) \in Nat
  BY EnumerationFacts, FS_CardinalityType
<1>2. short \in Nat
  BY <1>1, BoundsAreNumbers
<1>3. extra \subseteq own
  <2> HIDE DEF short
  <2> QED BY <1>2, NewestFacts
<1>4. match \cup extra \subseteq Signals
  BY <1>3
<1>5. Listing(c, f, rows) = NewestOf(Cardinality(own), match \cup extra)
  BY DEF Listing
<1>6. own = OfCountry(c, rows)
  BY DEF OfCountry
<1> HIDE DEF own, match, short, extra
<1> QED BY <1>1, <1>4, <1>5, <1>6, NewestFacts

(* The least of a set of numbers, for arguments along a sequence.          *)
LEMMA LeastExists ==
  ASSUME NEW T \in SUBSET Nat, T # {}
  PROVE  \E m \in T : \A n \in T : m <= n
<1> DEFINE R == OpToRel(<, Nat)
<1>1. IsWellFoundedOn(R, Nat)
  BY NatLessThanWellFounded
<1>2. \A x, y \in Nat : x < y => <<x, y>> \in R
  BY DEF OpToRel
<1> HIDE DEF R
<1>3. PICK m \in T : \A n \in T : ~ (<<n, m>> \in R)
  BY <1>1, WFMin
<1>4. ASSUME NEW n \in T PROVE m <= n
  <2>1. m \in Nat /\ n \in Nat
    OBVIOUS
  <2>2. ~(n < m)
    BY <1>2, <1>3, <2>1, Zenon
  <2> QED BY <2>1, <2>2
<1> QED BY <1>4

(* The places at which a sequence holds a signal; Times counts them.       *)
Places(s, seq) == {k \in DOMAIN seq : seq[k] = s}

(* How often a signal is in a sequence.                                    *)
LEMMA TimesType ==
  ASSUME NEW A, NEW q \in Seq(A), NEW s
  PROVE  /\ IsFiniteSet(Places(s, q)) /\ Times(s, q) = Cardinality(Places(s, q))
         /\ Times(s, q) \in Nat
         /\ Times(s, q) > 0 <=> \E k \in DOMAIN q : q[k] = s
<1>1. Len(q) \in Nat /\ DOMAIN q = 1..Len(q)
  OBVIOUS
<1>2. IsFiniteSet(1..Len(q))
  BY <1>1, FS_Interval
<1>3. IsFiniteSet(Places(s, q))
  BY <1>1, <1>2, FS_Subset DEF Places
<1>4. Times(s, q) = Cardinality(Places(s, q))
  BY DEF Times, Places
<1>5. Cardinality(Places(s, q)) \in Nat /\ (Cardinality(Places(s, q)) = 0 <=> Places(s, q) = {})
  BY <1>3, FS_CardinalityType, FS_EmptySet
<1>6. Places(s, q) = {} <=> ~ \E k \in DOMAIN q : q[k] = s
  BY DEF Places
<1> QED BY <1>3, <1>4, <1>5, <1>6

(* Where each place of one sequence has a place of its own in another, the *)
(* signal is there at least as often.                                      *)
LEMMA TimesByInjection ==
  ASSUME NEW A, NEW p \in Seq(A), NEW q \in Seq(A), NEW s,
         NEW f \in Injection(Places(s, p), Places(s, q))
  PROVE  Times(s, p) <= Times(s, q)
BY TimesType, FS_Injection

(* A sequence without repetitions holds a signal at most once.             *)
LEMMA TimesOfInjective ==
  ASSUME NEW A, NEW q \in Seq(A), IsInjective(q), NEW s
  PROVE  Times(s, q) <= 1
<1>1. CASE Places(s, q) = {}
  BY <1>1, TimesType, FS_EmptySet
<1>2. CASE Places(s, q) # {}
  <2>1. PICK k \in Places(s, q) : TRUE
    BY <1>2
  <2>2. Places(s, q) = {k}
    BY <2>1 DEF Places, IsInjective
  <2>3. Times(s, q) = Cardinality(Places(s, q))
    BY TimesType
  <2>4. Cardinality({k}) = 1
    BY FS_Singleton
  <2> QED BY <2>2, <2>3, <2>4
<1> QED BY <1>1, <1>2

(* Appending adds one, where it is the signal.                             *)
LEMMA TimesOfAppend ==
  ASSUME NEW A, NEW q \in Seq(A), NEW t \in A, NEW s
  PROVE  Times(s, Append(q, t)) = IF s = t THEN Times(s, q) + 1 ELSE Times(s, q)
<1> DEFINE r == Append(q, t)
           n == Len(q) + 1
<1>1. /\ r \in Seq(A) /\ Len(q) \in Nat /\ DOMAIN q = 1..Len(q) /\ DOMAIN r = 1..n
      /\ r[n] = t /\ \A k \in 1..Len(q) : r[k] = q[k]
  OBVIOUS
<1>a. /\ Times(s, q) = Cardinality(Places(s, q)) /\ IsFiniteSet(Places(s, q))
      /\ Times(s, r) = Cardinality(Places(s, r))
  BY <1>1, TimesType
<1> HIDE DEF r
<1>2. n \notin Places(s, q)
  BY <1>1 DEF Places
<1>3. CASE s = t
  <2>1. Places(s, r) = Places(s, q) \cup {n}
    BY <1>1, <1>3 DEF Places
  <2> QED BY <1>a, <1>2, <1>3, <2>1, FS_AddElement DEF r
<1>4. CASE s # t
  <2>1. Places(s, r) = Places(s, q)
    BY <1>1, <1>4 DEF Places
  <2> QED BY <1>a, <1>4, <2>1 DEF r
<1> QED BY <1>3, <1>4

(* What a sequence begins with holds a signal no more often.               *)
LEMMA TimesOfBeginning ==
  ASSUME NEW A, NEW p \in Seq(A), NEW q \in Seq(A), NEW s,
         Len(p) <= Len(q), \A k \in DOMAIN p : p[k] = q[k]
  PROVE  Times(s, p) <= Times(s, q)
<1>1. Places(s, p) \subseteq Places(s, q)
  BY DEF Places
<1> QED BY <1>1, TimesType, FS_Subset

LEMMA TimesOfEmpty == \A s : Times(s, <<>>) = 0
BY FS_EmptySet DEF Times

LEMMA TimesOfOne ==
  ASSUME NEW A, NEW t \in A, NEW s
  PROVE  Times(s, <<t>>) = IF s = t THEN 1 ELSE 0
<1>1. <<>> \in Seq(A) /\ <<t>> = Append(<<>>, t)
  OBVIOUS
<1>2. Times(s, Append(<<>>, t)) = IF s = t THEN Times(s, <<>>) + 1 ELSE Times(s, <<>>)
  BY <1>1, TimesOfAppend
<1>3. Times(s, <<>>) = 0
  BY TimesOfEmpty
<1> QED BY <1>1, <1>2, <1>3

(* Cutting a signal off the front takes away one, where it is the signal.  *)
LEMMA TimesOfTail ==
  ASSUME NEW A, NEW q \in Seq(A), q # <<>>, NEW s
  PROVE  Times(s, q) = IF s = Head(q) THEN Times(s, Tail(q)) + 1 ELSE Times(s, Tail(q))
<1> DEFINE p == Tail(q)
<1>1. /\ p \in Seq(A) /\ Len(q) \in Nat \ {0} /\ Len(p) = Len(q) - 1
      /\ DOMAIN q = 1..Len(q) /\ DOMAIN p = 1..Len(p)
      /\ Head(q) = q[1] /\ \A k \in 1..Len(p) : p[k] = q[k + 1]
  OBVIOUS
<1>2. /\ Times(s, q) = Cardinality(Places(s, q)) /\ IsFiniteSet(Places(s, q))
      /\ Times(s, p) = Cardinality(Places(s, p)) /\ IsFiniteSet(Places(s, p))
  BY <1>1, TimesType
<1> HIDE DEF p
<1> DEFINE later == Places(s, q) \ {1}
           f == [k \in Places(s, p) |-> k + 1]
<1>3. f \in [Places(s, p) -> later]
  BY <1>1 DEF Places
<1>4. f \in Injection(Places(s, p), later)
  <2>1. \A k \in Places(s, p) : k \in Nat
    BY <1>1 DEF Places
  <2> QED BY <1>3, <2>1 DEF Injection, IsInjective
<1>5. \A k \in later : k - 1 \in Places(s, p) /\ f[k - 1] = k
  BY <1>1 DEF Places
<1>6. f \in Bijection(Places(s, p), later)
  BY <1>3, <1>4, <1>5 DEF Bijection, Surjection
<1>7. Cardinality(later) = Cardinality(Places(s, p))
  <2>1. ExistsBijection(Places(s, p), later)
    BY <1>6 DEF ExistsBijection
  <2> QED BY <1>2, <2>1, FS_Bijection
<1>8. Cardinality(later) = IF 1 \in Places(s, q) THEN Cardinality(Places(s, q)) - 1
                          ELSE Cardinality(Places(s, q))
  BY <1>2, FS_RemoveElement
<1>9. 1 \in Places(s, q) <=> s = Head(q)
  BY <1>1 DEF Places
<1>10. Cardinality(Places(s, q)) \in Nat
  BY <1>2, FS_CardinalityType
<1> QED BY <1>2, <1>7, <1>8, <1>9, <1>10 DEF p

(* What newsFeed may be: lists of signals, kept short.                     *)
Feeds == [Countries -> {Missing} \cup Seq(Signals)]
Longest(c, S) == Max({Cap, Cardinality(OfCountry(c, S))})
Short(d, S) == \A c \in Countries : d[c] # Missing => Len(d[c]) <= Longest(c, S)
In(s, d) == IF d[Country[s]] = Missing THEN 0 ELSE Times(s, d[Country[s]])

LEMMA LongestIsNumber ==
  ASSUME NEW c, NEW S \in SUBSET Signals
  PROVE  /\ Longest(c, S) \in Nat /\ Cap <= Longest(c, S)
         /\ Cardinality(OfCountry(c, S)) \in Nat
         /\ Cardinality(OfCountry(c, S)) <= Longest(c, S)
<1>1. OfCountry(c, S) \in SUBSET Signals
  BY DEF OfCountry
<1>2. Cardinality(OfCountry(c, S)) \in Nat
  BY <1>1, EnumerationFacts, FS_CardinalityType
<1> QED BY <1>2, BoundsAreNumbers, MaxOfTwo DEF Longest

(* More signals allow for longer lists.                                    *)
LEMMA LongestGrows ==
  ASSUME NEW c, NEW T \in SUBSET Signals, NEW S \in SUBSET T
  PROVE  /\ Cardinality(OfCountry(c, S)) <= Cardinality(OfCountry(c, T))
         /\ Longest(c, S) <= Longest(c, T)
<1>1. OfCountry(c, S) \subseteq OfCountry(c, T) /\ OfCountry(c, T) \in SUBSET Signals
  BY DEF OfCountry
<1>2. IsFiniteSet(OfCountry(c, T))
  BY <1>1, EnumerationFacts
<1>3. Cardinality(OfCountry(c, S)) <= Cardinality(OfCountry(c, T))
  BY <1>1, <1>2, FS_Subset
<1>4. Longest(c, S) <= Longest(c, T)
  BY <1>3, LongestIsNumber, BoundsAreNumbers, MaxOfTwo DEF Longest
<1> QED BY <1>3, <1>4

LEMMA ShortGrows ==
  ASSUME NEW d \in Feeds, NEW T \in SUBSET Signals, NEW S \in SUBSET T, Short(d, S)
  PROVE  Short(d, T)
<1> SUFFICES ASSUME NEW c \in Countries, d[c] # Missing PROVE Len(d[c]) <= Longest(c, T)
  BY DEF Short
<1>1. Len(d[c]) \in Nat /\ Len(d[c]) <= Longest(c, S)
  BY DEF Short, Feeds
<1>2. Longest(c, S) \in Nat /\ Longest(c, T) \in Nat
  BY LongestIsNumber
<1> QED BY <1>1, <1>2, LongestGrows

LEMMA CountryOfSignal == \A s \in Signals : Country[s] \in Countries
BY SignalsAssumption

(* Prepending keeps lists short, adds a signal once, and loses one only to *)
(* the limit.                                                              *)
LEMMA PrependedFacts ==
  ASSUME NEW d \in Feeds, NEW s \in Signals
  PROVE  /\ Prepended(s, d) \in Feeds
         /\ \A S \in SUBSET Signals : Short(d, S) => Short(Prepended(s, d), S)
         /\ \A c \in Countries : d[c] = Missing <=> Prepended(s, d)[c] = Missing
         /\ \A t \in Signals : In(t, Prepended(s, d)) <= In(t, d) + Times(t, <<s>>)
         /\ \A t \in Signals :
              In(t, d) > 0 \/ (d[Country[t]] # Missing /\ Len(d[Country[t]]) >= Cap) =>
                \/ In(t, Prepended(s, d)) > 0
                \/ Len(Prepended(s, d)[Country[t]]) >= Cap
<1> DEFINE e == Prepended(s, d)
           c == Country[s]
<1>1. c \in Countries /\ d[c] \in {Missing} \cup Seq(Signals)
  BY CountryOfSignal DEF Feeds
<1>2. \A t \in Signals : In(t, d) \in Nat /\ Times(t, <<s>>) \in Nat
  <2>1. SUFFICES ASSUME NEW t \in Signals PROVE In(t, d) \in Nat /\ Times(t, <<s>>) \in Nat
    OBVIOUS
  <2>2. d[Country[t]] \in {Missing} \cup Seq(Signals)
    BY CountryOfSignal DEF Feeds
  <2>3. <<s>> \in Seq(Signals)
    OBVIOUS
  <2> QED BY <2>2, <2>3, TimesType DEF In
<1>3. CASE d[c] = Missing
  <2>1. Prepended(s, d) = d
    BY <1>3 DEF Prepended
  <2>2. \A t \in Signals : In(t, d) <= In(t, d) + Times(t, <<s>>)
    BY <1>2
  <2> QED BY <2>1, <2>2
<1>4. CASE d[c] # Missing
  <2> DEFINE q == d[c]
             r == <<s>> \o q
             n == Min({Cap, Len(q) + 1})
             p == SubSeq(r, 1, n)
  <2>1. q \in Seq(Signals) /\ Len(q) \in Nat
    BY <1>1, <1>4
  <2>2. /\ n \in Nat /\ n <= Cap /\ n <= Len(q) + 1
        /\ n < Cap => n = Len(q) + 1
    BY <2>1, BoundsAreNumbers, MinOfTwo
  <2>3. /\ r \in Seq(Signals) /\ Len(r) = Len(q) + 1 /\ DOMAIN r = 1..Len(r)
        /\ Head(r) = s /\ Tail(r) = q /\ r # <<>>
    BY <2>1
  <2>4. e = [d EXCEPT ![c] = p]
    BY <1>4 DEF Prepended
  <2> HIDE DEF n, r
  <2>5. /\ p \in Seq(Signals) /\ Len(p) = n /\ DOMAIN p = 1..n
        /\ \A k \in 1..n : p[k] = r[k]
        /\ n = Len(r) => p = r
    BY <2>2, <2>3
  <2> HIDE DEF e, p
  <2>6. e[c] = p /\ e \in Feeds /\ \A b \in Countries \ {c} : e[b] = d[b]
    BY <1>1, <2>4, <2>5 DEF Feeds
  <2>7. p # Missing
    BY <2>5, MissingAssumption
  <2>8. ASSUME NEW S \in SUBSET Signals, Short(d, S) PROVE Short(e, S)
    <3>1. n <= Longest(c, S)
      BY <2>2, LongestIsNumber, BoundsAreNumbers
    <3> QED BY <2>5, <2>6, <2>8, <3>1 DEF Short
  <2>9. \A t \in Signals : Times(t, r) = Times(t, q) + Times(t, <<s>>)
    <3>1. SUFFICES ASSUME NEW t \in Signals
                   PROVE  Times(t, r) = Times(t, q) + Times(t, <<s>>)
      OBVIOUS
    <3>2. Times(t, r) = IF t = s THEN Times(t, q) + 1 ELSE Times(t, q)
      BY <2>3, TimesOfTail
    <3>3. Times(t, <<s>>) = IF t = s THEN 1 ELSE 0
      BY TimesOfOne
    <3>4. Times(t, q) \in Nat
      BY <2>1, TimesType
    <3> QED BY <3>2, <3>3, <3>4
  <2>10. \A t \in Signals : Times(t, p) <= Times(t, r)
    BY <2>2, <2>3, <2>5, TimesOfBeginning
  <2>11. ASSUME NEW t \in Signals, Country[t] = c
         PROVE  /\ In(t, e) <= In(t, d) + Times(t, <<s>>)
                /\ In(t, e) > 0 \/ Len(e[c]) >= Cap \/ In(t, d) = 0
    <3>1. In(t, d) = Times(t, q) /\ In(t, e) = Times(t, p)
      BY <1>4, <2>6, <2>7, <2>11 DEF In
    <3>2. Times(t, p) \in Nat /\ Times(t, q) \in Nat
      BY <2>1, <2>5, TimesType
    <3>3. In(t, e) <= In(t, d) + Times(t, <<s>>)
      BY <2>9, <2>10, <3>1
    <3>4. Len(e[c]) >= Cap \/ p = r
      BY <2>1, <2>2, <2>3, <2>5, <2>6, BoundsAreNumbers
    <3>5. p = r => In(t, e) >= In(t, d)
      BY <1>2, <2>9, <3>1, <3>2
    <3> QED BY <3>1, <3>2, <3>3, <3>4, <3>5
  <2>12. ASSUME NEW t \in Signals, Country[t] # c
         PROVE  In(t, e) = In(t, d) /\ e[Country[t]] = d[Country[t]]
    BY <2>6, <2>12, CountryOfSignal DEF In
  <2>13. Len(q) >= Cap => Len(e[c]) >= Cap
    BY <2>1, <2>2, <2>5, <2>6, BoundsAreNumbers
  <2>14. \A b \in Countries : d[b] = Missing <=> e[b] = Missing
    BY <1>4, <2>6, <2>7
  <2>15. \A t \in Signals : In(t, e) <= In(t, d) + Times(t, <<s>>)
    BY <1>2, <2>11, <2>12
  <2>16. ASSUME NEW t \in Signals,
                In(t, d) > 0 \/ (d[Country[t]] # Missing /\ Len(d[Country[t]]) >= Cap)
         PROVE  In(t, e) > 0 \/ Len(e[Country[t]]) >= Cap
    <3>1. CASE Country[t] = c
      BY <1>2, <2>11, <2>13, <2>16, <3>1
    <3>2. CASE Country[t] # c
      BY <2>12, <2>16, <3>2
    <3> QED BY <3>1, <3>2
  <2> QED BY <2>6, <2>8, <2>14, <2>15, <2>16 DEF e
<1> QED BY <1>3, <1>4

(* The recursion of Prepending has a solution, hence is one.               *)
LEMMA PrependingDef ==
  ASSUME NEW d, NEW q \in Seq(Signals)
  PROVE  LET after == Prepending(d, q)
         IN  /\ after[0] = d
             /\ \A n \in 1..Len(q) : after[n] = Prepended(q[n], after[n - 1])
<1> DEFINE Rec(g, m) ==
             g = [n \in 0..m |-> IF n = 0 THEN d ELSE Prepended(q[n], g[n - 1])]
           T == {m \in Nat : m <= Len(q) /\ ~ \E g : Rec(g, m)}
<1>1. Len(q) \in Nat
  OBVIOUS
<1>2. T = {}
  <2>1. SUFFICES ASSUME T # {} PROVE FALSE
    OBVIOUS
  <2>2. PICK m \in T : \A n \in T : m <= n
    BY <2>1, LeastExists
  <2>3. m \in Nat /\ m <= Len(q) /\ ~ \E g : Rec(g, m)
    BY <2>2
  <2>4. m # 0
    <3>1. SUFFICES ASSUME m = 0 PROVE FALSE
      OBVIOUS
    <3> DEFINE h == [n \in 0..m |-> d]
    <3>2. h = [n \in 0..m |-> IF n = 0 THEN d ELSE Prepended(q[n], h[n - 1])]
      BY <3>1
    <3> QED BY <2>3, <3>2
  <2>5. m - 1 \in Nat /\ m - 1 <= Len(q) /\ m - 1 \notin T
    <3>1. m - 1 \in Nat /\ m - 1 <= Len(q) /\ m - 1 < m
      BY <1>1, <2>3, <2>4
    <3>2. m - 1 \in T => m <= m - 1
      BY <2>2
    <3> HIDE DEF T
    <3> QED BY <2>3, <3>1, <3>2
  <2>6. PICK g : Rec(g, m - 1)
    BY <2>5
  <2> DEFINE h == [n \in 0..m |-> IF n = m THEN Prepended(q[m], g[m - 1]) ELSE g[n]]
  <2>7. ASSUME NEW n \in 0..m
        PROVE  h[n] = IF n = 0 THEN d ELSE Prepended(q[n], h[n - 1])
    <3>1. CASE n = m
      BY <2>3, <2>4, <2>7, <3>1
    <3>2. CASE n # m
      <4>1. n \in 0..(m - 1) /\ h[n] = g[n]
        BY <2>3, <2>4, <2>7, <3>2
      <4>2. g[n] = IF n = 0 THEN d ELSE Prepended(q[n], g[n - 1])
        BY <2>6, <4>1
      <4>3. n # 0 => h[n - 1] = g[n - 1]
        BY <2>3, <2>4, <4>1
      <4> QED BY <4>1, <4>2, <4>3
    <3> QED BY <3>1, <3>2
  <2>8. Rec(h, m)
    <3>1. h = [n \in 0..m |-> h[n]]
      OBVIOUS
    <3> HIDE DEF h
    <3> QED BY <2>7, <3>1
  <2> QED BY <2>3, <2>8
<1>3. \E g : Rec(g, Len(q))
  BY <1>1, <1>2
<1>4. Rec(Prepending(d, q), Len(q))
  BY <1>3 DEF Prepending
<1> HIDE DEF T
<1> QED BY <1>1, <1>4

(* Releasing a buffer keeps the feed in shape, shows no signal more often  *)
(* than it is in the buffer, and loses one only to the limit.              *)
LEMMA PrependingFacts ==
  ASSUME NEW d \in Feeds, NEW q \in Seq(Signals)
  PROVE  LET e == Prepending(d, q)[Len(q)]
         IN  /\ e \in Feeds
             /\ \A S \in SUBSET Signals : Short(d, S) => Short(e, S)
             /\ \A t \in Signals : In(t, e) <= In(t, d) + Times(t, q)
             /\ \A t \in Signals : In(t, d) > 0 =>
                  In(t, e) > 0 \/ (e[Country[t]] # Missing /\ Len(e[Country[t]]) >= Cap)
<1> DEFINE after == Prepending(d, q)
           first(n) == SubSeq(q, 1, n)
           Fine(n) ==
             /\ after[n] \in Feeds
             /\ \A S \in SUBSET Signals : Short(d, S) => Short(after[n], S)
             /\ \A t \in Signals : In(t, after[n]) <= In(t, d) + Times(t, first(n))
             /\ \A t \in Signals : In(t, d) > 0 =>
                  \/ In(t, after[n]) > 0
                  \/ (after[n][Country[t]] # Missing /\ Len(after[n][Country[t]]) >= Cap)
           T == {n \in Nat : n <= Len(q) /\ ~Fine(n)}
<1>1. Len(q) \in Nat
  OBVIOUS
<1>2. after[0] = d /\ \A n \in 1..Len(q) : after[n] = Prepended(q[n], after[n - 1])
  BY PrependingDef
<1> HIDE DEF after
<1>3. ASSUME NEW n \in 0..Len(q) PROVE first(n) \in Seq(Signals)
  BY <1>1
<1>4. \A b \in Feeds : \A t \in Signals : In(t, b) \in Nat
  BY CountryOfSignal, TimesType DEF Feeds, In
<1>5. Fine(0)
  <2>1. first(0) = <<>>
    BY <1>1
  <2>2. \A t \in Signals : Times(t, first(0)) = 0
    BY <2>1, TimesOfEmpty
  <2> HIDE DEF first
  <2>3. \A t \in Signals : In(t, d) <= In(t, d) + Times(t, first(0))
    BY <1>4, <2>2
  <2> QED BY <1>2, <2>3
<1>6. ASSUME NEW n \in 1..Len(q), Fine(n - 1) PROVE Fine(n)
  <2> DEFINE b == after[n - 1]
  <2>1. b \in Feeds /\ q[n] \in Signals /\ after[n] = Prepended(q[n], b)
    BY <1>1, <1>2, <1>6
  <2>2. /\ after[n] \in Feeds
        /\ \A S \in SUBSET Signals : Short(b, S) => Short(after[n], S)
        /\ \A c \in Countries : b[c] = Missing <=> after[n][c] = Missing
        /\ \A t \in Signals : In(t, after[n]) <= In(t, b) + Times(t, <<q[n]>>)
        /\ \A t \in Signals :
             In(t, b) > 0 \/ (b[Country[t]] # Missing /\ Len(b[Country[t]]) >= Cap) =>
               \/ In(t, after[n]) > 0
               \/ Len(after[n][Country[t]]) >= Cap
    BY <2>1, PrependedFacts
  <2>3. first(n) = Append(first(n - 1), q[n])
    BY <1>1
  <2>4. \A t \in Signals : In(t, after[n]) <= In(t, d) + Times(t, first(n))
    <3>1. SUFFICES ASSUME NEW t \in Signals
                   PROVE  In(t, after[n]) <= In(t, d) + Times(t, first(n))
      OBVIOUS
    <3>2. first(n - 1) \in Seq(Signals) /\ n - 1 \in 0..Len(q)
      BY <1>1, <1>3
    <3> HIDE DEF first
    <3>3. Times(t, first(n)) = IF t = q[n] THEN Times(t, first(n - 1)) + 1
                               ELSE Times(t, first(n - 1))
      BY <2>1, <2>3, <3>2, TimesOfAppend
    <3>4. Times(t, <<q[n]>>) = IF t = q[n] THEN 1 ELSE 0
      BY <2>1, TimesOfOne
    <3>5. Times(t, first(n - 1)) \in Nat
      BY <3>2, TimesType
    <3>6. In(t, b) <= In(t, d) + Times(t, first(n - 1))
      BY <1>6
    <3>7. In(t, after[n]) <= In(t, b) + Times(t, <<q[n]>>)
      BY <2>2
    <3>8. In(t, after[n]) \in Nat /\ In(t, b) \in Nat /\ In(t, d) \in Nat
      BY <1>4, <2>1, <2>2
    <3> QED BY <3>3, <3>4, <3>5, <3>6, <3>7, <3>8
  <2>5. ASSUME NEW t \in Signals, In(t, d) > 0
        PROVE  \/ In(t, after[n]) > 0
               \/ (after[n][Country[t]] # Missing /\ Len(after[n][Country[t]]) >= Cap)
    <3>0. \A s \in Signals : In(s, d) > 0 =>
            In(s, b) > 0 \/ (b[Country[s]] # Missing /\ Len(b[Country[s]]) >= Cap)
      BY <1>6
    <3> HIDE DEF b
    <3>1. In(t, b) > 0 \/ (b[Country[t]] # Missing /\ Len(b[Country[t]]) >= Cap)
      BY <2>5, <3>0
    <3>2. CASE In(t, after[n]) > 0
      BY <3>2
    <3>3. CASE ~(In(t, after[n]) > 0) /\ Len(after[n][Country[t]]) >= Cap
      <4>1. b[Country[t]] # Missing
        BY <3>1 DEF In
      <4> QED BY <2>2, <3>3, <4>1, CountryOfSignal
    <3> QED BY <2>2, <3>1, <3>2, <3>3
  <2> HIDE DEF first
  <2> QED BY <1>6, <2>2, <2>4, <2>5
<1>7. T = {}
  <2>1. SUFFICES ASSUME T # {} PROVE FALSE
    OBVIOUS
  <2> HIDE DEF Fine
  <2>2. PICK m \in T : \A n \in T : m <= n
    BY <2>1, LeastExists
  <2>3. m \in Nat /\ m <= Len(q) /\ ~Fine(m)
    BY <2>2
  <2>4. m # 0
    BY <1>5, <2>3
  <2>5. m - 1 \in Nat /\ m - 1 <= Len(q) /\ ~(m <= m - 1) /\ m \in 1..Len(q)
    BY <1>1, <2>3, <2>4
  <2>6. Fine(m - 1)
    BY <2>2, <2>5
  <2> QED BY <1>6, <2>3, <2>5, <2>6
<1>8. Fine(Len(q))
  <2> HIDE DEF Fine
  <2> QED BY <1>1, <1>7
<1>9. first(Len(q)) = q
  BY <1>1
<1> DEFINE e == after[Len(q)]
<1>10. \A t \in Signals : In(t, e) <= In(t, d) + Times(t, q)
  <2> HIDE DEF first
  <2> QED BY <1>8, <1>9
<1>11. e \in Feeds /\ \A S \in SUBSET Signals : Short(d, S) => Short(e, S)
  BY <1>8
<1>12. \A t \in Signals : In(t, d) > 0 =>
         In(t, e) > 0 \/ (e[Country[t]] # Missing /\ Len(e[Country[t]]) >= Cap)
  BY <1>8
<1> QED BY <1>10, <1>11, <1>12 DEF after

-----------------------------------------------------------------------------
(* Every slot with a load is what the spinner turns for.                   *)

(* What the backend stores and caches are sets of signals.                 *)
BackendOK ==
  /\ stored \subseteq Signals
  /\ cached \in [Filters -> {Uncached} \cup SUBSET Signals]

(* Every slot is free or holds a load of a filter.                         *)
LoadsOK ==
  /\ load \in [Slots -> {Free} \cup Load] /\ loading \in BOOLEAN
  /\ filter \in Filters

(* The inductive invariant of the spinner.                                 *)
IInv == BackendOK /\ LoadsOK /\ SpinnerHasALoad

-----------------------------------------------------------------------------
LEMMA InitInv == Init => IInv
<1> SUFFICES ASSUME Init PROVE IInv
  OBVIOUS
<1> DEFINE first == [cat |-> All, at |-> "asked", rows |-> {}]
<1>1. 1 \in Slots
  BY BoundsAssumption DEF Slots
<1>2. first \in Load
  BY FiltersAssumption DEF Load
<1>3. BackendOK
  BY SignalsAssumption DEF Init, BackendOK
<1>4. LoadsOK
  BY <1>2, FiltersAssumption DEF Init, LoadsOK
<1>5. load[1] = first
  BY <1>1 DEF Init
<1>6. SpinnerHasALoad
  BY <1>1, <1>2, <1>5, FreeAssumption DEF SpinnerHasALoad
<1> QED BY <1>3, <1>4, <1>6 DEF IInv

-----------------------------------------------------------------------------
(* A load begins, whatever the others do: the flag is set.                 *)
LEMMA StartedInv ==
  ASSUME IInv, NEW i \in Slots, NEW f \in Filters, Started(i, f), filter' \in Filters,
         UNCHANGED server
  PROVE  IInv'
<1> DEFINE r == [cat |-> f, at |-> "asked", rows |-> {}]
<1>1. r \in Load
  BY DEF Load
<1>2. load' = [load EXCEPT ![i] = r] /\ loading' = TRUE
  BY DEF Started
<1>3. BackendOK'
  BY DEF IInv, BackendOK, server
<1>4. LoadsOK'
  BY <1>1, <1>2 DEF IInv, LoadsOK
<1>5. load'[i] = r
  BY <1>2 DEF IInv, LoadsOK
<1>6. SpinnerHasALoad'
  BY <1>1, <1>5, FreeAssumption DEF SpinnerHasALoad
<1> QED BY <1>3, <1>4, <1>6 DEF IInv

(* A load ends, whatever the others do: the flag is cleared.               *)
LEMMA EndedInv ==
  ASSUME IInv, NEW i \in Slots, Ended(i), UNCHANGED <<server, filter>>
  PROVE  IInv'
<1>1. load' = [load EXCEPT ![i] = Free] /\ loading' = FALSE
  BY DEF Ended
<1>2. LoadsOK' /\ SpinnerHasALoad'
  BY <1>1 DEF IInv, LoadsOK, SpinnerHasALoad
<1> QED BY <1>2 DEF IInv, BackendOK, server

(* A load goes on: its slot stays taken.                                   *)
LEMMA GoesOnInv ==
  ASSUME IInv, BackendOK', NEW i \in Slots, NEW r \in Load, load[i] # Free,
         load' = [load EXCEPT ![i] = r], UNCHANGED <<loading, filter>>
  PROVE  IInv'
<1>1. LoadsOK'
  BY DEF IInv, LoadsOK
<1>2. \A j \in Slots : load[j] # Free => load'[j] # Free
  BY FreeAssumption DEF IInv, LoadsOK
<1>3. SpinnerHasALoad'
  BY <1>2 DEF IInv, SpinnerHasALoad
<1> QED BY <1>1, <1>3 DEF IInv

LEMMA AnswerInv == ASSUME IInv, NEW i \in Slots, Answer(i) PROVE IInv'
<1> DEFINE f == load[i].cat
           rows == IF cached[f] = Uncached THEN stored ELSE cached[f]
           at == IF Is(i, "asked") THEN "answered" ELSE "refreshed"
           r == [cat |-> f, at |-> at, rows |-> rows]
<1>1. load[i] # Free /\ f \in Filters
  BY DEF Answer, Is, IInv, LoadsOK, Load
<1>2. rows \in SUBSET Signals
  BY <1>1 DEF IInv, BackendOK
<1>3. r \in Load
  BY <1>1, <1>2 DEF Load
<1>4. /\ load' = [load EXCEPT ![i] = r] /\ cached' = [cached EXCEPT ![f] = rows]
      /\ UNCHANGED <<stored, loading, filter>>
  BY DEF Answer, choice
<1>5. BackendOK'
  BY <1>2, <1>4 DEF IInv, BackendOK
<1> QED BY <1>1, <1>3, <1>4, <1>5, GoesOnInv

LEMMA HydrateInv == ASSUME IInv, NEW i \in Slots, Hydrate(i) PROVE IInv'
<1> DEFINE r == [load[i] EXCEPT !.at = "refreshing", !.rows = {}]
<1>1. load[i] # Free /\ load[i] \in Load
  BY DEF Hydrate, Is, IInv, LoadsOK
<1>2. r \in Load
  BY <1>1 DEF Load
<1>3. load' = [load EXCEPT ![i] = r]
  BY DEF Hydrate
<1>4. BackendOK'
  BY DEF Hydrate, IInv, BackendOK, server
<1> QED BY <1>1, <1>2, <1>3, <1>4, GoesOnInv DEF Hydrate, choice

(* The steps that concern neither the loads nor the filter.                *)
LEMMA ElsewhereInv ==
  ASSUME IInv, BackendOK', UNCHANGED <<loads, filter>> PROVE IInv'
BY DEF IInv, LoadsOK, SpinnerHasALoad, loads

LEMMA BackendInv ==
  ASSUME IInv,
         \/ UNCHANGED server
         \/ \E s \in Signals : Store(s) \/ Publish(s)
         \/ \E f \in Filters : Expire(f)
  PROVE  BackendOK'
<1>1. CASE UNCHANGED server
  BY <1>1 DEF IInv, BackendOK, server
<1>2. ASSUME NEW s \in Signals, Store(s) \/ Publish(s) PROVE BackendOK'
  BY <1>2 DEF IInv, BackendOK, Store, Publish
<1>3. ASSUME NEW f \in Filters, Expire(f) PROVE BackendOK'
  BY <1>3 DEF IInv, BackendOK, Expire
<1> QED BY <1>1, <1>2, <1>3

-----------------------------------------------------------------------------
LEMMA StepInv == IInv /\ [Next]_vars => IInv'
<1> SUFFICES ASSUME IInv, [Next]_vars PROVE IInv'
  OBVIOUS
<1>1. filter \in Filters
  BY DEF IInv, LoadsOK
<1>2. ASSUME NEW i \in Slots, Refresh(i) \/ RenewUser(i) PROVE IInv'
  <2>1. Started(i, filter) /\ UNCHANGED <<server, filter>>
    BY <1>2 DEF Refresh, RenewUser, choice
  <2> QED BY <1>1, <2>1, StartedInv
<1>3. ASSUME NEW i \in Slots, NEW f \in Filters, ChangeFilter(i, f) PROVE IInv'
  BY <1>3, StartedInv DEF ChangeFilter
<1>4. ASSUME NEW i \in Slots, HydrateAgain(i) \/ RefreshRefused(i) \/ LoadFails(i)
      PROVE  IInv'
  <2>1. Ended(i) /\ UNCHANGED <<server, filter>>
    BY <1>4 DEF HydrateAgain, RefreshRefused, LoadFails, choice
  <2> QED BY <2>1, EndedInv
<1>5. ASSUME NEW i \in Slots, Answer(i) \/ Hydrate(i) PROVE IInv'
  BY <1>5, AnswerInv, HydrateInv
<1>6. ASSUME NEW c \in Countries, SelectCountry(c) \/ FetchAnswered(c) \/ FetchFails(c)
      PROVE  IInv'
  <2>1. UNCHANGED <<server, loads, filter>>
    BY <1>6 DEF SelectCountry, FetchAnswered, FetchFails, choice
  <2> QED BY <2>1, BackendInv, ElsewhereInv
<1>7. ASSUME NEW n \in Sockets, Connect(n) \/ Cut(n) \/ Receive(n) PROVE IInv'
  <2>1. UNCHANGED <<server, loads, filter>>
    BY <1>7 DEF Connect, Cut, Receive, choice
  <2> QED BY <2>1, BackendInv, ElsewhereInv
<1>8. ASSUME NEW s \in Signals, Publish(s) \/ Store(s) PROVE IInv'
  <2>1. UNCHANGED <<loads, filter>>
    BY <1>8 DEF Publish, Store, choice
  <2> QED BY <1>8, <2>1, BackendInv, ElsewhereInv
<1>9. ASSUME NEW f \in Filters, Expire(f) PROVE IInv'
  <2>1. UNCHANGED <<loads, filter>>
    BY <1>9 DEF Expire, choice
  <2> QED BY <1>9, <2>1, BackendInv, ElsewhereInv
<1>10. CASE Scroll \/ Render \/ Release \/ UNCHANGED vars
  <2>1. UNCHANGED <<server, loads, filter>>
    BY <1>10 DEF Scroll, Render, Release, vars, choice
  <2> QED BY <2>1, BackendInv, ElsewhereInv
<1> QED BY <1>2, <1>3, <1>4, <1>5, <1>6, <1>7, <1>8, <1>9, <1>10 DEF Next, LoadGoesOn

(* However loads overlap, fail or are refused, the page shows that it is   *)
(* loading only while one is under way (loadFeed of App.tsx).              *)
THEOREM SpinnerStops == Spec => []SpinnerHasALoad
<1>1. IInv => SpinnerHasALoad
  BY DEF IInv
<1> QED BY <1>1, InitInv, StepInv, PTL DEF Spec

-----------------------------------------------------------------------------
(* Types.                                                                  *)

(* What is cached and what loads were answered has been stored.            *)
AnswersOK ==
  /\ \A f \in Filters : cached[f] # Uncached => cached[f] \subseteq stored
  /\ \A i \in Slots : load[i] # Free => load[i].rows \subseteq stored

(* Dossiers are short lists of signals, fetches are counted.               *)
DossiersOK ==
  /\ feed \in Feeds /\ Short(feed, stored)
  /\ fetches \in [Countries -> 0..MaxFetches] /\ selected \in Countries

(* Only pushed signals travel on the wires.                                *)
MessagesOK ==
  /\ unpublished \subseteq Pushed
  /\ socket \in [Sockets -> {"none", "waiting", "open"}]
  /\ wire \in [Sockets -> Seq(Pushed)]

(* What the page keeps beside its dossiers.                                *)
ReaderOK ==
  /\ buffer \in Seq(Pushed) /\ badge \in Seq(Pushed) /\ scrolled \in BOOLEAN
  /\ changes \in 0..MaxChanges /\ faults \in 0..MaxFaults

(* The type invariant, made inductive.                                     *)
TInv == IInv /\ AnswersOK /\ DossiersOK /\ MessagesOK /\ ReaderOK

LEMMA TypeFromTInv == TInv => TypeOK
BY DEF TInv, IInv, BackendOK, LoadsOK, DossiersOK, MessagesOK, ReaderOK, TypeOK, Feeds

LEMMA InitTInv == Init => TInv
<1> SUFFICES ASSUME Init PROVE TInv
  OBVIOUS
<1>1. IInv
  BY InitInv
<1>2. DossiersOK
  <2>1. selected \in Countries
    BY SignalsAssumption DEF Init
  <2>2. fetches \in [Countries -> 0..MaxFetches]
    BY BoundsAreNumbers DEF Init
  <2>3. feed \in Feeds /\ Short(feed, stored)
    BY DEF Init, Feeds, Short
  <2> QED BY <2>1, <2>2, <2>3 DEF DossiersOK
<1>3. MessagesOK
  BY DEF Init, MessagesOK
<1>4. ReaderOK
  <2>1. changes \in 0..MaxChanges /\ faults \in 0..MaxFaults
    BY BoundsAreNumbers DEF Init
  <2>2. buffer = <<>> /\ badge = <<>> /\ scrolled \in BOOLEAN
    BY DEF Init
  <2> QED BY <2>1, <2>2 DEF ReaderOK
<1>5. AnswersOK
  <2>1. \A i \in Slots : load[i] # Free => load[i].rows = {}
    BY DEF Init
  <2> QED BY <2>1 DEF Init, AnswersOK
<1> QED BY <1>1, <1>2, <1>3, <1>4, <1>5 DEF TInv

(* The bounds count down.                                                  *)
LEMMA BoundsKept ==
  ASSUME ReaderOK,
         \/ Changes /\ UNCHANGED faults
         \/ Faults /\ UNCHANGED changes
         \/ UNCHANGED bounds
  PROVE  changes' \in 0..MaxChanges /\ faults' \in 0..MaxFaults
BY BoundsAreNumbers DEF ReaderOK, Changes, Faults, bounds

(* The effect asks once more for the selected country.                     *)
LEMMA FetchingFacts ==
  ASSUME NEW new, NEW c \in Countries, NEW p \in [Countries -> 0..MaxFetches]
  PROVE  /\ Fetching(new, c, p) \in [Countries -> 0..MaxFetches]
         /\ \A d \in Countries : new[d] # Missing => Fetching(new, c, p)[d] = p[d]
<1>1. p[c] + 1 \in Nat /\ Min({p[c] + 1, MaxFetches}) \in 0..MaxFetches
  BY BoundsAreNumbers, MinOfTwo
<1> QED BY <1>1 DEF Fetching

LEMMA FinishedFacts ==
  ASSUME DossiersOK, NEW c \in Countries, fetches[c] > 0
  PROVE  /\ Finished(c) \in [Countries -> 0..MaxFetches] /\ Finished(c)[c] < fetches[c]
BY BoundsAreNumbers DEF DossiersOK, Finished

LEMMA UpdatedOK ==
  ASSUME DossiersOK, NEW new \in Feeds, Short(new, stored), Updated(new),
         UNCHANGED <<selected, stored>>
  PROVE  DossiersOK'
BY FetchingFacts DEF DossiersOK, Updated, Short

LEMMA HydratedOK ==
  ASSUME TInv, NEW i \in Slots, load[i] # Free, Hydrated(i),
         UNCHANGED <<selected, stored>>
  PROVE  DossiersOK'
<1> DEFINE new == [c \in Countries |-> IF c \in Known
                                       THEN Listing(c, load[i].cat, load[i].rows)
                                       ELSE Missing]
<1>1. /\ load[i].rows \in SUBSET Signals /\ stored \in SUBSET Signals
      /\ load[i].rows \in SUBSET stored
  BY DEF TInv, IInv, LoadsOK, Load, BackendOK, AnswersOK
<1>2. new \in Feeds /\ Short(new, stored)
  <2>1. \A c \in Countries : /\ Listing(c, load[i].cat, load[i].rows) \in Seq(Signals)
                             /\ Len(Listing(c, load[i].cat, load[i].rows))
                                  <= Cardinality(OfCountry(c, load[i].rows))
    BY <1>1, ListingFacts
  <2>2. \A c \in Countries : new[c] \in {Missing} \cup Seq(Signals)
    BY <2>1
  <2>3. \A c \in Countries : new[c] # Missing =>
          Len(new[c]) <= Cardinality(OfCountry(c, load[i].rows))
    BY <2>1
  <2> HIDE DEF new
  <2>4. new \in Feeds
    <3>1. new = [c \in Countries |-> new[c]]
      BY DEF new
    <3> QED BY <2>2, <3>1 DEF Feeds
  <2>5. Short(new, stored)
    <3>1. SUFFICES ASSUME NEW c \in Countries, new[c] # Missing
                   PROVE  Len(new[c]) <= Longest(c, stored)
      BY DEF Short
    <3>2. Len(new[c]) \in Nat /\ Len(new[c]) <= Cardinality(OfCountry(c, load[i].rows))
      BY <2>2, <2>3, <3>1
    <3>3. Cardinality(OfCountry(c, load[i].rows)) \in Nat /\ Longest(c, stored) \in Nat
      BY <1>1, LongestIsNumber
    <3>4. /\ Cardinality(OfCountry(c, load[i].rows)) <= Longest(c, load[i].rows)
          /\ Longest(c, load[i].rows) <= Longest(c, stored)
          /\ Longest(c, load[i].rows) \in Nat
      BY <1>1, LongestIsNumber, LongestGrows
    <3> QED BY <3>2, <3>3, <3>4
  <2> QED BY <2>4, <2>5
<1>3. Updated(new)
  BY DEF Hydrated
<1> HIDE DEF new
<1> QED BY <1>2, <1>3, UpdatedOK DEF TInv

LEMMA FetchAnsweredOK ==
  ASSUME TInv, NEW c \in Countries, FetchAnswered(c) PROVE DossiersOK'
<1>1. PICK rows \in SUBSET {s \in stored : Country[s] = c} :
        LET new == [feed EXCEPT ![c] = NewestOf(Cardinality(rows), rows)]
        IN  feed' = new /\ fetches' = Fetching(new, selected, Finished(c))
  BY DEF FetchAnswered
<1> DEFINE q == NewestOf(Cardinality(rows), rows)
           new == [feed EXCEPT ![c] = q]
<1>2. /\ rows \in SUBSET Signals /\ stored \in SUBSET Signals
      /\ rows \subseteq OfCountry(c, stored) /\ OfCountry(c, stored) \in SUBSET Signals
  BY DEF TInv, IInv, BackendOK, OfCountry
<1>3. q \in Seq(Signals) /\ Len(q) <= Cardinality(OfCountry(c, stored))
  <2>1. Cardinality(rows) \in Nat /\ Cardinality(rows) <= Cardinality(OfCountry(c, stored))
    BY <1>2, EnumerationFacts, FS_CardinalityType, FS_Subset
  <2>2. q \in Seq(Signals) /\ Len(q) <= Cardinality(rows)
    BY <1>2, <2>1, NewestFacts
  <2> QED BY <1>2, <2>1, <2>2, LongestIsNumber
<1>4. feed' = new /\ fetches' = Fetching(new, selected, Finished(c))
  BY <1>1
<1> HIDE DEF q
<1>5. new \in Feeds
  BY <1>3 DEF TInv, DossiersOK, Feeds
<1>6. Short(new, stored)
  <2>1. SUFFICES ASSUME NEW d \in Countries, new[d] # Missing
                 PROVE  Len(new[d]) <= Longest(d, stored)
    BY DEF Short
  <2>2. CASE d = c
    <3>1. new[d] = q /\ Len(q) \in Nat
      BY <1>3, <2>2 DEF TInv, DossiersOK, Feeds
    <3> QED BY <1>2, <1>3, <2>2, <3>1, LongestIsNumber
  <2>3. CASE d # c
    BY <2>1, <2>3 DEF TInv, DossiersOK, Feeds, Short
  <2> QED BY <2>2, <2>3
<1>7. Finished(c) \in [Countries -> 0..MaxFetches] /\ selected \in Countries
  BY FinishedFacts DEF TInv, DossiersOK, FetchAnswered
<1>8. fetches' \in [Countries -> 0..MaxFetches]
  BY <1>4, <1>7, FetchingFacts
<1>9. UNCHANGED <<selected, stored>>
  BY DEF FetchAnswered, choice, server
<1> HIDE DEF new
<1> QED BY <1>4, <1>5, <1>6, <1>7, <1>8, <1>9 DEF DossiersOK, Short

-----------------------------------------------------------------------------
(* Messages and the reader's buffer hold pushed signals.                   *)
LEMMA PublishOK ==
  ASSUME MessagesOK, NEW s \in Signals, Publish(s) PROVE MessagesOK'
<1>1. s \in Pushed /\ Copies \in Nat
  BY BoundsAreNumbers DEF Publish, MessagesOK
<1>2. [k \in 1..Copies |-> s] \in Seq(Pushed)
  BY <1>1
<1>3. \A n \in Sockets : wire[n] \in Seq(Pushed)
  BY DEF MessagesOK
<1>4. \A n \in Sockets : wire[n] \o [k \in 1..Copies |-> s] \in Seq(Pushed)
  BY <1>2, <1>3
<1>5. wire' \in [Sockets -> Seq(Pushed)]
  BY <1>3, <1>4 DEF Publish
<1> QED BY <1>5 DEF MessagesOK, Publish

LEMMA ReceiveOK ==
  ASSUME TInv, NEW n \in Sockets, Receive(n)
  PROVE  DossiersOK' /\ MessagesOK' /\ ReaderOK'
<1> DEFINE s == Head(wire[n])
<1>1. wire[n] \in Seq(Pushed) /\ wire[n] # <<>>
  BY DEF TInv, MessagesOK, Receive
<1>2. s \in Pushed /\ s \in Signals /\ Tail(wire[n]) \in Seq(Pushed)
  BY <1>1, SignalsAssumption
<1>3. /\ wire' = [wire EXCEPT ![n] = Tail(wire[n])]
      /\ buffer' = IF Accepts(filter, s) /\ scrolled THEN Append(buffer, s) ELSE buffer
      /\ IF Accepts(filter, s) /\ ~scrolled /\ feed[Country[s]] # Missing
         THEN Updated(Prepended(s, feed)) ELSE UNCHANGED view
      /\ UNCHANGED <<server, socket, choice, badge, scrolled, loads, bounds>>
  BY DEF Receive
<1> HIDE DEF s
<1>4. MessagesOK'
  BY <1>2, <1>3 DEF TInv, MessagesOK, server
<1>5. ReaderOK'
  <2>1. buffer' \in Seq(Pushed)
    BY <1>2, <1>3 DEF TInv, ReaderOK
  <2> QED BY <1>3, <2>1 DEF TInv, ReaderOK, bounds
<1>6. DossiersOK'
  <2>1. /\ feed \in Feeds /\ Short(feed, stored) /\ DossiersOK /\ stored \in SUBSET Signals
        /\ UNCHANGED <<selected, stored>>
    BY <1>3 DEF TInv, IInv, BackendOK, DossiersOK, choice, server
  <2>2. Prepended(s, feed) \in Feeds /\ Short(Prepended(s, feed), stored)
    BY <1>2, <2>1, PrependedFacts
  <2>3. CASE Updated(Prepended(s, feed))
    BY <2>1, <2>2, <2>3, UpdatedOK
  <2>4. CASE UNCHANGED view
    BY <2>1, <2>4 DEF DossiersOK, view, Short
  <2> QED BY <1>3, <2>3, <2>4
<1> QED BY <1>4, <1>5, <1>6

LEMMA ReleaseOK ==
  ASSUME TInv, Release PROVE DossiersOK' /\ ReaderOK'
<1>1. /\ badge \in Seq(Signals) /\ feed \in Feeds /\ Short(feed, stored)
      /\ stored \in SUBSET Signals
  BY SignalsAssumption DEF TInv, IInv, BackendOK, ReaderOK, DossiersOK
<1>2. LET e == Prepending(feed, badge)[Len(badge)] IN e \in Feeds /\ Short(e, stored)
  BY <1>1, PrependingFacts
<1>3. /\ Updated(Prepending(feed, badge)[Len(badge)]) /\ UNCHANGED <<choice, bounds>>
      /\ buffer' = <<>> /\ badge' = <<>> /\ scrolled' = FALSE
  BY DEF Release
<1>4. DossiersOK'
  BY <1>2, <1>3, UpdatedOK DEF TInv, Release, choice, server
<1>5. ReaderOK'
  <2>1. buffer' \in Seq(Pushed) /\ badge' \in Seq(Pushed) /\ scrolled' \in BOOLEAN
    <3>1. <<>> \in Seq(Pushed)
      OBVIOUS
    <3>2. buffer' = <<>> /\ badge' = <<>> /\ scrolled' = FALSE
      BY <1>3
    <3> QED BY <3>1, <3>2
  <2> QED BY <1>3, <2>1 DEF TInv, ReaderOK, bounds
<1> QED BY <1>4, <1>5

(* The steps that leave the dossiers, the messages or the reader alone.    *)
LEMMA DossiersElsewhere ==
  ASSUME DossiersOK, UNCHANGED <<view, selected>>, stored \subseteq stored',
         stored' \subseteq Signals
  PROVE  DossiersOK'
<1>1. feed \in Feeds /\ Short(feed, stored)
  BY DEF DossiersOK
<1>2. Short(feed, stored')
  BY <1>1, ShortGrows
<1>3. UNCHANGED <<feed, fetches, selected>>
  BY DEF view
<1> QED BY <1>1, <1>2, <1>3 DEF DossiersOK

(* Answers are put together from what is stored, which only grows.         *)
LEMMA AnswersStep ==
  ASSUME IInv, AnswersOK, [Next]_vars
  PROVE  AnswersOK' /\ stored \subseteq stored' /\ stored' \subseteq Signals
<1>1. stored' \subseteq Signals
  BY StepInv DEF IInv, BackendOK
<1>2. ASSUME UNCHANGED server, NEW i \in Slots,
             \A j \in Slots \ {i} : load'[j] = load[j],
             load'[i] # Free => load'[i].rows = {}
      PROVE  AnswersOK' /\ stored' = stored
  BY <1>2 DEF AnswersOK, server
<1>3. ASSUME NEW i \in Slots, NEW f \in Filters, Started(i, f), UNCHANGED server
      PROVE  AnswersOK' /\ stored' = stored
  <2> DEFINE r == [cat |-> f, at |-> "asked", rows |-> {}]
  <2>1. load' = [load EXCEPT ![i] = r]
    BY <1>3 DEF Started
  <2>2. load'[i].rows = {} /\ \A j \in Slots \ {i} : load'[j] = load[j]
    BY <2>1 DEF IInv, LoadsOK
  <2> QED BY <1>2, <1>3, <2>2
<1>4. ASSUME NEW i \in Slots, Ended(i), UNCHANGED server
      PROVE  AnswersOK' /\ stored' = stored
  <2>1. load'[i] = Free /\ \A j \in Slots \ {i} : load'[j] = load[j]
    BY <1>4 DEF Ended, IInv, LoadsOK
  <2> QED BY <1>2, <1>4, <2>1
<1>5. ASSUME NEW i \in Slots, Hydrate(i) PROVE AnswersOK' /\ stored' = stored
  <2> DEFINE r == [load[i] EXCEPT !.at = "refreshing", !.rows = {}]
  <2>1. load' = [load EXCEPT ![i] = r] /\ UNCHANGED server /\ load[i] \in Load
    BY <1>5 DEF Hydrate, Is, IInv, LoadsOK
  <2>2. r.rows = {}
    BY <2>1 DEF Load
  <2>3. load'[i].rows = {} /\ \A j \in Slots \ {i} : load'[j] = load[j]
    BY <2>1, <2>2 DEF IInv, LoadsOK
  <2> QED BY <1>2, <2>1, <2>3
<1>6. ASSUME NEW i \in Slots, Answer(i) PROVE AnswersOK' /\ stored' = stored
  <2> DEFINE f == load[i].cat
             rows == IF cached[f] = Uncached THEN stored ELSE cached[f]
             at == IF Is(i, "asked") THEN "answered" ELSE "refreshed"
             r == [cat |-> f, at |-> at, rows |-> rows]
  <2>1. /\ load' = [load EXCEPT ![i] = r] /\ cached' = [cached EXCEPT ![f] = rows]
        /\ stored' = stored /\ f \in Filters
    BY <1>6 DEF Answer, Is, IInv, LoadsOK, Load
  <2>2. rows \subseteq stored
    BY <2>1 DEF AnswersOK
  <2>3. r.rows = rows
    OBVIOUS
  <2> HIDE DEF f, rows, r
  <2>4. /\ load'[i] = r /\ \A j \in Slots \ {i} : load'[j] = load[j]
        /\ cached'[f] = rows /\ \A g \in Filters \ {f} : cached'[g] = cached[g]
    BY <2>1 DEF IInv, LoadsOK, BackendOK
  <2> QED BY <2>1, <2>2, <2>3, <2>4 DEF AnswersOK
<1>7. ASSUME NEW s \in Signals, Store(s) PROVE AnswersOK' /\ stored \subseteq stored'
  BY <1>7 DEF Store, AnswersOK, loads
<1>8. ASSUME NEW f \in Filters, Expire(f) PROVE AnswersOK' /\ stored' = stored
  BY <1>8 DEF Expire, AnswersOK, loads, IInv, BackendOK
<1>9. ASSUME UNCHANGED <<stored, cached, load>> PROVE AnswersOK' /\ stored' = stored
  BY <1>9 DEF AnswersOK
<1>10. ASSUME NEW i \in Slots, \/ Refresh(i) \/ RefreshRefused(i) \/ LoadFails(i) \/ RenewUser(i)
                               \/ HydrateAgain(i) \/ \E f \in Filters : ChangeFilter(i, f)
       PROVE  AnswersOK' /\ stored' = stored
  <2>1. /\ UNCHANGED server
        /\ Ended(i) \/ \E f \in Filters : Started(i, f)
    BY <1>10 DEF Refresh, RefreshRefused, LoadFails, RenewUser, HydrateAgain, ChangeFilter,
                 IInv, LoadsOK
  <2> QED BY <1>3, <1>4, <2>1
<1>11. ASSUME NEW c \in Countries, SelectCountry(c) \/ FetchAnswered(c) \/ FetchFails(c)
       PROVE  AnswersOK' /\ stored' = stored
  BY <1>9, <1>11 DEF SelectCountry, FetchAnswered, FetchFails, server, loads
<1>12. ASSUME NEW n \in Sockets, Connect(n) \/ Cut(n) \/ Receive(n)
       PROVE  AnswersOK' /\ stored' = stored
  BY <1>9, <1>12 DEF Connect, Cut, Receive, server, loads
<1>13. ASSUME NEW s \in Signals, Publish(s) PROVE AnswersOK' /\ stored' = stored
  BY <1>9, <1>13 DEF Publish, loads
<1>14. ASSUME Scroll \/ Render \/ Release \/ UNCHANGED vars
       PROVE  AnswersOK' /\ stored' = stored
  BY <1>9, <1>14 DEF Scroll, Render, Release, vars, server, loads
<1>15. CASE UNCHANGED vars
  BY <1>1, <1>14, <1>15
<1>16. CASE Next
  BY <1>1, <1>5, <1>6, <1>7, <1>8, <1>10, <1>11, <1>12, <1>13, <1>14, <1>16 DEF Next, LoadGoesOn
<1> QED BY <1>15, <1>16

LEMMA MessagesElsewhere ==
  ASSUME MessagesOK, UNCHANGED <<unpublished, wires>> PROVE MessagesOK'
BY DEF MessagesOK, wires

LEMMA ReaderElsewhere ==
  ASSUME ReaderOK, UNCHANGED stream,
         \/ Changes /\ UNCHANGED faults
         \/ Faults /\ UNCHANGED changes
         \/ UNCHANGED bounds
  PROVE  ReaderOK'
BY BoundsKept DEF ReaderOK, stream

LEMMA StepTInv == TInv /\ [Next]_vars => TInv'
<1> SUFFICES ASSUME TInv, [Next]_vars PROVE DossiersOK' /\ MessagesOK' /\ ReaderOK'
  BY StepInv, AnswersStep DEF TInv
<1>0. stored \subseteq stored' /\ stored' \subseteq Signals
  BY AnswersStep DEF TInv
<1> USE <1>0 DEF TInv
<1>1. ASSUME NEW i \in Slots,
             \/ Refresh(i) \/ Answer(i) \/ RefreshRefused(i) \/ LoadFails(i)
             \/ \E f \in Filters : ChangeFilter(i, f)
      PROVE  DossiersOK' /\ MessagesOK' /\ ReaderOK'
  <2>1. /\ UNCHANGED <<unpublished, wires, view, selected, stream>>
        /\ \/ Changes /\ UNCHANGED faults
           \/ Faults /\ UNCHANGED changes
           \/ UNCHANGED bounds
    BY <1>1 DEF Refresh, Answer, RefreshRefused, LoadFails, ChangeFilter, server, choice
  <2> QED BY <2>1, DossiersElsewhere, MessagesElsewhere, ReaderElsewhere
<1>2. ASSUME NEW i \in Slots, Hydrate(i) \/ HydrateAgain(i)
      PROVE  DossiersOK' /\ MessagesOK' /\ ReaderOK'
  <2>1. /\ load[i] # Free /\ Hydrated(i)
        /\ UNCHANGED <<unpublished, stored, wires, selected, stream, bounds>>
    BY <1>2 DEF Hydrate, HydrateAgain, Is, server, choice
  <2> QED BY <2>1, HydratedOK, MessagesElsewhere, ReaderElsewhere
<1>3. ASSUME NEW i \in Slots, RenewUser(i) PROVE DossiersOK' /\ MessagesOK' /\ ReaderOK'
  <2>1. PICK n \in Sockets \ {1} :
          /\ socket' = [socket EXCEPT ![n] = "waiting", ![n - 1] = "waiting"]
          /\ wire' = [wire EXCEPT ![n - 1] = <<>>]
    BY <1>3 DEF RenewUser
  <2>2. UNCHANGED <<unpublished, view, selected, stream, bounds>>
    BY <1>3 DEF RenewUser, server, choice
  <2>3. socket' \in [Sockets -> {"none", "waiting", "open"}]
    BY <2>1 DEF MessagesOK
  <2>4. wire' \in [Sockets -> Seq(Pushed)]
    <3>1. <<>> \in Seq(Pushed)
      OBVIOUS
    <3>2. wire' = [wire EXCEPT ![n - 1] = <<>>]
      BY <2>1
    <3> QED BY <3>1, <3>2 DEF MessagesOK
  <2>5. MessagesOK'
    BY <2>2, <2>3, <2>4 DEF MessagesOK
  <2> QED BY <2>2, <2>5, DossiersElsewhere, ReaderElsewhere
<1>4. ASSUME NEW c \in Countries, SelectCountry(c)
      PROVE  DossiersOK' /\ MessagesOK' /\ ReaderOK'
  <2>1. /\ selected' = c /\ fetches' = Fetching(feed, c, fetches)
        /\ Changes /\ UNCHANGED <<unpublished, stored, wires, feed, stream, faults>>
    BY <1>4 DEF SelectCountry, server
  <2>2. DossiersOK'
    BY <2>1, FetchingFacts DEF DossiersOK, Short
  <2> QED BY <2>1, <2>2, MessagesElsewhere, ReaderElsewhere
<1>5. ASSUME NEW c \in Countries, FetchAnswered(c)
      PROVE  DossiersOK' /\ MessagesOK' /\ ReaderOK'
  <2>1. UNCHANGED <<unpublished, wires, stream, bounds>>
    BY <1>5 DEF FetchAnswered, server
  <2> QED BY <1>5, <2>1, FetchAnsweredOK, MessagesElsewhere, ReaderElsewhere
<1>6. ASSUME NEW c \in Countries, FetchFails(c)
      PROVE  DossiersOK' /\ MessagesOK' /\ ReaderOK'
  <2>1. /\ fetches[c] > 0 /\ fetches' = Finished(c) /\ Faults
        /\ UNCHANGED <<unpublished, stored, wires, feed, selected, stream, changes>>
    BY <1>6 DEF FetchFails, server, choice
  <2>2. DossiersOK'
    BY <2>1, FinishedFacts DEF DossiersOK, Short
  <2> QED BY <2>1, <2>2, MessagesElsewhere, ReaderElsewhere
<1>7. ASSUME NEW n \in Sockets, Connect(n) \/ Cut(n)
      PROVE  DossiersOK' /\ MessagesOK' /\ ReaderOK'
  <2>1. /\ UNCHANGED <<unpublished, view, selected, stream>>
        /\ \/ Faults /\ UNCHANGED changes
           \/ UNCHANGED bounds
    BY <1>7 DEF Connect, Cut, server, choice
  <2>2. MessagesOK'
    <3>1. CASE Connect(n)
      BY <3>1 DEF MessagesOK, Connect, server
    <3>2. CASE Cut(n)
      <4>1. /\ socket' = [socket EXCEPT ![n] = "waiting"]
            /\ wire' = [wire EXCEPT ![n] = <<>>] /\ UNCHANGED unpublished
        BY <3>2 DEF Cut, server
      <4>2. wire' \in [Sockets -> Seq(Pushed)]
        BY <4>1 DEF MessagesOK
      <4> QED BY <4>1, <4>2 DEF MessagesOK
    <3> QED BY <1>7, <3>1, <3>2
  <2> QED BY <2>1, <2>2, DossiersElsewhere, ReaderElsewhere
<1>8. ASSUME NEW n \in Sockets, Receive(n) PROVE DossiersOK' /\ MessagesOK' /\ ReaderOK'
  BY <1>8, ReceiveOK
<1>9. ASSUME NEW s \in Signals, Publish(s) PROVE DossiersOK' /\ MessagesOK' /\ ReaderOK'
  <2>1. UNCHANGED <<view, selected, stream, bounds>>
    BY <1>9 DEF Publish, choice
  <2> QED BY <1>9, <2>1, PublishOK, DossiersElsewhere, ReaderElsewhere
<1>10. ASSUME \/ \E s \in Signals : Store(s)
              \/ \E f \in Filters : Expire(f)
       PROVE  DossiersOK' /\ MessagesOK' /\ ReaderOK'
  <2>1. UNCHANGED <<unpublished, wires, view, selected, stream, bounds>>
    BY <1>10 DEF Store, Expire, choice
  <2> QED BY <2>1, DossiersElsewhere, MessagesElsewhere, ReaderElsewhere
<1>11. CASE Scroll \/ Render
  <2>1. /\ UNCHANGED <<unpublished, wires, view, selected>>
        /\ \/ Changes /\ UNCHANGED faults
           \/ UNCHANGED bounds
    BY <1>11 DEF Scroll, Render, server, choice
  <2>2. buffer' = buffer /\ badge' \in Seq(Pushed) /\ scrolled' \in BOOLEAN
    BY <1>11 DEF Scroll, Render, ReaderOK
  <2>3. ReaderOK'
    BY <2>1, <2>2, BoundsKept DEF ReaderOK
  <2> QED BY <2>1, <2>3, DossiersElsewhere, MessagesElsewhere
<1>12. CASE Release
  <2>1. UNCHANGED <<unpublished, wires>>
    BY <1>12 DEF Release, server
  <2> QED BY <1>12, <2>1, ReleaseOK, MessagesElsewhere
<1>13. CASE UNCHANGED vars
  <2>1. UNCHANGED <<unpublished, wires, view, selected, stream, bounds>>
    BY <1>13 DEF vars, server, choice
  <2> QED BY <2>1, DossiersElsewhere, MessagesElsewhere, ReaderElsewhere
<1> QED
  BY <1>1, <1>2, <1>3, <1>4, <1>5, <1>6, <1>7, <1>8, <1>9, <1>10, <1>11, <1>12, <1>13
  DEF Next, LoadGoesOn

-----------------------------------------------------------------------------
(* Copies of a signal: on the wire, in the buffer, on the page.            *)

(* The copies of a signal that are on their way to the page.               *)
Coming(s) == {p \in Sockets \X Nat : p[2] \in DOMAIN wire[p[1]] /\ wire[p[1]][p[2]] = s}
Sessions  == {n \in Sockets : socket[n] # "none"}
Allowed   == Copies * Cardinality(Sessions)

(* A signal not yet pushed is shown at most once; of the copies pushed, of *)
(* which each session gets its share, some may be shown or wait.           *)
CountOK ==
  /\ \A s \in Signals :
       /\ IsFiniteSet(Coming(s))
       /\ Cardinality(Coming(s)) + Times(s, buffer) <= Allowed
       /\ Cardinality(Coming(s)) + Times(s, buffer) + Shown(s) <= Allowed + 1
  /\ \A s \in unpublished : Coming(s) = {} /\ Times(s, buffer) = 0 /\ Shown(s) <= 1

(* What is rendered of the buffer is what it begins with.                  *)
BadgeOK == Len(badge) <= Len(buffer) /\ \A k \in DOMAIN badge : badge[k] = buffer[k]

(* The inductive invariant that counts copies.                             *)
CInv == TInv /\ CountOK /\ BadgeOK

LEMMA ShownIsIn == \A s : Shown(s) = In(s, feed)
BY DEF Shown, In

LEMMA InType == \A d \in Feeds : \A s \in Signals : In(s, d) \in Nat
<1> SUFFICES ASSUME NEW d \in Feeds, NEW s \in Signals PROVE In(s, d) \in Nat
  OBVIOUS
<1>1. d[Country[s]] \in {Missing} \cup Seq(Signals)
  BY CountryOfSignal DEF Feeds
<1> QED BY <1>1, TimesType DEF In

(* Sessions are finitely many, so what is allowed is a number.             *)
LEMMA SessionsFacts ==
  /\ IsFiniteSet(Sessions) /\ Cardinality(Sessions) \in Nat /\ Allowed \in Nat
<1>1. IsFiniteSet(Sockets)
  BY BoundsAreNumbers, FS_Interval DEF Sockets
<1>2. IsFiniteSet(Sessions) /\ Cardinality(Sessions) \in Nat
  BY <1>1, FS_Subset, FS_CardinalityType DEF Sessions
<1>3. \A k \in Nat : Copies * k \in Nat
  BY BoundsAreNumbers
<1> QED BY <1>2, <1>3 DEF Allowed

LEMMA ProductGrows == \A c, i, j \in Nat : i <= j => c * i <= c * j
OBVIOUS

(* A session, once begun, counts for ever.                                 *)
LEMMA AllowedGrows ==
  ASSUME Sessions \subseteq Sessions' PROVE Allowed <= Allowed' /\ Allowed' \in Nat
<1>1. IsFiniteSet(Sockets)
  BY BoundsAreNumbers, FS_Interval DEF Sockets
<1>2. Sessions' \subseteq Sockets
  BY DEF Sessions
<1>3. IsFiniteSet(Sessions') /\ Cardinality(Sessions') \in Nat
  BY <1>1, <1>2, FS_Subset, FS_CardinalityType
<1>4. Cardinality(Sessions) <= Cardinality(Sessions') /\ Cardinality(Sessions) \in Nat
  BY <1>3, FS_Subset, FS_CardinalityType
<1>5. Allowed' = Copies * Cardinality(Sessions') /\ Allowed = Copies * Cardinality(Sessions)
  BY DEF Allowed
<1>6. \A k \in Nat : Copies * k \in Nat
  BY BoundsAreNumbers
<1> QED BY <1>3, <1>4, <1>5, <1>6, ProductGrows, BoundsAreNumbers

(* The numbers the invariant adds up.                                      *)
LEMMA NumbersType ==
  ASSUME CInv
  PROVE  /\ \A s \in Signals : Cardinality(Coming(s)) \in Nat /\ Times(s, buffer) \in Nat
                               /\ Shown(s) \in Nat
         /\ Allowed \in Nat
<1>1. buffer \in Seq(Pushed) /\ feed \in Feeds
  BY DEF CInv, TInv, ReaderOK, DossiersOK
<1>2. \A s \in Signals : Times(s, buffer) \in Nat
  BY <1>1, TimesType
<1>3. \A s \in Signals : Cardinality(Coming(s)) \in Nat
  BY FS_CardinalityType DEF CInv, CountOK
<1>4. \A s \in Signals : Shown(s) \in Nat
  BY <1>1, InType, ShownIsIn
<1> QED BY <1>2, <1>3, <1>4, SessionsFacts

(* The invariant is kept where of each signal no more is on its way or     *)
(* waits than before, and where what is shown is one copy or was counted.  *)
LEMMA CountKept ==
  ASSUME CInv, TInv', unpublished' \subseteq unpublished, Sessions \subseteq Sessions',
         \A s \in Signals :
           /\ IsFiniteSet(Coming(s)')
           /\ Cardinality(Coming(s)') + Times(s, buffer')
                <= Cardinality(Coming(s)) + Times(s, buffer)
           /\ \/ Shown(s)' <= 1
              \/ Cardinality(Coming(s)') + Times(s, buffer') + Shown(s)'
                   <= Cardinality(Coming(s)) + Times(s, buffer) + Shown(s)
  PROVE  CountOK'
<1>1. Allowed <= Allowed' /\ Allowed' \in Nat
  BY AllowedGrows
<1>2. buffer' \in Seq(Pushed) /\ feed' \in Feeds
  BY DEF TInv, ReaderOK, DossiersOK
<1>3. SUFFICES
        ASSUME NEW s \in Signals
        PROVE  /\ IsFiniteSet(Coming(s)')
               /\ Cardinality(Coming(s)') + Times(s, buffer') <= Allowed'
               /\ Cardinality(Coming(s)') + Times(s, buffer') + Shown(s)' <= Allowed' + 1
               /\ s \in unpublished' => /\ Coming(s)' = {} /\ Times(s, buffer') = 0
                                        /\ Shown(s)' <= 1
  <2>1. \A s \in unpublished' : s \in Signals
    BY SignalsAssumption DEF TInv, MessagesOK
  <2> QED BY <2>1, Zenon DEF CountOK
<1>4. /\ Cardinality(Coming(s)') \in Nat /\ Times(s, buffer') \in Nat /\ Shown(s)' \in Nat
  <2>1. Cardinality(Coming(s)') \in Nat
    BY FS_CardinalityType
  <2>2. Times(s, buffer') \in Nat
    BY <1>2, TimesType
  <2>3. Shown(s)' = In(s, feed')
    BY DEF Shown, In
  <2> QED BY <1>2, <2>1, <2>2, <2>3, InType
<1> DEFINE W == Cardinality(Coming(s))
           B == Times(s, buffer)
           V == Shown(s)
           A == Allowed
<1>5. W \in Nat /\ B \in Nat /\ V \in Nat /\ A \in Nat
  BY NumbersType
<1>6. W + B <= A /\ W + B + V <= A + 1
  BY DEF CInv, CountOK
<1>7. s \in unpublished => W = 0 /\ B = 0 /\ V <= 1
  BY FS_EmptySet DEF CInv, CountOK
<1>8. Cardinality(Coming(s)') + Times(s, buffer') <= W + B
  OBVIOUS
<1>9. \/ Shown(s)' <= 1
      \/ Cardinality(Coming(s)') + Times(s, buffer') + Shown(s)' <= W + B + V
  OBVIOUS
<1>10. A <= Allowed'
  BY <1>1
<1>11. Cardinality(Coming(s)') = 0 => Coming(s)' = {}
  BY FS_EmptySet
<1> HIDE DEF W, B, V, A
<1>12. /\ Cardinality(Coming(s)') + Times(s, buffer') <= Allowed'
       /\ Cardinality(Coming(s)') + Times(s, buffer') + Shown(s)' <= Allowed' + 1
  BY <1>1, <1>4, <1>5, <1>6, <1>8, <1>9, <1>10
<1>13. s \in unpublished' => /\ Cardinality(Coming(s)') = 0 /\ Times(s, buffer') = 0
                             /\ Shown(s)' <= 1
  BY <1>4, <1>5, <1>7, <1>8, <1>9
<1> QED BY <1>11, <1>12, <1>13

LEMMA InitCInv == Init => CInv
<1> SUFFICES ASSUME Init PROVE CountOK /\ BadgeOK
  BY InitTInv DEF CInv
<1>1. wire = [n \in Sockets |-> <<>>] /\ buffer = <<>> /\ badge = <<>>
  BY DEF Init
<1>2. \A s \in Signals : Coming(s) = {}
  BY <1>1 DEF Coming
<1>3. \A s \in Signals : Times(s, buffer) = 0
  BY <1>1, TimesOfEmpty
<1>4. \A s \in Signals : Shown(s) = 0
  BY CountryOfSignal DEF Init, Shown
<1>5. Cardinality({}) = 0 /\ IsFiniteSet({})
  BY FS_EmptySet
<1>6. \A s \in unpublished : s \in Signals
  BY SignalsAssumption DEF Init
<1>7. CountOK
  BY <1>2, <1>3, <1>4, <1>5, <1>6, SessionsFacts DEF CountOK
<1>8. BadgeOK
  BY <1>1 DEF BadgeOK
<1> QED BY <1>7, <1>8

(* Where the wires lose copies only, no more is on its way.                *)
LEMMA FewerComing ==
  ASSUME CInv, NEW s \in Signals, Coming(s)' \subseteq Coming(s), buffer' = buffer
  PROVE  /\ IsFiniteSet(Coming(s)')
         /\ Cardinality(Coming(s)') + Times(s, buffer')
              <= Cardinality(Coming(s)) + Times(s, buffer)
         /\ Shown(s)' = Shown(s) =>
              Cardinality(Coming(s)') + Times(s, buffer') + Shown(s)'
                <= Cardinality(Coming(s)) + Times(s, buffer) + Shown(s)
<1>1. IsFiniteSet(Coming(s))
  BY DEF CInv, CountOK
<1>2. IsFiniteSet(Coming(s)') /\ Cardinality(Coming(s)') <= Cardinality(Coming(s))
  BY <1>1, FS_Subset
<1>3. Cardinality(Coming(s)') \in Nat
  BY <1>2, FS_CardinalityType
<1> DEFINE W == Cardinality(Coming(s))
           W2 == Cardinality(Coming(s)')
           B == Times(s, buffer)
           B2 == Times(s, buffer')
           V == Shown(s)
           V2 == Shown(s)'
<1>4. W \in Nat /\ B \in Nat /\ V \in Nat /\ B2 = B /\ W2 \in Nat /\ W2 <= W
  BY <1>2, <1>3, NumbersType
<1> HIDE DEF W, W2, B, B2, V, V2
<1>5. W2 + B2 <= W + B /\ (V2 = V => W2 + B2 + V2 <= W + B + V)
  BY <1>4
<1> QED BY <1>2, <1>5 DEF W, W2, B, B2, V, V2

(* Steps that leave wires and buffer alone and show each signal once, if   *)
(* they change what is shown of it.                                        *)
LEMMA ShownAnew ==
  ASSUME CInv, TInv', UNCHANGED <<unpublished, wires, stream>>,
         \A s \in Signals : Shown(s)' <= 1 \/ Shown(s)' = Shown(s)
  PROVE  CountOK' /\ BadgeOK'
<1>1. \A s \in Signals : Coming(s)' \subseteq Coming(s)
  BY DEF Coming, wires
<1>2. Sessions' = Sessions /\ buffer' = buffer /\ badge' = badge
  BY DEF Sessions, wires, stream
<1>3. CountOK'
  BY <1>1, <1>2, FewerComing, CountKept
<1> QED BY <1>2, <1>3 DEF CInv, BadgeOK

(* An answer replaces newsFeed: each signal is then shown at most once.    *)
LEMMA HydratedCount ==
  ASSUME CInv, NEW i \in Slots, load[i] # Free, Hydrated(i), NEW s \in Signals
  PROVE  Shown(s)' <= 1
<1>1. load[i].rows \in SUBSET Signals
  BY DEF CInv, TInv, IInv, LoadsOK, Load
<1> DEFINE q == Listing(Country[s], load[i].cat, load[i].rows)
<1>2. q \in Seq(Signals) /\ IsInjective(q)
  BY <1>1, ListingFacts
<1>3. feed'[Country[s]] = IF Country[s] \in Known THEN q ELSE Missing
  BY CountryOfSignal DEF Hydrated, Updated
<1>4. Shown(s)' = IF feed'[Country[s]] = Missing THEN 0 ELSE Times(s, feed'[Country[s]])
  BY DEF Shown
<1> HIDE DEF q
<1>5. Times(s, q) <= 1
  BY <1>2, TimesOfInjective
<1> QED BY <1>3, <1>4, <1>5

(* The same for the list of one country.                                   *)
LEMMA FetchAnsweredCount ==
  ASSUME CInv, NEW c \in Countries, FetchAnswered(c), NEW s \in Signals
  PROVE  Shown(s)' <= 1 \/ Shown(s)' = Shown(s)
<1>1. PICK rows \in SUBSET {t \in stored : Country[t] = c} :
        feed' = [feed EXCEPT ![c] = NewestOf(Cardinality(rows), rows)]
  BY DEF FetchAnswered
<1> DEFINE q == NewestOf(Cardinality(rows), rows)
<1>2. rows \in SUBSET Signals
  BY DEF CInv, TInv, IInv, BackendOK
<1>3. q \in Seq(Signals) /\ IsInjective(q)
  BY <1>2, EnumerationFacts, FS_CardinalityType, NewestFacts
<1>4. Shown(s)' = IF feed'[Country[s]] = Missing THEN 0 ELSE Times(s, feed'[Country[s]])
  BY DEF Shown
<1> HIDE DEF q
<1>5. Times(s, q) <= 1
  BY <1>3, TimesOfInjective
<1>6. feed \in Feeds /\ Country[s] \in Countries
  BY CountryOfSignal DEF CInv, TInv, DossiersOK
<1>7. feed'[Country[s]] = IF Country[s] = c THEN q ELSE feed[Country[s]]
  BY <1>1, <1>6 DEF q, Feeds
<1> QED BY <1>4, <1>5, <1>7 DEF Shown

(* A signal is pushed: each open connection gets its copies.               *)
LEMMA PublishCount ==
  ASSUME CInv, TInv', NEW s \in Signals, Publish(s) PROVE CountOK' /\ BadgeOK'
<1>1. /\ s \in unpublished /\ unpublished' = unpublished \ {s}
      /\ wire' = [n \in Sockets |-> IF socket[n] # "open" THEN wire[n]
                                    ELSE wire[n] \o [k \in 1..Copies |-> s]]
      /\ UNCHANGED <<socket, feed, buffer, badge>>
  BY DEF Publish, view, stream
<1>2. /\ \A n \in Sockets : wire[n] \in Seq(Pushed)
      /\ wire \in [Sockets -> Seq(Pushed)] /\ s \in Pushed
  BY <1>1 DEF CInv, TInv, MessagesOK
<1>3. \A n \in Sockets :
        /\ Len(wire[n]) \in Nat /\ DOMAIN wire[n] = 1..Len(wire[n])
        /\ DOMAIN wire'[n] = IF socket[n] # "open" THEN 1..Len(wire[n])
                             ELSE 1..(Len(wire[n]) + Copies)
        /\ \A k \in DOMAIN wire'[n] :
             wire'[n][k] = IF k <= Len(wire[n]) THEN wire[n][k] ELSE s
  <2>1. SUFFICES ASSUME NEW n \in Sockets
                 PROVE  /\ Len(wire[n]) \in Nat /\ DOMAIN wire[n] = 1..Len(wire[n])
                        /\ DOMAIN wire'[n] = IF socket[n] # "open" THEN 1..Len(wire[n])
                                             ELSE 1..(Len(wire[n]) + Copies)
                        /\ \A k \in DOMAIN wire'[n] :
                             wire'[n][k] = IF k <= Len(wire[n]) THEN wire[n][k] ELSE s
    OBVIOUS
  <2> DEFINE q == wire[n]
             r == [k \in 1..Copies |-> s]
  <2>2. q \in Seq(Pushed) /\ Len(q) \in Nat /\ DOMAIN q = 1..Len(q)
    BY <1>2
  <2>3. /\ r \in Seq(Pushed) /\ Len(r) = Copies /\ DOMAIN r = 1..Copies
        /\ \A k \in 1..Copies : r[k] = s
    BY <1>2, BoundsAreNumbers
  <2>4. wire'[n] = IF socket[n] # "open" THEN q ELSE q \o r
    BY <1>1
  <2> HIDE DEF q, r
  <2>5. /\ DOMAIN (q \o r) = 1..(Len(q) + Copies)
        /\ \A k \in 1..(Len(q) + Copies) : (q \o r)[k] = IF k <= Len(q) THEN q[k] ELSE s
    BY <2>2, <2>3, BoundsAreNumbers
  <2>6. CASE socket[n] # "open"
    BY <2>2, <2>4, <2>6 DEF q
  <2>7. CASE socket[n] = "open"
    BY <2>2, <2>4, <2>5, <2>7 DEF q
  <2> QED BY <2>6, <2>7
<1>4. ASSUME NEW t \in Signals, t # s PROVE Coming(t)' \subseteq Coming(t)
  <2>1. SUFFICES ASSUME NEW p \in Coming(t)' PROVE p \in Coming(t)
    OBVIOUS
  <2>2. p \in Sockets \X Nat /\ p[2] \in DOMAIN wire'[p[1]] /\ wire'[p[1]][p[2]] = t
    BY DEF Coming
  <2>3. p[2] <= Len(wire[p[1]])
    BY <1>3, <1>4, <2>2
  <2>4. p[2] \in DOMAIN wire[p[1]] /\ wire[p[1]][p[2]] = t
    BY <1>3, <2>2, <2>3, BoundsAreNumbers
  <2> QED BY <2>2, <2>4 DEF Coming
<1>5. Coming(s) = {} /\ Times(s, buffer) = 0 /\ Shown(s) <= 1
  BY <1>1 DEF CInv, CountOK
<1> DEFINE P == Sessions \X (1..Copies)
           f == [p \in Coming(s)' |-> <<p[1], p[2] - Len(wire[p[1]])>>]
<1>6. ASSUME NEW p \in Coming(s)'
      PROVE  /\ p \in Sockets \X Nat /\ socket[p[1]] = "open"
             /\ p[2] - Len(wire[p[1]]) \in 1..Copies
  <2>1. p \in Sockets \X Nat /\ p[2] \in DOMAIN wire'[p[1]] /\ wire'[p[1]][p[2]] = s
    BY DEF Coming
  <2>2. ~(p[2] \in DOMAIN wire[p[1]] /\ wire[p[1]][p[2]] = s)
    BY <1>5, <2>1 DEF Coming
  <2>3. p[1] \in Sockets /\ p[2] \in Nat
    BY <2>1
  <2>4. ~(p[2] <= Len(wire[p[1]]))
    BY <1>3, <2>1, <2>2, <2>3, BoundsAreNumbers
  <2> QED BY <1>3, <2>1, <2>3, <2>4, BoundsAreNumbers
<1>7. f \in Injection(Coming(s)', P)
  <2>1. f \in [Coming(s)' -> P]
    <3>1. \A p \in Coming(s)' : p[1] \in Sessions
      BY <1>6 DEF Sessions
    <3> QED BY <1>6, <3>1
  <2>2. ASSUME NEW p \in Coming(s)', NEW r \in Coming(s)', f[p] = f[r] PROVE p = r
    <3>1. p \in Sockets \X Nat /\ r \in Sockets \X Nat
      BY <1>6
    <3>2. p[1] = r[1] /\ p[2] - Len(wire[p[1]]) = r[2] - Len(wire[r[1]])
      BY <2>2
    <3>3. p[2] = r[2]
      <4>1. Len(wire[p[1]]) \in Nat /\ p[2] \in Nat /\ r[2] \in Nat
        BY <1>3, <3>1
      <4> QED BY <3>2, <4>1
    <3> QED BY <3>1, <3>2, <3>3
  <2> QED BY <2>1, <2>2 DEF Injection, IsInjective
<1>8. IsFiniteSet(P) /\ Cardinality(P) = Allowed
  <2>1. IsFiniteSet(1..Copies) /\ Cardinality(1..Copies) = Copies
    BY FS_Interval, BoundsAreNumbers
  <2>2. IsFiniteSet(P) /\ Cardinality(P) = Cardinality(Sessions) * Copies
    BY <2>1, SessionsFacts, FS_Product
  <2>3. \A a, b \in Nat : a * b = b * a
    OBVIOUS
  <2> QED BY <2>2, <2>3, SessionsFacts, BoundsAreNumbers DEF Allowed
<1>9. IsFiniteSet(Coming(s)') /\ Cardinality(Coming(s)') <= Allowed
  BY <1>7, <1>8, FS_Injection
<1>10. \A t \in Signals : Shown(t)' = Shown(t)
  BY <1>1 DEF Shown
<1>11. Allowed' = Allowed
  BY <1>1 DEF Allowed, Sessions
<1>12. CountOK'
  <2>1. Cardinality(Coming(s)') \in Nat /\ Shown(s) \in Nat /\ Allowed \in Nat
    BY <1>9, FS_CardinalityType, NumbersType
  <2>2. /\ Cardinality(Coming(s)') + Times(s, buffer') <= Allowed'
        /\ Cardinality(Coming(s)') + Times(s, buffer') + Shown(s)' <= Allowed' + 1
    BY <1>1, <1>5, <1>9, <1>10, <1>11, <2>1
  <2>3. ASSUME NEW t \in Signals, t # s
        PROVE  /\ IsFiniteSet(Coming(t)')
               /\ Cardinality(Coming(t)') + Times(t, buffer') <= Allowed'
               /\ Cardinality(Coming(t)') + Times(t, buffer') + Shown(t)' <= Allowed' + 1
    <3> DEFINE W == Cardinality(Coming(t))
               W2 == Cardinality(Coming(t)')
               B == Times(t, buffer)
               V == Shown(t)
               A == Allowed
    <3>1. IsFiniteSet(Coming(t)') /\ W2 <= W
      <4>1. IsFiniteSet(Coming(t)) /\ Coming(t)' \subseteq Coming(t)
        BY <1>4, <2>3 DEF CInv, CountOK
      <4> QED BY <4>1, FS_Subset
    <3>2. W2 \in Nat
      BY <3>1, FS_CardinalityType
    <3>3. W \in Nat /\ B \in Nat /\ V \in Nat /\ A \in Nat
      BY NumbersType
    <3>4. W + B <= A /\ W + B + V <= A + 1
      BY DEF CInv, CountOK
    <3>5. Times(t, buffer') = B /\ Shown(t)' = V /\ Allowed' = A
      BY <1>1, <1>10, <1>11
    <3> HIDE DEF W, W2, B, V, A
    <3>6. W2 + B <= A /\ W2 + B + V <= A + 1
      BY <3>1, <3>2, <3>3, <3>4
    <3> QED BY <3>1, <3>5, <3>6 DEF W2
  <2>4. ASSUME NEW t \in unpublished'
        PROVE  Coming(t)' = {} /\ Times(t, buffer') = 0 /\ Shown(t)' <= 1
    <3>1. t \in unpublished /\ t # s /\ t \in Signals
      BY <1>1, SignalsAssumption DEF CInv, TInv, MessagesOK
    <3>2. Coming(t) = {} /\ Times(t, buffer) = 0 /\ Shown(t) <= 1
      BY <3>1 DEF CInv, CountOK
    <3> QED BY <1>1, <1>4, <1>10, <3>1, <3>2
  <2> QED BY <1>9, <2>2, <2>3, <2>4 DEF CountOK
<1> QED BY <1>1, <1>12 DEF CInv, BadgeOK

(* A message is handled: its copy is on its way no longer.                 *)
LEMMA ComingReceived ==
  ASSUME CInv, NEW n \in Sockets, Receive(n), NEW t \in Signals
  PROVE  /\ IsFiniteSet(Coming(t)')
         /\ Cardinality(Coming(t)') + Times(t, <<Head(wire[n])>>) <= Cardinality(Coming(t))
<1> DEFINE s == Head(wire[n])
           first == <<n, 1>>
           f == [p \in Coming(t)' |-> IF p[1] = n THEN <<n, p[2] + 1>> ELSE p]
<1>1. /\ wire \in [Sockets -> Seq(Pushed)] /\ wire[n] # <<>>
      /\ wire' = [wire EXCEPT ![n] = Tail(wire[n])]
  BY DEF CInv, TInv, MessagesOK, Receive
<1>2. /\ wire[n] \in Seq(Pushed) /\ Len(wire[n]) \in Nat \ {0} /\ s = wire[n][1]
      /\ DOMAIN wire[n] = 1..Len(wire[n]) /\ wire'[n] = Tail(wire[n])
      /\ DOMAIN wire'[n] = 1..(Len(wire[n]) - 1)
      /\ \A k \in 1..(Len(wire[n]) - 1) : wire'[n][k] = wire[n][k + 1]
      /\ \A m \in Sockets \ {n} : wire'[m] = wire[m]
  <2>1. wire[n] \in Seq(Pushed) /\ wire'[n] = Tail(wire[n])
    BY <1>1
  <2>2. /\ Len(wire[n]) \in Nat \ {0} /\ s = wire[n][1]
        /\ DOMAIN wire[n] = 1..Len(wire[n])
        /\ DOMAIN Tail(wire[n]) = 1..(Len(wire[n]) - 1)
        /\ \A k \in 1..(Len(wire[n]) - 1) : Tail(wire[n])[k] = wire[n][k + 1]
    BY <1>1, <2>1
  <2> QED BY <1>1, <2>1, <2>2
<1>3. s \in Signals
  BY <1>2, SignalsAssumption
<1> HIDE DEF s
<1>4. ASSUME NEW p \in Coming(t)'
      PROVE  /\ p \in Sockets \X Nat
             /\ f[p] \in Coming(t) \ {first}
  <2>1. p \in Sockets \X Nat /\ p[2] \in DOMAIN wire'[p[1]] /\ wire'[p[1]][p[2]] = t
    BY DEF Coming
  <2>2. CASE p[1] = n
    <3>0. p[2] \in 1..(Len(wire[n]) - 1) /\ wire'[n][p[2]] = t /\ p[2] \in Nat
      <4>1. p[2] \in DOMAIN wire'[n] /\ wire'[n][p[2]] = t
        BY <2>1, <2>2, Zenon
      <4> QED BY <1>2, <2>1, <4>1
    <3>1. f[p] = <<n, p[2] + 1>> /\ p[2] \in Nat /\ p[2] # 0
      BY <2>2, <3>0
    <3>2. p[2] + 1 \in DOMAIN wire[n] /\ wire[n][p[2] + 1] = t
      BY <1>2, <3>0
    <3> DEFINE q == <<n, p[2] + 1>>
    <3>3. q \in Sockets \X Nat /\ q[1] = n /\ q[2] = p[2] + 1 /\ q # first
      BY <3>1
    <3>4. q \in Coming(t)
      BY <3>2, <3>3, Zenon DEF Coming
    <3> QED BY <2>1, <3>1, <3>3, <3>4, Zenon
  <2>3. CASE p[1] # n
    <3>1. f[p] = p /\ wire'[p[1]] = wire[p[1]]
      BY <1>2, <2>1, <2>3
    <3>2. p \in Coming(t)
      BY <2>1, <3>1, Zenon DEF Coming
    <3>3. p # first
      BY <2>3
    <3> QED BY <2>1, <3>1, <3>2, <3>3, Zenon
  <2> QED BY <2>1, <2>2, <2>3
<1>5. f \in Injection(Coming(t)', Coming(t) \ {first})
  <2>1. f \in [Coming(t)' -> Coming(t) \ {first}]
    BY <1>4
  <2>2. ASSUME NEW p \in Coming(t)', NEW r \in Coming(t)', f[p] = f[r] PROVE p = r
    <3>1. p \in Sockets \X Nat /\ r \in Sockets \X Nat
      BY <1>4
    <3>2. f[p][1] = p[1] /\ f[r][1] = r[1]
      BY <3>1
    <3>3. p[1] = r[1]
      BY <2>2, <3>2
    <3>4. p[2] = r[2]
      BY <2>2, <3>1, <3>3
    <3> QED BY <3>1, <3>3, <3>4
  <2> QED BY <2>1, <2>2 DEF Injection, IsInjective
<1>6. IsFiniteSet(Coming(t))
  BY DEF CInv, CountOK
<1>7. /\ IsFiniteSet(Coming(t) \ {first})
      /\ Cardinality(Coming(t) \ {first}) =
           IF first \in Coming(t) THEN Cardinality(Coming(t)) - 1 ELSE Cardinality(Coming(t))
  BY <1>6, FS_RemoveElement
<1>8. IsFiniteSet(Coming(t)') /\ Cardinality(Coming(t)') <= Cardinality(Coming(t) \ {first})
  BY <1>5, <1>7, FS_Injection
<1>9. first \in Coming(t) <=> t = s
  <2>1. first[1] = n /\ first[2] = 1 /\ first \in Sockets \X Nat
    OBVIOUS
  <2> QED BY <1>2, <2>1 DEF Coming
<1>10. Times(t, <<s>>) = IF t = s THEN 1 ELSE 0
  BY <1>3, TimesOfOne
<1>11. Cardinality(Coming(t)) \in Nat /\ Cardinality(Coming(t)') \in Nat
  BY <1>6, <1>8, FS_CardinalityType
<1>12. Cardinality(Coming(t)') + Times(t, <<s>>) <= Cardinality(Coming(t))
  BY <1>7, <1>8, <1>9, <1>10, <1>11
<1> QED BY <1>8, <1>12 DEF s

(* A copy that leaves the wire is shown or waits in the buffer.            *)
LEMMA ReceiveCount ==
  ASSUME CInv, TInv', NEW n \in Sockets, Receive(n) PROVE CountOK' /\ BadgeOK'
<1> DEFINE s == Head(wire[n])
<1>1. wire[n] \in Seq(Pushed) /\ wire[n] # <<>>
  BY DEF CInv, TInv, MessagesOK, Receive
<1>2. s \in Pushed /\ s \in Signals
  BY <1>1, SignalsAssumption
<1>3. /\ buffer' = IF Accepts(filter, s) /\ scrolled THEN Append(buffer, s) ELSE buffer
      /\ IF Accepts(filter, s) /\ ~scrolled /\ feed[Country[s]] # Missing
         THEN Updated(Prepended(s, feed)) ELSE UNCHANGED view
      /\ UNCHANGED <<server, socket, choice, badge, scrolled, loads, bounds>>
  BY DEF Receive
<1>4. /\ \A t \in Signals : IsFiniteSet(Coming(t)')
      /\ \A t \in Signals :
           Cardinality(Coming(t)') + Times(t, <<s>>) <= Cardinality(Coming(t))
  BY ComingReceived
<1> HIDE DEF s
<1>5. /\ buffer \in Seq(Pushed) /\ buffer' \in Seq(Pushed) /\ feed \in Feeds /\ feed' \in Feeds
      /\ badge \in Seq(Pushed)
  BY DEF CInv, TInv, ReaderOK, DossiersOK
<1>6. \A t \in Signals : Shown(t) = In(t, feed) /\ Shown(t)' = In(t, feed')
  BY DEF Shown, In
<1>7. ASSUME NEW t \in Signals
      PROVE  /\ Cardinality(Coming(t)') + Times(t, buffer')
                  <= Cardinality(Coming(t)) + Times(t, buffer)
             /\ Cardinality(Coming(t)') + Times(t, buffer') + Shown(t)'
                  <= Cardinality(Coming(t)) + Times(t, buffer) + Shown(t)
  <2> DEFINE W == Cardinality(Coming(t))
             W2 == Cardinality(Coming(t)')
             B == Times(t, buffer)
             B2 == Times(t, buffer')
             V == Shown(t)
             V2 == Shown(t)'
             one == Times(t, <<s>>)
  <2>1. W \in Nat /\ B \in Nat /\ V \in Nat
    BY NumbersType
  <2>2. W2 \in Nat /\ B2 \in Nat /\ V2 \in Nat
    BY <1>4, <1>5, <1>6, FS_CardinalityType, TimesType, InType
  <2>3. one = IF t = s THEN 1 ELSE 0
    BY <1>2, TimesOfOne
  <2>4. W2 + one <= W
    BY <1>4
  <2>5. B2 <= B + one /\ V2 <= V + one /\ (B2 = B \/ V2 = V)
    <3>1. CASE Accepts(filter, s) /\ scrolled
      <4>1. buffer' = Append(buffer, s) /\ feed' = feed
        BY <1>3, <3>1 DEF view
      <4>2. B2 = IF t = s THEN B + 1 ELSE B
        BY <1>2, <1>5, <4>1, TimesOfAppend
      <4>3. V2 = V
        BY <1>6, <4>1
      <4> HIDE DEF B, B2, V, V2, one
      <4> QED BY <2>1, <2>2, <2>3, <4>2, <4>3
    <3>2. CASE Accepts(filter, s) /\ ~scrolled /\ feed[Country[s]] # Missing
      <4>1. buffer' = buffer /\ feed' = Prepended(s, feed)
        BY <1>3, <3>2 DEF Updated
      <4>2. V2 <= V + one
        BY <1>2, <1>5, <1>6, <4>1, PrependedFacts
      <4>3. B2 = B
        BY <4>1
      <4> HIDE DEF B, B2, V, V2, one
      <4> QED BY <2>1, <2>2, <2>3, <4>2, <4>3
    <3>3. CASE /\ ~(Accepts(filter, s) /\ scrolled)
               /\ ~(Accepts(filter, s) /\ ~scrolled /\ feed[Country[s]] # Missing)
      <4>1. buffer' = buffer /\ feed' = feed
        BY <1>3, <3>3 DEF view
      <4>2. B2 = B /\ V2 = V
        BY <1>6, <4>1
      <4> HIDE DEF B, B2, V, V2, one
      <4> QED BY <2>1, <2>2, <2>3, <4>2
    <3> QED BY <3>1, <3>2, <3>3
  <2> HIDE DEF W, W2, B, B2, V, V2, one
  <2>6. W2 + B2 <= W + B /\ W2 + B2 + V2 <= W + B + V
    BY <2>1, <2>2, <2>3, <2>4, <2>5
  <2> QED BY <2>6 DEF W, W2, B, B2, V, V2
<1>8. unpublished' = unpublished /\ Sessions' = Sessions
  BY <1>3 DEF server, Sessions
<1>9. CountOK'
  BY <1>4, <1>7, <1>8, CountKept
<1>10. BadgeOK'
  <2>1. badge' = badge /\ (buffer' = buffer \/ buffer' = Append(buffer, s))
    BY <1>3
  <2>2. Len(badge) <= Len(buffer) /\ \A k \in DOMAIN badge : badge[k] = buffer[k]
    BY DEF CInv, BadgeOK
  <2>3. CASE buffer' = Append(buffer, s)
    <3>1. /\ Len(buffer) \in Nat /\ Len(buffer') = Len(buffer) + 1
          /\ \A k \in 1..Len(buffer) : buffer'[k] = buffer[k]
          /\ Len(badge) \in Nat /\ DOMAIN badge = 1..Len(badge)
      BY <1>2, <1>5, <2>3
    <3> QED BY <2>1, <2>2, <3>1 DEF BadgeOK
  <2> QED BY <2>1, <2>2, <2>3 DEF BadgeOK
<1> QED BY <1>9, <1>10

(* The badge is clicked: what it shows was in the buffer, which is empty.  *)
LEMMA ReleaseCount ==
  ASSUME CInv, TInv', Release PROVE CountOK' /\ BadgeOK'
<1>1. /\ feed' = Prepending(feed, badge)[Len(badge)] /\ buffer' = <<>> /\ badge' = <<>>
      /\ UNCHANGED <<unpublished, socket, wire>>
  BY DEF Release, Updated, server, wires
<1>2. /\ buffer \in Seq(Pushed) /\ badge \in Seq(Pushed) /\ badge \in Seq(Signals)
      /\ feed \in Feeds /\ feed' \in Feeds
  BY SignalsAssumption DEF CInv, TInv, ReaderOK, DossiersOK
<1>3. ASSUME NEW t \in Signals
      PROVE  /\ IsFiniteSet(Coming(t)')
             /\ Cardinality(Coming(t)') + Times(t, buffer')
                  <= Cardinality(Coming(t)) + Times(t, buffer)
             /\ Cardinality(Coming(t)') + Times(t, buffer') + Shown(t)'
                  <= Cardinality(Coming(t)) + Times(t, buffer) + Shown(t)
  <2> DEFINE W == Cardinality(Coming(t))
             B == Times(t, buffer)
             V == Shown(t)
             V2 == Shown(t)'
             C == Times(t, badge)
  <2>1. W \in Nat /\ B \in Nat /\ V \in Nat
    BY NumbersType
  <2>2. Coming(t)' = Coming(t) /\ IsFiniteSet(Coming(t)) /\ Times(t, buffer') = 0
    BY <1>1, TimesOfEmpty DEF Coming, CInv, CountOK
  <2>3. C <= B /\ C \in Nat
    BY <1>2, TimesOfBeginning, TimesType DEF CInv, BadgeOK
  <2>4. V = In(t, feed) /\ V2 = In(t, feed')
    BY DEF Shown, In
  <2>5. In(t, feed') <= In(t, feed) + C
    BY <1>1, <1>2, PrependingFacts
  <2>6. V2 \in Nat
    BY <1>2, <2>4, InType
  <2> HIDE DEF W, B, V, V2, C
  <2>7. W + 0 <= W + B /\ W + 0 + V2 <= W + B + V
    BY <2>1, <2>3, <2>4, <2>5, <2>6
  <2> QED BY <2>2, <2>7 DEF W, B, V, V2
<1>4. unpublished' = unpublished /\ Sessions' = Sessions
  BY <1>1 DEF Sessions
<1>5. CountOK'
  BY <1>3, <1>4, CountKept
<1> QED BY <1>1, <1>5 DEF BadgeOK

(* Connections that are cut or replaced lose what was under way.           *)
LEMMA ConnectionsCount ==
  ASSUME CInv, TInv', UNCHANGED <<unpublished, feed, stream>>, Sessions \subseteq Sessions',
         \A n \in Sockets : wire'[n] = <<>> \/ wire'[n] = wire[n]
  PROVE  CountOK' /\ BadgeOK'
<1>1. \A s \in Signals : Shown(s)' = Shown(s)
  BY DEF Shown
<1>2. ASSUME NEW s \in Signals PROVE Coming(s)' \subseteq Coming(s)
  <2>1. SUFFICES ASSUME NEW p \in Coming(s)' PROVE p \in Coming(s)
    OBVIOUS
  <2>2. p \in Sockets \X Nat /\ p[2] \in DOMAIN wire'[p[1]] /\ wire'[p[1]][p[2]] = s
    BY DEF Coming
  <2>3. p[1] \in Sockets /\ wire'[p[1]] # <<>>
    BY <2>2
  <2> QED BY <2>2, <2>3 DEF Coming
<1>3. buffer' = buffer /\ badge' = badge
  BY DEF stream
<1>4. CountOK'
  BY <1>1, <1>2, <1>3, FewerComing, CountKept
<1> QED BY <1>3, <1>4 DEF CInv, BadgeOK

LEMMA StepCInv == CInv /\ [Next]_vars => CInv'
<1> SUFFICES ASSUME CInv, [Next]_vars PROVE CountOK' /\ BadgeOK'
  BY StepTInv DEF CInv
<1>0. TInv'
  BY StepTInv DEF CInv
<1>1. ASSUME NEW i \in Slots,
             \/ Refresh(i) \/ Answer(i) \/ RefreshRefused(i) \/ LoadFails(i)
             \/ \E f \in Filters : ChangeFilter(i, f)
      PROVE  CountOK' /\ BadgeOK'
  <2>1. UNCHANGED <<unpublished, wires, stream, feed>>
    BY <1>1 DEF Refresh, Answer, RefreshRefused, LoadFails, ChangeFilter, server, view
  <2> QED BY <1>0, <2>1, ShownAnew DEF Shown
<1>2. ASSUME NEW i \in Slots, Hydrate(i) \/ HydrateAgain(i) PROVE CountOK' /\ BadgeOK'
  <2>1. load[i] # Free /\ Hydrated(i) /\ UNCHANGED <<unpublished, wires, stream>>
    BY <1>2 DEF Hydrate, HydrateAgain, Is, server
  <2> QED BY <1>0, <2>1, HydratedCount, ShownAnew
<1>3. ASSUME NEW i \in Slots, RenewUser(i) PROVE CountOK' /\ BadgeOK'
  <2>1. PICK n \in Sockets \ {1} :
          /\ socket' = [socket EXCEPT ![n] = "waiting", ![n - 1] = "waiting"]
          /\ wire' = [wire EXCEPT ![n - 1] = <<>>]
    BY <1>3 DEF RenewUser
  <2>2. UNCHANGED <<unpublished, feed, stream>>
    BY <1>3 DEF RenewUser, server, view
  <2>3. Sessions \subseteq Sessions'
    BY <2>1 DEF Sessions, CInv, TInv, MessagesOK
  <2>4. \A m \in Sockets : wire'[m] = <<>> \/ wire'[m] = wire[m]
    BY <2>1 DEF CInv, TInv, MessagesOK
  <2> QED BY <1>0, <2>2, <2>3, <2>4, ConnectionsCount
<1>4. ASSUME NEW c \in Countries, SelectCountry(c) \/ FetchFails(c) PROVE CountOK' /\ BadgeOK'
  <2>1. UNCHANGED <<unpublished, wires, stream, feed>>
    BY <1>4 DEF SelectCountry, FetchFails, server
  <2> QED BY <1>0, <2>1, ShownAnew DEF Shown
<1>5. ASSUME NEW c \in Countries, FetchAnswered(c) PROVE CountOK' /\ BadgeOK'
  <2>1. UNCHANGED <<unpublished, wires, stream>>
    BY <1>5 DEF FetchAnswered, server
  <2> QED BY <1>0, <1>5, <2>1, FetchAnsweredCount, ShownAnew
<1>6. ASSUME NEW n \in Sockets, Connect(n) \/ Cut(n) PROVE CountOK' /\ BadgeOK'
  <2>1. UNCHANGED <<unpublished, feed, stream>>
    BY <1>6 DEF Connect, Cut, server, view
  <2>2. Sessions \subseteq Sessions'
    BY <1>6 DEF Connect, Cut, Sessions, CInv, TInv, MessagesOK
  <2>3. \A m \in Sockets : wire'[m] = <<>> \/ wire'[m] = wire[m]
    BY <1>6 DEF Connect, Cut, CInv, TInv, MessagesOK
  <2> QED BY <1>0, <2>1, <2>2, <2>3, ConnectionsCount
<1>7. ASSUME NEW n \in Sockets, Receive(n) PROVE CountOK' /\ BadgeOK'
  BY <1>0, <1>7, ReceiveCount
<1>8. ASSUME NEW s \in Signals, Publish(s) PROVE CountOK' /\ BadgeOK'
  BY <1>0, <1>8, PublishCount
<1>9. ASSUME \/ \E s \in Signals : Store(s)
             \/ \E f \in Filters : Expire(f)
             \/ UNCHANGED vars
      PROVE  CountOK' /\ BadgeOK'
  <2>1. UNCHANGED <<unpublished, wires, stream, feed>>
    BY <1>9 DEF Store, Expire, vars, server, view
  <2> QED BY <1>0, <2>1, ShownAnew DEF Shown
<1>10. CASE Scroll \/ Render
  <2>1. UNCHANGED <<unpublished, wires, feed, buffer>>
    BY <1>10 DEF Scroll, Render, server, view
  <2>2. CountOK'
    <3>1. \A s \in Signals : Coming(s)' \subseteq Coming(s) /\ Shown(s)' = Shown(s)
      BY <2>1 DEF Coming, wires, Shown
    <3>2. Sessions' = Sessions /\ unpublished' = unpublished /\ buffer' = buffer
      BY <2>1 DEF Sessions, wires
    <3> QED BY <1>0, <3>1, <3>2, FewerComing, CountKept
  <2>3. badge' = badge \/ badge' = buffer
    BY <1>10 DEF Scroll, Render
  <2>4. BadgeOK'
    BY <2>1, <2>3 DEF CInv, TInv, ReaderOK, BadgeOK
  <2> QED BY <2>2, <2>4
<1>11. CASE Release
  BY <1>0, <1>11, ReleaseCount
<1> QED
  BY <1>1, <1>2, <1>3, <1>4, <1>5, <1>6, <1>7, <1>8, <1>9, <1>10, <1>11
  DEF Next, LoadGoesOn

(* No signal is shown or waits more often than its copies were pushed, and *)
(* once from a load (the handlers of App.tsx that change newsFeed).        *)
THEOREM SignalsAreNotMultiplied == Spec => []NoSignalMultiplied
<1>1. CInv => NoSignalMultiplied
  <2> SUFFICES ASSUME CInv, NEW s \in Signals
               PROVE  Shown(s) + Times(s, buffer)
                        <= Copies * Cardinality({n \in Sockets : socket[n] # "none"}) + 1
    BY DEF NoSignalMultiplied
  <2>1. Cardinality(Coming(s)) + Times(s, buffer) + Shown(s) <= Allowed + 1
    BY DEF CInv, CountOK
  <2>2. /\ Cardinality(Coming(s)) \in Nat /\ Times(s, buffer) \in Nat /\ Shown(s) \in Nat
        /\ Allowed \in Nat
    BY NumbersType
  <2>3. Shown(s) + Times(s, buffer) <= Allowed + 1
    BY <2>1, <2>2
  <2> QED BY <2>3 DEF Allowed, Sessions
<1> QED BY <1>1, InitCInv, StepCInv, PTL DEF Spec

-----------------------------------------------------------------------------
(* What a step may take from the page.                                     *)

(* A step that takes a signal from the page is an answer or fills a list.  *)
VanishesOnly(s) ==
  Shown(s) > 0 /\ Shown(s)' = 0 =>
    \/ \E i \in Slots : Hydrate(i) \/ HydrateAgain(i)
    \/ fetches[Country[s]]' < fetches[Country[s]]
    \/ feed[Country[s]]' # Missing /\ Len(feed[Country[s]]') >= Cap

(* What leaves newsFeed alone takes nothing from the page.                 *)
LEMMA StaysElsewhere ==
  ASSUME UNCHANGED feed, NEW s \in Signals PROVE VanishesOnly(s)
<1>1. Shown(s)' = Shown(s)
  BY DEF Shown
<1>2. ~(Shown(s) > 0 /\ Shown(s)' = 0)
  BY <1>1
<1> QED BY <1>2 DEF VanishesOnly

(* The answer for one country ends a fetch of it.                          *)
LEMMA FetchAnsweredShows ==
  ASSUME TInv, NEW c \in Countries, FetchAnswered(c), NEW s \in Signals
  PROVE  VanishesOnly(s)
<1>1. PICK rows \in SUBSET {t \in stored : Country[t] = c} :
        LET new == [feed EXCEPT ![c] = NewestOf(Cardinality(rows), rows)]
        IN  feed' = new /\ fetches' = Fetching(new, selected, Finished(c))
  BY DEF FetchAnswered
<1> DEFINE q == NewestOf(Cardinality(rows), rows)
           new == [feed EXCEPT ![c] = q]
<1>2. rows \in SUBSET Signals
  BY DEF TInv, IInv, BackendOK
<1>3. q \in Seq(Signals) /\ q # Missing
  BY <1>2, EnumerationFacts, FS_CardinalityType, NewestFacts, MissingAssumption
<1>4. feed' = new /\ fetches' = Fetching(new, selected, Finished(c))
  BY <1>1
<1> HIDE DEF q
<1>5. feed \in Feeds /\ selected \in Countries /\ Country[s] \in Countries
  BY CountryOfSignal DEF TInv, DossiersOK
<1>6. CASE Country[s] = c
  <2>1. new[c] = q
    BY <1>5 DEF Feeds
  <2>2. Finished(c) \in [Countries -> 0..MaxFetches] /\ Finished(c)[c] < fetches[c]
    BY FinishedFacts DEF TInv, FetchAnswered
  <2> HIDE DEF new
  <2>3. fetches'[c] = Finished(c)[c]
    BY <1>3, <1>4, <1>5, <2>1, <2>2, FetchingFacts
  <2> QED BY <1>6, <2>2, <2>3 DEF VanishesOnly
<1>7. CASE Country[s] # c
  <2>1. feed'[Country[s]] = feed[Country[s]]
    BY <1>4, <1>5, <1>7 DEF Feeds
  <2>2. Shown(s)' = Shown(s)
    BY <2>1 DEF Shown
  <2>3. ~(Shown(s) > 0 /\ Shown(s)' = 0)
    BY <2>2
  <2> QED BY <2>3 DEF VanishesOnly
<1> QED BY <1>6, <1>7

(* A feed to which signals are prepended loses one only to the limit.      *)
LEMMA PrependingShows ==
  ASSUME TInv, NEW s \in Signals,
         \/ \E t \in Signals : feed' = Prepended(t, feed)
         \/ badge \in Seq(Signals) /\ feed' = Prepending(feed, badge)[Len(badge)]
  PROVE  VanishesOnly(s)
<1>1. feed \in Feeds
  BY DEF TInv, DossiersOK
<1>2. Shown(s) = In(s, feed) /\ Shown(s)' = In(s, feed')
  BY DEF Shown, In
<1>3. ASSUME In(s, feed) > 0
      PROVE  In(s, feed') > 0 \/ (feed'[Country[s]] # Missing /\ Len(feed'[Country[s]]) >= Cap)
  <2>1. CASE \E t \in Signals : feed' = Prepended(t, feed)
    <3>1. PICK t \in Signals : feed' = Prepended(t, feed)
      BY <2>1
    <3>2. feed[Country[s]] # Missing
      BY <1>3 DEF In
    <3>3. feed'[Country[s]] # Missing
      BY <1>1, <3>1, <3>2, PrependedFacts, CountryOfSignal
    <3>4. In(s, feed') > 0 \/ Len(feed'[Country[s]]) >= Cap
      BY <1>1, <1>3, <3>1, PrependedFacts
    <3> QED BY <3>3, <3>4
  <2>2. CASE badge \in Seq(Signals) /\ feed' = Prepending(feed, badge)[Len(badge)]
    BY <1>1, <1>3, <2>2, PrependingFacts
  <2> QED BY <2>1, <2>2
<1>4. In(s, feed') > 0 => ~(In(s, feed') = 0)
  OBVIOUS
<1>5. feed'[Country[s]] = feed[Country[s]]'
  OBVIOUS
<1> QED BY <1>2, <1>3, <1>4, <1>5 DEF VanishesOnly

(* Every step is one of those.                                             *)
LEMMA StepShows == TInv /\ [Next]_vars => [\A s \in Signals : VanishesOnly(s)]_vars
<1> SUFFICES ASSUME TInv, Next, NEW s \in Signals PROVE VanishesOnly(s)
  OBVIOUS
<1>1. ASSUME NEW i \in Slots,
             \/ Refresh(i) \/ Answer(i) \/ RefreshRefused(i) \/ LoadFails(i)
             \/ \E f \in Filters : ChangeFilter(i, f)
             \/ RenewUser(i)
      PROVE  VanishesOnly(s)
  <2>1. UNCHANGED feed
    BY <1>1 DEF Refresh, Answer, RefreshRefused, LoadFails, ChangeFilter, RenewUser, view
  <2> QED BY <2>1, StaysElsewhere
<1>2. ASSUME NEW i \in Slots, Hydrate(i) \/ HydrateAgain(i) PROVE VanishesOnly(s)
  BY <1>2, Zenon DEF VanishesOnly
<1>3. ASSUME NEW c \in Countries, SelectCountry(c) \/ FetchFails(c) PROVE VanishesOnly(s)
  BY <1>3, StaysElsewhere DEF SelectCountry, FetchFails
<1>4. ASSUME NEW c \in Countries, FetchAnswered(c) PROVE VanishesOnly(s)
  BY <1>4, FetchAnsweredShows
<1>5. ASSUME NEW n \in Sockets, Connect(n) \/ Cut(n) PROVE VanishesOnly(s)
  BY <1>5, StaysElsewhere DEF Connect, Cut, view
<1>6. ASSUME NEW n \in Sockets, Receive(n) PROVE VanishesOnly(s)
  <2> DEFINE t == Head(wire[n])
  <2>1. wire[n] \in Seq(Pushed) /\ wire[n] # <<>>
    BY <1>6 DEF TInv, MessagesOK, Receive
  <2>2. t \in Signals
    BY <2>1, SignalsAssumption
  <2>3. IF Accepts(filter, t) /\ ~scrolled /\ feed[Country[t]] # Missing
        THEN Updated(Prepended(t, feed)) ELSE UNCHANGED view
    BY <1>6 DEF Receive
  <2> HIDE DEF t
  <2>4. UNCHANGED feed \/ feed' = Prepended(t, feed)
    BY <2>3 DEF Updated, view
  <2> QED BY <2>2, <2>4, StaysElsewhere, PrependingShows
<1>7. ASSUME \/ \E t \in Signals : Publish(t) \/ Store(t)
             \/ \E f \in Filters : Expire(f)
             \/ Scroll \/ Render
      PROVE  VanishesOnly(s)
  <2>1. UNCHANGED feed
    BY <1>7 DEF Publish, Store, Expire, Scroll, Render, view
  <2> QED BY <2>1, StaysElsewhere
<1>8. CASE Release
  <2>1. badge \in Seq(Signals) /\ feed' = Prepending(feed, badge)[Len(badge)]
    BY <1>8, SignalsAssumption DEF TInv, ReaderOK, Release, Updated
  <2> QED BY <2>1, PrependingShows
<1> QED BY <1>1, <1>2, <1>3, <1>4, <1>5, <1>6, <1>7, <1>8 DEF Next, LoadGoesOn

(* A signal that is shown stays until an answer replaces the list of its   *)
(* country or newer ones fill it (setNewsFeed in App.tsx).                 *)
THEOREM SignalsDoNotVanish == Spec => NothingVanishes
BY InitTInv, StepTInv, StepShows, PTL DEF Spec, NothingVanishes, VanishesOnly

(* The type invariant of the page and of what it keeps of the backend.     *)
THEOREM DashboardTypeOK == Spec => []TypeOK
BY TypeFromTInv, InitTInv, StepTInv, PTL DEF Spec

(* Whatever sessions and releases replay, a country's list stays within    *)
(* the cap of live updates or the number of its stored signals             *)
(* (socket.onmessage and releaseStreamBuffer in App.tsx).                  *)
THEOREM ListsDoNotGrow == Spec => []ListsStayShort
<1>1. TInv => ListsStayShort
  BY DEF TInv, DossiersOK, Short, Longest, ListsStayShort
<1> QED BY <1>1, InitTInv, StepTInv, PTL DEF Spec
=============================================================================
