--------------------------- MODULE PlanningProofs ---------------------------
(***************************************************************************)
(* Proofs about Planning, for any catalogue, any orders of models and any  *)
(* configuration.                                                          *)
(***************************************************************************)
EXTENDS Planning, FiniteSetTheorems, SequenceTheorems, WellFoundedInduction, TLAPS

-----------------------------------------------------------------------------
\* Arrangements.  upto[i] is what does not come after i.

Chain(I, upto) ==
    /\ upto \in [I -> SUBSET I]
    /\ \A i \in I : i \in upto[i]
    /\ \A i, k \in I : k \in upto[i] \/ i \in upto[k]
    /\ \A i, k \in I : k \in upto[i] /\ i \in upto[k] => i = k
    /\ \A i, k \in I : k \in upto[i] => upto[k] \subseteq upto[i]

\* Every place of I, and nothing else, went from s to a, as p says.
Moved(s, I, a, p) ==
    /\ p \in [I -> 1..Len(a)]
    /\ \A i \in I : a[p[i]] = s[i]
    /\ \A n \in 1..Len(a) : \E i \in I : p[i] = n

LEMMA UpToN ==
    ASSUME NEW n \in Nat
    PROVE  IsFiniteSet(1..n) /\ Cardinality(1..n) = n
  BY FS_Interval

\* Counts place the elements of a chain one after the other.
LEMMA Counts ==
    ASSUME NEW I, IsFiniteSet(I), NEW upto, Chain(I, upto),
           NEW place, place = [i \in I |-> Cardinality(upto[i])]
    PROVE  /\ Cardinality(I) \in Nat
           /\ place \in [I -> 1..Cardinality(I)]
           /\ \A i, k \in I : place[k] <= place[i] <=> k \in upto[i]
           /\ \A i, k \in I : place[k] = place[i] => k = i
           /\ \A n \in 1..Cardinality(I) : \E i \in I : place[i] = n
<1> DEFINE N == Cardinality(I)
<1>1. N \in Nat
  BY FS_CardinalityType
<1>2. ASSUME NEW i \in I
      PROVE  IsFiniteSet(upto[i]) /\ Cardinality(upto[i]) \in 1..N
  <2>1. upto[i] \subseteq I /\ i \in upto[i]
    BY DEF Chain
  <2>2. IsFiniteSet(upto[i]) /\ Cardinality(upto[i]) <= N
    BY <2>1, FS_Subset
  <2>3. Cardinality(upto[i]) \in Nat
    BY <2>2, FS_CardinalityType
  <2>4. Cardinality(upto[i]) # 0
    BY <2>1, <2>2, FS_EmptySet
  <2> QED BY <1>1, <2>2, <2>3, <2>4
<1>3. ASSUME NEW i \in I, NEW k \in I, k \in upto[i], k # i
      PROVE  Cardinality(upto[k]) < Cardinality(upto[i])
  <2>1. upto[k] \subseteq upto[i] /\ i \in upto[i] /\ i \notin upto[k]
    BY <1>3 DEF Chain
  <2>2. Cardinality(upto[k]) <= Cardinality(upto[i])
        /\ (Cardinality(upto[k]) = Cardinality(upto[i]) => upto[k] = upto[i])
    BY <1>2, <2>1, FS_Subset
  <2>3. upto[k] # upto[i]
    BY <2>1
  <2> QED BY <1>1, <1>2, <2>2, <2>3
<1>4. place \in [I -> 1..N]
  BY <1>2
<1>5. ASSUME NEW i \in I, NEW k \in I PROVE place[k] <= place[i] <=> k \in upto[i]
  <2>1. CASE k = i
    BY <1>1, <1>4, <2>1 DEF Chain
  <2>2. CASE k # i /\ k \in upto[i]
    BY <1>1, <1>2, <1>3, <2>2
  <2>3. CASE k # i /\ k \notin upto[i]
    <3>1. i \in upto[k]
      BY <2>3 DEF Chain
    <3> QED BY <1>1, <1>2, <1>3, <2>3, <3>1
  <2> QED BY <2>1, <2>2, <2>3
<1>6. ASSUME NEW i \in I, NEW k \in I, place[k] = place[i] PROVE k = i
  <2>1. place[k] <= place[i] /\ place[i] <= place[k]
    BY <1>1, <1>4, <1>6
  <2> QED BY <1>5, <2>1 DEF Chain
<1>7. place \in Injection(I, 1..N)
  BY <1>4, <1>6 DEF Injection, IsInjective
<1>8. IsFiniteSet(1..N) /\ Cardinality(1..N) = N
  BY <1>1, UpToN
<1>9. place \in Surjection(I, 1..N)
  BY <1>7, <1>8, FS_Injection
<1>10. \A n \in 1..N : \E i \in I : place[i] = n
  BY <1>9 DEF Surjection
<1> QED BY <1>1, <1>4, <1>5, <1>6, <1>10

\* What Arrange makes of such places.
InPlace(s, S, I, upto, place) ==
    /\ Arrange(s, I, place) \in Seq(S)
    /\ Len(Arrange(s, I, place)) = Cardinality(I)
    /\ Moved(s, I, Arrange(s, I, place), place)
    /\ \A i, k \in I : place[k] <= place[i] <=> k \in upto[i]

LEMMA Arranged ==
    ASSUME NEW I, IsFiniteSet(I), NEW upto, Chain(I, upto),
           NEW place, place = [i \in I |-> Cardinality(upto[i])],
           NEW S, NEW s, \A i \in I : s[i] \in S
    PROVE  InPlace(s, S, I, upto, place)
<1> DEFINE N == Cardinality(I)
           at == {<<place[i], i>> : i \in I}
           a == Arrange(s, I, place)
<1>1. /\ N \in Nat /\ place \in [I -> 1..N]
      /\ \A i, k \in I : place[k] <= place[i] <=> k \in upto[i]
      /\ \A i, k \in I : place[k] = place[i] => k = i
      /\ \A n \in 1..N : \E i \in I : place[i] = n
  BY Counts
<1>2. a = [n \in 1..N |-> s[(CHOOSE q \in at : q[1] = n)[2]]]
  BY DEF Arrange
<1>3. ASSUME NEW i \in I PROVE (CHOOSE q \in at : q[1] = place[i])[2] = i
  <2>1. <<place[i], i>> \in at /\ <<place[i], i>>[1] = place[i]
    OBVIOUS
  <2>2. ASSUME NEW q \in at, q[1] = place[i] PROVE q[2] = i
    <3>1. PICK k \in I : q = <<place[k], k>>
      OBVIOUS
    <3>2. place[k] = place[i]
      BY <2>2, <3>1
    <3> QED BY <1>1, <3>1, <3>2
  <2> HIDE DEF at
  <2> QED BY <2>1, <2>2
<1> HIDE DEF at
<1>4. ASSUME NEW i \in I PROVE a[place[i]] = s[i]
  BY <1>1, <1>2, <1>3
<1>5. a \in [1..N -> S]
  <2>1. ASSUME NEW n \in 1..N PROVE a[n] \in S
    <3>1. PICK i \in I : place[i] = n
      BY <1>1
    <3> QED BY <1>4, <3>1
  <2> HIDE DEF a
  <2> QED BY <1>2, <2>1
<1> HIDE DEF a, N
<1>6. a \in Seq(S) /\ Len(a) = N
  BY <1>1, <1>5, SeqDef
<1>7. Moved(s, I, a, place)
  BY <1>1, <1>4, <1>6 DEF Moved
<1> QED BY <1>1, <1>6, <1>7 DEF a, N, InPlace

\* A loop keeps what it is told to keep, in the order it was in.
LEMMA Kept ==
    ASSUME NEW S, NEW s \in Seq(S), NEW I, I \subseteq DOMAIN s
    PROVE  /\ Keep(s, I) \in Seq(S) /\ IsFiniteSet(I) /\ Len(Keep(s, I)) = Cardinality(I)
           /\ \E p : /\ Moved(s, I, Keep(s, I), p)
                     /\ \A i, k \in I : i < k <=> p[i] < p[k]
<1> DEFINE upto == [i \in I |-> {k \in I : k <= i}]
           place == [i \in I |-> Cardinality(upto[i])]
<1>1. Len(s) \in Nat /\ DOMAIN s = 1..Len(s) /\ I \subseteq Nat
  OBVIOUS
<1>2. IsFiniteSet(I)
  BY <1>1, UpToN, FS_Subset
<1>3. Chain(I, upto)
  BY <1>1 DEF Chain
<1>4. \A i \in I : s[i] \in S
  OBVIOUS
<1>5. \A i \in I : Cardinality(upto[i]) = Cardinality({k \in I : k <= i})
  OBVIOUS
<1>6. place = [i \in I |-> Cardinality({k \in I : k <= i})]
  BY <1>5
<1>7. Keep(s, I) = Arrange(s, I, place)
  BY <1>6 DEF Keep
<1>8. \A i, k \in I : k \in upto[i] <=> k <= i
  OBVIOUS
<1>9. /\ Arrange(s, I, place) \in Seq(S)
      /\ Len(Arrange(s, I, place)) = Cardinality(I)
      /\ Moved(s, I, Arrange(s, I, place), place)
      /\ \A i, k \in I : place[k] <= place[i] <=> k \in upto[i]
  <2> HIDE DEF upto
  <2>1. place = [i \in I |-> Cardinality(upto[i])]
    OBVIOUS
  <2> HIDE DEF place
  <2>2. InPlace(s, S, I, upto, place)
    BY <1>2, <1>3, <1>4, <2>1, Arranged
  <2> QED BY <2>2 DEF InPlace
<1> HIDE DEF upto, place
<1>10. \A i \in I : place[i] \in Nat
  BY <1>9 DEF Moved
<1>11. \A i, k \in I : i < k <=> place[i] < place[k]
  BY <1>1, <1>8, <1>9, <1>10
<1> QED BY <1>2, <1>7, <1>9, <1>11

\* A stable sort keeps everything: smaller keys first, equal ones as they were.
LEMMA Sorted ==
    ASSUME NEW S, NEW s \in Seq(S), NEW key \in [DOMAIN s -> Int]
    PROVE  /\ SortBy(s, key) \in Seq(S) /\ Len(SortBy(s, key)) = Len(s)
           /\ \E p : /\ Moved(s, DOMAIN s, SortBy(s, key), p)
                     /\ \A i, k \in DOMAIN s : key[i] < key[k] => p[i] < p[k]
<1> DEFINE I == DOMAIN s
           upto == [i \in I |-> {k \in I : key[k] < key[i] \/ (key[k] = key[i] /\ k <= i)}]
           place == [i \in I |-> Cardinality(upto[i])]
<1>1. Len(s) \in Nat /\ I = 1..Len(s) /\ I \subseteq Nat
  OBVIOUS
<1>2. IsFiniteSet(I) /\ Cardinality(I) = Len(s)
  BY <1>1, UpToN
<1>3. Chain(I, upto)
  <2>1. \A i \in I : key[i] \in Int /\ i \in Int
    OBVIOUS
  <2>2. \A i, k \in I : k \in upto[i] <=> (key[k] < key[i] \/ (key[k] = key[i] /\ k <= i))
    OBVIOUS
  <2>3. upto \in [I -> SUBSET I]
    OBVIOUS
  <2> HIDE DEF upto, I
  <2> QED BY <2>1, <2>2, <2>3 DEF Chain
<1>4. \A i \in I : s[i] \in S
  OBVIOUS
<1>7. SortBy(s, key) = Arrange(s, I, place)
  BY DEF SortBy
<1>8. \A i, k \in I : k \in upto[i] <=> (key[k] < key[i] \/ (key[k] = key[i] /\ k <= i))
  OBVIOUS
<1>9. /\ Arrange(s, I, place) \in Seq(S)
      /\ Len(Arrange(s, I, place)) = Cardinality(I)
      /\ Moved(s, I, Arrange(s, I, place), place)
      /\ \A i, k \in I : place[k] <= place[i] <=> k \in upto[i]
  <2> HIDE DEF upto
  <2>1. place = [i \in I |-> Cardinality(upto[i])]
    OBVIOUS
  <2> HIDE DEF place, I
  <2>2. InPlace(s, S, I, upto, place)
    BY <1>2, <1>3, <1>4, <2>1, Arranged
  <2> QED BY <2>2 DEF InPlace
<1>11. \A i, k \in I : key[i] < key[k] => place[i] < place[k]
  <2> HIDE DEF upto, place
  <2>1. \A i \in I : place[i] \in Nat /\ key[i] \in Int
    BY <1>9 DEF Moved
  <2> HIDE DEF I
  <2> QED BY <1>8, <1>9, <2>1
<1> HIDE DEF upto, place
<1> QED BY <1>2, <1>7, <1>9, <1>11

\* What is in a sequence after a loop and after a sort.
LEMMA KeptSet ==
    ASSUME NEW S, NEW s \in Seq(S), NEW I, I \subseteq DOMAIN s
    PROVE  ToSet(Keep(s, I)) = {s[i] : i \in I}
<1>1. Keep(s, I) \in Seq(S)
  BY Kept
<1>2. PICK p : Moved(s, I, Keep(s, I), p)
  BY Kept
<1>3. DOMAIN Keep(s, I) = 1..Len(Keep(s, I))
  BY <1>1
<1> QED BY <1>2, <1>3 DEF Moved, ToSet

LEMMA SortedSet ==
    ASSUME NEW S, NEW s \in Seq(S), NEW key \in [DOMAIN s -> Int]
    PROVE  ToSet(SortBy(s, key)) = ToSet(s)
<1>1. SortBy(s, key) \in Seq(S)
  BY Sorted
<1>2. PICK p : Moved(s, DOMAIN s, SortBy(s, key), p)
  BY Sorted
<1>3. DOMAIN SortBy(s, key) = 1..Len(SortBy(s, key))
  BY <1>1
<1> QED BY <1>2, <1>3 DEF Moved, ToSet

\* Keeping everything changes nothing.
LEMMA KeptAll ==
    ASSUME NEW S, NEW s \in Seq(S)
    PROVE  Keep(s, DOMAIN s) = s
<1> DEFINE I == DOMAIN s
           a == Keep(s, I)
<1>0. Len(s) \in Nat /\ I = 1..Len(s)
  OBVIOUS
<1>1. Len(s) \in Nat /\ I = 1..Len(s) /\ Cardinality(I) = Len(s)
  BY <1>0, UpToN
<1>2. a \in Seq(S) /\ Len(a) = Len(s)
  BY <1>1, Kept
<1>3. PICK p : Moved(s, I, a, p) /\ \A i, k \in I : i < k <=> p[i] < p[k]
  BY Kept
<1> DEFINE P == [i \in I |-> Cardinality({k \in I : k <= i})]
           at == {<<P[i], i>> : i \in I}
<1>4. ASSUME NEW i \in I PROVE P[i] = i
  <2>1. {k \in I : k <= i} = 1..i /\ i \in Nat
    BY <1>1
  <2>2. P[i] = Cardinality(1..i)
    BY <2>1
  <2> QED BY <2>1, <2>2, UpToN
<1>5. a = [n \in 1..Cardinality(I) |-> s[(CHOOSE q \in at : q[1] = n)[2]]]
  BY DEF Keep, Arrange
<1>6. ASSUME NEW n \in I PROVE (CHOOSE q \in at : q[1] = n)[2] = n
  <2>1. <<P[n], n>> \in at /\ <<P[n], n>>[1] = n
    BY <1>4
  <2>2. ASSUME NEW q \in at, q[1] = n PROVE q[2] = n
    <3>1. PICK k \in I : q = <<P[k], k>>
      OBVIOUS
    <3> QED BY <1>4, <2>2, <3>1
  <2> HIDE DEF at, P
  <2> QED BY <2>1, <2>2
<1>7. \A n \in 1..Len(s) : a[n] = s[n]
  <2> HIDE DEF at
  <2> QED BY <1>1, <1>5, <1>6
<1>8. \A t \in Seq(S) : Len(t) = Len(s) /\ (\A n \in 1..Len(s) : t[n] = s[n]) => t = s
  OBVIOUS
<1> HIDE DEF a
<1>9. a = s
  BY <1>2, <1>7, <1>8
<1> QED BY <1>9 DEF a

-----------------------------------------------------------------------------
\* The operators of the catalogue: what they return, and of what.

\* What a plan needs of the state.
StateOK == config \in Config /\ listed \subseteq ToSet(Offers)

LEMMA Members ==
    ASSUME NEW S, NEW s \in Seq(S)
    PROVE  /\ ToSet(s) \subseteq S
           /\ DOMAIN s = 1..Len(s) /\ Len(s) \in Nat
           /\ \A x : x \in ToSet(s) <=> \E i \in 1..Len(s) : x = s[i]
  BY DEF ToSet

LEMMA CandOfOK ==
    ASSUME NEW p \in Profile
    PROVE  /\ CandOf(p) \in Candidate /\ CandOf(p).provider = p.provider
           /\ CandOf(p).model = p.model
  BY DEF CandOf, Candidate, Profile

LEMMA CandsOK ==
    ASSUME NEW pool \in Seq(Profile)
    PROVE  /\ Cands(pool) \in Seq(Candidate) /\ Len(Cands(pool)) = Len(pool)
           /\ \A i \in 1..Len(pool) : Cands(pool)[i] = CandOf(pool[i])
           /\ ToSet(Cands(pool)) = {CandOf(p) : p \in ToSet(pool)}
<1>1. DOMAIN pool = 1..Len(pool) /\ Len(pool) \in Nat
  OBVIOUS
<1>2. \A i \in 1..Len(pool) : pool[i] \in Profile
  OBVIOUS
<1>3. Cands(pool) \in [1..Len(pool) -> Candidate]
  BY <1>1, <1>2, CandOfOK DEF Cands
<1>4. Cands(pool) \in Seq(Candidate) /\ Len(Cands(pool)) = Len(pool)
  BY <1>1, <1>3, SeqDef
<1>5. \A i \in 1..Len(pool) : Cands(pool)[i] = CandOf(pool[i])
  BY <1>1 DEF Cands
<1>6. DOMAIN Cands(pool) = 1..Len(pool)
  BY <1>3
<1> QED BY <1>1, <1>4, <1>5, <1>6 DEF ToSet

LEMMA DiscoveredOK ==
    ASSUME StateOK
    PROVE  Discovered \in Seq(Profile) /\ ToSet(Discovered) = listed
<1> DEFINE I == {i \in DOMAIN Offers : Offers[i] \in listed}
<1>1. Offers \in Seq(Profile)
  BY CatalogueAssumption
<1>2. Discovered = Keep(Offers, I)
  BY DEF Discovered
<1>3. Discovered \in Seq(Profile)
  BY <1>1, <1>2, Kept
<1>4. ToSet(Discovered) = {Offers[i] : i \in I}
  BY <1>1, <1>2, KeptSet
<1> QED BY <1>3, <1>4 DEF StateOK, ToSet

\* The two parts of the catalogue, one after the other.
LEMMA JoinOK ==
    ASSUME NEW S, NEW s \in Seq(S), NEW t \in Seq(S)
    PROVE  s \o t \in Seq(S) /\ ToSet(s \o t) = ToSet(s) \cup ToSet(t)
<1> DEFINE m == Len(s)
           n == Len(t)
           u == s \o t
<1>1. u \in Seq(S) /\ m \in Nat /\ n \in Nat /\ Len(u) = m + n
  OBVIOUS
<1>2. \A i \in 1..m : u[i] = s[i]
  OBVIOUS
<1>3. \A i \in 1..n : u[m + i] = t[i]
  OBVIOUS
<1>4. /\ \A x : x \in ToSet(s) <=> \E i \in 1..m : x = s[i]
      /\ \A x : x \in ToSet(t) <=> \E i \in 1..n : x = t[i]
      /\ \A x : x \in ToSet(u) <=> \E i \in 1..(m + n) : x = u[i]
  <2>1. DOMAIN s = 1..m /\ DOMAIN t = 1..n /\ DOMAIN u = 1..(m + n)
    BY <1>1
  <2> QED BY <2>1 DEF ToSet
<1> HIDE DEF m, n, u
<1>5. ASSUME NEW x \in ToSet(u) PROVE x \in ToSet(s) \cup ToSet(t)
  <2>1. PICK i \in 1..(m + n) : x = u[i]
    BY <1>4
  <2>2. CASE i <= m
    BY <1>1, <1>2, <1>4, <2>1, <2>2
  <2>3. CASE i > m
    <3>1. i - m \in 1..n /\ m + (i - m) = i
      BY <1>1, <2>3
    <3> QED BY <1>3, <1>4, <2>1, <3>1
  <2> QED BY <1>1, <2>2, <2>3
<1>6. ASSUME NEW x \in ToSet(s) PROVE x \in ToSet(u)
  BY <1>1, <1>2, <1>4
<1>7. ASSUME NEW x \in ToSet(t) PROVE x \in ToSet(u)
  <2>1. PICK i \in 1..n : x = t[i]
    BY <1>4
  <2>2. m + i \in 1..(m + n)
    BY <1>1
  <2> QED BY <1>3, <1>4, <2>1, <2>2
<1>8. u \in Seq(S) /\ ToSet(u) = ToSet(s) \cup ToSet(t)
  BY <1>1, <1>5, <1>6, <1>7
<1> QED BY <1>8 DEF u

\* FreeModels: free profiles of the catalogue.
LEMMA FreeModelsOK ==
    ASSUME StateOK
    PROVE  /\ FreeModels \in Seq(Profile)
           /\ \A p \in ToSet(FreeModels) : Free(p) /\ p \in ToSet(Curated) \cup listed
<1> DEFINE I == {i \in DOMAIN Curated : Free(Curated[i])}
           J == {i \in DOMAIN Discovered : Free(Discovered[i])}
           s == Keep(Curated, I) \o Keep(Discovered, J)
           key == [i \in DOMAIN s |-> NameOrder[CandOf(s[i])]]
<1>1. Curated \in Seq(Profile) /\ Discovered \in Seq(Profile) /\ ToSet(Discovered) = listed
  BY CatalogueAssumption, DiscoveredOK
<1>2. Keep(Curated, I) \in Seq(Profile) /\ Keep(Discovered, J) \in Seq(Profile)
  BY <1>1, Kept
<1>3. ToSet(Keep(Curated, I)) = {Curated[i] : i \in I}
  BY <1>1, KeptSet
<1>4. ToSet(Keep(Discovered, J)) = {Discovered[i] : i \in J}
  BY <1>1, KeptSet
<1>5. s \in Seq(Profile)
      /\ ToSet(s) = ToSet(Keep(Curated, I)) \cup ToSet(Keep(Discovered, J))
  BY <1>2, JoinOK
<1>6. FreeModels = SortBy(s, key)
  BY DEF FreeModels, FreeOf, ByName
<1>7. key \in [DOMAIN s -> Int]
  <2>1. \A i \in DOMAIN s : s[i] \in Profile
    BY <1>5
  <2> HIDE DEF s
  <2> QED BY <2>1, CandOfOK, OrderAssumption
<1>8. \A p \in ToSet(s) : Free(p) /\ p \in ToSet(Curated) \cup listed
  <2>1. \A i \in I : Free(Curated[i]) /\ Curated[i] \in ToSet(Curated)
    BY DEF ToSet
  <2>2. \A i \in J : Free(Discovered[i]) /\ Discovered[i] \in ToSet(Discovered)
    BY DEF ToSet
  <2> HIDE DEF s, I, J
  <2> QED BY <1>1, <1>3, <1>4, <1>5, <2>1, <2>2
<1> HIDE DEF s, key
<1> QED BY <1>5, <1>6, <1>7, <1>8, Sorted, SortedSet

\* Resolve: the places of one model.
LEMMA ResolveOK ==
    ASSUME StateOK, NEW m
    PROVE  /\ Resolve(m) \in Seq(Profile)
           /\ \A p \in ToSet(Resolve(m)) :
                 SameModel(p.model, m) /\ p \in ToSet(Curated) \cup listed
<1> DEFINE c == Curated \o Discovered
           I == {i \in DOMAIN c : SameModel(c[i].model, m)}
           s == Keep(c, I)
           key == [i \in DOMAIN s |-> s[i].cost]
<1>1. c \in Seq(Profile) /\ ToSet(c) = ToSet(Curated) \cup listed
  BY CatalogueAssumption, DiscoveredOK, JoinOK
<1>2. \A i \in I : SameModel(c[i].model, m) /\ c[i] \in ToSet(c)
  BY DEF ToSet
<1>3. Resolve(m) = SortBy(s, key)
  BY DEF Resolve, ByCost, Serving
<1> HIDE DEF c
<1>4. s \in Seq(Profile)
  BY <1>1, Kept
<1>5. ToSet(s) = {c[i] : i \in I}
  BY <1>1, KeptSet
<1>6. key \in [DOMAIN s -> Int]
  <2>1. \A i \in DOMAIN s : s[i] \in Profile
    BY <1>4
  <2> HIDE DEF s
  <2> QED BY <2>1 DEF Profile
<1> HIDE DEF s, key, I
<1>7. SortBy(s, key) \in Seq(Profile) /\ ToSet(SortBy(s, key)) = ToSet(s)
  BY <1>4, <1>6, Sorted, SortedSet
<1>8. \A x \in ToSet(s) : SameModel(x.model, m) /\ x \in ToSet(c)
  BY <1>2, <1>5
<1> QED BY <1>1, <1>3, <1>7, <1>8

\* Rank: curated profiles.
LEMMA RankOK ==
    ASSUME NEW task \in Tasks
    PROVE  Rank(task) \in Seq(Profile)
<1> DEFINE fit == Keep(Curated, {i \in DOMAIN Curated : task \in Curated[i].tasks})
           s == IF fit # <<>> THEN fit ELSE Curated
           key == [i \in DOMAIN s |-> Score[task][CandOf(s[i])]]
<1>1. Curated \in Seq(Profile)
  BY CatalogueAssumption
<1>2. fit \in Seq(Profile)
  BY <1>1, Kept
<1>3. s \in Seq(Profile)
  BY <1>1, <1>2
<1>4. Rank(task) = SortBy(s, key)
  BY DEF Rank, ByScore, OrElse
<1> HIDE DEF s
<1>5. key \in [DOMAIN s -> Int]
  <2>1. \A i \in DOMAIN s : s[i] \in Profile
    BY <1>3
  <2>2. \A x \in Candidate : Score[task][x] \in Int
    BY OrderAssumption
  <2> QED BY <2>1, <2>2, CandOfOK
<1> HIDE DEF key
<1> QED BY <1>3, <1>4, <1>5, Sorted

LEMMA RankForTaskOK ==
    ASSUME NEW pool \in Seq(Profile), NEW task \in Tasks
    PROVE  RankForTask(pool, task) \in Seq(Profile)
           /\ ToSet(RankForTask(pool, task)) = ToSet(pool)
<1> DEFINE key == [i \in DOMAIN pool |-> Fitness[task][CandOf(pool[i])]]
<1>1. RankForTask(pool, task) = SortBy(pool, key)
  BY DEF RankForTask
<1>2. key \in [DOMAIN pool -> Int]
  <2>1. \A i \in DOMAIN pool : pool[i] \in Profile
    OBVIOUS
  <2>2. \A x \in Candidate : Fitness[task][x] \in Int
    BY OrderAssumption
  <2> QED BY <2>1, <2>2, CandOfOK
<1> HIDE DEF key
<1> QED BY <1>1, <1>2, Sorted, SortedSet

\* The marks of a pool: all of what is left has one, or none has.
LEMMA RestrictOK ==
    ASSUME NEW pool \in Seq(Profile), NEW task
    PROVE  /\ RestrictToTagged(pool, task) \in Seq(Profile)
           /\ ToSet(RestrictToTagged(pool, task)) \subseteq ToSet(pool)
           /\ \/ \A p \in ToSet(RestrictToTagged(pool, task)) : <<CandOf(p), task>> \in marks
              \/ \A p \in ToSet(RestrictToTagged(pool, task)) : <<CandOf(p), task>> \notin marks
<1> DEFINE I == {i \in DOMAIN pool : <<CandOf(pool[i]), task>> \in marks}
           marked == Keep(pool, I)
<1>1. RestrictToTagged(pool, task) = IF marked = <<>> THEN pool ELSE marked
  BY DEF RestrictToTagged, OrElse
<1>2. marked \in Seq(Profile)
  BY Kept
<1>3. ToSet(marked) = {pool[i] : i \in I}
  BY KeptSet
<1>4. ToSet(pool) = {pool[i] : i \in DOMAIN pool}
  BY DEF ToSet
<1>5. marked = <<>> => ToSet(marked) = {}
  BY DEF ToSet
<1> HIDE DEF marked
<1> QED BY <1>1, <1>2, <1>3, <1>4, <1>5

\* Confirmed models first.
LEMMA PreferConfirmedOK ==
    ASSUME NEW pool \in Seq(Profile)
    PROVE  /\ PreferConfirmed(pool) \in Seq(Profile)
           /\ ToSet(PreferConfirmed(pool)) = ToSet(pool)
           /\ \A i, k \in 1..Len(PreferConfirmed(pool)) :
                 i < k /\ CandOf(PreferConfirmed(pool)[k]) \in confirmed
                    => CandOf(PreferConfirmed(pool)[i]) \in confirmed
<1>1. CASE confirmed = {}
  BY <1>1 DEF PreferConfirmed
<1>2. CASE confirmed # {}
  <2> DEFINE key == [i \in DOMAIN pool |-> IF CandOf(pool[i]) \in confirmed THEN 0 ELSE 1]
             a == SortBy(pool, key)
  <2>1. PreferConfirmed(pool) = a
    BY <1>2 DEF PreferConfirmed
  <2>2. key \in [DOMAIN pool -> Int]
    OBVIOUS
  <2>3. \A i \in DOMAIN pool : key[i] = IF CandOf(pool[i]) \in confirmed THEN 0 ELSE 1
    OBVIOUS
  <2> HIDE DEF key
  <2>4. a \in Seq(Profile) /\ ToSet(a) = ToSet(pool) /\ Len(a) \in Nat
    BY <2>2, Sorted, SortedSet
  <2>5. PICK p : /\ Moved(pool, DOMAIN pool, a, p)
                 /\ \A i, k \in DOMAIN pool : key[i] < key[k] => p[i] < p[k]
    BY <2>2, Sorted
  <2> HIDE DEF a
  <2>6. ASSUME NEW i \in 1..Len(a), NEW k \in 1..Len(a), i < k, CandOf(a[k]) \in confirmed
        PROVE  CandOf(a[i]) \in confirmed
    <3>1. PICK x \in DOMAIN pool : p[x] = i
      BY <2>5 DEF Moved
    <3>2. PICK y \in DOMAIN pool : p[y] = k
      BY <2>5 DEF Moved
    <3>3. a[i] = pool[x] /\ a[k] = pool[y]
      BY <2>5, <3>1, <3>2 DEF Moved
    <3>4. ~(key[y] < key[x])
      BY <2>4, <2>5, <2>6, <3>1, <3>2
    <3> QED BY <2>3, <2>6, <3>3, <3>4
  <2> QED BY <2>1, <2>4, <2>6
<1> QED BY <1>1, <1>2

LEMMA ConfirmedOnlyOK ==
    ASSUME NEW pool \in Seq(Profile)
    PROVE  /\ ConfirmedOnly(pool) \in Seq(Profile)
           /\ ToSet(ConfirmedOnly(pool)) \subseteq ToSet(pool)
           /\ confirmed = {} \/ \A p \in ToSet(ConfirmedOnly(pool)) : CandOf(p) \in confirmed
<1>1. CASE confirmed = {}
  BY <1>1 DEF ConfirmedOnly
<1>2. CASE confirmed # {}
  <2> DEFINE I == {i \in DOMAIN pool : CandOf(pool[i]) \in confirmed}
  <2>1. ConfirmedOnly(pool) = Keep(pool, I)
    BY <1>2 DEF ConfirmedOnly
  <2>2. Keep(pool, I) \in Seq(Profile) /\ ToSet(Keep(pool, I)) = {pool[i] : i \in I}
    BY Kept, KeptSet
  <2> QED BY <2>1, <2>2 DEF ToSet
<1> QED BY <1>1, <1>2

\* The screens of candidates.
LEMMA KeyedOK ==
    ASSUME NEW cands \in Seq(Candidate)
    PROVE  /\ FilterToKeyed(cands) \in Seq(Candidate)
           /\ ToSet(FilterToKeyed(cands)) = {c \in ToSet(cands) : c.provider \in keyed}
<1> DEFINE I == {i \in DOMAIN cands : cands[i].provider \in keyed}
<1>1. FilterToKeyed(cands) = Keep(cands, I)
  BY DEF FilterToKeyed
<1>2. Keep(cands, I) \in Seq(Candidate) /\ ToSet(Keep(cands, I)) = {cands[i] : i \in I}
  BY Kept, KeptSet
<1> QED BY <1>1, <1>2 DEF ToSet

LEMMA UsableOK ==
    ASSUME NEW cands \in Seq(Candidate)
    PROVE  /\ Usable(cands) \in Seq(Candidate)
           /\ ToSet(Usable(cands)) = {c \in ToSet(cands) :
                  c.provider \in keyed /\ c \notin bench /\ ServesModel(c)}
<1> DEFINE I == {i \in DOMAIN cands : /\ cands[i].provider \in keyed /\ cands[i] \notin bench
                                      /\ ServesModel(cands[i])}
<1>1. Usable(cands) = Keep(cands, I)
  BY DEF Usable
<1>2. Keep(cands, I) \in Seq(Candidate) /\ ToSet(Keep(cands, I)) = {cands[i] : i \in I}
  BY Kept, KeptSet
<1> QED BY <1>1, <1>2 DEF ToSet

LEMMA VetoedOK ==
    ASSUME NEW cands \in Seq(Candidate)
    PROVE  /\ ExcludeBlacklisted(cands) \in Seq(Candidate)
           /\ ToSet(ExcludeBlacklisted(cands)) = {c \in ToSet(cands) : c \notin blacklist}
           /\ blacklist = {} => ExcludeBlacklisted(cands) = cands
<1> DEFINE I == {i \in DOMAIN cands : cands[i] \notin blacklist}
<1>1. ExcludeBlacklisted(cands) = Keep(cands, I)
  BY DEF ExcludeBlacklisted
<1>2. Keep(cands, I) \in Seq(Candidate) /\ ToSet(Keep(cands, I)) = {cands[i] : i \in I}
  BY Kept, KeptSet
<1>3. ASSUME blacklist = {} PROVE Keep(cands, I) = cands
  <2>1. I = DOMAIN cands
    BY <1>3
  <2> QED BY <2>1, KeptAll
<1> QED BY <1>1, <1>2, <1>3 DEF ToSet

\* placements: of the model asked for.
LEMMA PlacementsOK ==
    ASSUME StateOK, NEW m \in Models
    PROVE  /\ Placements(m) \in Seq(Candidate)
           /\ \A c \in ToSet(Placements(m)) : SameModel(c.model, m)
<1> DEFINE found == Cands(Resolve(m))
           native == {np \in Native : np[1] = Lower[m]}
           one == <<[provider |-> (CHOOSE np \in native : TRUE)[2], model |-> m]>>
<1>1. Resolve(m) \in Seq(Profile) /\ \A p \in ToSet(Resolve(m)) : SameModel(p.model, m)
  BY ResolveOK
<1>2. found \in Seq(Candidate) /\ ToSet(found) = {CandOf(p) : p \in ToSet(Resolve(m))}
  BY <1>1, CandsOK
<1>3. \A c \in ToSet(found) : SameModel(c.model, m)
  <2>1. ToSet(Resolve(m)) \subseteq Profile
    BY <1>1, Members
  <2> QED BY <1>1, <1>2, <2>1, CandOfOK
<1>4. <<>> \in Seq(Candidate) /\ ToSet(<<>>) = {}
  BY DEF ToSet
<1>5. ASSUME native # {}
      PROVE  one \in Seq(Candidate) /\ \A c \in ToSet(one) : SameModel(c.model, m)
  <2>1. (CHOOSE np \in native : TRUE) \in native
    BY <1>5
  <2>2. (CHOOSE np \in native : TRUE)[2] \in Providers
    BY <2>1, OrderAssumption
  <2> DEFINE c == [provider |-> (CHOOSE np \in native : TRUE)[2], model |-> m]
  <2>3. c \in Candidate /\ SameModel(c.model, m)
    BY <2>2 DEF Candidate, SameModel
  <2> HIDE DEF c
  <2>4. <<c>> \in Seq(Candidate) /\ ToSet(<<c>>) = {c}
    BY <2>3 DEF ToSet
  <2> QED BY <2>3, <2>4 DEF c
<1>6. Placements(m) = IF found # <<>> THEN found ELSE IF native = {} THEN <<>> ELSE one
  BY DEF Placements, OrElse
<1> HIDE DEF found, native, one
<1> QED BY <1>2, <1>3, <1>4, <1>5, <1>6

\* Named: the candidates a request names.
LEMMA NamedOK ==
    ASSUME StateOK, NEW ask \in Ask
    PROVE  Named(ask) \in Seq(Candidate)
<1>1. ask.provider \in Providers /\ ask.model \in Models
  BY DEF Ask
<1> DEFINE c == [provider |-> ask.provider, model |-> ask.model]
<1>2. c \in Candidate
  BY <1>1 DEF Candidate
<1> HIDE DEF c
<1>3. <<c>> \in Seq(Candidate) /\ <<>> \in Seq(Candidate)
  BY <1>2
<1>4. Placements(ask.model) \in Seq(Candidate)
  BY <1>1, PlacementsOK
<1>5. Named(ask) \in {<<c>>, Placements(ask.model), <<>>}
  BY DEF Named, c
<1> QED BY <1>3, <1>4, <1>5

\* Sequences appended one after the other.
LEMMA ConcatOK ==
    ASSUME NEW S, NEW n \in Nat, NEW ss, DOMAIN ss = 1..n,
           \A i \in 1..n : ss[i] \in Seq(S)
    PROVE  /\ Concat(ss) \in Seq(S)
           /\ \A x \in ToSet(Concat(ss)) : \E i \in 1..n : x \in ToSet(ss[i])
<1> DEFINE I == UNION {{i} \X (DOMAIN ss[i]) : i \in DOMAIN ss}
           f == [q \in I |-> ss[q[1]][q[2]]]
           upto == [q \in I |-> {r \in I : r[1] < q[1] \/ (r[1] = q[1] /\ r[2] <= q[2])}]
           place == [q \in I |-> Cardinality(upto[q])]
<1>1. \A i \in 1..n : DOMAIN ss[i] = 1..Len(ss[i]) /\ Len(ss[i]) \in Nat
  OBVIOUS
<1>2. ASSUME NEW q \in I
      PROVE  /\ q = <<q[1], q[2]>> /\ q[1] \in 1..n /\ q[2] \in DOMAIN ss[q[1]]
             /\ q[2] \in Nat
  <2>1. PICK i \in 1..n : q \in {i} \X (DOMAIN ss[i])
    OBVIOUS
  <2> QED BY <1>1, <2>1
<1>3. IsFiniteSet(I)
  <2> DEFINE T == {{i} \X (DOMAIN ss[i]) : i \in DOMAIN ss}
             g == [i \in 1..n |-> {i} \X (DOMAIN ss[i])]
  <2>1. IsFiniteSet(1..n)
    BY UpToN
  <2>2. g \in Surjection(1..n, T)
    BY DEF Surjection
  <2>3. IsFiniteSet(T)
    <3> HIDE DEF g, T
    <3> QED BY <2>1, <2>2, FS_Surjection
  <2>4. \A U \in T : IsFiniteSet(U)
    <3> SUFFICES ASSUME NEW i \in 1..n PROVE IsFiniteSet({i} \X (DOMAIN ss[i]))
      OBVIOUS
    <3>1. IsFiniteSet(DOMAIN ss[i])
      BY <1>1, UpToN
    <3>2. IsFiniteSet({i})
      BY FS_Singleton
    <3> QED BY <3>1, <3>2, FS_Product
  <2> HIDE DEF T
  <2>5. IsFiniteSet(UNION T)
    BY <2>3, <2>4, FS_UNION
  <2> QED BY <2>5 DEF T
<1>4. \A q \in I : f[q] \in S /\ f[q] \in ToSet(ss[q[1]])
  <2> SUFFICES ASSUME NEW q \in I PROVE f[q] \in S /\ f[q] \in ToSet(ss[q[1]])
    OBVIOUS
  <2>1. f[q] = ss[q[1]][q[2]]
    OBVIOUS
  <2>2. q[1] \in 1..n /\ q[2] \in DOMAIN ss[q[1]] /\ ss[q[1]] \in Seq(S)
    BY <1>2
  <2> HIDE DEF f, I
  <2> QED BY <2>1, <2>2, Members DEF ToSet
<1>5. \A q, r \in I : r \in upto[q] <=> (r[1] < q[1] \/ (r[1] = q[1] /\ r[2] <= q[2]))
  OBVIOUS
<1>6. Concat(ss) = Arrange(f, I, place)
  BY DEF Concat
<1>7. upto \in [I -> SUBSET I]
  OBVIOUS
<1>8. place = [q \in I |-> Cardinality(upto[q])]
  OBVIOUS
<1> HIDE DEF f, upto, place, I
<1>9. Chain(I, upto)
  <2>1. \A q \in I : q[1] \in Int /\ q[2] \in Int
    BY <1>2
  <2>2. \A q, r \in I : q[1] = r[1] /\ q[2] = r[2] => q = r
    BY <1>2
  <2> QED BY <1>5, <1>7, <2>1, <2>2 DEF Chain
<1>10. InPlace(f, S, I, upto, place)
  BY <1>3, <1>4, <1>8, <1>9, Arranged
<1>11. ASSUME NEW x \in ToSet(Concat(ss)) PROVE \E i \in 1..n : x \in ToSet(ss[i])
  <2>1. PICK k \in 1..Len(Concat(ss)) : x = Concat(ss)[k]
    BY <1>6, <1>10, Members DEF InPlace
  <2>2. PICK q \in I : place[q] = k
    BY <1>6, <1>10 DEF InPlace, Moved
  <2>3. x = f[q]
    BY <1>6, <1>10, <2>1, <2>2 DEF InPlace, Moved
  <2> QED BY <1>2, <1>4, <2>3
<1> QED BY <1>6, <1>10, <1>11 DEF InPlace

-----------------------------------------------------------------------------
\* Rounds.

LEMMA Least ==
    ASSUME NEW T, T \subseteq Nat, T # {}
    PROVE  Min(T) \in T /\ \A y \in T : Min(T) <= y
<1>1. PICK x \in T : \A y \in T : ~(<<y, x>> \in OpToRel(<, Nat))
  BY NatLessThanWellFounded, WFMin
<1>2. \A y \in T : ~(y < x)
  BY <1>1 DEF OpToRel
<1>3. \A y \in T : x <= y
  BY <1>2
<1> QED BY <1>3 DEF Min

LEMMA Rounds ==
    ASSUME NEW s \in Seq(Candidate), NEW i \in 1..Len(s)
    PROVE  /\ SoFar(s, i) \subseteq 1..Len(s) /\ IsFiniteSet(SoFar(s, i)) /\ i \in SoFar(s, i)
           /\ Round(s, i) \in Nat \ {0}
           /\ Turn(s, i) \in SoFar(s, i) /\ Turn(s, i) \in 1..i
           /\ s[Turn(s, i)].provider = s[i].provider
           /\ \A k \in SoFar(s, i) : Turn(s, i) <= k
           /\ Round(s, Turn(s, i)) = 1
<1>1. i \in Nat /\ Len(s) \in Nat
  OBVIOUS
<1>2. SoFar(s, i) \subseteq 1..i /\ i \in SoFar(s, i)
  BY <1>1 DEF SoFar
<1>3. SoFar(s, i) \subseteq 1..Len(s) /\ SoFar(s, i) \subseteq Nat
  BY <1>1, <1>2
<1>4. IsFiniteSet(SoFar(s, i))
  BY <1>1, <1>2, UpToN, FS_Subset
<1>5. Round(s, i) \in Nat \ {0}
  BY <1>2, <1>4, FS_CardinalityType, FS_EmptySet DEF Round
<1> DEFINE t == Turn(s, i)
<1>6. t \in SoFar(s, i) /\ \A k \in SoFar(s, i) : t <= k
  BY <1>2, <1>3, Least DEF Turn
<1>7. s[t].provider = s[i].provider /\ t \in 1..i
  BY <1>6 DEF SoFar
<1>8. SoFar(s, t) = {t}
  BY <1>1, <1>6, <1>7 DEF SoFar
<1>9. Round(s, t) = 1
  BY <1>8, FS_Singleton DEF Round
<1> QED BY <1>2, <1>3, <1>4, <1>5, <1>6, <1>7, <1>9

\* Of one provider: one turn, and a round more each time.
LEMMA Turns ==
    ASSUME NEW s \in Seq(Candidate), NEW i \in 1..Len(s), NEW k \in 1..Len(s)
    PROVE  /\ s[i].provider = s[k].provider <=> Turn(s, i) = Turn(s, k)
           /\ s[i].provider = s[k].provider /\ i < k => Round(s, i) < Round(s, k)
<1>1. ASSUME NEW x \in 1..Len(s), NEW y \in 1..Len(s), x <= y,
             s[x].provider = s[y].provider
      PROVE  /\ Turn(s, x) = Turn(s, y)
             /\ x < y => Round(s, x) < Round(s, y)
  <2>1. SoFar(s, x) \subseteq SoFar(s, y)
    BY <1>1 DEF SoFar
  <2>2. /\ Turn(s, x) \in SoFar(s, x) /\ Turn(s, y) \in SoFar(s, y)
        /\ Turn(s, x) \in 1..x /\ Turn(s, y) \in 1..y
        /\ \A z \in SoFar(s, x) : Turn(s, x) <= z
        /\ \A z \in SoFar(s, y) : Turn(s, y) <= z
    BY Rounds
  <2>3. Turn(s, y) <= Turn(s, x) /\ Turn(s, x) <= x
    BY <2>1, <2>2
  <2>4. Turn(s, y) \in SoFar(s, x)
    BY <1>1, <2>2, <2>3 DEF SoFar
  <2>5. Turn(s, x) = Turn(s, y)
    BY <2>2, <2>3, <2>4
  <2>6. ASSUME x < y PROVE Round(s, x) < Round(s, y)
    <3>1. y \in SoFar(s, y) /\ y \notin SoFar(s, x)
      BY <2>6, Rounds DEF SoFar
    <3>2. IsFiniteSet(SoFar(s, y)) /\ Round(s, x) \in Nat /\ Round(s, y) \in Nat
      BY Rounds
    <3>3. Cardinality(SoFar(s, x)) <= Cardinality(SoFar(s, y))
          /\ Cardinality(SoFar(s, x)) # Cardinality(SoFar(s, y))
      BY <2>1, <3>1, <3>2, FS_Subset
    <3> QED BY <3>2, <3>3 DEF Round
  <2> QED BY <2>5, <2>6
<1>2. ASSUME Turn(s, i) = Turn(s, k) PROVE s[i].provider = s[k].provider
  BY <1>2, Rounds
<1>3. i <= k \/ k <= i
  OBVIOUS
<1>4. i < k => i <= k
  OBVIOUS
<1> QED BY <1>1, <1>2, <1>3, <1>4

\* Deal: by rounds, and in each round by the providers' turns.
DealtPlaces(s, depth) == {i \in DOMAIN s : Round(s, i) <= depth}

Earlier(s, i, k) ==
    \/ Round(s, i) < Round(s, k)
    \/ Round(s, i) = Round(s, k) /\ Turn(s, i) < Turn(s, k)

LEMMA Dealt ==
    ASSUME NEW s \in Seq(Candidate), NEW depth \in Nat
    PROVE  /\ Deal(s, depth) \in Seq(Candidate)
           /\ \E p : /\ Moved(s, DealtPlaces(s, depth), Deal(s, depth), p)
                     /\ \A i, k \in DealtPlaces(s, depth) :
                           p[i] < p[k] <=> Earlier(s, i, k)
<1> DEFINE I == DealtPlaces(s, depth)
           upto == [i \in I |-> {k \in I : \/ Round(s, k) < Round(s, i)
                                           \/ /\ Round(s, k) = Round(s, i)
                                              /\ Turn(s, k) <= Turn(s, i)}]
           place == [i \in I |-> Cardinality(upto[i])]
<1>1. Len(s) \in Nat /\ I \subseteq 1..Len(s)
  BY DEF DealtPlaces
<1>2. IsFiniteSet(I)
  BY <1>1, UpToN, FS_Subset
<1>3. \A i \in I : s[i] \in Candidate
  BY <1>1
<1>4. \A i, k \in I : k \in upto[i] <=> \/ Round(s, k) < Round(s, i)
                                       \/ /\ Round(s, k) = Round(s, i)
                                          /\ Turn(s, k) <= Turn(s, i)
  OBVIOUS
<1>5. Deal(s, depth) = Arrange(s, I, place)
  BY DEF Deal, DealtPlaces
<1>6. upto \in [I -> SUBSET I] /\ place = [i \in I |-> Cardinality(upto[i])]
  OBVIOUS
<1> HIDE DEF upto, place, I
<1>7. \A i \in I : Round(s, i) \in Int /\ Turn(s, i) \in Int
  <2>1. \A i \in 1..Len(s) : Round(s, i) \in Int /\ Turn(s, i) \in Int
    BY Rounds
  <2> QED BY <1>1, <2>1
<1>8. \A i, k \in I : Round(s, k) = Round(s, i) /\ Turn(s, k) = Turn(s, i) => i = k
  <2> SUFFICES ASSUME NEW i \in I, NEW k \in I,
                      Round(s, k) = Round(s, i), Turn(s, k) = Turn(s, i)
               PROVE  i = k
    OBVIOUS
  <2>1. i \in 1..Len(s) /\ k \in 1..Len(s) /\ i \in Int /\ k \in Int
    BY <1>1
  <2>2. s[i].provider = s[k].provider
    BY <2>1, Turns
  <2>3. ~(i < k) /\ ~(k < i)
    BY <1>7, <2>1, <2>2, Turns
  <2> QED BY <2>1, <2>3
<1>9. Chain(I, upto)
  BY <1>4, <1>6, <1>7, <1>8 DEF Chain
<1>10. InPlace(s, Candidate, I, upto, place)
  BY <1>2, <1>3, <1>6, <1>9, Arranged
<1>11. \A i, k \in I : place[i] < place[k] <=> Earlier(s, i, k)
  <2>1. \A i \in I : place[i] \in Int
    BY <1>10 DEF InPlace, Moved
  <2>2. \A i, k \in I : place[k] <= place[i] <=> k \in upto[i]
    BY <1>10 DEF InPlace
  <2>3. \A i, k \in I : place[i] < place[k] <=> ~(place[k] <= place[i])
    BY <2>1
  <2> QED BY <1>4, <1>7, <2>2, <2>3 DEF Earlier
<1>12. Arrange(s, I, place) \in Seq(Candidate) /\ Moved(s, I, Arrange(s, I, place), place)
  BY <1>10 DEF InPlace
<1> QED BY <1>5, <1>11, <1>12 DEF I

\* A chain P that was made from s, place n of it from f[n]: providers take
\* turns, those with anything to offer are all there, and of each the first
\* come first.
Fair(s, P, f) ==
    /\ P \in Seq(Candidate)
    /\ f \in [1..Len(P) -> 1..Len(s)]
    /\ \A n \in 1..Len(P) : P[n] = s[f[n]]
    /\ \A i \in 1..Len(s) : \E n \in 1..Len(P) : P[n].provider = s[i].provider
    /\ \A n, m \in 1..Len(P) : n < m /\ P[n].provider = P[m].provider =>
          /\ f[n] < f[m]
          /\ \A i \in 1..Len(s) : \E j \in 1..(m - 1) : P[j].provider = s[i].provider
    /\ Len(P) > 0 => f[1] = 1

LEMMA Between ==
    ASSUME NEW a \in Nat, NEW b \in Nat
    PROVE  Min({a, b}) \in Nat /\ Min({a, b}) <= a /\ Min({a, b}) <= b
           /\ Min({a, b}) \in {a, b}
<1>1. \E x \in {a, b} : \A y \in {a, b} : x <= y
  OBVIOUS
<1> QED BY <1>1 DEF Min

LEMMA AtLeast ==
    ASSUME NEW a \in Nat, NEW b \in Nat
    PROVE  Max({a, b, 1}) \in Nat /\ Max({a, b, 1}) >= b /\ Max({a, b, 1}) >= 1
<1>1. \E x \in {a, b, 1} : \A y \in {a, b, 1} : x >= y
  OBVIOUS
<1> QED BY <1>1 DEF Max

LEMMA AtLeastOne ==
    ASSUME NEW a \in Nat
    PROVE  Max({a, 1}) \in Nat /\ Max({a, 1}) >= 1
<1>1. \E x \in {a, 1} : \A y \in {a, 1} : x >= y
  OBVIOUS
<1> QED BY <1>1 DEF Max

\* Cutting the deal no earlier than its first round leaves it fair.
LEMMA CutFair ==
    ASSUME NEW s \in Seq(Candidate), NEW depth \in Nat, depth >= 1, NEW limit \in Nat,
           limit >= Cardinality({i \in DOMAIN s : Round(s, i) = 1})
    PROVE  \E f : Fair(s, SubSeq(Deal(s, depth), 1, Min({Len(Deal(s, depth)), limit})), f)
<1> DEFINE D == Deal(s, depth)
           I == DealtPlaces(s, depth)
           L == Min({Len(D), limit})
           P == SubSeq(D, 1, L)
           F == {i \in DOMAIN s : Round(s, i) = 1}
<1>0. D \in Seq(Candidate)
  BY Dealt
<1>1. D \in Seq(Candidate) /\ Len(D) \in Nat
  <2> HIDE DEF D
  <2> QED BY <1>0
<1>2. PICK p : /\ Moved(s, I, D, p)
               /\ \A i, k \in I : p[i] < p[k] <=> Earlier(s, i, k)
  BY Dealt
<1>3. L \in Nat /\ L <= Len(D) /\ L <= limit /\ L \in {Len(D), limit}
  BY <1>1, Between
<1> HIDE DEF D, L
<1>4. P \in Seq(Candidate) /\ Len(P) = L /\ \A n \in 1..L : P[n] = D[n]
  BY <1>1, <1>3
<1> HIDE DEF P
<1>5. I \subseteq 1..Len(s) /\ F \subseteq 1..Len(s) /\ Len(s) \in Nat /\ DOMAIN s = 1..Len(s)
  BY DEF DealtPlaces
<1> DEFINE f == [n \in 1..L |-> CHOOSE i \in I : p[i] = n]
<1>6. ASSUME NEW n \in 1..L PROVE f[n] \in I /\ p[f[n]] = n /\ P[n] = s[f[n]]
  <2>1. n \in 1..Len(D)
    BY <1>1, <1>3
  <2>2. \E i \in I : p[i] = n
    BY <1>2, <2>1 DEF Moved
  <2>3. f[n] \in I /\ p[f[n]] = n
    BY <2>2
  <2>4. D[n] = s[f[n]]
    BY <1>2, <2>3 DEF Moved
  <2> QED BY <1>4, <2>3, <2>4
<1>7. f \in [1..Len(P) -> 1..Len(s)]
  <2>1. f = [n \in 1..L |-> f[n]]
    OBVIOUS
  <2> HIDE DEF f
  <2> QED BY <1>4, <1>5, <1>6, <2>1
<1> HIDE DEF f
\* The first place of a provider.
<1>8. ASSUME NEW i \in 1..Len(s)
      PROVE  /\ Turn(s, i) \in I /\ Turn(s, i) \in F /\ Round(s, Turn(s, i)) = 1
             /\ s[Turn(s, i)].provider = s[i].provider
  <2>1. /\ Turn(s, i) \in SoFar(s, i) /\ SoFar(s, i) \subseteq 1..Len(s)
        /\ Round(s, Turn(s, i)) = 1 /\ s[Turn(s, i)].provider = s[i].provider
    BY Rounds
  <2>2. Turn(s, i) \in DOMAIN s
    BY <1>5, <2>1
  <2> QED BY <2>1, <2>2 DEF DealtPlaces
\* It is not cut off.
<1>9. ASSUME NEW t \in F, t \in I PROVE p[t] \in 1..L
  <2>1. p[t] \in 1..Len(D)
    BY <1>2, <1>9 DEF Moved
  <2>2. CASE L = Len(D)
    BY <2>1, <2>2
  <2>3. CASE L = limit
    <3> DEFINE g == [n \in 1..p[t] |-> CHOOSE i \in I : p[i] = n]
    <3>1. ASSUME NEW n \in 1..p[t] PROVE g[n] \in I /\ p[g[n]] = n
      <4>1. n \in 1..Len(D)
        BY <1>1, <2>1
      <4> QED BY <1>2, <4>1 DEF Moved
    <3>2. ASSUME NEW n \in 1..p[t] PROVE g[n] \in F
      <4>0. g[n] \in I /\ p[g[n]] = n /\ n \in Nat /\ n <= p[t] /\ p[t] \in Nat
        <5> HIDE DEF g
        <5> QED BY <2>1, <3>1
      <4> HIDE DEF g
      <4>1. g[n] \in I /\ p[g[n]] <= p[t] /\ g[n] \in 1..Len(s)
        BY <1>5, <4>0
      <4>2. CASE g[n] = t
        BY <4>2
      <4>3. CASE p[g[n]] < p[t]
        <5>1. Earlier(s, g[n], t)
          BY <1>2, <1>9, <4>1, <4>3
        <5>2. Round(s, t) = 1 /\ Round(s, g[n]) \in Nat \ {0}
          BY <4>1, Rounds
        <5>3. Round(s, g[n]) = 1
          BY <5>1, <5>2 DEF Earlier
        <5> QED BY <1>5, <4>1, <5>3
      <4>4. CASE p[g[n]] = p[t] /\ g[n] # t
        <5>1. ~Earlier(s, g[n], t)
          <6>1. ~(p[g[n]] < p[t])
            BY <2>1, <4>4
          <6> QED BY <1>2, <1>9, <4>1, <6>1
        <5>2. ~Earlier(s, t, g[n])
          <6>1. ~(p[t] < p[g[n]])
            BY <2>1, <4>4
          <6> QED BY <1>2, <1>9, <4>1, <6>1
        <5>3. Round(s, t) = 1 /\ Round(s, g[n]) \in Nat \ {0}
          BY <4>1, Rounds
        <5>4. Round(s, g[n]) = 1
          BY <5>1, <5>2, <5>3 DEF Earlier
        <5> QED BY <1>5, <4>1, <5>4
      <4>5. p[g[n]] \in Nat /\ p[t] \in Nat
        BY <4>0
      <4> QED BY <4>1, <4>2, <4>3, <4>4, <4>5
    <3>3. g \in [1..p[t] -> F]
      <4>1. g = [n \in 1..p[t] |-> g[n]]
        OBVIOUS
      <4> HIDE DEF g
      <4> QED BY <3>2, <4>1
    <3>4. \A n, m \in 1..p[t] : g[n] = g[m] => n = m
      BY <3>1
    <3> HIDE DEF g
    <3>5. g \in Injection(1..p[t], F)
      BY <3>3, <3>4 DEF Injection, IsInjective
    <3>6. IsFiniteSet(F)
      BY <1>5, UpToN, FS_Subset
    <3>7. Cardinality(1..p[t]) <= Cardinality(F)
      BY <3>5, <3>6, FS_Injection
    <3>8. p[t] \in Nat /\ Cardinality(1..p[t]) = p[t]
      BY <2>1, UpToN
    <3>9. Cardinality(F) \in Nat /\ Cardinality(F) <= limit
      BY <3>6, FS_CardinalityType
    <3> HIDE DEF F
    <3> QED BY <2>1, <2>3, <3>7, <3>8, <3>9
  <2> QED BY <1>3, <2>2, <2>3
<1>10. ASSUME NEW i \in 1..Len(s)
       PROVE  /\ p[Turn(s, i)] \in 1..L
              /\ P[p[Turn(s, i)]].provider = s[i].provider
  <2>1. p[Turn(s, i)] \in 1..L
    BY <1>8, <1>9
  <2>2. D[p[Turn(s, i)]] = s[Turn(s, i)]
    BY <1>2, <1>8 DEF Moved
  <2> QED BY <1>4, <1>8, <2>1, <2>2
<1>11. ASSUME NEW n \in 1..L, NEW m \in 1..L, n < m, P[n].provider = P[m].provider
       PROVE  f[n] < f[m] /\ Round(s, f[m]) > 1
  <2>1. /\ f[n] \in I /\ f[m] \in I /\ f[n] \in 1..Len(s) /\ f[m] \in 1..Len(s)
        /\ p[f[n]] = n /\ p[f[m]] = m
    BY <1>5, <1>6
  <2>2. s[f[n]].provider = s[f[m]].provider
    BY <1>6, <1>11
  <2>3. Earlier(s, f[n], f[m])
    BY <1>2, <1>11, <2>1
  <2>4. Turn(s, f[n]) = Turn(s, f[m]) /\ (f[m] < f[n] => Round(s, f[m]) < Round(s, f[n]))
    BY <2>1, <2>2, Turns
  <2>5. /\ Turn(s, f[n]) \in Int
        /\ Round(s, f[n]) \in Nat \ {0} /\ Round(s, f[m]) \in Nat \ {0}
    <3>1. \A x \in 1..Len(s) : Turn(s, x) \in Int /\ Round(s, x) \in Nat \ {0}
      BY Rounds
    <3> QED BY <2>1, <3>1
  <2>6. Round(s, f[n]) < Round(s, f[m])
    BY <2>3, <2>4, <2>5 DEF Earlier
  <2>7. f[n] # f[m] /\ ~(f[m] < f[n])
    BY <2>4, <2>5, <2>6
  <2>8. f[n] \in Int /\ f[m] \in Int
    BY <2>1
  <2> QED BY <2>5, <2>6, <2>7, <2>8
<1>12. ASSUME NEW n \in 1..L, NEW m \in 1..L, n < m, P[n].provider = P[m].provider,
              NEW i \in 1..Len(s)
       PROVE  \E j \in 1..(m - 1) : P[j].provider = s[i].provider
  <2> DEFINE t == Turn(s, i)
  <2>1. f[m] \in I /\ p[f[m]] = m /\ Round(s, f[m]) > 1
    BY <1>6, <1>11, <1>12
  <2>2. t \in I /\ Round(s, t) = 1 /\ p[t] \in 1..L /\ P[p[t]].provider = s[i].provider
    BY <1>8, <1>10
  <2> HIDE DEF t
  <2>3. Round(s, f[m]) \in Nat
    BY <1>5, <2>1, Rounds
  <2>4. Earlier(s, t, f[m])
    BY <2>1, <2>2, <2>3 DEF Earlier
  <2>5. p[t] < m
    BY <1>2, <2>1, <2>2, <2>4
  <2>6. p[t] \in 1..(m - 1)
    BY <1>3, <2>2, <2>5
  <2> QED BY <2>2, <2>6
<1>13. ASSUME L > 0 PROVE f[1] = 1
  <2>1. 1 \in 1..L /\ f[1] \in I /\ p[f[1]] = 1 /\ f[1] \in 1..Len(s)
    BY <1>3, <1>5, <1>6, <1>13
  <2>2. 1 \in 1..Len(s) /\ Turn(s, 1) = 1
    <3>1. 1 \in 1..Len(s)
      BY <1>5, <2>1
    <3>2. Turn(s, 1) \in 1..1
      BY <3>1, Rounds
    <3> QED BY <3>1, <3>2
  <2>3. 1 \in I /\ Round(s, 1) = 1 /\ p[1] \in 1..L
    BY <1>8, <1>9, <2>2
  <2>4. ~Earlier(s, f[1], 1)
    <3>1. Round(s, f[1]) \in Nat \ {0} /\ Turn(s, f[1]) \in 1..f[1]
      BY <2>1, Rounds
    <3> QED BY <2>1, <2>2, <2>3, <3>1 DEF Earlier
  <2>5. ~Earlier(s, 1, f[1])
    <3>1. ~(p[1] < p[f[1]])
      BY <1>3, <2>1, <2>3
    <3> QED BY <1>2, <2>1, <2>3, <3>1
  <2>6. Round(s, f[1]) = Round(s, 1) /\ Turn(s, f[1]) = Turn(s, 1)
    <3>1. /\ Round(s, f[1]) \in Int /\ Turn(s, f[1]) \in Int
          /\ Round(s, 1) \in Int /\ Turn(s, 1) \in Int
      BY <2>1, <2>2, Rounds
    <3> QED BY <2>4, <2>5, <3>1 DEF Earlier
  <2>7. s[f[1]].provider = s[1].provider
    BY <2>1, <2>2, <2>6, Turns
  <2>8. ~(1 < f[1])
    BY <2>1, <2>2, <2>6, <2>7, Rounds, Turns
  <2> QED BY <2>1, <2>8
<1>14. Fair(s, P, f)
  BY <1>4, <1>6, <1>7, <1>10, <1>11, <1>12, <1>13 DEF Fair
<1> QED BY <1>14 DEF P, L, D

\* What pickOnePerProvider deals from.
Served(pool) == {c \in ToSet(Cands(pool)) : c.provider \in keyed /\ c \notin bench}

LEMMA PickMade ==
    ASSUME StateOK, NEW pool \in Seq(Profile)
    PROVE  \E s \in Seq(Candidate) : \E f :
              /\ Fair(s, PickOnePerProvider(pool), f)
              /\ ToSet(s) = Served(pool)
              /\ (\A i, k \in 1..Len(pool) :
                     i < k /\ CandOf(pool[k]) \in confirmed => CandOf(pool[i]) \in confirmed)
                 => \A i, k \in 1..Len(s) : i < k /\ s[k] \in confirmed => s[i] \in confirmed
<1> DEFINE t == Cands(pool)
           I == {i \in DOMAIN t : t[i].provider \in keyed /\ t[i] \notin bench}
           s == Keep(t, I)
           F == {i \in DOMAIN s : Round(s, i) = 1}
           depth == Max({config.depth, 1})
           limit == Max({config.cap, Cardinality(F), 1})
<1>1. /\ t \in Seq(Candidate) /\ Len(t) = Len(pool)
      /\ \A i \in 1..Len(pool) : t[i] = CandOf(pool[i])
  BY CandsOK
<1>2. PickOnePerProvider(pool) = SubSeq(Deal(s, depth), 1, Min({Len(Deal(s, depth)), limit}))
  BY DEF PickOnePerProvider, WorthATry, Limit
<1>3. ToSet(t) = {t[i] : i \in DOMAIN t}
  BY DEF ToSet
<1>4. \A i \in I : i \in DOMAIN t /\ t[i].provider \in keyed /\ t[i] \notin bench
  OBVIOUS
<1>5. \A i \in DOMAIN t : t[i].provider \in keyed /\ t[i] \notin bench => i \in I
  OBVIOUS
<1> HIDE DEF t, I
<1>6. s \in Seq(Candidate) /\ ToSet(s) = {t[i] : i \in I}
  BY <1>1, <1>4, Kept, KeptSet
<1>7. PICK p : Moved(t, I, s, p) /\ \A i, k \in I : i < k <=> p[i] < p[k]
  BY <1>1, <1>4, Kept
<1> HIDE DEF s
<1>8. ToSet(s) = Served(pool)
  BY <1>3, <1>4, <1>5, <1>6 DEF Served, t
<1>9. IsFiniteSet(F) /\ Cardinality(F) \in Nat
  <2>1. DOMAIN s = 1..Len(s) /\ Len(s) \in Nat
    BY <1>6
  <2>2. IsFiniteSet(F)
    BY <2>1, UpToN, FS_Subset
  <2> QED BY <2>2, FS_CardinalityType
<1>10. config.depth \in Nat /\ config.cap \in Nat
  BY DEF StateOK, Config
<1>11. depth \in Nat /\ depth >= 1 /\ limit \in Nat /\ limit >= Cardinality(F)
  <2> HIDE DEF F
  <2> QED BY <1>9, <1>10, AtLeast, AtLeastOne
<1> HIDE DEF depth, limit
<1>12. PICK f : Fair(s, PickOnePerProvider(pool), f)
  <2>1. \E f : Fair(s, SubSeq(Deal(s, depth), 1, Min({Len(Deal(s, depth)), limit})), f)
    BY <1>6, <1>11, CutFair
  <2> QED BY <1>2, <2>1
<1>13. ASSUME \A i, k \in 1..Len(pool) :
                 i < k /\ CandOf(pool[k]) \in confirmed => CandOf(pool[i]) \in confirmed,
              NEW n \in 1..Len(s), NEW m \in 1..Len(s), n < m, s[m] \in confirmed
       PROVE  s[n] \in confirmed
  <2>1. PICK i \in I : p[i] = n
    BY <1>7 DEF Moved
  <2>2. PICK k \in I : p[k] = m
    BY <1>7 DEF Moved
  <2>3. s[n] = t[i] /\ s[m] = t[k] /\ i < k
    BY <1>7, <1>13, <2>1, <2>2 DEF Moved
  <2>4. i \in 1..Len(pool) /\ k \in 1..Len(pool)
    BY <1>1, <1>4
  <2> QED BY <1>1, <1>13, <2>3, <2>4
<1> QED BY <1>6, <1>8, <1>12, <1>13

LEMMA PickOK ==
    ASSUME StateOK, NEW pool \in Seq(Profile)
    PROVE  /\ PickOnePerProvider(pool) \in Seq(Candidate)
           /\ ToSet(PickOnePerProvider(pool)) \subseteq Served(pool)
           /\ \A c \in Served(pool) :
                 \E d \in ToSet(PickOnePerProvider(pool)) : d.provider = c.provider
           /\ Alternates(PickOnePerProvider(pool), Served(pool))
<1> DEFINE P == PickOnePerProvider(pool)
<1>0. PICK s \in Seq(Candidate) : \E f : Fair(s, P, f) /\ ToSet(s) = Served(pool)
  BY PickMade
<1>1. PICK f : Fair(s, P, f) /\ ToSet(s) = Served(pool)
  BY <1>0
<1> HIDE DEF P
<1>2. P \in Seq(Candidate)
  BY <1>1 DEF Fair
<1>3. DOMAIN P = 1..Len(P) /\ Len(P) \in Nat /\ ToSet(P) = {P[n] : n \in 1..Len(P)}
  BY <1>2 DEF ToSet
<1>4. ToSet(s) = {s[i] : i \in 1..Len(s)}
  BY DEF ToSet
<1>5. ToSet(P) \subseteq Served(pool)
  BY <1>1, <1>3, <1>4 DEF Fair
<1>6. ASSUME NEW c \in Served(pool) PROVE \E d \in ToSet(P) : d.provider = c.provider
  <2>1. PICK i \in 1..Len(s) : c = s[i]
    BY <1>1, <1>4
  <2>2. PICK n \in 1..Len(P) : P[n].provider = s[i].provider
    BY <1>1 DEF Fair
  <2> QED BY <1>3, <2>1, <2>2
<1>7. Alternates(P, Served(pool))
  <2> SUFFICES ASSUME NEW n \in 1..Len(P), NEW m \in 1..Len(P), n < m,
                      P[n].provider = P[m].provider, NEW c \in Served(pool)
               PROVE  \E j \in 1..(m - 1) : P[j].provider = c.provider
    BY <1>3 DEF Alternates
  <2>1. PICK i \in 1..Len(s) : c = s[i]
    BY <1>1, <1>4
  <2> QED BY <1>1, <2>1 DEF Fair
<1> QED BY <1>2, <1>5, <1>6, <1>7 DEF P

-----------------------------------------------------------------------------
\* The chains.

LEMMA FreeCandidatesOK ==
    ASSUME StateOK, NEW task \in Tasks
    PROVE  /\ FreeCandidates(task) \in Seq(Candidate)
           /\ \E pool \in Seq(Profile) :
                 /\ ToSet(pool) = ToSet(ConfirmedOnly(RestrictToTagged(FreeModels, task)))
                 /\ FreeCandidates(task) = PickOnePerProvider(pool)
<1> DEFINE a == RestrictToTagged(FreeModels, task)
           b == ConfirmedOnly(a)
           c == RankForTask(b, task)
           d == PreferConfirmed(c)
<1>1. FreeModels \in Seq(Profile)
  BY FreeModelsOK
<1>2. a \in Seq(Profile)
  BY <1>1, RestrictOK
<1> HIDE DEF a
<1>3. b \in Seq(Profile)
  BY <1>2, ConfirmedOnlyOK
<1> HIDE DEF b
<1>4. c \in Seq(Profile) /\ ToSet(c) = ToSet(b)
  BY <1>3, RankForTaskOK
<1> HIDE DEF c
<1>5. d \in Seq(Profile) /\ ToSet(d) = ToSet(b)
  BY <1>4, PreferConfirmedOK
<1>6. FreeCandidates(task) = PickOnePerProvider(d)
  BY DEF FreeCandidates, a, b, c
<1> HIDE DEF d
<1> QED BY <1>5, <1>6, PickOK DEF a, b

LEMMA DiscoveredCandidatesOK ==
    ASSUME StateOK, NEW task \in Tasks
    PROVE  /\ DiscoveredCandidates(task) \in Seq(Candidate)
           /\ \E pool \in Seq(Profile) :
                 /\ ToSet(pool) = ToSet(RestrictToTagged(Discovered, task))
                 /\ DiscoveredCandidates(task) = PickOnePerProvider(pool)
                 /\ \A i, k \in 1..Len(pool) :
                       i < k /\ CandOf(pool[k]) \in confirmed => CandOf(pool[i]) \in confirmed
<1> DEFINE a == RestrictToTagged(Discovered, task)
           b == RankForTask(a, task)
           key == [i \in DOMAIN b |-> IF b[i].model \in Special THEN 1 ELSE 0]
           c == SortBy(b, key)
           d == PreferConfirmed(c)
<1>1. Discovered \in Seq(Profile)
  BY DiscoveredOK
<1>2. a \in Seq(Profile)
  BY <1>1, RestrictOK
<1>6. DiscoveredCandidates(task) = PickOnePerProvider(d)
  BY DEF DiscoveredCandidates, SpecialLast
<1> HIDE DEF a
<1>3. b \in Seq(Profile) /\ ToSet(b) = ToSet(a)
  BY <1>2, RankForTaskOK
<1> HIDE DEF b
<1>4. c \in Seq(Profile) /\ ToSet(c) = ToSet(b)
  <2>1. key \in [DOMAIN b -> Int]
    OBVIOUS
  <2> HIDE DEF key
  <2> QED BY <1>3, <2>1, Sorted, SortedSet
<1> HIDE DEF c
<1>5. /\ d \in Seq(Profile) /\ ToSet(d) = ToSet(a)
      /\ \A i, k \in 1..Len(d) : i < k /\ CandOf(d[k]) \in confirmed => CandOf(d[i]) \in confirmed
  BY <1>3, <1>4, PreferConfirmedOK
<1> HIDE DEF d
<1> QED BY <1>5, <1>6, PickOK DEF a

LEMMA RankedCandidatesOK ==
    ASSUME NEW task \in Tasks
    PROVE  /\ RankedCandidates(task) \in Seq(Candidate)
           /\ ToSet(RankedCandidates(task)) \subseteq
                 {CandOf(p) : p \in ToSet(RestrictToTagged(Rank(task), task))}
<1> DEFINE r == RestrictToTagged(Rank(task), task)
           t == Cands(r)
           I == {i \in DOMAIN t : SoFar(t, i) = {i}}
<1>1. r \in Seq(Profile)
  BY RankOK, RestrictOK
<1>2. RankedCandidates(task) = Keep(t, I)
  BY DEF RankedCandidates, FirstOfEach
<1> HIDE DEF r
<1>3. t \in Seq(Candidate) /\ ToSet(t) = {CandOf(p) : p \in ToSet(r)}
  BY <1>1, CandsOK
<1>4. I \subseteq DOMAIN t /\ ToSet(t) = {t[i] : i \in DOMAIN t}
  BY DEF ToSet
<1> HIDE DEF t, I
<1>5. Keep(t, I) \in Seq(Candidate) /\ ToSet(Keep(t, I)) = {t[i] : i \in I}
  BY <1>3, <1>4, Kept, KeptSet
<1> QED BY <1>2, <1>3, <1>4, <1>5 DEF r

LEMMA FreeNamedOK ==
    ASSUME StateOK, NEW ask \in Ask
    PROVE  /\ FreeNamed(ask) \in Seq(Candidate)
           /\ \A c \in ToSet(FreeNamed(ask)) :
                 c.provider \in keyed /\ Available(c) /\ PublishedFree(c)
<1> DEFINE s == FilterToKeyed(Named(ask))
           I == {i \in DOMAIN s :
                   /\ \E p \in ToSet(Resolve(s[i].model)) :
                         p.provider = s[i].provider /\ Free(p)
                   /\ Available(s[i])}
<1>1. Named(ask) \in Seq(Candidate)
  BY NamedOK
<1>2. s \in Seq(Candidate) /\ \A c \in ToSet(s) : c.provider \in keyed
  BY <1>1, KeyedOK
<1>3. FreeNamed(ask) = Keep(s, I)
  BY DEF FreeNamed, FreeAndAvailable
<1> HIDE DEF s
<1>4. I \subseteq DOMAIN s /\ \A i \in I : s[i] \in ToSet(s)
  BY DEF ToSet
<1>5. Keep(s, I) \in Seq(Candidate) /\ ToSet(Keep(s, I)) = {s[i] : i \in I}
  BY <1>2, <1>4, Kept, KeptSet
<1>6. ASSUME NEW i \in I
      PROVE  Available(s[i]) /\ PublishedFree(s[i])
  <2>1. PICK p \in ToSet(Resolve(s[i].model)) : p.provider = s[i].provider /\ Free(p)
    OBVIOUS
  <2>2. p \in ToSet(Curated) \cup listed /\ SameModel(p.model, s[i].model)
    BY ResolveOK
  <2> QED BY <2>1, <2>2 DEF PublishedFree
<1> HIDE DEF I
<1> QED BY <1>2, <1>3, <1>4, <1>5, <1>6

LEMMA FallbacksOK ==
    ASSUME StateOK
    PROVE  /\ FallbackPlaces \in Seq(Candidate)
           /\ \A c \in ToSet(FallbackPlaces) : Fallback(c)
<1> DEFINE n == Len(Fallbacks)
           ss == [i \in DOMAIN Fallbacks |-> Placements(Fallbacks[i])]
<1>1. Fallbacks \in Seq(Models)
  BY CatalogueAssumption
<1>2. n \in Nat /\ DOMAIN Fallbacks = 1..n /\ DOMAIN ss = 1..n
  BY <1>1
<1>3. \A i \in 1..n : Fallbacks[i] \in Models /\ Fallbacks[i] \in ToSet(Fallbacks)
  BY <1>1, <1>2 DEF ToSet
<1>4. \A i \in 1..n : ss[i] = Placements(Fallbacks[i])
  BY <1>2
<1>5. \A i \in 1..n : /\ ss[i] \in Seq(Candidate)
                     /\ \A c \in ToSet(ss[i]) : SameModel(c.model, Fallbacks[i])
  BY <1>3, <1>4, PlacementsOK
<1>6. FallbackPlaces = Concat(ss)
  BY DEF FallbackPlaces
<1> HIDE DEF ss, n
<1>7. Concat(ss) \in Seq(Candidate)
      /\ \A c \in ToSet(Concat(ss)) : \E i \in 1..n : c \in ToSet(ss[i])
  BY <1>2, <1>5, ConcatOK
<1> QED BY <1>3, <1>5, <1>6, <1>7 DEF Fallback

\* The models a named request is served by, before duplicates are dropped.
Sources(ask) ==
    OwnModel(IF ask.kind = "empty" THEN Placements(DefaultModel) ELSE Named(ask))
        \o Usable(FallbackPlaces)

LEMMA SourcesOK ==
    ASSUME StateOK, NEW ask \in Ask
    PROVE  /\ Sources(ask) \in Seq(Candidate)
           /\ \A c \in ToSet(Sources(ask)) : c.provider \in keyed
           /\ NamedCandidates(ask) = Keep(Sources(ask), OnceOnly(Sources(ask)))
<1> DEFINE found == IF ask.kind = "empty" THEN Placements(DefaultModel) ELSE Named(ask)
<1>1. DefaultModel \in Models
  BY CatalogueAssumption
<1>2. found \in Seq(Candidate)
  BY <1>1, NamedOK, PlacementsOK
<1>3. NamedCandidates(ask) = Keep(Sources(ask), OnceOnly(Sources(ask)))
  BY DEF NamedCandidates, Sources, Once
<1>4. Sources(ask) = FilterToKeyed(found) \o Usable(FallbackPlaces)
  BY DEF Sources, OwnModel
<1> HIDE DEF found
<1>5. /\ FilterToKeyed(found) \in Seq(Candidate) /\ Usable(FallbackPlaces) \in Seq(Candidate)
      /\ \A c \in ToSet(FilterToKeyed(found)) : c.provider \in keyed
      /\ \A c \in ToSet(Usable(FallbackPlaces)) : c.provider \in keyed
  BY <1>2, FallbacksOK, KeyedOK, UsableOK
<1> QED BY <1>3, <1>4, <1>5, JoinOK

LEMMA NamedCandidatesOK ==
    ASSUME StateOK, NEW ask \in Ask
    PROVE  /\ NamedCandidates(ask) \in Seq(Candidate)
           /\ \A c \in ToSet(NamedCandidates(ask)) : c.provider \in keyed
<1> DEFINE s == Sources(ask)
           I == OnceOnly(s)
<1>1. s \in Seq(Candidate) /\ \A c \in ToSet(s) : c.provider \in keyed
  BY SourcesOK
<1>2. NamedCandidates(ask) = Keep(s, I)
  BY SourcesOK
<1>3. I \subseteq DOMAIN s /\ ToSet(s) = {s[i] : i \in DOMAIN s}
  BY DEF OnceOnly, ToSet
<1> HIDE DEF s, I
<1>4. Keep(s, I) \in Seq(Candidate) /\ ToSet(Keep(s, I)) = {s[i] : i \in I}
  BY <1>1, <1>3, Kept, KeptSet
<1> QED BY <1>1, <1>2, <1>3, <1>4

\* A chain the router makes: of candidates with a key, from one pool.
LEMMA SmartOK ==
    ASSUME StateOK, NEW task \in Tasks
    PROVE  /\ SmartCandidates(task) \in Seq(Candidate)
           /\ \A c \in ToSet(SmartCandidates(task)) : c.provider \in keyed
           /\ \E pool \in Seq(Profile) :
                 ToSet(SmartCandidates(task)) \subseteq
                    {CandOf(p) : p \in ToSet(RestrictToTagged(pool, task))}
<1> DEFINE r == RankedCandidates(task)
<1>1. r \in Seq(Candidate)
      /\ ToSet(r) \subseteq {CandOf(p) : p \in ToSet(RestrictToTagged(Rank(task), task))}
  BY RankedCandidatesOK
<1>2. SmartCandidates(task) = IF Usable(r) # <<>> THEN Usable(r) ELSE DiscoveredCandidates(task)
  BY DEF SmartCandidates, OrElse
<1>3. Rank(task) \in Seq(Profile) /\ Discovered \in Seq(Profile)
  BY RankOK, DiscoveredOK
<1> HIDE DEF r
<1>4. CASE Usable(r) # <<>>
  <2>1. /\ Usable(r) \in Seq(Candidate) /\ ToSet(Usable(r)) \subseteq ToSet(r)
        /\ \A c \in ToSet(Usable(r)) : c.provider \in keyed
    BY <1>1, UsableOK
  <2> QED BY <1>1, <1>2, <1>3, <1>4, <2>1
<1>5. CASE Usable(r) = <<>>
  <2> DEFINE q == RestrictToTagged(Discovered, task)
  <2>1. PICK pool \in Seq(Profile) :
            /\ ToSet(pool) = ToSet(q)
            /\ DiscoveredCandidates(task) = PickOnePerProvider(pool)
    BY DiscoveredCandidatesOK
  <2>2. /\ DiscoveredCandidates(task) \in Seq(Candidate)
        /\ ToSet(DiscoveredCandidates(task)) \subseteq Served(pool)
    BY <2>1, PickOK
  <2>3. Served(pool) \subseteq {CandOf(p) : p \in ToSet(q)}
    BY <2>1, CandsOK DEF Served
  <2>4. \A c \in Served(pool) : c.provider \in keyed
    BY DEF Served
  <2> HIDE DEF q
  <2>5. ToSet(DiscoveredCandidates(task)) \subseteq {CandOf(p) : p \in ToSet(q)}
    BY <2>2, <2>3
  <2> QED BY <1>2, <1>3, <1>5, <2>2, <2>4, <2>5 DEF q
<1> QED BY <1>4, <1>5

\* A chain of free models: free, worth an attempt, with a key, from one pool.
LEMMA FreeChainOK ==
    ASSUME StateOK, NEW task \in Tasks
    PROVE  /\ FreeCandidates(task) \in Seq(Candidate)
           /\ ToSet(FreeCandidates(task)) \subseteq
                 {CandOf(p) : p \in ToSet(RestrictToTagged(FreeModels, task))}
           /\ \A c \in ToSet(FreeCandidates(task)) :
                 /\ c.provider \in keyed /\ Available(c)
                 /\ \E p \in ToSet(Curated) \cup listed : CandOf(p) = c /\ Free(p)
<1> DEFINE q == RestrictToTagged(FreeModels, task)
           b == ConfirmedOnly(q)
<1>1. FreeModels \in Seq(Profile)
      /\ \A p \in ToSet(FreeModels) : Free(p) /\ p \in ToSet(Curated) \cup listed
  BY FreeModelsOK
<1>2. q \in Seq(Profile) /\ ToSet(q) \subseteq ToSet(FreeModels)
  BY <1>1, RestrictOK
<1>3. PICK pool \in Seq(Profile) : ToSet(pool) = ToSet(b)
                                   /\ FreeCandidates(task) = PickOnePerProvider(pool)
  BY FreeCandidatesOK
<1> HIDE DEF q
<1>4. /\ ToSet(b) \subseteq ToSet(q)
      /\ confirmed = {} \/ \A p \in ToSet(b) : CandOf(p) \in confirmed
  BY <1>2, ConfirmedOnlyOK
<1>5. /\ FreeCandidates(task) \in Seq(Candidate)
      /\ ToSet(FreeCandidates(task)) \subseteq Served(pool)
  BY <1>3, PickOK
<1>6. \A c \in Served(pool) : /\ c.provider \in keyed /\ c \notin bench
                              /\ \E p \in ToSet(b) : c = CandOf(p)
  BY <1>3, CandsOK DEF Served
<1> HIDE DEF b
<1>7. ASSUME NEW c \in ToSet(FreeCandidates(task))
      PROVE  /\ c.provider \in keyed /\ Available(c)
             /\ c \in {CandOf(p) : p \in ToSet(q)}
             /\ \E p \in ToSet(Curated) \cup listed : CandOf(p) = c /\ Free(p)
  <2>1. c.provider \in keyed /\ c \notin bench
    BY <1>5, <1>6
  <2>2. PICK p \in ToSet(b) : c = CandOf(p)
    BY <1>5, <1>6
  <2>3. p \in ToSet(q) /\ p \in ToSet(FreeModels)
    BY <1>2, <1>4
  <2>4. Available(c)
    BY <1>4, <2>1, <2>2 DEF Available
  <2> QED BY <1>1, <2>1, <2>2, <2>3, <2>4
<1> QED BY <1>5, <1>7 DEF q

LEMMA PlanCandidatesOK ==
    ASSUME StateOK, NEW ask \in Asks
    PROVE  /\ ask \in Ask /\ ask.task \in Tasks
           /\ PlanCandidates(ask) \in Seq(Candidate)
           /\ \A c \in ToSet(PlanCandidates(ask)) : c.provider \in keyed
<1>1. ask \in Ask /\ ask.task \in Tasks
  BY CatalogueAssumption DEF Ask
<1> QED BY <1>1, FreeNamedOK, FreeChainOK, SmartOK, NamedCandidatesOK DEF PlanCandidates

LEMMA StateInv == Spec => []StateOK
<1>1. Init => StateOK
  BY ConfigAssumption DEF Init, StateOK
<1>2. StateOK /\ [Next]_vars => StateOK'
  <2> SUFFICES ASSUME StateOK, [Next]_vars PROVE StateOK'
    OBVIOUS
  <2>1. ASSUME NEW p, StoreKey(p) PROVE StateOK'
    BY <2>1 DEF StoreKey, StateOK
  <2>2. ASSUME NEW p, DeleteKey(p) PROVE StateOK'
    BY <2>2 DEF DeleteKey, StateOK
  <2>3. ASSUME NEW p, ForgetDiscovered(p) PROVE StateOK'
    BY <2>3 DEF ForgetDiscovered, StateOK
  <2>4. ASSUME NEW p, NEW list \in SUBSET {o \in ToSet(Offers) : o.provider = p},
               SetDiscovered(p, list)
        PROVE  StateOK'
    BY <2>4 DEF SetDiscovered, StateOK
  <2>5. ASSUME NEW c, BenchOne(c) \/ Unbench(c) \/ Confirm(c) \/ Unconfirm(c) \/ Veto(c)
                      \/ Unveto(c)
        PROVE  StateOK'
    BY <2>5 DEF BenchOne, Unbench, Confirm, Unconfirm, Veto, Unveto, StateOK
  <2>6. ASSUME NEW c, NEW task, Mark(c, task) \/ Unmark(c, task) PROVE StateOK'
    BY <2>6 DEF Mark, Unmark, StateOK
  <2>7. CASE SetFreeOnly
    BY <2>7 DEF SetFreeOnly, StateOK
  <2>8. CASE UNCHANGED vars
    BY <2>8 DEF vars, StateOK
  <2> QED BY <2>1, <2>2, <2>3, <2>4, <2>5, <2>6, <2>7, <2>8 DEF Next
<1> QED BY <1>1, <1>2, PTL DEF Spec

-----------------------------------------------------------------------------
\* The theorems.

\* Every candidate of every plan has a provider with a key and no veto against
\* it, whichever path made the plan (plan, filterToKeyed, usable,
\* pickOnePerProvider).
THEOREM CallablePlans == Spec => []PlansAreCallable
<1>1. ASSUME StateOK PROVE PlansAreCallable
  <2> SUFFICES ASSUME NEW ask \in Asks, NEW c \in ToSet(Plan(ask))
               PROVE  c.provider \in keyed /\ c \notin blacklist
    BY DEF PlansAreCallable
  <2>1. /\ PlanCandidates(ask) \in Seq(Candidate)
        /\ \A d \in ToSet(PlanCandidates(ask)) : d.provider \in keyed
    BY <1>1, PlanCandidatesOK
  <2>2. ToSet(Plan(ask)) = {d \in ToSet(PlanCandidates(ask)) : d \notin blacklist}
    BY <2>1, VetoedOK DEF Plan
  <2> QED BY <2>1, <2>2
<1> QED BY <1>1, StateInv, PTL

\* A free-only request is only offered models that their provider publishes at
\* no cost, not refused lately, and confirmed once anything is (freeNamed,
\* freeCandidates).  The last is a filter, where src/README.md:216-217 has
\* "Confirmed working is a preference, not a filter".
THEOREM FreeMeansFree == Spec => []FreeOnlyNeverPays
<1>1. ASSUME StateOK PROVE FreeOnlyNeverPays
  <2> SUFFICES ASSUME NEW ask \in Asks, FreeOnly(ask), NEW c \in ToSet(Plan(ask))
               PROVE  PublishedFree(c) /\ Available(c)
    BY DEF FreeOnlyNeverPays
  <2>1. PlanCandidates(ask) \in Seq(Candidate) /\ ask \in Ask /\ ask.task \in Tasks
    BY <1>1, PlanCandidatesOK
  <2>2. c \in ToSet(PlanCandidates(ask))
    BY <2>1, VetoedOK DEF Plan
  <2>3. CASE NamesModel(ask)
    <3>1. c \in ToSet(FreeNamed(ask))
      BY <2>2, <2>3 DEF PlanCandidates
    <3> QED BY <1>1, <2>1, <3>1, FreeNamedOK
  <2>4. CASE ~NamesModel(ask)
    <3>1. c \in ToSet(FreeCandidates(ask.task))
      BY <2>2, <2>4 DEF PlanCandidates
    <3>2. /\ Available(c)
          /\ \E p \in ToSet(Curated) \cup listed : CandOf(p) = c /\ Free(p)
      BY <1>1, <2>1, <3>1, FreeChainOK
    <3> QED BY <3>2 DEF PublishedFree, CandOf, SameModel
  <2> QED BY <2>3, <2>4
<1> QED BY <1>1, StateInv, PTL

\* A plan the router makes has marked models only or unmarked ones only
\* (TaggedFor's callers: one pool is restricted, before it is ranked).
THEOREM MarksAreAllOrNothing == Spec => []MarksNeverMix
<1>1. ASSUME StateOK PROVE MarksNeverMix
  <2> SUFFICES ASSUME NEW ask \in Asks, Automatic(ask), ~NamesModel(ask),
                      NEW c \in ToSet(Plan(ask)), NEW d \in ToSet(Plan(ask)),
                      <<c, ask.task>> \in marks
               PROVE  <<d, ask.task>> \in marks
    BY DEF MarksNeverMix
  <2>1. PlanCandidates(ask) \in Seq(Candidate) /\ ask \in Ask /\ ask.task \in Tasks
    BY <1>1, PlanCandidatesOK
  <2>2. c \in ToSet(PlanCandidates(ask)) /\ d \in ToSet(PlanCandidates(ask))
    BY <2>1, VetoedOK DEF Plan
  <2>3. PICK pool \in Seq(Profile) :
            ToSet(PlanCandidates(ask)) \subseteq
                {CandOf(p) : p \in ToSet(RestrictToTagged(pool, ask.task))}
    <3>1. CASE FreeOnly(ask)
      <4>1. PlanCandidates(ask) = FreeCandidates(ask.task)
        BY <3>1 DEF PlanCandidates
      <4> QED BY <1>1, <2>1, <4>1, FreeChainOK, FreeModelsOK
    <3>2. CASE ~FreeOnly(ask)
      <4>1. PlanCandidates(ask) = SmartCandidates(ask.task)
        BY <3>2 DEF PlanCandidates, Automatic
      <4> QED BY <1>1, <2>1, <4>1, SmartOK
    <3> QED BY <3>1, <3>2
  <2>4. \/ \A p \in ToSet(RestrictToTagged(pool, ask.task)) : <<CandOf(p), ask.task>> \in marks
        \/ \A p \in ToSet(RestrictToTagged(pool, ask.task)) : <<CandOf(p), ask.task>> \notin marks
    BY RestrictOK
  <2> QED BY <2>2, <2>3, <2>4
<1> QED BY <1>1, StateInv, PTL

\* What a pool offers depends on what is in it, not on its order.
LEMMA OfferedServed ==
    ASSUME StateOK, NEW ask \in Asks, NEW pool \in Seq(Profile),
           ToSet(pool) = IF FreeOnly(ask)
                           THEN ToSet(ConfirmedOnly(RestrictToTagged(FreeModels, ask.task)))
                           ELSE ToSet(RestrictToTagged(Discovered, ask.task))
    PROVE  Offered(ask) \subseteq Served(pool)
<1> DEFINE q == IF FreeOnly(ask) THEN ConfirmedOnly(RestrictToTagged(FreeModels, ask.task))
                ELSE RestrictToTagged(Discovered, ask.task)
<1>1. q \in Seq(Profile)
  BY FreeModelsOK, DiscoveredOK, RestrictOK, ConfirmedOnlyOK
<1>2. ToSet(pool) = ToSet(q)
  OBVIOUS
<1>3. Offered(ask) = {c \in ToSet(Cands(q)) :
                        c.provider \in keyed /\ c \notin bench /\ c \notin blacklist}
  BY DEF Offered
<1> HIDE DEF q
<1>4. ToSet(Cands(q)) = ToSet(Cands(pool))
  BY <1>1, <1>2, CandsOK
<1> QED BY <1>3, <1>4 DEF Served

\* While nothing is vetoed the plan is the chain.
LEMMA Unvetoed ==
    ASSUME StateOK, NEW ask \in Asks, blacklist = {}
    PROVE  Plan(ask) = PlanCandidates(ask)
  BY PlanCandidatesOK, VetoedOK DEF Plan

\* A request left to the router has a plan whenever a keyed provider lists a
\* model that the marks allow and it has not refused (planCandidates falls back
\* to discoveredCandidates, which drops no provider).
THEOREM AutoHasAPlan == Spec => []AutoIsRoutable
<1>1. ASSUME StateOK PROVE AutoIsRoutable
  <2> SUFFICES ASSUME blacklist = {}, NEW ask \in Asks, SmartRouting(ask), ~FreeOnly(ask),
                      Offered(ask) # {}
               PROVE  Plan(ask) # <<>>
    BY DEF AutoIsRoutable
  <2>1. ask.task \in Tasks
    BY <1>1, PlanCandidatesOK
  <2>2. Plan(ask) = SmartCandidates(ask.task)
    BY <1>1, Unvetoed DEF PlanCandidates
  <2>3. CASE Usable(RankedCandidates(ask.task)) # <<>>
    BY <2>2, <2>3 DEF SmartCandidates, OrElse
  <2>4. CASE Usable(RankedCandidates(ask.task)) = <<>>
    <3>1. Plan(ask) = DiscoveredCandidates(ask.task)
      BY <2>2, <2>4 DEF SmartCandidates, OrElse
    <3>2. PICK pool \in Seq(Profile) :
              /\ ToSet(pool) = ToSet(RestrictToTagged(Discovered, ask.task))
              /\ DiscoveredCandidates(ask.task) = PickOnePerProvider(pool)
      BY <1>1, <2>1, DiscoveredCandidatesOK
    <3>3. Offered(ask) \subseteq Served(pool)
      BY <1>1, <3>2, OfferedServed
    <3>4. PICK c \in Served(pool) : TRUE
      BY <3>3
    <3>5. \E d \in ToSet(PickOnePerProvider(pool)) : d.provider = c.provider
      BY <1>1, PickOK
    <3>6. ToSet(<<>>) = {}
      BY DEF ToSet
    <3> QED BY <3>1, <3>2, <3>5, <3>6
  <2> QED BY <2>3, <2>4
<1> QED BY <1>1, StateInv, PTL

\* No provider comes a second time before every provider with a model left to
\* offer has come, and the cap cuts none of them off (pickOnePerProvider).
THEOREM TurnsAreTaken == Spec => []ProvidersTakeTurns
<1>1. ASSUME StateOK, NEW task \in Tasks,
             NEW o \in ToSet(RestrictToTagged(Discovered, task)),
             o.provider \in keyed, CandOf(o) \notin bench
      PROVE  \E c \in ToSet(DiscoveredCandidates(task)) : c.provider = o.provider
  <2>1. PICK pool \in Seq(Profile) :
            /\ ToSet(pool) = ToSet(RestrictToTagged(Discovered, task))
            /\ DiscoveredCandidates(task) = PickOnePerProvider(pool)
    BY <1>1, DiscoveredCandidatesOK
  <2>2. o \in Profile /\ CandOf(o) \in ToSet(Cands(pool))
    BY <1>1, <2>1, CandsOK, Members
  <2>3. CandOf(o).provider = o.provider
    BY <2>2, CandOfOK
  <2>4. CandOf(o) \in Served(pool)
    BY <1>1, <2>2, <2>3 DEF Served
  <2> QED BY <1>1, <2>1, <2>3, <2>4, PickOK
<1>2. ASSUME StateOK, blacklist = {}, NEW ask \in Asks,
             \/ FreeOnly(ask) /\ ~NamesModel(ask)
             \/ SmartRouting(ask) /\ ~FreeOnly(ask) /\ Usable(RankedCandidates(ask.task)) = <<>>
      PROVE  Alternates(Plan(ask), Offered(ask))
  <2>1. ask.task \in Tasks
    BY <1>2, PlanCandidatesOK
  <2>2. PICK pool \in Seq(Profile) :
            /\ Plan(ask) = PickOnePerProvider(pool)
            /\ Offered(ask) \subseteq Served(pool)
    <3>1. CASE FreeOnly(ask) /\ ~NamesModel(ask)
      <4>1. Plan(ask) = FreeCandidates(ask.task)
        BY <1>2, <3>1, Unvetoed DEF PlanCandidates
      <4>2. PICK pool \in Seq(Profile) :
              /\ ToSet(pool) = ToSet(ConfirmedOnly(RestrictToTagged(FreeModels, ask.task)))
              /\ FreeCandidates(ask.task) = PickOnePerProvider(pool)
        BY <1>2, <2>1, FreeCandidatesOK
      <4>3. Offered(ask) \subseteq Served(pool)
        BY <1>2, <3>1, <4>2, OfferedServed
      <4> QED BY <4>1, <4>2, <4>3
    <3>2. CASE SmartRouting(ask) /\ ~FreeOnly(ask)
               /\ Usable(RankedCandidates(ask.task)) = <<>>
      <4>1. Plan(ask) = DiscoveredCandidates(ask.task)
        BY <1>2, <3>2, Unvetoed DEF PlanCandidates, SmartCandidates, OrElse
      <4>2. PICK pool \in Seq(Profile) :
              /\ ToSet(pool) = ToSet(RestrictToTagged(Discovered, ask.task))
              /\ DiscoveredCandidates(ask.task) = PickOnePerProvider(pool)
        BY <1>2, <2>1, DiscoveredCandidatesOK
      <4>3. Offered(ask) \subseteq Served(pool)
        BY <1>2, <3>2, <4>2, OfferedServed
      <4> QED BY <4>1, <4>2, <4>3
    <3> QED BY <1>2, <3>1, <3>2
  <2>3. Alternates(Plan(ask), Served(pool))
    BY <1>2, <2>2, PickOK
  <2> QED BY <2>2, <2>3 DEF Alternates
<1>3. StateOK => ProvidersTakeTurns
  BY <1>1, <1>2 DEF ProvidersTakeTurns
<1> QED BY <1>3, StateInv, PTL

\* In a chain made of discovered models, no unconfirmed one comes before a
\* confirmed one of the same provider, and if the first is unconfirmed all are
\* (PreferConfirmed is the last sort, and pickOnePerProvider deals in order).
THEOREM ConfirmedComeFirst == Spec => []ConfirmedFirst
<1>1. ASSUME StateOK, NEW task \in Tasks
      PROVE  ConfirmedLead(DiscoveredCandidates(task))
  <2> DEFINE P == DiscoveredCandidates(task)
  <2>1. PICK pool \in Seq(Profile) :
            /\ P = PickOnePerProvider(pool)
            /\ \A i, k \in 1..Len(pool) :
                  i < k /\ CandOf(pool[k]) \in confirmed => CandOf(pool[i]) \in confirmed
    BY <1>1, DiscoveredCandidatesOK
  <2> HIDE DEF P
  <2> DEFINE Led(s) ==
                \A i, k \in 1..Len(s) : i < k /\ s[k] \in confirmed => s[i] \in confirmed
  <2>0. PICK s \in Seq(Candidate) : \E f : Fair(s, P, f) /\ Led(s)
    BY <1>1, <2>1, PickMade
  <2>2. PICK f : Fair(s, P, f) /\ Led(s)
    BY <2>0
  <2>3. P \in Seq(Candidate) /\ DOMAIN P = 1..Len(P) /\ Len(P) \in Nat
    BY <2>2 DEF Fair
  <2>4. \A n \in 1..Len(P) : f[n] \in 1..Len(s) /\ P[n] = s[f[n]]
    BY <2>2 DEF Fair
  <2>5. ASSUME NEW i \in 1..Len(P), NEW k \in 1..Len(P), i < k, P[k] \in confirmed,
               P[i].provider = P[k].provider
        PROVE  P[i] \in confirmed
    <3>1. f[i] < f[k]
      BY <2>2, <2>5 DEF Fair
    <3> QED BY <2>2, <2>4, <2>5, <3>1
  <2>6. ASSUME NEW i \in 1..Len(P), P[i] \in confirmed PROVE P[1] \in confirmed
    <3>1. Len(P) > 0 /\ 1 \in 1..Len(P)
      BY <2>3
    <3>2. f[1] = 1
      BY <2>2, <3>1 DEF Fair
    <3>3. f[i] = 1 \/ 1 < f[i]
      BY <2>4
    <3>4. P[1] = s[1] /\ 1 \in 1..Len(s)
      BY <2>4, <3>1, <3>2
    <3> QED BY <2>2, <2>4, <2>6, <3>3, <3>4
  <2>7. ConfirmedLead(P)
    BY <2>3, <2>5, <2>6 DEF ConfirmedLead
  <2> QED BY <2>7 DEF P
<1>2. StateOK => ConfirmedFirst
  BY <1>1 DEF ConfirmedFirst
<1> QED BY <1>2, StateInv, PTL

-----------------------------------------------------------------------------
\* A request that names its model.

\* A set of places with no gap begins at the first one.
LEMMA NoGap ==
    ASSUME NEW N \in Nat, NEW W, W \subseteq 1..N,
           \A w \in W : \A n \in 1..N : n < w => n \in W
    PROVE  IsFiniteSet(W) /\ Cardinality(W) \in Nat /\ W = 1..Cardinality(W)
<1> DEFINE T == {n \in Nat : n >= 1 /\ n \notin W}
           x == Min(T)
<1>1. N + 1 \in T
  OBVIOUS
<1>2. x \in T /\ \A y \in T : x <= y
  BY <1>1, Least
<1> HIDE DEF x
<1>3. x \in Nat /\ x >= 1 /\ x \notin W
  BY <1>2
<1>4. \A n \in Nat : n >= 1 /\ n < x => n \in W
  <2> SUFFICES ASSUME NEW n \in Nat, n >= 1, n < x, n \notin W PROVE FALSE
    OBVIOUS
  <2>1. n \in T
    OBVIOUS
  <2> QED BY <1>2, <1>3, <2>1
<1>5. \A w \in W : w < x
  <2> SUFFICES ASSUME NEW w \in W, ~(w < x) PROVE FALSE
    OBVIOUS
  <2>1. x < w /\ x \in 1..N
    BY <1>3
  <2> QED BY <1>3, <2>1
<1> HIDE DEF T
<1>6. W = 1..(x - 1) /\ x - 1 \in Nat
  <2>1. x - 1 \in Nat
    BY <1>3
  <2>2. \A n \in 1..(x - 1) : n \in W
    BY <1>3, <1>4
  <2>3. \A w \in W : w \in 1..(x - 1)
    BY <1>3, <1>5
  <2> QED BY <2>1, <2>2, <2>3
<1> QED BY <1>6, UpToN

\* The first place of each is kept, and only that one.
LEMMA FirstOf ==
    ASSUME NEW S, NEW s \in Seq(S), NEW i \in 1..Len(s)
    PROVE  \E k \in OnceOnly(s) : k <= i /\ s[k] = s[i]
<1> DEFINE T == {k \in 1..Len(s) : s[k] = s[i]}
           x == Min(T)
<1>0. T \subseteq Nat /\ i \in T
  OBVIOUS
<1>1. x \in T /\ \A y \in T : x <= y
  <2> HIDE DEF T
  <2> QED BY <1>0, Least
<1> HIDE DEF x
<1>2. x \in 1..Len(s) /\ s[x] = s[i] /\ x <= i
  BY <1>1
<1>3. ASSUME NEW k \in 1..(x - 1) PROVE s[k] # s[x]
  <2> SUFFICES ASSUME s[k] = s[x] PROVE FALSE
    OBVIOUS
  <2>1. k \in 1..Len(s) /\ k < x /\ s[k] = s[i]
    BY <1>2
  <2>2. x <= k
    BY <1>1, <2>1
  <2> QED BY <1>2, <2>1, <2>2
<1>4. x \in OnceOnly(s)
  BY <1>2, <1>3 DEF OnceOnly
<1> QED BY <1>2, <1>4

LEMMA OnceEach ==
    ASSUME NEW S, NEW s \in Seq(S), NEW i \in OnceOnly(s), NEW k \in OnceOnly(s), s[i] = s[k]
    PROVE  i = k
<1>1. i \in 1..Len(s) /\ k \in 1..Len(s)
  BY DEF OnceOnly
<1>2. ~(i < k)
  BY <1>1 DEF OnceOnly
<1>3. ~(k < i)
  BY <1>1 DEF OnceOnly
<1> QED BY <1>1, <1>2, <1>3

\* What a loop over a loop keeps, it keeps of the first.
LEMMA KeptTwice ==
    ASSUME NEW S, NEW s \in Seq(S), NEW I, I \subseteq DOMAIN s, NEW V
    PROVE  LET t == Keep(s, I)
               P == Keep(t, {n \in DOMAIN t : t[n] \notin V})
               J == {i \in I : s[i] \notin V}
           IN  /\ P \in Seq(S)
               /\ \E g : Moved(s, J, P, g) /\ \A i, k \in J : i < k <=> g[i] < g[k]
<1> DEFINE t == Keep(s, I)
           K == {n \in DOMAIN t : t[n] \notin V}
           P == Keep(t, K)
           J == {i \in I : s[i] \notin V}
<1>1. t \in Seq(S)
  BY Kept
<1>2. PICK p : Moved(s, I, t, p) /\ \A i, k \in I : i < k <=> p[i] < p[k]
  BY Kept
<1> HIDE DEF t
<1>3. P \in Seq(S)
  BY <1>1, Kept
<1>4. PICK q : Moved(t, K, P, q) /\ \A i, k \in K : i < k <=> q[i] < q[k]
  BY <1>1, Kept
<1> HIDE DEF P
<1>5. \A i \in I : p[i] \in DOMAIN t /\ t[p[i]] = s[i]
  BY <1>1, <1>2 DEF Moved
<1>6. \A i \in J : i \in I /\ p[i] \in K
  BY <1>5
<1>7. \A n \in K : \E i \in J : p[i] = n
  BY <1>1, <1>2, <1>5 DEF Moved
<1> HIDE DEF K, J
<1> DEFINE g == [i \in J |-> q[p[i]]]
<1>8. \A i \in J : g[i] = q[p[i]]
  OBVIOUS
<1>9. g \in [J -> 1..Len(P)]
  BY <1>4, <1>6 DEF Moved
<1> HIDE DEF g
<1>10. \A i \in J : P[g[i]] = s[i]
  BY <1>4, <1>5, <1>6, <1>8 DEF Moved
<1>11. ASSUME NEW n \in 1..Len(P) PROVE \E i \in J : g[i] = n
  <2>1. PICK k \in K : q[k] = n
    BY <1>4 DEF Moved
  <2>2. PICK i \in J : p[i] = k
    BY <1>7
  <2> QED BY <1>8, <2>1, <2>2
<1>12. Moved(s, J, P, g)
  BY <1>9, <1>10, <1>11 DEF Moved
<1>13. \A i, k \in J : i < k <=> g[i] < g[k]
  BY <1>2, <1>4, <1>6, <1>8
<1> QED BY <1>3, <1>12, <1>13 DEF t, K, P, J

\* The first of two appended loops fills the front, the rest is of the second,
\* and nothing comes twice.
Fronted(P, own, rest) ==
    /\ Cardinality(own) \in Nat /\ Cardinality(own) <= Len(P)
    /\ {P[n] : n \in 1..Cardinality(own)} = own
    /\ \A n \in 1..Len(P) : n > Cardinality(own) => P[n] \in rest
    /\ \A n, m \in 1..Len(P) : P[n] = P[m] => n = m

\* The places J of s went to P in their order, those up to a holding own.
Lined(s, J, P, g, a, own, rest) ==
    /\ J \subseteq Nat
    /\ \A j \in J : g[j] \in 1..Len(P) /\ P[g[j]] = s[j]
    /\ \A n \in 1..Len(P) : \E j \in J : g[j] = n
    /\ \A i, k \in J : i < k <=> g[i] < g[k]
    /\ \A i, k \in J : s[i] = s[k] => i = k
    /\ \A c \in own : \E j \in J : j <= a /\ s[j] = c
    /\ \A j \in J : (j <= a => s[j] \in own) /\ (j > a => s[j] \in rest)

LEMMA LinedUp ==
    ASSUME NEW a \in Nat, NEW P, Len(P) \in Nat, NEW J, NEW s, NEW g, NEW own, NEW rest,
           Lined(s, J, P, g, a, own, rest)
    PROVE  Fronted(P, own, rest)
<1>0. /\ J \subseteq Nat
      /\ \A j \in J : g[j] \in 1..Len(P) /\ P[g[j]] = s[j]
      /\ \A n \in 1..Len(P) : \E j \in J : g[j] = n
      /\ \A i, k \in J : i < k <=> g[i] < g[k]
      /\ \A i, k \in J : s[i] = s[k] => i = k
      /\ \A c \in own : \E j \in J : j <= a /\ s[j] = c
      /\ \A j \in J : (j <= a => s[j] \in own) /\ (j > a => s[j] \in rest)
  BY DEF Lined
<1> DEFINE F == {j \in J : j <= a}
           W == {g[j] : j \in F}
           N == Len(P)
<1>1. W \subseteq 1..N
  BY <1>0
<1>2. ASSUME NEW w \in W, NEW n \in 1..N, n < w PROVE n \in W
  <2>1. PICK j \in F : w = g[j]
    BY <1>0
  <2>2. PICK k \in J : g[k] = n
    BY <1>0
  <2>3. k < j /\ k \in Nat /\ j \in Nat /\ j <= a
    BY <1>0, <1>2, <2>1, <2>2
  <2>4. k <= a
    BY <1>0, <2>3
  <2> QED BY <1>0, <2>2, <2>4
<1>3. \A w \in W : P[w] \in own
  BY <1>0
<1>4. \A c \in own : \E w \in W : P[w] = c
  <2> SUFFICES ASSUME NEW c \in own PROVE \E w \in W : P[w] = c
    BY <1>0
  <2>1. PICK j \in J : j <= a /\ s[j] = c
    BY <1>0
  <2>2. g[j] \in W /\ P[g[j]] = c
    BY <1>0, <2>1
  <2> QED BY <1>0, <2>2
<1>5. ASSUME NEW n \in 1..N, NEW m \in 1..N, P[n] = P[m] PROVE n = m
  <2>1. PICK i \in J : g[i] = n
    BY <1>0
  <2>2. PICK k \in J : g[k] = m
    BY <1>0
  <2>3. s[i] = s[k]
    BY <1>0, <1>5, <2>1, <2>2
  <2> QED BY <1>0, <2>1, <2>2, <2>3
<1>6. ASSUME NEW n \in 1..N, n \notin W PROVE P[n] \in rest
  <2>1. PICK j \in J : g[j] = n
    BY <1>0
  <2>2. ~(j <= a)
    BY <1>0, <1>6, <2>1
  <2>3. j > a
    BY <1>0, <2>2
  <2> QED BY <1>0, <2>1, <2>3
<1> HIDE DEF F, W
<1>7. IsFiniteSet(W) /\ Cardinality(W) \in Nat /\ W = 1..Cardinality(W)
  BY <1>1, <1>2, NoGap
<1> DEFINE h == [w \in W |-> P[w]]
<1>8. \A w \in W : h[w] = P[w]
  OBVIOUS
<1>9. h \in [W -> own]
  BY <1>3
<1> HIDE DEF h
<1>10. h \in Injection(W, own)
  BY <1>1, <1>5, <1>8, <1>9 DEF Injection, IsInjective
<1>11. h \in Surjection(W, own)
  BY <1>4, <1>8, <1>9 DEF Surjection
<1>12. Cardinality(own) = Cardinality(W)
  BY <1>7, <1>10, <1>11, FS_Bijection DEF ExistsBijection, Bijection
<1>13. Cardinality(own) \in Nat /\ W = 1..Cardinality(own)
  BY <1>7, <1>12
<1>14. Cardinality(own) <= N
  <2>1. Cardinality(own) = 0 \/ Cardinality(own) \in W
    BY <1>13
  <2>2. \A w \in W : w <= N
    BY <1>1
  <2> QED BY <2>1, <2>2
<1>15. {P[n] : n \in 1..Cardinality(own)} = own
  BY <1>3, <1>4, <1>13
<1>16. \A n \in 1..N : n > Cardinality(own) => P[n] \in rest
  BY <1>6, <1>13
<1>17. \A n, m \in 1..N : P[n] = P[m] => n = m
  BY <1>5
<1> QED BY <1>13, <1>14, <1>15, <1>16, <1>17 DEF Fronted

LEMMA OwnFirst ==
    ASSUME NEW S, NEW A \in Seq(S), NEW B \in Seq(S), NEW V, NEW P \in Seq(S), NEW g,
           Moved(A \o B, {j \in OnceOnly(A \o B) : (A \o B)[j] \notin V}, P, g),
           \A i, k \in {j \in OnceOnly(A \o B) : (A \o B)[j] \notin V} : i < k <=> g[i] < g[k]
    PROVE  Fronted(P, {c \in ToSet(A) : c \notin V}, ToSet(B))
<1> DEFINE s == A \o B
           J == {j \in OnceOnly(s) : s[j] \notin V}
           own == {c \in ToSet(A) : c \notin V}
<1>1. /\ s \in Seq(S) /\ Len(A) \in Nat /\ Len(B) \in Nat /\ Len(s) = Len(A) + Len(B)
      /\ Len(P) \in Nat
  OBVIOUS
<1>2. /\ \A i \in 1..Len(A) : s[i] = A[i]
      /\ \A i \in 1..Len(s) : i > Len(A) => s[i] = B[i - Len(A)] /\ i - Len(A) \in 1..Len(B)
  OBVIOUS
<1>3. Moved(s, J, P, g) /\ \A i, k \in J : i < k <=> g[i] < g[k]
  OBVIOUS
<1> HIDE DEF s
<1>4. OnceOnly(s) \subseteq 1..Len(s)
  BY <1>1 DEF OnceOnly
<1>5. \A j \in J : j \in OnceOnly(s) /\ s[j] \notin V
  OBVIOUS
<1>6. \A j \in OnceOnly(s) : s[j] \notin V => j \in J
  OBVIOUS
<1> HIDE DEF J
<1>7. J \subseteq Nat
  BY <1>4, <1>5
<1>8. \A j \in J : g[j] \in 1..Len(P) /\ P[g[j]] = s[j]
  BY <1>3 DEF Moved
<1>9. \A n \in 1..Len(P) : \E j \in J : g[j] = n
  BY <1>3 DEF Moved
<1>10. \A i, k \in J : s[i] = s[k] => i = k
  BY <1>1, <1>5, OnceEach
<1>11. ASSUME NEW c \in own PROVE \E j \in J : j <= Len(A) /\ s[j] = c
  <2>1. PICK i \in 1..Len(A) : c = A[i]
    BY <1>11, Members
  <2>2. i \in 1..Len(s) /\ s[i] = c
    BY <1>1, <1>2, <2>1
  <2>3. PICK k \in OnceOnly(s) : k <= i /\ s[k] = s[i]
    BY <1>1, <2>2, FirstOf
  <2>4. k \in J
    BY <1>6, <1>11, <2>2, <2>3
  <2>5. k <= Len(A)
    BY <1>1, <1>4, <2>1, <2>3
  <2> QED BY <2>2, <2>3, <2>4, <2>5
<1>12. ASSUME NEW j \in J
       PROVE  (j <= Len(A) => s[j] \in own) /\ (j > Len(A) => s[j] \in ToSet(B))
  <2>1. j \in 1..Len(s) /\ s[j] \notin V
    BY <1>4, <1>5
  <2>2. ASSUME j <= Len(A) PROVE s[j] \in own
    <3>1. j \in 1..Len(A)
      BY <1>1, <2>1, <2>2
    <3> QED BY <1>2, <2>1, <3>1 DEF ToSet
  <2>3. ASSUME j > Len(A) PROVE s[j] \in ToSet(B)
    <3>1. s[j] = B[j - Len(A)] /\ j - Len(A) \in 1..Len(B)
      BY <1>2, <2>1, <2>3
    <3> QED BY <3>1, Members
  <2> QED BY <2>2, <2>3
<1> HIDE DEF own
<1>13. Lined(s, J, P, g, Len(A), own, ToSet(B))
  BY <1>3, <1>7, <1>8, <1>9, <1>10, <1>11, <1>12 DEF Lined
<1>14. Fronted(P, own, ToSet(B))
  BY <1>1, <1>13, LinedUp
<1> QED BY <1>14 DEF own

\* Outside free-only mode and automatic routing, a request that names a model
\* is given every keyed place of that model first, vetoed ones aside, then
\* fallbacks that no provider refused lately, each once (namedCandidates).
THEOREM NamedIsHonoured == Spec => []NamedMeansNamed
<1>1. ASSUME StateOK, NEW ask \in Asks, NamesModel(ask), ~Automatic(ask)
      PROVE  BeginsWith(Plan(ask), {c \in ToSet(Named(ask)) :
                                      c.provider \in keyed /\ c \notin blacklist})
  <2> DEFINE A == FilterToKeyed(Named(ask))
             B == Usable(FallbackPlaces)
             s == A \o B
             own == {c \in ToSet(Named(ask)) : c.provider \in keyed /\ c \notin blacklist}
             P == Plan(ask)
  <2>1. ask \in Ask
    BY <1>1, PlanCandidatesOK
  <2>2. A \in Seq(Candidate) /\ ToSet(A) = {c \in ToSet(Named(ask)) : c.provider \in keyed}
    BY <1>1, <2>1, NamedOK, KeyedOK
  <2>3. /\ B \in Seq(Candidate)
        /\ \A c \in ToSet(B) : c \notin bench /\ Fallback(c)
    BY <1>1, FallbacksOK, UsableOK
  <2>4. Sources(ask) = s
    BY <1>1 DEF Sources, OwnModel, NamesModel
  <2>5. own = {c \in ToSet(A) : c \notin blacklist}
    BY <2>2
  <2> HIDE DEF A, B, own
  <2>6. s \in Seq(Candidate) /\ OnceOnly(s) \subseteq DOMAIN s
    BY <2>2, <2>3 DEF OnceOnly
  <2>7. PlanCandidates(ask) = Keep(s, OnceOnly(s))
    BY <1>1, <2>1, <2>4, SourcesOK DEF PlanCandidates, Automatic
  <2> DEFINE t == Keep(s, OnceOnly(s))
             J == {j \in OnceOnly(s) : s[j] \notin blacklist}
  <2>8. P = Keep(t, {n \in DOMAIN t : t[n] \notin blacklist})
    BY <2>7 DEF Plan, ExcludeBlacklisted
  <2> HIDE DEF P, s
  <2>9. P \in Seq(Candidate)
        /\ \E g : Moved(s, J, P, g) /\ \A i, k \in J : i < k <=> g[i] < g[k]
    BY <2>6, <2>8, KeptTwice
  <2>10. PICK g : Moved(s, J, P, g) /\ \A i, k \in J : i < k <=> g[i] < g[k]
    BY <2>9
  <2>11. Fronted(P, {c \in ToSet(A) : c \notin blacklist}, ToSet(B))
    BY <2>2, <2>3, <2>9, <2>10, OwnFirst DEF s
  <2>12. Fronted(P, own, ToSet(B))
    BY <2>5, <2>11
  <2>13. DOMAIN P = 1..Len(P) /\ Len(P) \in Nat
    BY <2>9
  <2>14. Min({Cardinality(own), Len(P)}) = Cardinality(own)
    <3>1. /\ Cardinality(own) \in Nat /\ Cardinality(own) <= Len(P)
      BY <2>12 DEF Fronted
    <3>2. LET m == Min({Cardinality(own), Len(P)})
          IN  /\ m \in Nat /\ m <= Cardinality(own)
              /\ m \in {Cardinality(own), Len(P)}
      BY <2>13, <3>1, Between
    <3> QED BY <2>13, <3>1, <3>2
  <2>15. {P[i] : i \in 1..Min({Cardinality(own), Len(P)})} = own
    BY <2>12, <2>14 DEF Fronted
  <2>16. /\ \A n \in 1..Len(P) : n > Cardinality(own) => P[n] \in ToSet(B)
         /\ \A n, m \in 1..Len(P) : P[n] = P[m] => n = m
    BY <2>12 DEF Fronted
  <2>17. BeginsWith(P, own)
    BY <2>3, <2>13, <2>15, <2>16 DEF BeginsWith
  <2> QED BY <2>17 DEF P, own
<1>2. StateOK => NamedMeansNamed
  BY <1>1 DEF NamedMeansNamed
<1> QED BY <1>2, StateInv, PTL
=============================================================================
