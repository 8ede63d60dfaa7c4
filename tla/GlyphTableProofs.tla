-------------------------- MODULE GlyphTableProofs --------------------------
(***************************************************************************)
(* Theorems about GlyphTable, for every number of entries, slots and       *)
(* hashes.                                                                 *)
(***************************************************************************)
EXTENDS GlyphTable, FiniteSetTheorems, WellFoundedInduction, TLAPS

(***************************************************************************)
(* Induction over the naturals, by sets                                    *)
(***************************************************************************)

\* A non-empty set of naturals has a least element.
LEMMA LeastNatural ==
    ASSUME NEW S \in SUBSET Nat, S # {}
    PROVE  \E m \in S : \A k \in S : m <= k
<1> DEFINE R == OpToRel(<, Nat)
<1>1. IsWellFoundedOn(R, Nat)
    BY NatLessThanWellFounded
<1>2. \A x, y \in Nat : y < x => <<y, x>> \in R
    BY DEF OpToRel
<1> HIDE DEF R
<1>3. PICK m \in S : \A k \in S : <<k, m>> \notin R
    BY <1>1, WFMin
<1>4. ASSUME NEW k \in S PROVE m <= k
    <2>1. k \in Nat /\ m \in Nat
        OBVIOUS
    <2>2. ~ k < m
        BY <1>2, <1>3, <2>1
    <2> QED BY <2>1, <2>2
<1> QED BY <1>4

\* A set of naturals that has a and, with each number below b, the next one, has
\* every number from a to b.
LEMMA Induction ==
    ASSUME NEW S, NEW a \in Nat, NEW b \in Nat,
           a <= b => a \in S,
           \A n \in a .. b : n \in S /\ n < b => n + 1 \in S
    PROVE  a .. b \subseteq S
<1> SUFFICES ASSUME (a .. b) \ S # {} PROVE FALSE
    OBVIOUS
<1> DEFINE M == (a .. b) \ S
<1>1. M \in SUBSET Nat /\ M # {}
    OBVIOUS
<1>2. PICK m \in M : \A k \in M : m <= k
    <2> HIDE DEF M
    <2> QED BY <1>1, LeastNatural
<1>3. m \in a .. b /\ m \notin S
    OBVIOUS
<1>4. m # a
    BY <1>3
<1>5. m - 1 \in a .. b /\ m - 1 < b /\ (m - 1) + 1 = m
    BY <1>3, <1>4
<1>6. m - 1 \notin M
    BY <1>2, <1>5
<1>7. m - 1 \in S
    BY <1>5, <1>6
<1> QED BY <1>3, <1>5, <1>7

(***************************************************************************)
(* Walking a list                                                          *)
(***************************************************************************)

\* What Links is defined by has a solution.
LEMMA LinksDefined ==
    ASSUME NEW next, NEW start
    PROVE  Links(next, start) =
               [k \in 1 .. EntryCount |->
                  IF k = 1 THEN start
                  ELSE IF Links(next, start)[k - 1] = 0 THEN 0
                  ELSE next[Links(next, start)[k - 1]]]
<1> DEFINE Solves(f, n) ==
             f = [k \in 1 .. n |-> IF k = 1 THEN start
                                   ELSE IF f[k - 1] = 0 THEN 0 ELSE next[f[k - 1]]]
           S == {n \in Nat : \E f : Solves(f, n)}
<1>0. EntryCount \in Nat
    BY ParamsAssumption
<1>1. 0 \in S
    <2>1. Solves([k \in 1 .. 0 |-> 0], 0)
        OBVIOUS
    <2> QED BY <2>1
<1>2. ASSUME NEW n \in Nat, n \in S PROVE n + 1 \in S
    <2>1. PICK f : Solves(f, n)
        BY <1>2
    <2> DEFINE g == [k \in 1 .. n + 1 |->
                       IF k \in 1 .. n THEN f[k]
                       ELSE IF k = 1 THEN start
                       ELSE IF f[k - 1] = 0 THEN 0 ELSE next[f[k - 1]]]
    <2>2. ASSUME NEW k \in 1 .. n + 1
          PROVE  g[k] = IF k = 1 THEN start ELSE IF g[k - 1] = 0 THEN 0 ELSE next[g[k - 1]]
        <3>1. k # 1 => k - 1 \in 1 .. n /\ k - 1 \in 1 .. n + 1
            OBVIOUS
        <3>2. k # 1 => g[k - 1] = f[k - 1]
            BY <3>1
        <3>3. k \in 1 .. n => f[k] = IF k = 1 THEN start
                                     ELSE IF f[k - 1] = 0 THEN 0 ELSE next[f[k - 1]]
            BY <2>1
        <3> QED BY <3>2, <3>3
    <2>3. Solves(g, n + 1)
        BY <2>2
    <2> HIDE DEF g, Solves
    <2> QED BY <2>3
<1>3. EntryCount \in S
    <2> HIDE DEF S
    <2>1. 0 .. EntryCount \subseteq S
        BY <1>0, <1>1, <1>2, Induction
    <2> QED BY <1>0, <2>1
<1>4. \E f : Solves(f, EntryCount)
    BY <1>3
<1> QED BY <1>4 DEF Links

LEMMA LinksAt ==
    ASSUME NEW next, NEW start, NEW k \in 1 .. EntryCount
    PROVE  Links(next, start)[k] =
               IF k = 1 THEN start
               ELSE IF Links(next, start)[k - 1] = 0 THEN 0
               ELSE next[Links(next, start)[k - 1]]
<1> DEFINE at == Links(next, start)
<1>1. at = [j \in 1 .. EntryCount |->
              IF j = 1 THEN start ELSE IF at[j - 1] = 0 THEN 0 ELSE next[at[j - 1]]]
    BY LinksDefined
<1> HIDE DEF at
<1>2. at[k] = IF k = 1 THEN start ELSE IF at[k - 1] = 0 THEN 0 ELSE next[at[k - 1]]
    BY <1>1
<1> QED BY <1>2 DEF at

\* The sequence q is the list that begins at start and goes on through next.
IsList(q, next, start) ==
    /\ q \in Seq(Indices \ {Sentinel})
    /\ NoDuplicates(q)
    /\ start = IF q = <<>> THEN 0 ELSE q[1]
    /\ \A k \in 1 .. Len(q) : next[q[k]] = IF k = Len(q) THEN 0 ELSE q[k + 1]

\* A list has fewer elements than there are entries.
LEMMA ListIsShort ==
    ASSUME NEW q \in Seq(Indices \ {Sentinel}), NoDuplicates(q)
    PROVE  Len(q) \in 0 .. EntryCount - 1
<1>0. EntryCount \in Nat /\ EntryCount >= 2 /\ Len(q) \in Nat
    BY ParamsAssumption
<1>1. SUFFICES ASSUME EntryCount - 1 < Len(q) PROVE FALSE
    BY <1>0
<1>6. \A n \in Nat : IsFiniteSet(1 .. n) /\ Cardinality(1 .. n) = n
    <2>1. ASSUME NEW n \in Nat PROVE IsFiniteSet(1 .. n) /\ Cardinality(1 .. n) = n
        <3>1. 1 \in Int /\ n \in Int
            OBVIOUS
        <3>2. IsFiniteSet(1 .. n) /\ Cardinality(1 .. n) = IF 1 > n THEN 0 ELSE n - 1 + 1
            BY <3>1, FS_Interval
        <3> QED BY <3>2
    <2> QED BY <2>1
<1>2. IsFiniteSet(1 .. Len(q)) /\ Cardinality(1 .. Len(q)) = Len(q)
    BY <1>0, <1>6
<1>5. IsFiniteSet(1 .. EntryCount - 1) /\ Cardinality(1 .. EntryCount - 1) = EntryCount - 1
    <2>1. EntryCount - 1 \in Nat
        BY <1>0
    <2> QED BY <2>1, <1>6
<1>3. q \in [1 .. Len(q) -> 1 .. EntryCount - 1]
    BY <1>0 DEF Indices, Sentinel
<1>4. \E j, k \in 1 .. Len(q) : j # k /\ q[j] = q[k]
    BY <1>0, <1>1, <1>2, <1>3, <1>5, FS_PigeonHole
<1> QED BY <1>4 DEF NoDuplicates

\* Walk finds the list that is there.
LEMMA WalkIsList ==
    ASSUME NEW q, NEW next, NEW start, IsList(q, next, start)
    PROVE  Walk(next, start) = q
<1> DEFINE n == Len(q)
           at == Links(next, start)
           S == {k \in Nat : at[k] = IF k <= n THEN q[k] ELSE 0}
<1>0. EntryCount \in Nat /\ EntryCount >= 2 /\ n \in 0 .. EntryCount - 1
    BY ParamsAssumption, ListIsShort DEF IsList
<1>1. \A k \in 1 .. n : q[k] # 0
    BY DEF IsList, Sentinel
<1>2. 1 .. EntryCount \subseteq S
    <2>1. 1 \in S
        <3>1. at[1] = start
            BY <1>0, LinksAt
        <3>2. q = <<>> <=> n = 0
            BY DEF IsList
        <3> QED BY <1>0, <3>1, <3>2 DEF IsList
    <2>2. ASSUME NEW k \in 1 .. EntryCount, k \in S, k < EntryCount PROVE k + 1 \in S
        <3>1. k + 1 \in 1 .. EntryCount /\ k + 1 # 1 /\ (k + 1) - 1 = k
            BY <1>0, <2>2
        <3>2. at[k + 1] = IF at[k] = 0 THEN 0 ELSE next[at[k]]
            <4> DEFINE j == k + 1
            <4>1. at[j] = IF j = 1 THEN start ELSE IF at[j - 1] = 0 THEN 0 ELSE next[at[j - 1]]
                <5>1. j \in 1 .. EntryCount
                    BY <3>1
                <5> HIDE DEF j
                <5> QED BY <5>1, LinksAt
            <4> HIDE DEF at
            <4> QED BY <4>1, <3>1
        <3>3. at[k] = IF k <= n THEN q[k] ELSE 0
            BY <2>2
        <3>4. k \in 1 .. n => next[q[k]] = IF k = n THEN 0 ELSE q[k + 1]
            BY DEF IsList
        <3>5. at[k + 1] = IF k + 1 <= n THEN q[k + 1] ELSE 0
            <4>1. CASE k \in 1 .. n
                BY <4>1, <1>0, <1>1, <3>2, <3>3, <3>4
            <4>2. CASE k \notin 1 .. n
                BY <4>2, <1>0, <3>2, <3>3
            <4> QED BY <4>1, <4>2
        <3> QED BY <3>1, <3>5
    <2> HIDE DEF S
    <2> QED BY <1>0, <2>1, <2>2, Induction
<1>3. \A k \in 1 .. EntryCount : at[k] = IF k <= n THEN q[k] ELSE 0
    BY <1>2
<1> DEFINE End(m) == \A k \in 1 .. EntryCount : at[k] # 0 <=> k <= m
           end == CHOOSE m \in 0 .. EntryCount : End(m)
<1>4. \A k \in 1 .. EntryCount : at[k] # 0 <=> k <= n
    BY <1>0, <1>1, <1>3
<1>5. \A m \in 0 .. EntryCount : End(m) => m = n
    <2> SUFFICES ASSUME NEW m \in 0 .. EntryCount, End(m), m # n PROVE FALSE
        OBVIOUS
    <2>1. CASE m < n
        <3>1. n \in 1 .. EntryCount
            BY <1>0, <2>1
        <3>2. n <= m <=> n <= n
            BY <1>4, <3>1
        <3> QED BY <1>0, <2>1, <3>2
    <2>2. CASE n < m
        <3>1. m \in 1 .. EntryCount
            BY <1>0, <2>2
        <3>2. m <= m <=> m <= n
            BY <1>4, <3>1
        <3> QED BY <1>0, <2>2, <3>2
    <2> QED BY <1>0, <2>1, <2>2
<1>6. end = n
    <2>1. n \in 0 .. EntryCount /\ End(n)
        BY <1>0, <1>4
    <2>2. end \in 0 .. EntryCount /\ End(end)
        <3> HIDE DEF End
        <3> QED BY <2>1
    <2> HIDE DEF end, End
    <2> QED BY <2>2, <1>5
<1>7. Walk(next, start) = [k \in 1 .. end |-> at[k]]
    BY DEF Walk
<1>8. \A k \in 1 .. n : at[k] = q[k]
    BY <1>0, <1>3
<1>9. q = [k \in 1 .. n |-> q[k]]
    BY DEF IsList
<1> HIDE DEF n, at, end
<1> QED BY <1>6, <1>7, <1>8, <1>9

(***************************************************************************)
(* Changing a list                                                         *)
(***************************************************************************)

\* The sequence with e put in front, and the sequence without its j-th element.
Push(e, q) == [k \in 1 .. Len(q) + 1 |-> IF k = 1 THEN e ELSE q[k - 1]]
Drop(q, j) == [k \in 1 .. Len(q) - 1 |-> IF k < j THEN q[k] ELSE q[k + 1]]

LEMMA Pushed ==
    ASSUME NEW S, NEW q \in Seq(S), NEW e \in S
    PROVE  /\ Push(e, q) \in Seq(S)
           /\ Len(Push(e, q)) = Len(q) + 1
           /\ Push(e, q)[1] = e
           /\ \A k \in 2 .. Len(q) + 1 : Push(e, q)[k] = q[k - 1]
           /\ Elements(Push(e, q)) = Elements(q) \cup {e}
           /\ NoDuplicates(q) /\ e \notin Elements(q) => NoDuplicates(Push(e, q))
<1> DEFINE p == Push(e, q)
<1>0. Len(q) \in Nat
    OBVIOUS
<1>1. p \in [1 .. Len(q) + 1 -> S]
    BY DEF Push
<1>2. p \in Seq(S) /\ Len(p) = Len(q) + 1
    BY <1>0, <1>1
<1>3. p[1] = e /\ \A k \in 2 .. Len(q) + 1 : p[k] = q[k - 1]
    BY <1>0 DEF Push
<1> HIDE DEF p
<1>4. Elements(p) = Elements(q) \cup {e}
    <2>1. \A k \in 1 .. Len(p) : p[k] \in Elements(q) \cup {e}
        BY <1>0, <1>2, <1>3 DEF Elements
    <2>2. \A k \in 1 .. Len(q) : q[k] = p[k + 1] /\ k + 1 \in 1 .. Len(p)
        BY <1>0, <1>2, <1>3
    <2>3. 1 \in 1 .. Len(p)
        BY <1>0, <1>2
    <2> QED BY <2>1, <2>2, <2>3, <1>3 DEF Elements
<1>5. ASSUME NoDuplicates(q), e \notin Elements(q) PROVE NoDuplicates(p)
    <2>1. ASSUME NEW j \in 1 .. Len(p), NEW k \in 1 .. Len(p), p[j] = p[k] PROVE j = k
        <3>1. \A i \in 1 .. Len(p) : i = 1 \/ (i - 1 \in 1 .. Len(q) /\ p[i] = q[i - 1])
            BY <1>0, <1>2, <1>3
        <3>2. \A i \in 1 .. Len(p) : i # 1 => p[i] # e
            BY <3>1, <1>5 DEF Elements
        <3>3. CASE j = 1 \/ k = 1
            BY <3>2, <3>3, <2>1, <1>3
        <3>4. CASE j # 1 /\ k # 1
            BY <3>1, <3>4, <2>1, <1>5 DEF NoDuplicates
        <3> QED BY <3>3, <3>4
    <2> QED BY <2>1 DEF NoDuplicates
<1> QED BY <1>2, <1>3, <1>4, <1>5 DEF p

\* The part of it that asks least of the elements.
LEMMA PushedElements ==
    \A q \in Seq(Indices \ {Sentinel}) : \A e \in Indices \ {Sentinel} :
        /\ Elements(Push(e, q)) = Elements(q) \cup {e}
        /\ Push(e, q) \in Seq(Indices \ {Sentinel})
        /\ Push(e, q) # <<>>
<1> DEFINE I == Indices \ {Sentinel}
<1> SUFFICES ASSUME NEW q \in Seq(I), NEW e \in I
             PROVE  /\ Elements(Push(e, q)) = Elements(q) \cup {e}
                    /\ Push(e, q) \in Seq(I) /\ Push(e, q) # <<>>
    OBVIOUS
<1> HIDE DEF I
<1>1. Elements(Push(e, q)) = Elements(q) \cup {e} /\ Push(e, q) \in Seq(I)
      /\ Len(Push(e, q)) = Len(q) + 1
    BY Pushed
<1>2. Len(q) \in Nat
    OBVIOUS
<1> QED BY <1>1, <1>2

LEMMA Dropped ==
    ASSUME NEW S, NEW q \in Seq(S), NEW j \in 1 .. Len(q)
    PROVE  /\ Drop(q, j) \in Seq(S)
           /\ Len(Drop(q, j)) = Len(q) - 1
           /\ \A k \in 1 .. Len(q) - 1 :
                Drop(q, j)[k] = IF k < j THEN q[k] ELSE q[k + 1]
           /\ NoDuplicates(q) => /\ NoDuplicates(Drop(q, j))
                                 /\ Elements(Drop(q, j)) = Elements(q) \ {q[j]}
<1> DEFINE p == Drop(q, j)
<1>0. Len(q) \in Nat /\ Len(q) >= 1 /\ Len(q) - 1 \in Nat
    OBVIOUS
<1>1. p \in [1 .. Len(q) - 1 -> S]
    BY DEF Drop
<1>2. p \in Seq(S) /\ Len(p) = Len(q) - 1
    BY <1>0, <1>1
<1>3. \A k \in 1 .. Len(q) - 1 : p[k] = IF k < j THEN q[k] ELSE q[k + 1]
    BY <1>0 DEF Drop
<1> HIDE DEF p
<1>4. ASSUME NoDuplicates(q) PROVE NoDuplicates(p)
    <2>1. ASSUME NEW i \in 1 .. Len(p), NEW k \in 1 .. Len(p), p[i] = p[k] PROVE i = k
        <3> DEFINE at(m) == IF m < j THEN m ELSE m + 1
        <3>1. \A m \in 1 .. Len(p) : at(m) \in 1 .. Len(q) /\ p[m] = q[at(m)]
            BY <1>0, <1>2, <1>3
        <3>2. at(i) = at(k)
            BY <2>1, <3>1, <1>4 DEF NoDuplicates
        <3> QED BY <3>2, <1>0, <1>2
    <2> QED BY <2>1 DEF NoDuplicates
<1>5. ASSUME NoDuplicates(q) PROVE Elements(p) = Elements(q) \ {q[j]}
    <2>1. ASSUME NEW k \in 1 .. Len(p) PROVE p[k] \in Elements(q) /\ p[k] # q[j]
        <3> DEFINE m == IF k < j THEN k ELSE k + 1
        <3>1. m \in 1 .. Len(q) /\ m # j /\ p[k] = q[m]
            BY <1>0, <1>2, <1>3
        <3> HIDE DEF m
        <3>2. q[m] # q[j]
            BY <3>1, <1>5 DEF NoDuplicates
        <3> QED BY <3>1, <3>2 DEF Elements
    <2>2. ASSUME NEW k \in 1 .. Len(q), q[k] # q[j] PROVE q[k] \in Elements(p)
        <3> DEFINE m == IF k < j THEN k ELSE k - 1
        <3>1. k # j
            BY <2>2
        <3>2. m \in 1 .. Len(p) /\ p[m] = q[k]
            BY <1>0, <1>2, <1>3, <3>1
        <3> HIDE DEF m
        <3> QED BY <3>2 DEF Elements
    <2> QED BY <2>1, <2>2 DEF Elements
<1> QED BY <1>2, <1>3, <1>4, <1>5 DEF p

\* prev leads back through q, from its last element.
LeadsBack(q, prev, last) ==
    /\ last = IF q = <<>> THEN 0 ELSE q[Len(q)]
    /\ \A k \in 1 .. Len(q) : prev[q[k]] = IF k = 1 THEN 0 ELSE q[k - 1]

\* A list whose own links are left alone is the list it was.
LEMMA ListFramed ==
    ASSUME NEW q, NEW next, NEW start, NEW next1, IsList(q, next, start),
           \A e \in Elements(q) : next1[e] = next[e]
    PROVE  IsList(q, next1, start)
BY DEF IsList, Elements

\* A new element in front, which leads to the former first one.
LEMMA ListPushed ==
    ASSUME NEW q, NEW next, NEW start, NEW next1, NEW e \in Indices \ {Sentinel},
           IsList(q, next, start), e \notin Elements(q),
           next1[e] = start,
           \A f \in Elements(q) : next1[f] = next[f]
    PROVE  IsList(Push(e, q), next1, e)
<1> DEFINE p == Push(e, q)
<1>1. q \in Seq(Indices \ {Sentinel}) /\ NoDuplicates(q) /\ Len(q) \in Nat
    BY DEF IsList
<1>2. /\ p \in Seq(Indices \ {Sentinel}) /\ NoDuplicates(p)
      /\ Len(p) = Len(q) + 1 /\ p[1] = e
      /\ \A k \in 2 .. Len(q) + 1 : p[k] = q[k - 1]
    <2> DEFINE T == Indices \ {Sentinel}
    <2>1. q \in Seq(T) /\ e \in T
        BY <1>1
    <2> HIDE DEF T, p
    <2>2. Push(e, q) \in Seq(T) /\ Len(Push(e, q)) = Len(q) + 1 /\ Push(e, q)[1] = e
        BY <2>1, Pushed
    <2>3. \A k \in 2 .. Len(q) + 1 : Push(e, q)[k] = q[k - 1]
        BY <2>1, Pushed
    <2>4. NoDuplicates(q) /\ e \notin Elements(q) => NoDuplicates(Push(e, q))
        BY <2>1, Pushed
    <2> QED BY <2>2, <2>3, <2>4, <1>1 DEF p, T
<1> HIDE DEF p
<1>3. p # <<>>
    BY <1>1, <1>2
<1>4. ASSUME NEW k \in 1 .. Len(p) PROVE next1[p[k]] = IF k = Len(p) THEN 0 ELSE p[k + 1]
    <2>1. CASE k = 1
        <3>1. q = <<>> <=> Len(q) = 0
            BY <1>1
        <3>2. Len(q) # 0 => p[2] = q[1]
            BY <1>1, <1>2
        <3> QED BY <2>1, <3>1, <3>2, <1>1, <1>2 DEF IsList
    <2>2. CASE k # 1
        <3>1. k - 1 \in 1 .. Len(q) /\ p[k] = q[k - 1] /\ q[k - 1] \in Elements(q)
            BY <2>2, <1>1, <1>2 DEF Elements
        <3>2. next1[p[k]] = IF k - 1 = Len(q) THEN 0 ELSE q[(k - 1) + 1]
            BY <3>1 DEF IsList
        <3>3. k # Len(p) => p[k + 1] = q[k] /\ (k - 1) + 1 = k
            <4>1. k # Len(p) => k + 1 \in 2 .. Len(q) + 1 /\ (k + 1) - 1 = k /\ (k - 1) + 1 = k
                BY <1>1, <1>2
            <4>2. k # Len(p) => p[k + 1] = q[(k + 1) - 1]
                BY <4>1, <1>2
            <4> QED BY <4>1, <4>2
        <3> QED BY <3>2, <3>3, <1>1, <1>2
    <2> QED BY <2>1, <2>2
<1> QED BY <1>2, <1>3, <1>4 DEF IsList, p

LEMMA BackPushed ==
    ASSUME NEW q \in Seq(Indices), NEW prev, NEW last, NEW prev1, NEW e \in Indices,
           LeadsBack(q, prev, last),
           prev1[e] = 0,
           \A k \in 1 .. Len(q) : prev1[q[k]] = IF k = 1 THEN e ELSE prev[q[k]]
    PROVE  LeadsBack(Push(e, q), prev1, IF q = <<>> THEN e ELSE last)
<1> DEFINE p == Push(e, q)
<1>1. /\ p \in Seq(Indices) /\ Len(q) \in Nat
      /\ Len(p) = Len(q) + 1 /\ p[1] = e
      /\ \A k \in 2 .. Len(q) + 1 : p[k] = q[k - 1]
    <2>1. Len(q) \in Nat
        OBVIOUS
    <2> HIDE DEF p
    <2>2. Push(e, q) \in Seq(Indices) /\ Len(Push(e, q)) = Len(q) + 1 /\ Push(e, q)[1] = e
        BY Pushed
    <2>3. \A k \in 2 .. Len(q) + 1 : Push(e, q)[k] = q[k - 1]
        BY Pushed
    <2> QED BY <2>1, <2>2, <2>3 DEF p
<1> HIDE DEF p
<1>2. p # <<>> /\ (q = <<>> <=> Len(q) = 0)
    BY <1>1
<1>3. p[Len(p)] = IF q = <<>> THEN e ELSE last
    BY <1>1, <1>2 DEF LeadsBack
<1>4. ASSUME NEW k \in 1 .. Len(p) PROVE prev1[p[k]] = IF k = 1 THEN 0 ELSE p[k - 1]
    <2>1. CASE k = 1
        BY <2>1, <1>1
    <2>2. CASE k # 1
        <3>1. k - 1 \in 1 .. Len(q) /\ p[k] = q[k - 1]
            BY <2>2, <1>1
        <3>2. prev1[p[k]] = IF k - 1 = 1 THEN e ELSE prev[q[k - 1]]
            BY <3>1
        <3>3. k - 1 # 1 => p[k - 1] = q[(k - 1) - 1]
            BY <2>2, <1>1
        <3>4. prev[q[k - 1]] = IF k - 1 = 1 THEN 0 ELSE q[(k - 1) - 1]
            BY <3>1 DEF LeadsBack
        <3> QED BY <2>2, <3>2, <3>3, <3>4, <1>1
    <2> QED BY <2>1, <2>2
<1> QED BY <1>2, <1>3, <1>4 DEF LeadsBack, p

\* The j-th element taken out: the link to it leads to the next one.
LEMMA ListDropped ==
    ASSUME NEW q, NEW next, NEW start, NEW next1, NEW start1, NEW j \in 1 .. Len(q),
           IsList(q, next, start),
           start1 = IF j = 1 THEN next[q[j]] ELSE start,
           \A k \in 1 .. Len(q) : k # j =>
             next1[q[k]] = IF k = j - 1 THEN next[q[j]] ELSE next[q[k]]
    PROVE  IsList(Drop(q, j), next1, start1)
<1> DEFINE p == Drop(q, j)
<1>1. /\ q \in Seq(Indices \ {Sentinel}) /\ NoDuplicates(q) /\ Len(q) \in Nat
      /\ \A k \in 1 .. Len(q) : next[q[k]] = IF k = Len(q) THEN 0 ELSE q[k + 1]
      /\ start = q[1]
    BY DEF IsList
<1>2. /\ p \in Seq(Indices \ {Sentinel}) /\ NoDuplicates(p)
      /\ Len(p) = Len(q) - 1
      /\ \A k \in 1 .. Len(q) - 1 : p[k] = IF k < j THEN q[k] ELSE q[k + 1]
    BY <1>1, Dropped
<1> HIDE DEF p
<1>3. start1 = IF p = <<>> THEN 0 ELSE p[1]
    <2>1. p = <<>> <=> Len(q) = 1
        BY <1>1, <1>2
    <2>2. CASE Len(q) = 1
        BY <2>1, <2>2, <1>1
    <2>3. CASE Len(q) # 1
        <3>1. p[1] = IF 1 < j THEN q[1] ELSE q[2]
            BY <2>3, <1>1, <1>2
        <3>2. next[q[1]] = q[2]
            <4>1. 1 \in 1 .. Len(q) /\ 1 # Len(q) /\ 1 + 1 = 2
                BY <2>3, <1>1
            <4>2. next[q[1]] = IF 1 = Len(q) THEN 0 ELSE q[1 + 1]
                BY <4>1, <1>1
            <4> QED BY <4>1, <4>2
        <3>3. j = 1 \/ 1 < j
            OBVIOUS
        <3> QED BY <3>1, <3>2, <3>3, <2>1, <2>3, <1>1
    <2> QED BY <2>2, <2>3
<1>4. ASSUME NEW k \in 1 .. Len(p) PROVE next1[p[k]] = IF k = Len(p) THEN 0 ELSE p[k + 1]
    <2>1. CASE k < j - 1
        <3>1. k \in 1 .. Len(q) /\ k # j /\ k # j - 1 /\ p[k] = q[k] /\ k # Len(p)
              /\ p[k + 1] = q[k + 1] /\ k # Len(q)
            BY <2>1, <1>1, <1>2
        <3> QED BY <3>1, <1>1
    <2>2. CASE k = j - 1
        <3>1. k \in 1 .. Len(q) /\ k # j /\ p[k] = q[k] /\ (k # Len(p) => p[k + 1] = q[j + 1])
              /\ (k = Len(p) <=> j = Len(q))
            BY <2>2, <1>1, <1>2
        <3>2. next1[p[k]] = next[q[j]]
            BY <3>1, <2>2
        <3> QED BY <3>1, <3>2, <1>1
    <2>3. CASE k >= j
        <3>1. k + 1 \in 1 .. Len(q) /\ k + 1 # j /\ k + 1 # j - 1 /\ p[k] = q[k + 1]
              /\ (k # Len(p) => p[k + 1] = q[(k + 1) + 1])
              /\ (k = Len(p) <=> k + 1 = Len(q))
            BY <2>3, <1>1, <1>2
        <3>2. next1[q[k + 1]] = next[q[k + 1]]
            BY <3>1
        <3> QED BY <3>1, <3>2, <1>1
    <2> QED BY <2>1, <2>2, <2>3, <1>1, <1>2
<1> QED BY <1>2, <1>3, <1>4 DEF IsList, p

LEMMA BackDropped ==
    ASSUME NEW q \in Seq(Indices), NEW prev, NEW last, NEW prev1, NEW j \in 1 .. Len(q),
           LeadsBack(q, prev, last),
           \A k \in 1 .. Len(q) : k # j =>
             prev1[q[k]] = IF k = j + 1 THEN prev[q[j]] ELSE prev[q[k]]
    PROVE  LeadsBack(Drop(q, j), prev1, IF j = Len(q) THEN prev[q[j]] ELSE last)
<1> DEFINE p == Drop(q, j)
<1>1. /\ Len(q) \in Nat
      /\ \A k \in 1 .. Len(q) : prev[q[k]] = IF k = 1 THEN 0 ELSE q[k - 1]
      /\ last = q[Len(q)]
    BY DEF LeadsBack
<1>2. /\ p \in Seq(Indices)
      /\ Len(p) = Len(q) - 1
      /\ \A k \in 1 .. Len(q) - 1 : p[k] = IF k < j THEN q[k] ELSE q[k + 1]
    BY Dropped
<1> HIDE DEF p
<1>3. (IF j = Len(q) THEN prev[q[j]] ELSE last) = IF p = <<>> THEN 0 ELSE p[Len(p)]
    <2>1. p = <<>> <=> Len(q) = 1
        BY <1>1, <1>2
    <2>2. CASE Len(q) = 1
        BY <2>1, <2>2, <1>1
    <2>3. CASE Len(q) # 1
        <3>1. p[Len(p)] = IF Len(q) - 1 < j THEN q[Len(q) - 1] ELSE q[(Len(q) - 1) + 1]
            BY <2>3, <1>1, <1>2
        <3>2. (Len(q) - 1 < j <=> j = Len(q)) /\ (Len(q) - 1) + 1 = Len(q)
            BY <1>1
        <3> QED BY <3>1, <3>2, <2>1, <2>3, <1>1
    <2> QED BY <2>2, <2>3
<1>4. ASSUME NEW k \in 1 .. Len(p) PROVE prev1[p[k]] = IF k = 1 THEN 0 ELSE p[k - 1]
    <2>1. CASE k < j
        <3>1. k \in 1 .. Len(q) /\ k # j /\ k # j + 1 /\ p[k] = q[k]
              /\ (k # 1 => p[k - 1] = q[k - 1])
            BY <2>1, <1>1, <1>2
        <3> QED BY <3>1, <1>1
    <2>2. CASE k = j
        <3>1. k + 1 \in 1 .. Len(q) /\ k + 1 # j /\ p[k] = q[k + 1]
              /\ (k # 1 => p[k - 1] = q[k - 1])
            BY <2>2, <1>1, <1>2
        <3>2. prev1[p[k]] = prev[q[j]]
            BY <3>1, <2>2
        <3> QED BY <3>1, <3>2, <2>2, <1>1
    <2>3. CASE k > j
        <3>1. k + 1 \in 1 .. Len(q) /\ k + 1 # j /\ k + 1 # j + 1 /\ p[k] = q[k + 1]
              /\ k # 1 /\ (k + 1) - 1 = k /\ k + 1 # 1
            BY <2>3, <1>1, <1>2
        <3>2. k - 1 \in 1 .. Len(q) - 1 /\ ~ (k - 1 < j) /\ (k - 1) + 1 = k
            BY <2>3, <1>1, <1>2
        <3>3. p[k - 1] = q[k]
            BY <3>2, <1>2
        <3>4. prev1[q[k + 1]] = prev[q[k + 1]]
            BY <3>1
        <3> QED BY <3>1, <3>3, <3>4, <1>1
    <2> QED BY <2>1, <2>2, <2>3, <1>1, <1>2
<1> QED BY <1>2, <1>3, <1>4 DEF LeadsBack, p

(***************************************************************************)
(* The table, field by field                                               *)
(***************************************************************************)

TableType == [Entries : [Indices -> Entry], HashTable : [Slots -> Indices],
              Stats : [HitCount : Nat, MissCount : Nat, RecycleCount : Nat]]

HashOf(T) == [e \in Indices |-> T.Entries[e].HashValue]
TileOf(T) == [e \in Indices |-> T.Entries[e].GPUIndex]
StateOf(T) == [e \in Indices |-> T.Entries[e].FilledState]
CountOf(T) == [e \in Indices |-> T.Entries[e].IndexCount]

LEMMA Numbers ==
    /\ EntryCount \in Nat /\ EntryCount >= 2
    /\ HashCount \in Nat \ {0}
    /\ Sentinel \in Indices /\ Sentinel = 0
    /\ Indices \subseteq Nat
    /\ \A h \in Nat : SlotOf(h) \in Slots
BY ParamsAssumption DEF Indices, Sentinel, Slots, SlotOf

LEMMA LinkTypes ==
    ASSUME NEW T \in TableType
    PROVE  /\ T.Entries \in [Indices -> Entry]
           /\ NextLinks(T) \in [Indices -> Indices]
           /\ PrevLinks(T) \in [Indices -> Indices]
           /\ SameHashLinks(T) \in [Indices -> Indices]
           /\ HashOf(T) \in [Indices -> Nat]
           /\ StateOf(T) \in [Indices -> Nat]
           /\ CountOf(T) \in [Indices -> Nat]
           /\ T.HashTable \in [Slots -> Indices]
BY DEF TableType, Entry, NextLinks, PrevLinks, SameHashLinks, HashOf, StateOf, CountOf

\* What an entry's fields are after one of them was set.
LEMMA SetHashValue ==
    ASSUME NEW E \in [Indices -> Entry], NEW a \in Indices, NEW v \in Nat
    PROVE  LET V == [E EXCEPT ![a].HashValue = v]
           IN  /\ V \in [Indices -> Entry]
               /\ \A x \in Indices :
                    /\ V[x].HashValue = IF x = a THEN v ELSE E[x].HashValue
                    /\ V[x].NextWithSameHash = E[x].NextWithSameHash /\ V[x].NextLRU = E[x].NextLRU
                    /\ V[x].PrevLRU = E[x].PrevLRU /\ V[x].GPUIndex = E[x].GPUIndex
                    /\ V[x].FilledState = E[x].FilledState /\ V[x].IndexCount = E[x].IndexCount
BY DEF Entry

LEMMA SetNextWithSameHash ==
    ASSUME NEW E \in [Indices -> Entry], NEW a \in Indices, NEW v \in Indices
    PROVE  LET V == [E EXCEPT ![a].NextWithSameHash = v]
           IN  /\ V \in [Indices -> Entry]
               /\ \A x \in Indices :
                    /\ V[x].NextWithSameHash = IF x = a THEN v ELSE E[x].NextWithSameHash
                    /\ V[x].HashValue = E[x].HashValue /\ V[x].NextLRU = E[x].NextLRU
                    /\ V[x].PrevLRU = E[x].PrevLRU /\ V[x].GPUIndex = E[x].GPUIndex
                    /\ V[x].FilledState = E[x].FilledState /\ V[x].IndexCount = E[x].IndexCount
BY DEF Entry

LEMMA SetNextLRU ==
    ASSUME NEW E \in [Indices -> Entry], NEW a \in Indices, NEW v \in Indices
    PROVE  LET V == [E EXCEPT ![a].NextLRU = v]
           IN  /\ V \in [Indices -> Entry]
               /\ \A x \in Indices :
                    /\ V[x].NextLRU = IF x = a THEN v ELSE E[x].NextLRU
                    /\ V[x].HashValue = E[x].HashValue /\ V[x].NextWithSameHash = E[x].NextWithSameHash
                    /\ V[x].PrevLRU = E[x].PrevLRU /\ V[x].GPUIndex = E[x].GPUIndex
                    /\ V[x].FilledState = E[x].FilledState /\ V[x].IndexCount = E[x].IndexCount
BY DEF Entry

LEMMA SetPrevLRU ==
    ASSUME NEW E \in [Indices -> Entry], NEW a \in Indices, NEW v \in Indices
    PROVE  LET V == [E EXCEPT ![a].PrevLRU = v]
           IN  /\ V \in [Indices -> Entry]
               /\ \A x \in Indices :
                    /\ V[x].PrevLRU = IF x = a THEN v ELSE E[x].PrevLRU
                    /\ V[x].HashValue = E[x].HashValue /\ V[x].NextWithSameHash = E[x].NextWithSameHash
                    /\ V[x].NextLRU = E[x].NextLRU /\ V[x].GPUIndex = E[x].GPUIndex
                    /\ V[x].FilledState = E[x].FilledState /\ V[x].IndexCount = E[x].IndexCount
BY DEF Entry

LEMMA SetFilledState ==
    ASSUME NEW E \in [Indices -> Entry], NEW a \in Indices, NEW v \in Nat
    PROVE  LET V == [E EXCEPT ![a].FilledState = v]
           IN  /\ V \in [Indices -> Entry]
               /\ \A x \in Indices :
                    /\ V[x].FilledState = IF x = a THEN v ELSE E[x].FilledState
                    /\ V[x].HashValue = E[x].HashValue /\ V[x].NextWithSameHash = E[x].NextWithSameHash
                    /\ V[x].NextLRU = E[x].NextLRU /\ V[x].PrevLRU = E[x].PrevLRU
                    /\ V[x].GPUIndex = E[x].GPUIndex /\ V[x].IndexCount = E[x].IndexCount
BY DEF Entry

LEMMA SetIndexCount ==
    ASSUME NEW E \in [Indices -> Entry], NEW a \in Indices, NEW v \in Nat
    PROVE  LET V == [E EXCEPT ![a].IndexCount = v]
           IN  /\ V \in [Indices -> Entry]
               /\ \A x \in Indices :
                    /\ V[x].IndexCount = IF x = a THEN v ELSE E[x].IndexCount
                    /\ V[x].HashValue = E[x].HashValue /\ V[x].NextWithSameHash = E[x].NextWithSameHash
                    /\ V[x].NextLRU = E[x].NextLRU /\ V[x].PrevLRU = E[x].PrevLRU
                    /\ V[x].GPUIndex = E[x].GPUIndex /\ V[x].FilledState = E[x].FilledState
BY DEF Entry

\* What each function of the cache makes of the lists and of the rest.
LEMMA DropOldestFields ==
    ASSUME NEW T \in TableType
    PROVE  LET U    == DropOldest(T)
               prev == PrevLinks(T)[T.Entries[Sentinel].PrevLRU]
           IN  /\ U \in TableType
               /\ \A x \in Indices :
                    /\ NextLinks(U)[x] = IF x = prev THEN 0 ELSE NextLinks(T)[x]
                    /\ PrevLinks(U)[x] = IF x = Sentinel THEN prev ELSE PrevLinks(T)[x]
               /\ SameHashLinks(U) = SameHashLinks(T)
               /\ HashOf(U) = HashOf(T) /\ TileOf(U) = TileOf(T)
               /\ StateOf(U) = StateOf(T) /\ CountOf(U) = CountOf(T)
               /\ U.HashTable = T.HashTable /\ U.Stats = T.Stats
<1> DEFINE e == T.Entries[Sentinel].PrevLRU
           prev == T.Entries[e].PrevLRU
           U == DropOldest(T)
           V == [T.Entries EXCEPT ![prev].NextLRU = 0]
           W == [V EXCEPT ![Sentinel].PrevLRU = prev]
<1>1. e \in Indices /\ prev \in Indices /\ Sentinel \in Indices /\ 0 \in Indices
      /\ T.Entries \in [Indices -> Entry]
    BY Numbers DEF TableType, Entry
<1>2. prev = PrevLinks(T)[e]
    BY <1>1 DEF PrevLinks
<1>3. U = [T EXCEPT !.Entries = W]
    BY <1>1 DEF DropOldest, LeastRecentlyUsed, TableType
<1>4. /\ V \in [Indices -> Entry]
      /\ \A x \in Indices :
           /\ V[x].NextLRU = IF x = prev THEN 0 ELSE T.Entries[x].NextLRU
           /\ V[x].HashValue = T.Entries[x].HashValue
           /\ V[x].NextWithSameHash = T.Entries[x].NextWithSameHash
           /\ V[x].PrevLRU = T.Entries[x].PrevLRU
           /\ V[x].GPUIndex = T.Entries[x].GPUIndex
           /\ V[x].FilledState = T.Entries[x].FilledState
           /\ V[x].IndexCount = T.Entries[x].IndexCount
    <2> HIDE DEF prev
    <2> QED BY <1>1, SetNextLRU
<1>5. /\ W \in [Indices -> Entry]
      /\ \A x \in Indices :
           /\ W[x].PrevLRU = IF x = Sentinel THEN prev ELSE V[x].PrevLRU
           /\ W[x].HashValue = V[x].HashValue
           /\ W[x].NextWithSameHash = V[x].NextWithSameHash
           /\ W[x].NextLRU = V[x].NextLRU
           /\ W[x].GPUIndex = V[x].GPUIndex
           /\ W[x].FilledState = V[x].FilledState
           /\ W[x].IndexCount = V[x].IndexCount
    <2> HIDE DEF prev, V
    <2> QED BY <1>1, <1>4, SetPrevLRU
<1> HIDE DEF prev, U, V, W
<1>6. /\ U \in TableType /\ U.Entries = W
      /\ U.HashTable = T.HashTable /\ U.Stats = T.Stats
    BY <1>3, <1>5 DEF TableType
<1>7. \A x \in Indices : NextLinks(U)[x] = IF x = prev THEN 0 ELSE NextLinks(T)[x]
    BY <1>1, <1>4, <1>5, <1>6 DEF NextLinks
<1>8. \A x \in Indices :
        PrevLinks(U)[x] = IF x = Sentinel THEN prev ELSE PrevLinks(T)[x]
    BY <1>1, <1>4, <1>5, <1>6 DEF PrevLinks
<1>9. SameHashLinks(U) = SameHashLinks(T) /\ HashOf(U) = HashOf(T) /\ TileOf(U) = TileOf(T)
      /\ StateOf(U) = StateOf(T) /\ CountOf(U) = CountOf(T)
    BY <1>4, <1>5, <1>6 DEF SameHashLinks, HashOf, TileOf, StateOf, CountOf
<1> QED BY <1>2, <1>6, <1>7, <1>8, <1>9 DEF U

LEMMA UpdateFields ==
    ASSUME NEW T \in TableType, NEW e \in Indices, NEW v \in Nat, NEW n \in Nat
    PROVE  LET U == UpdateGlyphCacheEntry(T, e, v, n)
           IN  /\ U \in TableType
               /\ \A x \in Indices :
                    /\ StateOf(U)[x] = IF x = e THEN v ELSE StateOf(T)[x]
                    /\ CountOf(U)[x] = IF x = e THEN n ELSE CountOf(T)[x]
               /\ HashOf(U) = HashOf(T) /\ SameHashLinks(U) = SameHashLinks(T)
               /\ NextLinks(U) = NextLinks(T) /\ PrevLinks(U) = PrevLinks(T)
               /\ TileOf(U) = TileOf(T)
               /\ U.HashTable = T.HashTable
               /\ U.Stats = T.Stats
<1> DEFINE U == UpdateGlyphCacheEntry(T, e, v, n)
           V1 == [T.Entries EXCEPT ![e].FilledState = v]
           V2 == [V1 EXCEPT ![e].IndexCount = n]
<1>1. T.Entries \in [Indices -> Entry] /\ Sentinel \in Indices
    BY Numbers DEF TableType
<1>2. U.Entries = V2
    BY <1>1 DEF UpdateGlyphCacheEntry, TableType
<1> HIDE DEF U
<1>3. /\ V1 \in [Indices -> Entry]
      /\ \A x \in Indices :
           /\ V1[x].FilledState = IF x = e THEN v ELSE T.Entries[x].FilledState
           /\ V1[x].HashValue = T.Entries[x].HashValue /\ V1[x].NextWithSameHash = T.Entries[x].NextWithSameHash
           /\ V1[x].NextLRU = T.Entries[x].NextLRU /\ V1[x].PrevLRU = T.Entries[x].PrevLRU
           /\ V1[x].GPUIndex = T.Entries[x].GPUIndex /\ V1[x].IndexCount = T.Entries[x].IndexCount
    BY <1>1, SetFilledState
<1>4. /\ V2 \in [Indices -> Entry]
      /\ \A x \in Indices :
           /\ V2[x].IndexCount = IF x = e THEN n ELSE V1[x].IndexCount
           /\ V2[x].HashValue = V1[x].HashValue /\ V2[x].NextWithSameHash = V1[x].NextWithSameHash
           /\ V2[x].NextLRU = V1[x].NextLRU /\ V2[x].PrevLRU = V1[x].PrevLRU
           /\ V2[x].GPUIndex = V1[x].GPUIndex /\ V2[x].FilledState = V1[x].FilledState
    <2> HIDE DEF V1
    <2> QED BY <1>1, <1>3, SetIndexCount
<1> HIDE DEF V1, V2
<1>5. U \in TableType /\ U.HashTable = T.HashTable /\ U.Stats = T.Stats
    BY <1>1, <1>2, <1>4 DEF UpdateGlyphCacheEntry, TableType, U
<1>6. \A x \in Indices : StateOf(U)[x] = IF x = e THEN v ELSE StateOf(T)[x]
    BY <1>1, <1>2, <1>3, <1>4 DEF StateOf
<1>7. \A x \in Indices : CountOf(U)[x] = IF x = e THEN n ELSE CountOf(T)[x]
    BY <1>1, <1>2, <1>3, <1>4 DEF CountOf
<1>8. HashOf(U) = HashOf(T) /\ SameHashLinks(U) = SameHashLinks(T) /\ NextLinks(U) = NextLinks(T) /\ PrevLinks(U) = PrevLinks(T) /\ TileOf(U) = TileOf(T)
    BY <1>2, <1>3, <1>4 DEF HashOf, SameHashLinks, NextLinks, PrevLinks, TileOf
<1> QED BY <1>5, <1>6, <1>7, <1>8 DEF U

LEMMA JoinFreeFields ==
    ASSUME NEW T \in TableType, NEW e \in Indices
    PROVE  LET U == JoinFreeChain(T, e)
               free == SameHashLinks(T)[Sentinel]
               none == 0
           IN  /\ U \in TableType
               /\ \A x \in Indices :
                    /\ SameHashLinks(U)[x] = IF x = Sentinel THEN e ELSE IF x = e THEN free ELSE SameHashLinks(T)[x]
                    /\ StateOf(U)[x] = IF x = e THEN none ELSE StateOf(T)[x]
                    /\ CountOf(U)[x] = IF x = e THEN none ELSE CountOf(T)[x]
               /\ HashOf(U) = HashOf(T) /\ NextLinks(U) = NextLinks(T)
               /\ PrevLinks(U) = PrevLinks(T) /\ TileOf(U) = TileOf(T)
               /\ U.HashTable = T.HashTable
               /\ U.Stats = T.Stats
<1> DEFINE U == JoinFreeChain(T, e)
           free == SameHashLinks(T)[Sentinel]
           none == 0
           V1 == [T.Entries EXCEPT ![e].NextWithSameHash = free]
           V2 == [V1 EXCEPT ![Sentinel].NextWithSameHash = e]
           V3 == [V2 EXCEPT ![e].FilledState = none]
           V4 == [V3 EXCEPT ![e].IndexCount = none]
<1>1. T.Entries \in [Indices -> Entry] /\ Sentinel \in Indices /\ free \in Indices
      /\ free = T.Entries[Sentinel].NextWithSameHash /\ none \in Nat
    BY Numbers DEF TableType, Entry, SameHashLinks
<1>2. U.Entries = V4
    BY <1>1 DEF JoinFreeChain, UpdateGlyphCacheEntry, TableType
<1> HIDE DEF U, free, none
<1>3. /\ V1 \in [Indices -> Entry]
      /\ \A x \in Indices :
           /\ V1[x].NextWithSameHash = IF x = e THEN free ELSE T.Entries[x].NextWithSameHash
           /\ V1[x].HashValue = T.Entries[x].HashValue /\ V1[x].NextLRU = T.Entries[x].NextLRU
           /\ V1[x].PrevLRU = T.Entries[x].PrevLRU /\ V1[x].GPUIndex = T.Entries[x].GPUIndex
           /\ V1[x].FilledState = T.Entries[x].FilledState /\ V1[x].IndexCount = T.Entries[x].IndexCount
    BY <1>1, SetNextWithSameHash
<1>4. /\ V2 \in [Indices -> Entry]
      /\ \A x \in Indices :
           /\ V2[x].NextWithSameHash = IF x = Sentinel THEN e ELSE V1[x].NextWithSameHash
           /\ V2[x].HashValue = V1[x].HashValue /\ V2[x].NextLRU = V1[x].NextLRU
           /\ V2[x].PrevLRU = V1[x].PrevLRU /\ V2[x].GPUIndex = V1[x].GPUIndex
           /\ V2[x].FilledState = V1[x].FilledState /\ V2[x].IndexCount = V1[x].IndexCount
    <2> HIDE DEF V1
    <2> QED BY <1>1, <1>3, SetNextWithSameHash
<1>5. /\ V3 \in [Indices -> Entry]
      /\ \A x \in Indices :
           /\ V3[x].FilledState = IF x = e THEN none ELSE V2[x].FilledState
           /\ V3[x].HashValue = V2[x].HashValue /\ V3[x].NextWithSameHash = V2[x].NextWithSameHash
           /\ V3[x].NextLRU = V2[x].NextLRU /\ V3[x].PrevLRU = V2[x].PrevLRU
           /\ V3[x].GPUIndex = V2[x].GPUIndex /\ V3[x].IndexCount = V2[x].IndexCount
    <2> HIDE DEF V1, V2
    <2> QED BY <1>1, <1>4, SetFilledState
<1>6. /\ V4 \in [Indices -> Entry]
      /\ \A x \in Indices :
           /\ V4[x].IndexCount = IF x = e THEN none ELSE V3[x].IndexCount
           /\ V4[x].HashValue = V3[x].HashValue /\ V4[x].NextWithSameHash = V3[x].NextWithSameHash
           /\ V4[x].NextLRU = V3[x].NextLRU /\ V4[x].PrevLRU = V3[x].PrevLRU
           /\ V4[x].GPUIndex = V3[x].GPUIndex /\ V4[x].FilledState = V3[x].FilledState
    <2> HIDE DEF V1, V2, V3
    <2> QED BY <1>1, <1>5, SetIndexCount
<1> HIDE DEF V1, V2, V3, V4
<1>7. U \in TableType /\ U.HashTable = T.HashTable /\ U.Stats = T.Stats
    BY <1>1, <1>2, <1>6 DEF JoinFreeChain, UpdateGlyphCacheEntry, TableType, U
<1>8. \A x \in Indices : SameHashLinks(U)[x] = IF x = Sentinel THEN e ELSE IF x = e THEN free ELSE SameHashLinks(T)[x]
    BY <1>1, <1>2, <1>3, <1>4, <1>5, <1>6 DEF SameHashLinks
<1>9. \A x \in Indices : StateOf(U)[x] = IF x = e THEN none ELSE StateOf(T)[x]
    BY <1>1, <1>2, <1>3, <1>4, <1>5, <1>6 DEF StateOf
<1>10. \A x \in Indices : CountOf(U)[x] = IF x = e THEN none ELSE CountOf(T)[x]
    BY <1>1, <1>2, <1>3, <1>4, <1>5, <1>6 DEF CountOf
<1>11. HashOf(U) = HashOf(T) /\ NextLinks(U) = NextLinks(T) /\ PrevLinks(U) = PrevLinks(T) /\ TileOf(U) = TileOf(T)
    BY <1>2, <1>3, <1>4, <1>5, <1>6 DEF HashOf, NextLinks, PrevLinks, TileOf
<1> QED BY <1>7, <1>8, <1>9, <1>10, <1>11 DEF U, free, none

LEMMA LeaveLRUFields ==
    ASSUME NEW T \in TableType, NEW e \in Indices
    PROVE  LET U == LeaveLRU(T, e)
               prev == PrevLinks(T)[e]
               next == NextLinks(T)[e]
           IN  /\ U \in TableType
               /\ \A x \in Indices :
                    /\ NextLinks(U)[x] = IF x = prev THEN next ELSE NextLinks(T)[x]
                    /\ PrevLinks(U)[x] = IF x = next THEN prev ELSE PrevLinks(T)[x]
               /\ HashOf(U) = HashOf(T) /\ SameHashLinks(U) = SameHashLinks(T)
               /\ TileOf(U) = TileOf(T) /\ StateOf(U) = StateOf(T)
               /\ CountOf(U) = CountOf(T)
               /\ U.HashTable = T.HashTable
               /\ U.Stats = [T.Stats EXCEPT !.HitCount = @ + 1]
<1> DEFINE U == LeaveLRU(T, e)
           prev == PrevLinks(T)[e]
           next == NextLinks(T)[e]
           V1 == [T.Entries EXCEPT ![prev].NextLRU = next]
           V2 == [V1 EXCEPT ![next].PrevLRU = prev]
<1>1. T.Entries \in [Indices -> Entry] /\ Sentinel \in Indices /\ prev \in Indices /\ next \in Indices
      /\ prev = T.Entries[e].PrevLRU /\ next = T.Entries[e].NextLRU
    BY Numbers DEF TableType, Entry, NextLinks, PrevLinks
<1>2. U.Entries = V2
    BY <1>1 DEF LeaveLRU, TableType
<1> HIDE DEF U, prev, next
<1>3. /\ V1 \in [Indices -> Entry]
      /\ \A x \in Indices :
           /\ V1[x].NextLRU = IF x = prev THEN next ELSE T.Entries[x].NextLRU
           /\ V1[x].HashValue = T.Entries[x].HashValue /\ V1[x].NextWithSameHash = T.Entries[x].NextWithSameHash
           /\ V1[x].PrevLRU = T.Entries[x].PrevLRU /\ V1[x].GPUIndex = T.Entries[x].GPUIndex
           /\ V1[x].FilledState = T.Entries[x].FilledState /\ V1[x].IndexCount = T.Entries[x].IndexCount
    BY <1>1, SetNextLRU
<1>4. /\ V2 \in [Indices -> Entry]
      /\ \A x \in Indices :
           /\ V2[x].PrevLRU = IF x = next THEN prev ELSE V1[x].PrevLRU
           /\ V2[x].HashValue = V1[x].HashValue /\ V2[x].NextWithSameHash = V1[x].NextWithSameHash
           /\ V2[x].NextLRU = V1[x].NextLRU /\ V2[x].GPUIndex = V1[x].GPUIndex
           /\ V2[x].FilledState = V1[x].FilledState /\ V2[x].IndexCount = V1[x].IndexCount
    <2> HIDE DEF V1
    <2> QED BY <1>1, <1>3, SetPrevLRU
<1> HIDE DEF V1, V2
<1>s. U = [T EXCEPT !.Entries = U.Entries, !.Stats.HitCount = @ + 1]
    BY <1>1 DEF LeaveLRU, TableType, U
<1>t. [T.Stats EXCEPT !.HitCount = @ + 1] \in [HitCount : Nat, MissCount : Nat, RecycleCount : Nat]
    BY DEF TableType
<1>5. U \in TableType /\ U.HashTable = T.HashTable /\ U.Stats = [T.Stats EXCEPT !.HitCount = @ + 1]
    BY <1>s, <1>t, <1>4, <1>2 DEF TableType
<1>6. \A x \in Indices : NextLinks(U)[x] = IF x = prev THEN next ELSE NextLinks(T)[x]
    BY <1>1, <1>2, <1>3, <1>4 DEF NextLinks
<1>7. \A x \in Indices : PrevLinks(U)[x] = IF x = next THEN prev ELSE PrevLinks(T)[x]
    BY <1>1, <1>2, <1>3, <1>4 DEF PrevLinks
<1>8. HashOf(U) = HashOf(T) /\ SameHashLinks(U) = SameHashLinks(T) /\ TileOf(U) = TileOf(T) /\ StateOf(U) = StateOf(T) /\ CountOf(U) = CountOf(T)
    BY <1>2, <1>3, <1>4 DEF HashOf, SameHashLinks, TileOf, StateOf, CountOf
<1> QED BY <1>5, <1>6, <1>7, <1>8 DEF U, prev, next

LEMMA BecomeNewestFields ==
    ASSUME NEW T \in TableType, NEW e \in Indices
    PROVE  LET U == BecomeNewest(T, e)
               newest == NextLinks(T)[Sentinel]
           IN  /\ U \in TableType
               /\ \A x \in Indices :
                    /\ NextLinks(U)[x] = IF x = Sentinel THEN e ELSE IF x = e THEN newest ELSE NextLinks(T)[x]
                    /\ PrevLinks(U)[x] = IF x = newest THEN e ELSE IF x = e THEN 0 ELSE PrevLinks(T)[x]
               /\ HashOf(U) = HashOf(T) /\ SameHashLinks(U) = SameHashLinks(T)
               /\ TileOf(U) = TileOf(T) /\ StateOf(U) = StateOf(T)
               /\ CountOf(U) = CountOf(T)
               /\ U.HashTable = T.HashTable
               /\ U.Stats = T.Stats
<1> DEFINE U == BecomeNewest(T, e)
           newest == NextLinks(T)[Sentinel]
           V1 == [T.Entries EXCEPT ![e].NextLRU = newest]
           V2 == [V1 EXCEPT ![e].PrevLRU = 0]
           V3 == [V2 EXCEPT ![newest].PrevLRU = e]
           V4 == [V3 EXCEPT ![Sentinel].NextLRU = e]
<1>1. T.Entries \in [Indices -> Entry] /\ Sentinel \in Indices /\ newest \in Indices
      /\ newest = T.Entries[Sentinel].NextLRU /\ 0 \in Indices
    BY Numbers DEF TableType, Entry, NextLinks
<1>2. U.Entries = V4
    BY <1>1 DEF BecomeNewest, TableType
<1> HIDE DEF U, newest
<1>3. /\ V1 \in [Indices -> Entry]
      /\ \A x \in Indices :
           /\ V1[x].NextLRU = IF x = e THEN newest ELSE T.Entries[x].NextLRU
           /\ V1[x].HashValue = T.Entries[x].HashValue /\ V1[x].NextWithSameHash = T.Entries[x].NextWithSameHash
           /\ V1[x].PrevLRU = T.Entries[x].PrevLRU /\ V1[x].GPUIndex = T.Entries[x].GPUIndex
           /\ V1[x].FilledState = T.Entries[x].FilledState /\ V1[x].IndexCount = T.Entries[x].IndexCount
    BY <1>1, SetNextLRU
<1>4. /\ V2 \in [Indices -> Entry]
      /\ \A x \in Indices :
           /\ V2[x].PrevLRU = IF x = e THEN 0 ELSE V1[x].PrevLRU
           /\ V2[x].HashValue = V1[x].HashValue /\ V2[x].NextWithSameHash = V1[x].NextWithSameHash
           /\ V2[x].NextLRU = V1[x].NextLRU /\ V2[x].GPUIndex = V1[x].GPUIndex
           /\ V2[x].FilledState = V1[x].FilledState /\ V2[x].IndexCount = V1[x].IndexCount
    <2> HIDE DEF V1
    <2> QED BY <1>1, <1>3, SetPrevLRU
<1>5. /\ V3 \in [Indices -> Entry]
      /\ \A x \in Indices :
           /\ V3[x].PrevLRU = IF x = newest THEN e ELSE V2[x].PrevLRU
           /\ V3[x].HashValue = V2[x].HashValue /\ V3[x].NextWithSameHash = V2[x].NextWithSameHash
           /\ V3[x].NextLRU = V2[x].NextLRU /\ V3[x].GPUIndex = V2[x].GPUIndex
           /\ V3[x].FilledState = V2[x].FilledState /\ V3[x].IndexCount = V2[x].IndexCount
    <2> HIDE DEF V1, V2
    <2> QED BY <1>1, <1>4, SetPrevLRU
<1>6. /\ V4 \in [Indices -> Entry]
      /\ \A x \in Indices :
           /\ V4[x].NextLRU = IF x = Sentinel THEN e ELSE V3[x].NextLRU
           /\ V4[x].HashValue = V3[x].HashValue /\ V4[x].NextWithSameHash = V3[x].NextWithSameHash
           /\ V4[x].PrevLRU = V3[x].PrevLRU /\ V4[x].GPUIndex = V3[x].GPUIndex
           /\ V4[x].FilledState = V3[x].FilledState /\ V4[x].IndexCount = V3[x].IndexCount
    <2> HIDE DEF V1, V2, V3
    <2> QED BY <1>1, <1>5, SetNextLRU
<1> HIDE DEF V1, V2, V3, V4
<1>7. U \in TableType /\ U.HashTable = T.HashTable /\ U.Stats = T.Stats
    BY <1>1, <1>2, <1>6 DEF BecomeNewest, TableType, U
<1>8. \A x \in Indices : NextLinks(U)[x] = IF x = Sentinel THEN e ELSE IF x = e THEN newest ELSE NextLinks(T)[x]
    BY <1>1, <1>2, <1>3, <1>4, <1>5, <1>6 DEF NextLinks
<1>9. \A x \in Indices : PrevLinks(U)[x] = IF x = newest THEN e ELSE IF x = e THEN 0 ELSE PrevLinks(T)[x]
    BY <1>1, <1>2, <1>3, <1>4, <1>5, <1>6 DEF PrevLinks
<1>10. HashOf(U) = HashOf(T) /\ SameHashLinks(U) = SameHashLinks(T) /\ TileOf(U) = TileOf(T) /\ StateOf(U) = StateOf(T) /\ CountOf(U) = CountOf(T)
    BY <1>2, <1>3, <1>4, <1>5, <1>6 DEF HashOf, SameHashLinks, TileOf, StateOf, CountOf
<1> QED BY <1>7, <1>8, <1>9, <1>10 DEF U, newest

(***************************************************************************)
(* The three kinds of list                                                 *)
(***************************************************************************)

\* q is the LRU list from the newest entry on, f the free chain, c the chains of
\* the slots.
LRUSound(T, q) ==
    /\ IsList(q, NextLinks(T), NextLinks(T)[Sentinel])
    /\ LeadsBack(q, PrevLinks(T), PrevLinks(T)[Sentinel])
FreeSound(T, f) == IsList(f, SameHashLinks(T), SameHashLinks(T)[Sentinel])
ChainsSound(T, c) ==
    /\ c \in [Slots -> Seq(Indices \ {Sentinel})]
    /\ \A s \in Slots : IsList(c[s], SameHashLinks(T), T.HashTable[s])

\* The entries U are in use, those of f are free and empty.
Divided(T, U, f, c) ==
    /\ Elements(f) \cap U = {}
    /\ Elements(f) \cup U = Indices \ {Sentinel}
    /\ \A s \in Slots : Elements(c[s]) = {e \in U : SlotOf(HashOf(T)[e]) = s}
    /\ \A e, g \in U : HashOf(T)[e] = HashOf(T)[g] => e = g
    /\ \A e \in Elements(f) : StateOf(T)[e] = 0 /\ CountOf(T)[e] = 0

Sound(T, q, f, c) ==
    /\ T \in TableType
    /\ LRUSound(T, q)
    /\ FreeSound(T, f)
    /\ ChainsSound(T, c)
    /\ Divided(T, Elements(q), f, c)

LEMMA OldestDropped ==
    ASSUME NEW T \in TableType, NEW q, LRUSound(T, q), q # <<>>
    PROVE  LRUSound(DropOldest(T), Drop(q, Len(q)))
<1> DEFINE n    == Len(q)
           next == NextLinks(T)
           prev == PrevLinks(T)
           D    == DropOldest(T)
           p    == prev[prev[Sentinel]]
<1>0. Sentinel \in Indices /\ Sentinel = 0
    BY Numbers
<1>1. /\ q \in Seq(Indices \ {Sentinel}) /\ n \in Nat /\ n >= 1 /\ NoDuplicates(q)
      /\ q \in Seq(Indices) /\ n \in 1 .. n
    BY DEF LRUSound, IsList
<1>2. \A k \in 1 .. n : q[k] \in Indices /\ q[k] # 0
    BY <1>0, <1>1
<1>3. /\ IsList(q, next, next[Sentinel]) /\ LeadsBack(q, prev, prev[Sentinel])
    BY DEF LRUSound
<1>4. prev[Sentinel] = q[n] /\ p = IF n = 1 THEN 0 ELSE q[n - 1]
    BY <1>1, <1>3 DEF LeadsBack
<1>5. /\ next[q[n]] = 0 /\ (n = 1 => next[q[1]] = 0) /\ next[Sentinel] = q[1]
    BY <1>1, <1>3 DEF IsList
<1>6. /\ \A x \in Indices : NextLinks(D)[x] = IF x = p THEN 0 ELSE next[x]
      /\ \A x \in Indices : PrevLinks(D)[x] = IF x = Sentinel THEN p ELSE prev[x]
    <2>1. prev[T.Entries[Sentinel].PrevLRU] = p
        BY <1>0 DEF PrevLinks
    <2> QED BY <2>1, DropOldestFields
<1> HIDE DEF next, prev, D, p
<1>7. IsList(Drop(q, n), NextLinks(D), NextLinks(D)[Sentinel])
    <2>1. NextLinks(D)[Sentinel] = IF n = 1 THEN next[q[n]] ELSE next[Sentinel]
        <3>1. n # 1 => q[n - 1] # 0
            <4>1. n # 1 => n - 1 \in 1 .. n
                <5>1. n \in Nat /\ n >= 1
                    BY <1>1
                <5> HIDE DEF n
                <5> QED BY <5>1
            <4> QED BY <4>1, <1>2
        <3> QED BY <3>1, <1>0, <1>4, <1>5, <1>6
    <2>2. ASSUME NEW k \in 1 .. n, k # n
          PROVE  NextLinks(D)[q[k]] = IF k = n - 1 THEN next[q[n]] ELSE next[q[k]]
        <3>1. n # 1 /\ n - 1 \in 1 .. n
            <4>1. n \in Nat /\ n >= 1
                BY <1>1
            <4> HIDE DEF n
            <4> QED BY <2>2, <4>1
        <3>2. q[k] = q[n - 1] <=> k = n - 1
            BY <3>1, <1>1 DEF NoDuplicates
        <3> QED BY <3>1, <3>2, <1>2, <1>4, <1>5, <1>6
    <2> QED BY <1>1, <1>3, <2>1, <2>2, ListDropped
<1>8. LeadsBack(Drop(q, n), PrevLinks(D), PrevLinks(D)[Sentinel])
    <2>1. \A k \in 1 .. n : k # n =>
            PrevLinks(D)[q[k]] = IF k = n + 1 THEN prev[q[n]] ELSE prev[q[k]]
        <3>1. ASSUME NEW k \in 1 .. n
              PROVE  k # n + 1 /\ PrevLinks(D)[q[k]] = prev[q[k]]
            <4>1. k # n + 1
                <5>1. n \in Nat
                    BY <1>1
                <5> HIDE DEF n
                <5> QED BY <5>1
            <4>2. q[k] \in Indices /\ q[k] # Sentinel
                BY <1>0, <1>2
            <4> QED BY <4>1, <4>2, <1>6
        <3> QED BY <3>1
    <2>2. PrevLinks(D)[Sentinel] = prev[q[n]]
        BY <1>0, <1>4, <1>6 DEF p
    <2>3. LeadsBack(Drop(q, n), PrevLinks(D), IF n = Len(q) THEN prev[q[n]] ELSE prev[Sentinel])
        BY <1>1, <1>3, <2>1, BackDropped
    <2> QED BY <2>2, <2>3
<1> QED BY <1>7, <1>8 DEF LRUSound, D

\* An entry of the LRU list taken out of it, and another put in front.
LEMMA EntryLeft ==
    ASSUME NEW T \in TableType, NEW q, LRUSound(T, q), NEW j \in 1 .. Len(q)
    PROVE  LRUSound(LeaveLRU(T, q[j]), Drop(q, j))
<1> DEFINE n    == Len(q)
           e    == q[j]
           next == NextLinks(T)
           prev == PrevLinks(T)
           L    == LeaveLRU(T, e)
<1>0. Sentinel \in Indices /\ Sentinel = 0
    BY Numbers
<1>1. /\ q \in Seq(Indices \ {Sentinel}) /\ n \in Nat /\ n >= 1 /\ NoDuplicates(q)
      /\ q \in Seq(Indices) /\ q # <<>>
    BY DEF LRUSound, IsList
<1>2. \A k \in 1 .. n : q[k] \in Indices /\ q[k] # 0
    BY <1>0, <1>1
<1>3. IsList(q, next, next[Sentinel]) /\ LeadsBack(q, prev, prev[Sentinel])
    BY DEF LRUSound
<1>4. prev[Sentinel] = q[n] /\ prev[e] = IF j = 1 THEN 0 ELSE q[j - 1]
    BY <1>1, <1>3 DEF LeadsBack
<1>5. next[Sentinel] = q[1] /\ next[e] = IF j = n THEN 0 ELSE q[j + 1]
    BY <1>1, <1>3 DEF IsList
<1>6. /\ \A x \in Indices : NextLinks(L)[x] = IF x = prev[e] THEN next[e] ELSE next[x]
      /\ \A x \in Indices : PrevLinks(L)[x] = IF x = next[e] THEN prev[e] ELSE prev[x]
    <2>1. e \in Indices
        BY <1>2
    <2> HIDE DEF e
    <2>2. \A x \in Indices :
            /\ NextLinks(LeaveLRU(T, e))[x] =
                   IF x = PrevLinks(T)[e] THEN NextLinks(T)[e] ELSE NextLinks(T)[x]
            /\ PrevLinks(LeaveLRU(T, e))[x] =
                   IF x = NextLinks(T)[e] THEN PrevLinks(T)[e] ELSE PrevLinks(T)[x]
        BY <2>1, LeaveLRUFields
    <2> QED BY <2>2 DEF next, prev, L
<1> HIDE DEF next, prev, L, e
<1>7. IsList(Drop(q, j), NextLinks(L), NextLinks(L)[Sentinel])
    <2>1. NextLinks(L)[Sentinel] = IF j = 1 THEN next[q[j]] ELSE next[Sentinel]
        <3>1. j # 1 => q[j - 1] # 0
            BY <1>1, <1>2
        <3> QED BY <3>1, <1>0, <1>4, <1>6 DEF e
    <2>2. ASSUME NEW k \in 1 .. n, k # j
          PROVE  NextLinks(L)[q[k]] = IF k = j - 1 THEN next[q[j]] ELSE next[q[k]]
        <3>1. j # 1 => j - 1 \in 1 .. n
            BY <1>1
        <3>2. j # 1 => (q[k] = q[j - 1] <=> k = j - 1)
            BY <3>1, <1>1 DEF NoDuplicates
        <3>3. j = 1 => k # j - 1
            BY <1>1
        <3> QED BY <3>2, <3>3, <1>2, <1>4, <1>6 DEF e
    <2> QED BY <1>1, <1>3, <2>1, <2>2, ListDropped
<1>8. LeadsBack(Drop(q, j), PrevLinks(L), PrevLinks(L)[Sentinel])
    <2>1. ASSUME NEW k \in 1 .. n, k # j
          PROVE  PrevLinks(L)[q[k]] = IF k = j + 1 THEN prev[q[j]] ELSE prev[q[k]]
        <3>1. j # n => j + 1 \in 1 .. n
            BY <1>1
        <3>2. j # n => (q[k] = q[j + 1] <=> k = j + 1)
            BY <3>1, <1>1 DEF NoDuplicates
        <3>3. j = n => k # j + 1
            BY <1>1
        <3> QED BY <3>2, <3>3, <1>2, <1>5, <1>6 DEF e
    <2>2. PrevLinks(L)[Sentinel] = IF j = n THEN prev[q[j]] ELSE prev[Sentinel]
        <3>1. j # n => q[j + 1] # 0
            BY <1>1, <1>2
        <3> QED BY <3>1, <1>0, <1>5, <1>6 DEF e
    <2>3. LeadsBack(Drop(q, j), PrevLinks(L), IF j = Len(q) THEN prev[q[j]] ELSE prev[Sentinel])
        BY <1>1, <1>3, <2>1, BackDropped
    <2> QED BY <2>2, <2>3
<1> QED BY <1>7, <1>8 DEF LRUSound, L, e

LEMMA EntryInFront ==
    ASSUME NEW T \in TableType, NEW q, LRUSound(T, q),
           NEW e \in Indices \ {Sentinel}, e \notin Elements(q)
    PROVE  LRUSound(BecomeNewest(T, e), Push(e, q))
<1> DEFINE next   == NextLinks(T)
           prev   == PrevLinks(T)
           newest == next[Sentinel]
           B      == BecomeNewest(T, e)
<1>0. Sentinel \in Indices /\ Sentinel = 0 /\ e # 0
    BY Numbers
<1>1. /\ q \in Seq(Indices \ {Sentinel}) /\ Len(q) \in Nat /\ NoDuplicates(q)
      /\ q \in Seq(Indices) /\ (q = <<>> <=> Len(q) = 0)
    BY DEF LRUSound, IsList
<1>2. \A k \in 1 .. Len(q) : q[k] \in Indices /\ q[k] # 0 /\ q[k] # e
    BY <1>0, <1>1 DEF Elements
<1>3. IsList(q, next, newest) /\ LeadsBack(q, prev, prev[Sentinel])
    BY DEF LRUSound
<1>4. newest = (IF q = <<>> THEN 0 ELSE q[1])
      /\ prev[Sentinel] = (IF q = <<>> THEN 0 ELSE q[Len(q)])
    BY <1>3 DEF IsList, LeadsBack
<1>5. /\ \A x \in Indices :
           NextLinks(B)[x] = IF x = Sentinel THEN e ELSE IF x = e THEN newest ELSE next[x]
      /\ \A x \in Indices :
           PrevLinks(B)[x] = IF x = newest THEN e ELSE IF x = e THEN 0 ELSE prev[x]
    BY BecomeNewestFields
<1> HIDE DEF next, prev, newest, B
<1>6. IsList(Push(e, q), NextLinks(B), e)
    <2>1. NextLinks(B)[e] = newest
        BY <1>0, <1>5
    <2>2. \A x \in Elements(q) : NextLinks(B)[x] = next[x]
        BY <1>0, <1>2, <1>5 DEF Elements
    <2> QED BY <1>3, <2>1, <2>2, ListPushed
<1>7. LeadsBack(Push(e, q), PrevLinks(B), PrevLinks(B)[Sentinel])
    <2>1. newest # e
        BY <1>0, <1>1, <1>2, <1>4
    <2>2. PrevLinks(B)[e] = 0
        BY <1>5, <2>1
    <2>3. ASSUME NEW k \in 1 .. Len(q)
          PROVE  PrevLinks(B)[q[k]] = IF k = 1 THEN e ELSE prev[q[k]]
        <3>1. newest = q[1] /\ 1 \in 1 .. Len(q)
            BY <1>1, <1>4
        <3>2. q[k] = newest <=> k = 1
            BY <3>1, <1>1 DEF NoDuplicates
        <3> QED BY <3>2, <1>2, <1>5
    <2>4. PrevLinks(B)[Sentinel] = IF q = <<>> THEN e ELSE prev[Sentinel]
        <3>1. q # <<>> => newest # 0
            BY <1>1, <1>2, <1>4
        <3> QED BY <3>1, <1>0, <1>4, <1>5
    <2>5. LeadsBack(Push(e, q), PrevLinks(B), IF q = <<>> THEN e ELSE prev[Sentinel])
        BY <1>1, <1>3, <2>2, <2>3, BackPushed
    <2> QED BY <2>4, <2>5
<1>8. NextLinks(B)[Sentinel] = e
    BY <1>0, <1>5
<1> QED BY <1>6, <1>7, <1>8 DEF LRUSound, B

\* The link functions and fields that the hash chains leave alone.
SameBut(T, L) ==
    /\ NextLinks(L) = NextLinks(T) /\ PrevLinks(L) = PrevLinks(T)
    /\ HashOf(L) = HashOf(T) /\ TileOf(L) = TileOf(T)
    /\ StateOf(L) = StateOf(T) /\ CountOf(L) = CountOf(T)

\* L is T without the entry e in the chain of its slot, one of the chains c.
LeftChain(T, L, c, e) ==
    LET s == SlotOf(HashOf(T)[e])
    IN  /\ L \in TableType
        /\ SameBut(T, L) /\ L.Stats = T.Stats
        /\ \A x \in Indices \ Elements(c[s]) : SameHashLinks(L)[x] = SameHashLinks(T)[x]
        /\ s \in Slots
        /\ \E j \in 1 .. Len(c[s]) :
             c[s][j] = e /\ ChainsSound(L, [c EXCEPT ![s] = Drop(c[s], j)])

\* The search of RecycleLRU finds the entry in the chain of its slot.
LEMMA ChainLeft ==
    ASSUME NEW T \in TableType, NEW U \in SUBSET (Indices \ {Sentinel}), NEW c,
           ChainsSound(T, c),
           \A s \in Slots : Elements(c[s]) = {x \in U : SlotOf(HashOf(T)[x]) = s},
           NEW e \in U
    PROVE  LeftChain(T, LeaveHashChain(T, e), c, e)
<1> DEFINE s    == SlotOf(HashOf(T)[e])
           q    == c[s]
           next == SameHashLinks(T)
           L    == LeaveHashChain(T, e)
           rest == next[e]
<1>0. Sentinel \in Indices /\ Sentinel = 0 /\ e \in Indices /\ e # 0
      /\ T.Entries \in [Indices -> Entry] /\ T.HashTable \in [Slots -> Indices]
    BY Numbers DEF TableType
<1>1. s \in Slots /\ s = SlotOf(T.Entries[e].HashValue) /\ rest \in Indices
      /\ rest = T.Entries[e].NextWithSameHash
    BY <1>0, Numbers DEF HashOf, Entry, SameHashLinks
<1>2. IsList(q, next, T.HashTable[s]) /\ e \in Elements(q)
    BY <1>1 DEF ChainsSound
<1>3. HashChain(T, s) = q
    BY <1>2, WalkIsList DEF HashChain
<1>4. /\ q \in Seq(Indices \ {Sentinel}) /\ Len(q) \in Nat /\ NoDuplicates(q)
      /\ \A k \in 1 .. Len(q) : next[q[k]] = IF k = Len(q) THEN 0 ELSE q[k + 1]
    BY <1>2 DEF IsList
<1>5. PICK j \in 1 .. Len(q) : q[j] = e
    BY <1>2 DEF Elements
<1>6. T.HashTable[s] = q[1] /\ (T.HashTable[s] = e <=> j = 1)
    <2>1. q # <<>> /\ 1 \in 1 .. Len(q)
        BY <1>4, <1>5
    <2> QED BY <2>1, <1>2, <1>4, <1>5 DEF IsList, NoDuplicates
<1> DEFINE before == {p \in Elements(q) : T.Entries[p].NextWithSameHash = e}
<1>7. L = IF T.HashTable[s] = e
          THEN [T EXCEPT !.HashTable[s] = rest]
          ELSE [T EXCEPT !.Entries[CHOOSE p \in before : TRUE].NextWithSameHash = rest]
    BY <1>1, <1>3 DEF LeaveHashChain
<1>8. \A t \in Slots : t # s => Elements(c[t]) \cap Elements(q) = {}
    BY <1>1
<1>9. L \in TableType /\ SameBut(T, L) /\ L.Stats = T.Stats
      /\ L.HashTable = [T.HashTable EXCEPT ![s] = IF j = 1 THEN rest ELSE T.HashTable[s]]
      /\ \A x \in Indices :
           SameHashLinks(L)[x] = IF j # 1 /\ x = q[j - 1] THEN rest ELSE next[x]
    <2>1. CASE j = 1
        <3>1. L = [T EXCEPT !.HashTable[s] = rest]
            BY <2>1, <1>6, <1>7
        <3>2. L \in TableType /\ L.Entries = T.Entries /\ L.Stats = T.Stats
              /\ L.HashTable = [T.HashTable EXCEPT ![s] = rest]
            BY <3>1, <1>1 DEF TableType
        <3>3. SameBut(T, L) /\ SameHashLinks(L) = next
            BY <3>2 DEF SameBut, NextLinks, PrevLinks, HashOf, TileOf, StateOf, CountOf, SameHashLinks
        <3> HIDE DEF L, next, rest, s, q
        <3> QED BY <2>1, <3>2, <3>3
    <2>2. CASE j # 1
        <3> DEFINE p == q[j - 1]
                   V == [T.Entries EXCEPT ![p].NextWithSameHash = rest]
        <3>1. j - 1 \in 1 .. Len(q) /\ p \in Indices /\ p \in Elements(q) /\ j - 1 # Len(q)
              /\ (j - 1) + 1 = j
            BY <2>2, <1>4 DEF Elements
        <3>2. next[p] = e
            BY <3>1, <1>4, <1>5
        <3>3. ASSUME NEW x \in before PROVE x = p
            <4>1. PICK k \in 1 .. Len(q) : q[k] = x
                BY DEF Elements
            <4>2. x \in Indices /\ next[x] = e
                BY <4>1, <1>4 DEF SameHashLinks
            <4>3. k # Len(q) /\ q[k + 1] = q[j] /\ k + 1 \in 1 .. Len(q)
                BY <4>1, <4>2, <1>0, <1>4, <1>5
            <4>4. k + 1 = j
                BY <4>3, <1>4 DEF NoDuplicates
            <4>5. k = j - 1
                BY <4>4
            <4> QED BY <4>1, <4>5
        <3>4. p \in before
            BY <3>1, <3>2 DEF SameHashLinks
        <3>5. (CHOOSE x \in before : TRUE) = p
            <4> HIDE DEF before, p
            <4> QED BY <3>3, <3>4
        <3>6. L = [T EXCEPT !.Entries[p].NextWithSameHash = rest]
            BY <2>2, <3>5, <1>6, <1>7
        <3>7. L.Entries = V /\ L.Stats = T.Stats /\ L.HashTable = T.HashTable
              /\ L = [T EXCEPT !.Entries = V]
            <4> HIDE DEF p, L, rest
            <4> QED BY <3>6 DEF TableType
        <3>8. /\ V \in [Indices -> Entry]
              /\ \A x \in Indices :
                   /\ V[x].NextWithSameHash = IF x = p THEN rest ELSE T.Entries[x].NextWithSameHash
                   /\ V[x].HashValue = T.Entries[x].HashValue /\ V[x].NextLRU = T.Entries[x].NextLRU
                   /\ V[x].PrevLRU = T.Entries[x].PrevLRU /\ V[x].GPUIndex = T.Entries[x].GPUIndex
                   /\ V[x].FilledState = T.Entries[x].FilledState
                   /\ V[x].IndexCount = T.Entries[x].IndexCount
            <4> HIDE DEF p, rest
            <4> QED BY <1>0, <1>1, <3>1, SetNextWithSameHash
        <3> HIDE DEF V, p, L, rest
        <3>9. L \in TableType
            BY <3>7, <3>8 DEF TableType
        <3>10. SameBut(T, L)
            BY <3>7, <3>8 DEF SameBut, NextLinks, PrevLinks, HashOf, TileOf, StateOf, CountOf
        <3>11. \A x \in Indices : SameHashLinks(L)[x] = IF x = p THEN rest ELSE next[x]
            BY <3>7, <3>8 DEF SameHashLinks
        <3>12. T.HashTable = [T.HashTable EXCEPT ![s] = T.HashTable[s]]
            BY <1>0
        <3> QED BY <2>2, <3>7, <3>9, <3>10, <3>11, <3>12 DEF p
    <2> QED BY <2>1, <2>2
<1> HIDE DEF L, rest, before
<1>10. \A x \in Indices \ Elements(q) : SameHashLinks(L)[x] = next[x]
    <2>1. j # 1 => q[j - 1] \in Elements(q)
        BY <1>4 DEF Elements
    <2> QED BY <2>1, <1>9
<1>11. IsList(Drop(q, j), SameHashLinks(L), L.HashTable[s])
    <2>1. L.HashTable[s] = IF j = 1 THEN next[q[j]] ELSE T.HashTable[s]
        BY <1>0, <1>1, <1>5, <1>9 DEF rest
    <2>2. ASSUME NEW k \in 1 .. Len(q), k # j
          PROVE  SameHashLinks(L)[q[k]] = IF k = j - 1 THEN next[q[j]] ELSE next[q[k]]
        <3>1. j # 1 => j - 1 \in 1 .. Len(q)
            BY <1>4
        <3>2. j # 1 => (q[k] = q[j - 1] <=> k = j - 1)
            BY <3>1, <1>4 DEF NoDuplicates
        <3>3. j = 1 => k # j - 1
            BY <1>4
        <3>4. q[k] \in Indices
            BY <1>4
        <3> QED BY <3>2, <3>3, <3>4, <1>5, <1>9 DEF rest
    <2> HIDE DEF q, next, s
    <2> QED BY <1>2, <2>1, <2>2, ListDropped
<1>12. ASSUME NEW t \in Slots, t # s
       PROVE  IsList(c[t], SameHashLinks(L), L.HashTable[t])
    <2>1. IsList(c[t], next, T.HashTable[t]) /\ L.HashTable[t] = T.HashTable[t]
        BY <1>0, <1>1, <1>9, <1>12 DEF ChainsSound
    <2>2. Elements(c[t]) \subseteq Indices
        <3>1. c[t] \in Seq(Indices \ {Sentinel})
            BY DEF ChainsSound
        <3> QED BY <3>1 DEF Elements
    <2>3. \A x \in Elements(c[t]) : SameHashLinks(L)[x] = next[x]
        BY <1>8, <1>10, <1>12, <2>2
    <2> HIDE DEF next
    <2> QED BY <2>1, <2>3, ListFramed
<1>13. ChainsSound(L, [c EXCEPT ![s] = Drop(c[s], j)])
    <2> DEFINE d == [c EXCEPT ![s] = Drop(c[s], j)]
    <2>1. Drop(q, j) \in Seq(Indices \ {Sentinel})
        BY <1>11 DEF IsList
    <2>2. d \in [Slots -> Seq(Indices \ {Sentinel})]
        BY <1>1, <2>1 DEF ChainsSound
    <2>3. d[s] = Drop(q, j) /\ \A t \in Slots : t # s => d[t] = c[t]
        BY <1>1 DEF ChainsSound
    <2> HIDE DEF d, s
    <2>4. \A t \in Slots : IsList(d[t], SameHashLinks(L), L.HashTable[t])
        BY <1>11, <1>12, <2>3
    <2> QED BY <2>2, <2>4 DEF ChainsSound, d
<1> HIDE DEF next
<1>14. \A x \in Indices \ Elements(c[s]) : SameHashLinks(L)[x] = SameHashLinks(T)[x]
    BY <1>10 DEF next
<1> QED BY <1>1, <1>5, <1>9, <1>13, <1>14 DEF L, LeftChain

\* The entries U hold in L what they held in T, and no entry's tile changed.
SameStored(T, L, U) ==
    /\ TileOf(L) = TileOf(T)
    /\ \A x \in U : /\ HashOf(L)[x] = HashOf(T)[x]
                    /\ StateOf(L)[x] = StateOf(T)[x]
                    /\ CountOf(L)[x] = CountOf(T)[x]

\* RecycleLRU moves the last entry of the LRU list to the free chain.
LEMMA Recycled ==
    ASSUME NEW T, NEW q, NEW f, NEW c, Sound(T, q, f, c), Elements(f) = {}
    PROVE  LET R == RecycleLRU(T)
               p == Drop(q, Len(q))
           IN  /\ q # <<>>
               /\ SameStored(T, R, Elements(p))
               /\ R.Stats = [T.Stats EXCEPT !.RecycleCount = @ + 1]
               /\ \E d : Sound(R, p, Push(q[Len(q)], f), d)
<1> DEFINE n == Len(q)
           e == q[n]
           p == Drop(q, n)
           U == Elements(q)
           g == Push(e, f)
           D == DropOldest(T)
           L == LeaveHashChain(D, e)
           J == JoinFreeChain(L, e)
           R == RecycleLRU(T)
<1>0. /\ T \in TableType /\ LRUSound(T, q) /\ FreeSound(T, f) /\ ChainsSound(T, c)
      /\ Divided(T, U, f, c) /\ Sentinel = 0 /\ Sentinel \in Indices
    BY Numbers DEF Sound
<1>1. q \in Seq(Indices \ {Sentinel}) /\ n \in Nat /\ NoDuplicates(q)
    BY <1>0 DEF LRUSound, IsList
<1>2. q # <<>> /\ n \in 1 .. n
    <2>1. 1 \in Indices \ {Sentinel}
        BY Numbers DEF Indices
    <2>2. 1 \in U
        BY <1>0, <2>1 DEF Divided, Elements
    <2>3. n # 0
        BY <2>2, <1>1 DEF Elements
    <2>4. n >= 1
        BY <2>3, <1>1
    <2> QED BY <1>1, <2>4
<1>3. e \in U /\ e \in Indices \ {Sentinel} /\ Elements(p) = U \ {e}
      /\ U \in SUBSET (Indices \ {Sentinel})
    <2>1. Elements(Drop(q, n)) = Elements(q) \ {q[n]}
        BY <1>1, <1>2, Dropped
    <2>2. e \in U /\ U \in SUBSET (Indices \ {Sentinel})
        BY <1>1, <1>2 DEF Elements
    <2> HIDE DEF U, e
    <2> QED BY <2>1, <2>2 DEF U, e
<1>4. LRUSound(D, p)
    BY <1>0, <1>2, OldestDropped
<1>5. /\ D \in TableType /\ SameHashLinks(D) = SameHashLinks(T)
      /\ HashOf(D) = HashOf(T) /\ TileOf(D) = TileOf(T)
      /\ StateOf(D) = StateOf(T) /\ CountOf(D) = CountOf(T)
      /\ D.HashTable = T.HashTable /\ D.Stats = T.Stats
    BY <1>0, DropOldestFields
<1>6. ChainsSound(D, c)
    BY <1>0, <1>5 DEF ChainsSound
<1>7. \A s \in Slots : Elements(c[s]) = {x \in U : SlotOf(HashOf(D)[x]) = s}
    BY <1>0, <1>5 DEF Divided
<1> DEFINE s == SlotOf(HashOf(D)[e])
<1> HIDE DEF e, n, p, U, D
<1>8. /\ L \in TableType /\ SameBut(D, L) /\ L.Stats = D.Stats /\ s \in Slots
      /\ \A x \in Indices \ Elements(c[s]) : SameHashLinks(L)[x] = SameHashLinks(D)[x]
      /\ \E j \in 1 .. Len(c[s]) :
           c[s][j] = e /\ ChainsSound(L, [c EXCEPT ![s] = Drop(c[s], j)])
    <2>1. D \in TableType
        BY <1>5
    <2>2. U \in SUBSET (Indices \ {Sentinel}) /\ e \in U
        BY <1>3
    <2>3. LeftChain(D, LeaveHashChain(D, e), c, e)
        BY <2>1, <2>2, <1>6, <1>7, ChainLeft
    <2> QED BY <2>3 DEF LeftChain
<1>9. PICK j \in 1 .. Len(c[s]) : c[s][j] = e /\ ChainsSound(L, [c EXCEPT ![s] = Drop(c[s], j)])
    BY <1>8
<1> DEFINE d == [c EXCEPT ![s] = Drop(c[s], j)]
<1> HIDE DEF L, s
<1>10. /\ J \in TableType
       /\ \A x \in Indices :
            /\ SameHashLinks(J)[x] = IF x = Sentinel THEN e
                                     ELSE IF x = e THEN SameHashLinks(L)[Sentinel]
                                     ELSE SameHashLinks(L)[x]
            /\ StateOf(J)[x] = IF x = e THEN 0 ELSE StateOf(L)[x]
            /\ CountOf(J)[x] = IF x = e THEN 0 ELSE CountOf(L)[x]
       /\ HashOf(J) = HashOf(L) /\ TileOf(J) = TileOf(L)
       /\ NextLinks(J) = NextLinks(L) /\ PrevLinks(J) = PrevLinks(L)
       /\ J.HashTable = L.HashTable /\ J.Stats = L.Stats
    <2>1. e \in Indices
        BY <1>3
    <2> QED BY <1>8, <2>1, JoinFreeFields
<1>11. R = [J EXCEPT !.Stats.RecycleCount = @ + 1]
    <2>1. e = LeastRecentlyUsed(T)
        BY <1>0, <1>2, Numbers DEF LeastRecentlyUsed, LRUSound, LeadsBack, PrevLinks, e, n
    <2> QED BY <2>1 DEF RecycleLRU, D, L
<1> HIDE DEF J, R
<1>12. /\ R \in TableType /\ R.Entries = J.Entries /\ R.HashTable = J.HashTable
       /\ R.Stats = [T.Stats EXCEPT !.RecycleCount = @ + 1]
    <2>1. J.Stats = T.Stats
        BY <1>5, <1>8, <1>10
    <2>2. [T.Stats EXCEPT !.RecycleCount = @ + 1] \in [HitCount : Nat, MissCount : Nat, RecycleCount : Nat]
        BY <1>0 DEF TableType
    <2>3. R = [J EXCEPT !.Stats = [T.Stats EXCEPT !.RecycleCount = @ + 1]]
        BY <1>10, <1>11, <2>1 DEF TableType
    <2> QED BY <1>10, <2>2, <2>3 DEF TableType
<1>13. /\ NextLinks(R) = NextLinks(D) /\ PrevLinks(R) = PrevLinks(D)
       /\ SameHashLinks(R) = SameHashLinks(J)
       /\ HashOf(R) = HashOf(T) /\ TileOf(R) = TileOf(T)
       /\ StateOf(R) = StateOf(J) /\ CountOf(R) = CountOf(J)
    <2>1. /\ NextLinks(R) = NextLinks(J) /\ PrevLinks(R) = PrevLinks(J)
          /\ SameHashLinks(R) = SameHashLinks(J)
          /\ HashOf(R) = HashOf(J) /\ TileOf(R) = TileOf(J)
          /\ StateOf(R) = StateOf(J) /\ CountOf(R) = CountOf(J)
        BY <1>12 DEF NextLinks, PrevLinks, SameHashLinks, HashOf, TileOf, StateOf, CountOf
    <2> QED BY <2>1, <1>5, <1>8, <1>10 DEF SameBut
<1>14. LRUSound(R, p)
    BY <1>4, <1>13 DEF LRUSound
<1>15. f \in Seq(Indices \ {Sentinel})
    BY <1>0 DEF FreeSound, IsList
<1>16. /\ g \in Seq(Indices \ {Sentinel}) /\ Elements(g) = {e}
    <2>1. f \in Seq(Indices \ {Sentinel}) /\ e \in Indices \ {Sentinel}
        BY <1>3, <1>15
    <2>2. Elements(Push(e, f)) = Elements(f) \cup {e}
        BY <2>1, PushedElements
    <2>3. Push(e, f) \in Seq(Indices \ {Sentinel})
        BY <2>1, PushedElements
    <2> QED BY <2>2, <2>3
<1>17. FreeSound(R, g)
    <2>1. IsList(f, SameHashLinks(L), SameHashLinks(L)[Sentinel])
        <3>1. Sentinel \notin Elements(c[s])
            BY <1>3, <1>7, <1>8
        <3>2. SameHashLinks(L)[Sentinel] = SameHashLinks(T)[Sentinel]
            BY <1>0, <1>5, <1>8, <3>1
        <3>3. IsList(f, SameHashLinks(T), SameHashLinks(T)[Sentinel])
            BY <1>0 DEF FreeSound
        <3> QED BY <3>2, <3>3, ListFramed
    <2>2. SameHashLinks(J)[e] = SameHashLinks(L)[Sentinel] /\ SameHashLinks(J)[Sentinel] = e
        BY <1>0, <1>3, <1>10
    <2>3. \A x \in Elements(f) : SameHashLinks(J)[x] = SameHashLinks(L)[x]
        OBVIOUS
    <2>4. IsList(g, SameHashLinks(J), e)
        BY <1>3, <2>1, <2>2, <2>3, ListPushed
    <2> QED BY <2>2, <2>4, <1>13 DEF FreeSound
<1>18. Elements(d[s]) = Elements(c[s]) \ {e} /\ \A t \in Slots : t # s => d[t] = c[t]
    <2>1. c[s] \in Seq(Indices \ {Sentinel}) /\ NoDuplicates(c[s]) /\ d[s] = Drop(c[s], j)
        BY <1>6, <1>8 DEF ChainsSound, IsList
    <2>2. Elements(Drop(c[s], j)) = Elements(c[s]) \ {c[s][j]}
        BY <2>1, Dropped
    <2> QED BY <2>1, <2>2, <1>9, <1>6 DEF ChainsSound
<1>19. \A t \in Slots : Elements(d[t]) = {x \in U \ {e} : SlotOf(HashOf(R)[x]) = t}
    <2>1. ASSUME NEW t \in Slots PROVE Elements(d[t]) = Elements(c[t]) \ {e}
        <3>1. t # s => e \notin Elements(c[t])
            BY <1>7 DEF s
        <3> QED BY <1>18, <3>1
    <2> HIDE DEF d
    <2>2. HashOf(R) = HashOf(D)
        BY <1>5, <1>13
    <2> QED BY <2>1, <2>2, <1>7
<1>20. ChainsSound(R, d)
    <2>1. ASSUME NEW t \in Slots PROVE IsList(d[t], SameHashLinks(R), R.HashTable[t])
        <3>1. IsList(d[t], SameHashLinks(L), L.HashTable[t])
            BY <1>9 DEF ChainsSound
        <3>2. Elements(d[t]) \subseteq Indices \ {Sentinel, e}
            BY <1>3, <1>19
        <3> HIDE DEF d
        <3>3. \A x \in Elements(d[t]) : SameHashLinks(R)[x] = SameHashLinks(L)[x]
            BY <1>10, <1>13, <3>2
        <3>4. R.HashTable[t] = L.HashTable[t]
            BY <1>10, <1>12
        <3> QED BY <3>1, <3>3, <3>4, ListFramed
    <2>2. d \in [Slots -> Seq(Indices \ {Sentinel})]
        BY <1>9 DEF ChainsSound
    <2> HIDE DEF d
    <2> QED BY <2>1, <2>2 DEF ChainsSound
<1> HIDE DEF d, g
<1>21. Divided(R, Elements(p), g, d)
    <2>1. Elements(g) \cup Elements(p) = Indices \ {Sentinel} /\ Elements(g) \cap Elements(p) = {}
        BY <1>0, <1>3, <1>16 DEF Divided
    <2>2. \A x, y \in Elements(p) : HashOf(R)[x] = HashOf(R)[y] => x = y
        BY <1>0, <1>3, <1>13 DEF Divided
    <2>3. StateOf(R)[e] = 0 /\ CountOf(R)[e] = 0
        BY <1>3, <1>10, <1>13
    <2> QED BY <2>1, <2>2, <2>3, <1>3, <1>16, <1>19 DEF Divided
<1>22. SameStored(T, R, Elements(p))
    <2>1. \A x \in Elements(p) : StateOf(R)[x] = StateOf(T)[x] /\ CountOf(R)[x] = CountOf(T)[x]
        BY <1>3, <1>5, <1>8, <1>10, <1>13 DEF SameBut
    <2> QED BY <2>1, <1>13 DEF SameStored
<1>23. Sound(R, p, g, d)
    BY <1>12, <1>14, <1>17, <1>20, <1>21 DEF Sound
<1> QED BY <1>2, <1>12, <1>22, <1>23 DEF R, p, g, e, n

\* W is the table an entry is popped from.
LEMMA InsertFields ==
    ASSUME NEW T, NEW W, W = WithFreeEntry(T), W \in TableType, NEW h \in Nat,
           NEW e \in Indices \ {Sentinel}, e = SameHashLinks(W)[Sentinel]
    PROVE  LET U == InsertHash(T, h)
               rest == SameHashLinks(W)[e]
               s == SlotOf(h)
               head == W.HashTable[s]
           IN  /\ U \in TableType
               /\ \A x \in Indices :
                    /\ SameHashLinks(U)[x] = IF x = e THEN head ELSE IF x = Sentinel THEN rest ELSE SameHashLinks(W)[x]
                    /\ HashOf(U)[x] = IF x = e THEN h ELSE HashOf(W)[x]
               /\ NextLinks(U) = NextLinks(W) /\ PrevLinks(U) = PrevLinks(W)
               /\ TileOf(U) = TileOf(W) /\ StateOf(U) = StateOf(W)
               /\ CountOf(U) = CountOf(W)
               /\ U.HashTable = [W.HashTable EXCEPT ![s] = e]
               /\ U.Stats = [W.Stats EXCEPT !.MissCount = @ + 1]
<1> DEFINE U == InsertHash(T, h)
           rest == SameHashLinks(W)[e]
           s == SlotOf(h)
           head == W.HashTable[s]
           V1 == [W.Entries EXCEPT ![Sentinel].NextWithSameHash = rest]
           V2 == [V1 EXCEPT ![e].NextWithSameHash = head]
           V3 == [V2 EXCEPT ![e].HashValue = h]
<1>1. /\ W.Entries \in [Indices -> Entry] /\ Sentinel \in Indices /\ e \in Indices
      /\ e = W.Entries[Sentinel].NextWithSameHash /\ rest = W.Entries[e].NextWithSameHash
      /\ rest \in Indices /\ s \in Slots /\ head \in Indices /\ e # Sentinel
      /\ W.HashTable \in [Slots -> Indices] /\ FreeEntry(T) = e
    BY Numbers DEF TableType, Entry, SameHashLinks, FreeEntry
<1> DEFINE P == PopFreeEntry(T)
           P1 == [V1 EXCEPT ![e].NextWithSameHash = 0]
<1>p. P = [Entries |-> P1, HashTable |-> W.HashTable, Stats |-> W.Stats]
    <2>1. P = [W EXCEPT !.Entries[Sentinel].NextWithSameHash = rest,
                        !.Entries[e].NextWithSameHash = 0]
        BY <1>1 DEF PopFreeEntry
    <2>2. W = [Entries |-> W.Entries, HashTable |-> W.HashTable, Stats |-> W.Stats]
        BY DEF TableType
    <2> HIDE DEF P, rest
    <2> QED BY <1>1, <2>1, <2>2
<1>q. P1 \in [Indices -> Entry] /\ [P1 EXCEPT ![e].NextWithSameHash = head] = V2
    <2>1. V1 \in [Indices -> Entry]
        <3> HIDE DEF rest
        <3> QED BY <1>1, SetNextWithSameHash
    <2> HIDE DEF V1, head
    <2>2. P1 \in [Indices -> Entry]
        BY <2>1, <1>1, Numbers, SetNextWithSameHash
    <2>3. \A v \in Indices : [[V1 EXCEPT ![e].NextWithSameHash = v]
                                  EXCEPT ![e].NextWithSameHash = head] = V2
        <3> SUFFICES ASSUME NEW v \in Indices
                     PROVE  [[V1 EXCEPT ![e].NextWithSameHash = v]
                               EXCEPT ![e].NextWithSameHash = head] = V2
            OBVIOUS
        <3>1. e \in Indices /\ head \in Indices
            BY <1>1
        <3> HIDE DEF head
        <3>2. [[V1 EXCEPT ![e].NextWithSameHash = v] EXCEPT ![e].NextWithSameHash = head] =
                  [V1 EXCEPT ![e].NextWithSameHash = head]
            BY <2>1, <3>1 DEF Entry
        <3> QED BY <3>2
    <2>4. 0 \in Indices
        BY Numbers
    <2> HIDE DEF V2
    <2> QED BY <2>2, <2>3, <2>4
<1>s. U = [Entries |-> V3, HashTable |-> [W.HashTable EXCEPT ![s] = e],
           Stats |-> [W.Stats EXCEPT !.MissCount = @ + 1]]
    <2>1. U = [P EXCEPT !.Entries[e].NextWithSameHash = P.HashTable[s],
                        !.Entries[e].HashValue = h, !.HashTable[s] = e,
                        !.Stats.MissCount = @ + 1]
        BY <1>1 DEF InsertHash
    <2> HIDE DEF P, U, s, P1, head
    <2>2. P.HashTable[s] = head
        BY <1>p DEF head
    <2>3. U = [Entries |-> [[P1 EXCEPT ![e].NextWithSameHash = head] EXCEPT ![e].HashValue = h],
               HashTable |-> [W.HashTable EXCEPT ![s] = e],
               Stats |-> [W.Stats EXCEPT !.MissCount = @ + 1]]
        BY <2>1, <2>2, <1>1, <1>p
    <2> HIDE DEF V2
    <2> QED BY <2>3, <1>q
<1> HIDE DEF U, rest, s, head
<1>3. /\ V1 \in [Indices -> Entry]
      /\ \A x \in Indices :
           /\ V1[x].NextWithSameHash = IF x = Sentinel THEN rest ELSE W.Entries[x].NextWithSameHash
           /\ V1[x].HashValue = W.Entries[x].HashValue /\ V1[x].NextLRU = W.Entries[x].NextLRU
           /\ V1[x].PrevLRU = W.Entries[x].PrevLRU /\ V1[x].GPUIndex = W.Entries[x].GPUIndex
           /\ V1[x].FilledState = W.Entries[x].FilledState /\ V1[x].IndexCount = W.Entries[x].IndexCount
    BY <1>1, SetNextWithSameHash
<1>4. /\ V2 \in [Indices -> Entry]
      /\ \A x \in Indices :
           /\ V2[x].NextWithSameHash = IF x = e THEN head ELSE V1[x].NextWithSameHash
           /\ V2[x].HashValue = V1[x].HashValue /\ V2[x].NextLRU = V1[x].NextLRU
           /\ V2[x].PrevLRU = V1[x].PrevLRU /\ V2[x].GPUIndex = V1[x].GPUIndex
           /\ V2[x].FilledState = V1[x].FilledState /\ V2[x].IndexCount = V1[x].IndexCount
    <2> HIDE DEF V1
    <2> QED BY <1>1, <1>3, SetNextWithSameHash
<1>5. /\ V3 \in [Indices -> Entry]
      /\ \A x \in Indices :
           /\ V3[x].HashValue = IF x = e THEN h ELSE V2[x].HashValue
           /\ V3[x].NextWithSameHash = V2[x].NextWithSameHash /\ V3[x].NextLRU = V2[x].NextLRU
           /\ V3[x].PrevLRU = V2[x].PrevLRU /\ V3[x].GPUIndex = V2[x].GPUIndex
           /\ V3[x].FilledState = V2[x].FilledState /\ V3[x].IndexCount = V2[x].IndexCount
    <2> HIDE DEF V1, V2
    <2> QED BY <1>1, <1>4, SetHashValue
<1> HIDE DEF V1, V2, V3
<1>2. U.Entries = V3
      /\ U.HashTable = [W.HashTable EXCEPT ![s] = e]
      /\ U.Stats = [W.Stats EXCEPT !.MissCount = @ + 1]
    BY <1>s
<1>t. [W.Stats EXCEPT !.MissCount = @ + 1] \in [HitCount : Nat, MissCount : Nat, RecycleCount : Nat]
      /\ [W.HashTable EXCEPT ![s] = e] \in [Slots -> Indices]
    BY <1>1 DEF TableType
<1>6. U \in TableType /\ U.HashTable = [W.HashTable EXCEPT ![s] = e] /\ U.Stats = [W.Stats EXCEPT !.MissCount = @ + 1]
    BY <1>s, <1>t, <1>5 DEF TableType
<1>7. \A x \in Indices : SameHashLinks(U)[x] = IF x = e THEN head ELSE IF x = Sentinel THEN rest ELSE SameHashLinks(W)[x]
    BY <1>1, <1>2, <1>3, <1>4, <1>5 DEF SameHashLinks
<1>8. \A x \in Indices : HashOf(U)[x] = IF x = e THEN h ELSE HashOf(W)[x]
    BY <1>1, <1>2, <1>3, <1>4, <1>5 DEF HashOf
<1>9. NextLinks(U) = NextLinks(W) /\ PrevLinks(U) = PrevLinks(W) /\ TileOf(U) = TileOf(W) /\ StateOf(U) = StateOf(W) /\ CountOf(U) = CountOf(W)
    BY <1>2, <1>3, <1>4, <1>5 DEF NextLinks, PrevLinks, TileOf, StateOf, CountOf
<1> QED BY <1>6, <1>7, <1>8, <1>9 DEF U, rest, s, head

\* W is T, or T with its least recently used entry freed when none was free.
HasFree(T, W, q, f) ==
    \E p, g, d :
      /\ Sound(W, p, g, d) /\ g # <<>>
      /\ Elements(p) \subseteq Elements(q)
      /\ SameStored(T, W, Elements(p))
      /\ IF f # <<>> THEN W = T /\ p = q
         ELSE /\ q # <<>> /\ p = Drop(q, Len(q))
              /\ W.Stats = [T.Stats EXCEPT !.RecycleCount = @ + 1]

\* What PopFreeEntry starts with.
LEMMA FreeFound ==
    ASSUME NEW T, NEW q, NEW f, NEW c, Sound(T, q, f, c)
    PROVE  HasFree(T, WithFreeEntry(T), q, f)
<1>1. f \in Seq(Indices \ {Sentinel}) /\ q \in Seq(Indices \ {Sentinel}) /\ NoDuplicates(q)
      /\ SameHashLinks(T)[Sentinel] = (IF f = <<>> THEN 0 ELSE f[1])
    BY DEF Sound, FreeSound, LRUSound, IsList
<1>2. SameHashLinks(T)[Sentinel] = T.Entries[Sentinel].NextWithSameHash
    BY Numbers DEF SameHashLinks
<1>3. CASE f # <<>>
    <2>1. f[1] # 0
        BY <1>1, <1>3 DEF Sentinel
    <2>2. WithFreeEntry(T) = T
        BY <1>1, <1>2, <1>3, <2>1 DEF WithFreeEntry
    <2>3. SameStored(T, T, Elements(q))
        BY DEF SameStored
    <2> QED BY <1>3, <2>2, <2>3 DEF HasFree
<1>4. CASE f = <<>>
    <2> DEFINE R == RecycleLRU(T)
               p == Drop(q, Len(q))
               g == Push(q[Len(q)], f)
    <2>1. WithFreeEntry(T) = R
        BY <1>1, <1>2, <1>4 DEF WithFreeEntry
    <2>2. Elements(f) = {}
        BY <1>4 DEF Elements
    <2>3. /\ q # <<>> /\ SameStored(T, R, Elements(p))
          /\ R.Stats = [T.Stats EXCEPT !.RecycleCount = @ + 1]
          /\ \E d : Sound(R, p, g, d)
        BY <2>2, Recycled
    <2>4. g # <<>>
        <3>1. q[Len(q)] \in Indices \ {Sentinel}
            BY <1>1, <2>3
        <3> QED BY <1>1, <3>1, PushedElements
    <2>5. Elements(p) \subseteq Elements(q)
        <3>1. Len(q) \in 1 .. Len(q)
            BY <1>1, <2>3
        <3> QED BY <1>1, <3>1, Dropped
    <2> HIDE DEF R, g, p
    <2> QED BY <1>4, <2>1, <2>3, <2>4, <2>5 DEF p, HasFree
<1> QED BY <1>3, <1>4 DEF HasFree

\* I is W with its first free entry e, the head of the list f, in use for h.
InUse(W, I, q, f, e, h) ==
    /\ e \in Indices \ {Sentinel} /\ e \notin Elements(q)
    /\ I \in TableType /\ LRUSound(I, q) /\ FreeSound(I, Drop(f, 1))
    /\ \E d : ChainsSound(I, d) /\ Divided(I, Elements(q) \cup {e}, Drop(f, 1), d)
    /\ SameStored(W, I, Elements(q))
    /\ HashOf(I)[e] = h /\ StateOf(I)[e] = 0 /\ CountOf(I)[e] = 0
    /\ I.Stats = [W.Stats EXCEPT !.MissCount = @ + 1]

\* InsertHash: the first free entry becomes the head of the chain of its slot.
LEMMA Inserted ==
    ASSUME NEW T, NEW W, W = WithFreeEntry(T), NEW q, NEW f, NEW c, Sound(W, q, f, c),
           f # <<>>, NEW h \in Nat, \A x \in Elements(q) : HashOf(W)[x] # h
    PROVE  f[1] = FreeEntry(T) /\ InUse(W, InsertHash(T, h), q, f, f[1], h)
<1> DEFINE I == InsertHash(T, h)
           e == f[1]
           U == Elements(q)
           p == Drop(f, 1)
           s == SlotOf(h)
           rest == SameHashLinks(W)[e]
           head == W.HashTable[s]
           d == [c EXCEPT ![s] = Push(e, c[s])]
<1>0. /\ W \in TableType /\ LRUSound(W, q) /\ FreeSound(W, f) /\ ChainsSound(W, c)
      /\ Divided(W, U, f, c) /\ Sentinel = 0 /\ Sentinel \in Indices /\ s \in Slots
    BY Numbers DEF Sound
<1>1. /\ f \in Seq(Indices \ {Sentinel}) /\ NoDuplicates(f) /\ 1 \in 1 .. Len(f)
      /\ SameHashLinks(W)[Sentinel] = e
      /\ IsList(f, SameHashLinks(W), e)
    BY <1>0 DEF FreeSound, IsList
<1>2. e \in Indices \ {Sentinel} /\ e \in Elements(f) /\ e \notin U
    BY <1>0, <1>1 DEF Divided, Elements
<1>3. e = FreeEntry(T)
    BY <1>0, <1>1 DEF FreeEntry, SameHashLinks
<1> HIDE DEF e
<1>4. /\ I \in TableType
      /\ \A x \in Indices :
           /\ SameHashLinks(I)[x] = IF x = e THEN head ELSE IF x = Sentinel THEN rest
                                    ELSE SameHashLinks(W)[x]
           /\ HashOf(I)[x] = IF x = e THEN h ELSE HashOf(W)[x]
      /\ NextLinks(I) = NextLinks(W) /\ PrevLinks(I) = PrevLinks(W)
      /\ TileOf(I) = TileOf(W) /\ StateOf(I) = StateOf(W) /\ CountOf(I) = CountOf(W)
      /\ I.HashTable = [W.HashTable EXCEPT ![s] = e]
      /\ I.Stats = [W.Stats EXCEPT !.MissCount = @ + 1]
    BY <1>0, <1>1, <1>2, InsertFields
<1> HIDE DEF I, s, rest, head, U, p
<1>5. LRUSound(I, q)
    BY <1>0, <1>4 DEF LRUSound
<1>6. p \in Seq(Indices \ {Sentinel}) /\ Elements(p) = Elements(f) \ {e}
    BY <1>1, Dropped DEF p, e
<1>7. FreeSound(I, p)
    <2> DEFINE next == SameHashLinks(W)
               next1 == SameHashLinks(I)
    <2>1. next1[Sentinel] = next[f[1]]
        BY <1>0, <1>2, <1>4 DEF e, rest
    <2>2. ASSUME NEW k \in 1 .. Len(f), k # 1 PROVE next1[f[k]] = next[f[k]] /\ k # 1 - 1
        <3>1. f[k] \in Indices /\ f[k] # Sentinel /\ f[k] # e
            BY <1>1, <2>2 DEF NoDuplicates, e
        <3> QED BY <1>4, <3>1
    <2>3. IsList(f, next, f[1])
        BY <1>1 DEF e
    <2> HIDE DEF next, next1
    <2>4. IsList(Drop(f, 1), next1, next1[Sentinel])
        <3>1. \A k \in 1 .. Len(f) : k # 1 =>
                next1[f[k]] = IF k = 1 - 1 THEN next[f[1]] ELSE next[f[k]]
            BY <2>2
        <3> QED BY <1>1, <2>1, <2>3, <3>1, ListDropped
    <2> QED BY <2>4 DEF FreeSound, p, next1
<1>8. \A t \in Slots : Elements(c[t]) = {x \in U : SlotOf(HashOf(W)[x]) = t}
    BY <1>0 DEF Divided
<1>9. c[s] \in Seq(Indices \ {Sentinel}) /\ IsList(c[s], SameHashLinks(W), head)
    BY <1>0 DEF ChainsSound, head
<1>10. Push(e, c[s]) \in Seq(Indices \ {Sentinel}) /\ Elements(Push(e, c[s])) = Elements(c[s]) \cup {e}
    BY <1>2, <1>9, PushedElements
<1>11. /\ d \in [Slots -> Seq(Indices \ {Sentinel})]
       /\ d[s] = Push(e, c[s])
       /\ \A t \in Slots : t # s => d[t] = c[t]
    BY <1>0, <1>10 DEF ChainsSound
<1> HIDE DEF d
<1>12. \A x \in U : SameHashLinks(I)[x] = SameHashLinks(W)[x] /\ x \in Indices /\ HashOf(I)[x] = HashOf(W)[x]
    <2>1. U \subseteq Indices \ {Sentinel} /\ e \notin U
        BY <1>0, <1>2 DEF Divided
    <2> QED BY <2>1, <1>4
<1>13. ChainsSound(I, d)
    <2>1. ASSUME NEW t \in Slots, t # s PROVE IsList(d[t], SameHashLinks(I), I.HashTable[t])
        <3>1. IsList(c[t], SameHashLinks(W), W.HashTable[t])
            BY <1>0 DEF ChainsSound
        <3>2. \A x \in Elements(c[t]) : SameHashLinks(I)[x] = SameHashLinks(W)[x]
            BY <1>8, <1>12
        <3>3. I.HashTable[t] = W.HashTable[t]
            BY <1>0, <1>4, <2>1 DEF TableType
        <3> QED BY <1>11, <2>1, <3>1, <3>2, <3>3, ListFramed
    <2>2. IsList(d[s], SameHashLinks(I), I.HashTable[s])
        <3>1. SameHashLinks(I)[e] = head /\ I.HashTable[s] = e
            BY <1>0, <1>2, <1>4 DEF TableType
        <3>2. \A x \in Elements(c[s]) : SameHashLinks(I)[x] = SameHashLinks(W)[x]
            BY <1>0, <1>8, <1>12
        <3>3. e \notin Elements(c[s])
            BY <1>0, <1>2, <1>8
        <3>4. IsList(Push(e, c[s]), SameHashLinks(I), e)
            BY <1>2, <1>9, <3>1, <3>2, <3>3, ListPushed
        <3> QED BY <1>11, <3>1, <3>4
    <2> QED BY <1>11, <2>1, <2>2 DEF ChainsSound
<1>14. HashOf(I)[e] = h /\ StateOf(I)[e] = 0 /\ CountOf(I)[e] = 0
    BY <1>0, <1>2, <1>4 DEF Divided
<1>15. Divided(I, U \cup {e}, p, d)
    <2>1. Elements(p) \cap (U \cup {e}) = {} /\ Elements(p) \cup (U \cup {e}) = Indices \ {Sentinel}
        BY <1>0, <1>2, <1>6 DEF Divided
    <2>2. ASSUME NEW t \in Slots
          PROVE  Elements(d[t]) = {x \in U \cup {e} : SlotOf(HashOf(I)[x]) = t}
        <3>1. Elements(c[t]) = {x \in U : SlotOf(HashOf(I)[x]) = t}
            BY <1>8, <1>12
        <3>2. SlotOf(HashOf(I)[e]) = s
            BY <1>14 DEF s
        <3> QED BY <3>1, <3>2, <1>10, <1>11
    <2>3. \A x, y \in U \cup {e} : HashOf(I)[x] = HashOf(I)[y] => x = y
        <3>1. \A x \in U : HashOf(I)[x] # h
            BY <1>12 DEF U
        <3>2. \A x, y \in U : HashOf(I)[x] = HashOf(I)[y] => x = y
            BY <1>0, <1>12 DEF Divided
        <3> QED BY <3>1, <3>2, <1>14
    <2>4. \A x \in Elements(p) : StateOf(I)[x] = 0 /\ CountOf(I)[x] = 0
        BY <1>0, <1>4, <1>6 DEF Divided
    <2> QED BY <2>1, <2>2, <2>3, <2>4 DEF Divided
<1>16. SameStored(W, I, U)
    BY <1>4, <1>12 DEF SameStored
<1> QED BY <1>2, <1>3, <1>4, <1>5, <1>7, <1>13, <1>14, <1>15, <1>16 DEF I, e, p, U, InUse

\* The second half of every lookup: the entry, in use but not in the LRU list,
\* becomes the newest.
LEMMA PutInFront ==
    ASSUME NEW T \in TableType, NEW q, NEW f, NEW c, NEW e \in Indices \ {Sentinel},
           LRUSound(T, q), FreeSound(T, f), ChainsSound(T, c), e \notin Elements(q),
           Divided(T, Elements(q) \cup {e}, f, c)
    PROVE  LET B == BecomeNewest(T, e)
           IN  /\ Sound(B, Push(e, q), f, c)
               /\ SameStored(T, B, Indices) /\ B.Stats = T.Stats
<1> DEFINE B == BecomeNewest(T, e)
<1>1. LRUSound(B, Push(e, q))
    BY EntryInFront
<1>2. /\ B \in TableType
      /\ HashOf(B) = HashOf(T) /\ SameHashLinks(B) = SameHashLinks(T)
      /\ TileOf(B) = TileOf(T) /\ StateOf(B) = StateOf(T) /\ CountOf(B) = CountOf(T)
      /\ B.HashTable = T.HashTable /\ B.Stats = T.Stats
    BY BecomeNewestFields
<1>3. Elements(Push(e, q)) = Elements(q) \cup {e}
    BY PushedElements DEF LRUSound, IsList
<1> HIDE DEF B
<1>4. FreeSound(B, f) /\ ChainsSound(B, c) /\ Divided(B, Elements(Push(e, q)), f, c)
    BY <1>2, <1>3 DEF FreeSound, ChainsSound, Divided
<1> QED BY <1>1, <1>2, <1>4 DEF B, Sound, SameStored

\* The first half of a hit.
LEMMA TakenOut ==
    ASSUME NEW T, NEW q, NEW f, NEW c, Sound(T, q, f, c), NEW j \in 1 .. Len(q)
    PROVE  LET L == LeaveLRU(T, q[j])
               p == Drop(q, j)
           IN  /\ q[j] \in Indices \ {Sentinel} /\ q[j] \notin Elements(p)
               /\ Elements(p) \cup {q[j]} = Elements(q)
               /\ L \in TableType /\ LRUSound(L, p) /\ FreeSound(L, f) /\ ChainsSound(L, c)
               /\ Divided(L, Elements(p) \cup {q[j]}, f, c)
               /\ SameStored(T, L, Indices)
               /\ L.Stats = [T.Stats EXCEPT !.HitCount = @ + 1]
<1> DEFINE e == q[j]
           L == LeaveLRU(T, e)
           p == Drop(q, j)
<1>1. /\ T \in TableType /\ LRUSound(T, q) /\ FreeSound(T, f) /\ ChainsSound(T, c)
      /\ Divided(T, Elements(q), f, c)
    BY DEF Sound
<1>2. q \in Seq(Indices \ {Sentinel}) /\ NoDuplicates(q)
    BY <1>1 DEF LRUSound, IsList
<1>3. e \in Indices \ {Sentinel} /\ e \in Elements(q)
    BY <1>2 DEF Elements
<1>4. Elements(p) = Elements(q) \ {e}
    BY <1>2, Dropped
<1>5. LRUSound(L, p)
    BY <1>1, EntryLeft
<1> HIDE DEF e, p
<1>6. /\ L \in TableType
      /\ HashOf(L) = HashOf(T) /\ SameHashLinks(L) = SameHashLinks(T)
      /\ TileOf(L) = TileOf(T) /\ StateOf(L) = StateOf(T) /\ CountOf(L) = CountOf(T)
      /\ L.HashTable = T.HashTable
      /\ L.Stats = [T.Stats EXCEPT !.HitCount = @ + 1]
    BY <1>1, <1>3, LeaveLRUFields
<1> HIDE DEF L
<1>7. Elements(p) \cup {e} = Elements(q)
    BY <1>3, <1>4
<1>8. FreeSound(L, f) /\ ChainsSound(L, c) /\ Divided(L, Elements(p) \cup {e}, f, c)
    BY <1>1, <1>6, <1>7 DEF FreeSound, ChainsSound, Divided
<1> QED BY <1>3, <1>4, <1>5, <1>6, <1>7, <1>8 DEF L, e, p, SameStored

\* The search of the hash chain finds the entry of the hash, if there is one.
LEMMA Searched ==
    ASSUME NEW T, NEW q, NEW f, NEW c, Sound(T, q, f, c), NEW h \in Nat
    PROVE  /\ Matches(T, h) = {} => \A x \in Elements(q) : HashOf(T)[x] # h
           /\ Matches(T, h) # {} => \E j \in 1 .. Len(q) : /\ q[j] = FirstMatch(T, h)
                                                           /\ HashOf(T)[q[j]] = h
<1> DEFINE s == SlotOf(h)
           chain == c[s]
           M == Matches(T, h)
<1>1. s \in Slots /\ Divided(T, Elements(q), f, c) /\ ChainsSound(T, c)
    BY Numbers DEF Sound
<1>2. IsList(chain, SameHashLinks(T), T.HashTable[s])
    BY <1>1 DEF ChainsSound
<1>3. HashChain(T, s) = chain
    BY <1>2, WalkIsList DEF HashChain
<1>4. chain \in Seq(Indices \ {Sentinel}) /\ Len(chain) \in Nat
    BY <1>2 DEF IsList
<1>5. Elements(chain) = {x \in Elements(q) : SlotOf(HashOf(T)[x]) = s}
    BY <1>1 DEF Divided
<1>6. M = {k \in 1 .. Len(chain) : HashOf(T)[chain[k]] = h}
    BY <1>3, <1>4 DEF Matches, HashOf
<1>7. ASSUME M = {}, NEW x \in Elements(q), HashOf(T)[x] = h PROVE FALSE
    <2>1. x \in Elements(chain)
        BY <1>5, <1>7
    <2>2. PICK k \in 1 .. Len(chain) : chain[k] = x
        BY <2>1 DEF Elements
    <2> HIDE DEF M, chain
    <2> QED BY <2>2, <1>6, <1>7
<1>8. ASSUME M # {}
      PROVE  \E j \in 1 .. Len(q) : q[j] = FirstMatch(T, h) /\ HashOf(T)[q[j]] = h
    <2>1. M \in SUBSET Nat
        BY <1>4, <1>6
    <2>2. \E k \in M : \A i \in M : k <= i
        <3> HIDE DEF M
        <3> QED BY <2>1, <1>8, LeastNatural
    <2> DEFINE k == CHOOSE i \in M : \A n \in M : i <= n
    <2>3. k \in M
        <3> HIDE DEF M
        <3> QED BY <2>2
    <2>4. FirstMatch(T, h) = chain[k]
        BY <1>3 DEF FirstMatch
    <2> HIDE DEF k, M
    <2>5. chain[k] \in Elements(chain) /\ HashOf(T)[chain[k]] = h
        BY <2>3, <1>6 DEF Elements
    <2>6. chain[k] \in Elements(q)
        BY <2>5, <1>5
    <2> HIDE DEF chain
    <2> QED BY <2>4, <2>5, <2>6 DEF Elements
<1> QED BY <1>7, <1>8 DEF M

\* B is T after a hit: the entry e of the hash h moved to the front.
AfterHit(T, B, q, f, c, h, e) ==
    \E j \in 1 .. Len(q) :
      /\ q[j] = e /\ HashOf(T)[e] = h
      /\ e \in Indices \ {Sentinel} /\ e \notin Elements(Drop(q, j))
      /\ Elements(Drop(q, j)) \cup {e} = Elements(q)
      /\ Sound(B, Push(e, Drop(q, j)), f, c)
      /\ SameStored(T, B, Indices)
      /\ B.Stats = [T.Stats EXCEPT !.HitCount = @ + 1]

\* B is T after a miss: the first free entry e, or the one of the glyph unused
\* for longest, is in use for h.
AfterMiss(T, B, q, f, h, e) ==
    \E p, g, d :
      /\ e \in Indices \ {Sentinel} /\ e \notin Elements(p)
      /\ Elements(p) \subseteq Elements(q)
      /\ \A x \in Elements(q) : HashOf(T)[x] # h
      /\ Sound(B, Push(e, p), g, d)
      /\ SameStored(T, B, Elements(p))
      /\ HashOf(B)[e] = h /\ StateOf(B)[e] = 0 /\ CountOf(B)[e] = 0
      /\ TileOf(B) = TileOf(T)
      /\ IF f # <<>> THEN /\ p = q
                          /\ B.Stats = [T.Stats EXCEPT !.MissCount = @ + 1]
         ELSE /\ q # <<>> /\ p = Drop(q, Len(q))
              /\ B.Stats = [T.Stats EXCEPT !.MissCount = @ + 1, !.RecycleCount = @ + 1]

LEMMA HitFound ==
    ASSUME NEW T, NEW q, NEW f, NEW c, Sound(T, q, f, c), NEW h \in Nat,
           Matches(T, h) # {}
    PROVE  LET e == FirstMatch(T, h)
               B == BecomeNewest(LeaveLRU(T, e), e)
           IN  AfterHit(T, B, q, f, c, h, e)
<1> DEFINE e == FirstMatch(T, h)
           L == LeaveLRU(T, e)
           B == BecomeNewest(L, e)
<1>1. PICK j \in 1 .. Len(q) : q[j] = e /\ HashOf(T)[q[j]] = h
    BY Searched
<1> DEFINE p == Drop(q, j)
<1> HIDE DEF e, L, p
<1>2. /\ e \in Indices \ {Sentinel} /\ e \notin Elements(p)
      /\ Elements(p) \cup {e} = Elements(q)
      /\ L \in TableType /\ LRUSound(L, p) /\ FreeSound(L, f) /\ ChainsSound(L, c)
      /\ Divided(L, Elements(p) \cup {e}, f, c)
      /\ SameStored(T, L, Indices)
      /\ L.Stats = [T.Stats EXCEPT !.HitCount = @ + 1]
    BY <1>1, TakenOut DEF L, p
<1>3. Sound(B, Push(e, p), f, c) /\ SameStored(L, B, Indices) /\ B.Stats = L.Stats
    BY <1>2, PutInFront
<1>4. SameStored(T, B, Indices)
    BY <1>2, <1>3 DEF SameStored
<1> QED BY <1>1, <1>2, <1>3, <1>4 DEF e, L, p, AfterHit

LEMMA MissInserted ==
    ASSUME NEW T, NEW q, NEW f, NEW c, Sound(T, q, f, c), NEW h \in Nat,
           Matches(T, h) = {}
    PROVE  LET e == FreeEntry(T)
               B == BecomeNewest(InsertHash(T, h), e)
           IN  AfterMiss(T, B, q, f, h, e)
<1> DEFINE e == FreeEntry(T)
           W == WithFreeEntry(T)
           I == InsertHash(T, h)
           B == BecomeNewest(I, e)
<1>1. PICK p, g, d :
        /\ Sound(W, p, g, d) /\ g # <<>>
        /\ Elements(p) \subseteq Elements(q)
        /\ SameStored(T, W, Elements(p))
        /\ IF f # <<>> THEN W = T /\ p = q
           ELSE /\ q # <<>> /\ p = Drop(q, Len(q))
                /\ W.Stats = [T.Stats EXCEPT !.RecycleCount = @ + 1]
    <2>1. HasFree(T, W, q, f)
        BY FreeFound
    <2> HIDE DEF W
    <2> QED BY <2>1 DEF HasFree
<1>2. \A x \in Elements(q) : HashOf(T)[x] # h
    BY Searched
<1>3. \A x \in Elements(p) : HashOf(W)[x] # h
    BY <1>1, <1>2 DEF SameStored
<1> HIDE DEF W
<1>4. /\ g[1] = e /\ e \in Indices \ {Sentinel} /\ e \notin Elements(p)
      /\ I \in TableType /\ LRUSound(I, p) /\ FreeSound(I, Drop(g, 1))
      /\ \E b : ChainsSound(I, b) /\ Divided(I, Elements(p) \cup {e}, Drop(g, 1), b)
      /\ SameStored(W, I, Elements(p))
      /\ HashOf(I)[e] = h /\ StateOf(I)[e] = 0 /\ CountOf(I)[e] = 0
      /\ I.Stats = [W.Stats EXCEPT !.MissCount = @ + 1]
    <2>1. W = WithFreeEntry(T)
        BY DEF W
    <2>2. g[1] = FreeEntry(T) /\ InUse(W, InsertHash(T, h), p, g, g[1], h)
        BY <2>1, <1>1, <1>3, Inserted
    <2> QED BY <2>2 DEF InUse
<1>5. PICK b : ChainsSound(I, b) /\ Divided(I, Elements(p) \cup {e}, Drop(g, 1), b)
    BY <1>4
<1> HIDE DEF e, I
<1>6. Sound(B, Push(e, p), Drop(g, 1), b) /\ SameStored(I, B, Indices) /\ B.Stats = I.Stats
    <2>1. /\ I \in TableType /\ e \in Indices \ {Sentinel} /\ LRUSound(I, p)
          /\ FreeSound(I, Drop(g, 1)) /\ e \notin Elements(p)
        BY <1>4
    <2> QED BY <2>1, <1>5, PutInFront
<1>7. Elements(p) \subseteq Indices /\ e \in Indices
    BY <1>1, <1>4 DEF Sound, Divided
<1>8. SameStored(T, B, Elements(p))
    BY <1>1, <1>4, <1>6, <1>7 DEF SameStored
<1>9. HashOf(B)[e] = h /\ StateOf(B)[e] = 0 /\ CountOf(B)[e] = 0
    BY <1>4, <1>6, <1>7 DEF SameStored
<1>10. T.Stats \in [HitCount : Nat, MissCount : Nat, RecycleCount : Nat]
    BY DEF Sound, TableType
<1>11. IF f # <<>> THEN p = q /\ B.Stats = [T.Stats EXCEPT !.MissCount = @ + 1]
       ELSE /\ q # <<>> /\ p = Drop(q, Len(q))
            /\ B.Stats = [T.Stats EXCEPT !.MissCount = @ + 1, !.RecycleCount = @ + 1]
    <2>1. B.Stats = [W.Stats EXCEPT !.MissCount = @ + 1]
        BY <1>4, <1>6
    <2> HIDE DEF B
    <2>2. CASE f # <<>>
        BY <2>1, <2>2, <1>1
    <2>3. CASE f = <<>>
        <3>1. W.Stats = [T.Stats EXCEPT !.RecycleCount = @ + 1]
            BY <2>3, <1>1
        <3>2. B.Stats = [T.Stats EXCEPT !.MissCount = @ + 1, !.RecycleCount = @ + 1]
            BY <2>1, <3>1, <1>10
        <3> QED BY <2>3, <3>2, <1>1
    <2> QED BY <2>2, <2>3
<1>12. TileOf(B) = TileOf(T)
    BY <1>8 DEF SameStored
<1> QED BY <1>1, <1>2, <1>4, <1>6, <1>8, <1>9, <1>11, <1>12 DEF e, I, AfterMiss

(***************************************************************************)
(* Tiles                                                                   *)
(***************************************************************************)

\* What TilePoints is defined by has a solution.
LEMMA TilePointsDefined ==
    ASSUME NEW X, NEW Y, NEW w, NEW n \in Nat
    PROVE  LET at == TilePoints(X, Y, w, n)
           IN  at = [k \in 1 .. n |->
                       IF k = 1 THEN IF <<X, Y>>[1] >= w THEN <<0, <<X, Y>>[2] + 1>> ELSE <<X, Y>>
                       ELSE LET p == <<at[k - 1][1] + 1, at[k - 1][2]>>
                            IN  IF p[1] >= w THEN <<0, p[2] + 1>> ELSE p]
<1> DEFINE wrapped(p) == IF p[1] >= w THEN <<0, p[2] + 1>> ELSE p
           step(g, k) == IF k = 1 THEN wrapped(<<X, Y>>)
                         ELSE wrapped(<<g[k - 1][1] + 1, g[k - 1][2]>>)
           Solves(g, m) == g = [k \in 1 .. m |-> step(g, k)]
           S == {m \in Nat : \E g : Solves(g, m)}
<1>1. 0 \in S
    <2>1. Solves([k \in 1 .. 0 |-> 0], 0)
        <3> HIDE DEF step
        <3> QED OBVIOUS
    <2> HIDE DEF Solves
    <2> QED BY <2>1
<1>2. ASSUME NEW m \in Nat, m \in S PROVE m + 1 \in S
    <2>1. PICK g : Solves(g, m)
        BY <1>2
    <2> DEFINE last == step(g, m + 1)
    <2> HIDE DEF last, wrapped
    <2> DEFINE f == [k \in 1 .. m + 1 |-> IF k \in 1 .. m THEN g[k] ELSE last]
    <2>2. ASSUME NEW k \in 1 .. m + 1 PROVE f[k] = step(f, k)
        <3>1. k # 1 => k - 1 \in 1 .. m /\ k - 1 \in 1 .. m + 1
            OBVIOUS
        <3>2. k # 1 => f[k - 1] = g[k - 1]
            BY <3>1
        <3> HIDE DEF f
        <3>3. step(f, k) = step(g, k)
            BY <3>2
        <3>4. CASE k \in 1 .. m
            <4>1. g[k] = step(g, k)
                BY <2>1, <3>4
            <4> QED BY <3>3, <3>4, <4>1 DEF f
        <3>5. CASE k \notin 1 .. m
            <4>1. k = m + 1
                BY <3>5
            <4> QED BY <3>3, <3>5, <4>1 DEF f, last
        <3> QED BY <3>4, <3>5
    <2>3. f = [k \in 1 .. m + 1 |-> step(f, k)]
        <3> DEFINE r == [k \in 1 .. m + 1 |-> step(f, k)]
        <3>1. \A k \in 1 .. m + 1 : f[k] = r[k]
            <4> HIDE DEF f, step
            <4> QED BY <2>2
        <3> HIDE DEF step
        <3> QED BY <3>1
    <2> HIDE DEF f, step
    <2> QED BY <2>3
<1>3. n \in S
    <2> HIDE DEF S
    <2>1. 0 .. n \subseteq S
        BY <1>1, <1>2, Induction
    <2> QED BY <2>1
<1>4. \E g : Solves(g, n)
    BY <1>3
<1> QED BY <1>4 DEF TilePoints

\* g is the tile number pos, counted in rows of w tiles.
IsTileAt(g, pos, w) ==
    \E x \in 0 .. w - 1, y \in Nat : g = PackGlyphCachePoint(x, y) /\ y * w + x = pos

\* TileRun numbers the tiles in reading order, across the ends of the rows.
LEMMA TilesInOrder ==
    ASSUME NEW X \in Nat, NEW Y \in Nat, NEW w \in Nat \ {0}, X <= w, NEW n \in Nat,
           NEW k \in 1 .. n
    PROVE  /\ IsTileAt(TileRun(X, Y, w, n)[k], Y * w + X + (k - 1), w)
           /\ TileRun(X, Y, w, n)[k] \in Nat
<1> DEFINE at == TilePoints(X, Y, w, n)
           InOrder(m) == \E x \in 0 .. w - 1, y \in Nat :
                           at[m] = <<x, y>> /\ y * w + x = Y * w + X + (m - 1)
           S == {m \in Nat : InOrder(m)}
<1>1. \A m \in 1 .. n : at[m] = IF m = 1 THEN IF X >= w THEN <<0, Y + 1>> ELSE <<X, Y>>
                                ELSE IF at[m - 1][1] + 1 >= w THEN <<0, at[m - 1][2] + 1>>
                                ELSE <<at[m - 1][1] + 1, at[m - 1][2]>>
    BY SMTT(30), TilePointsDefined
<1> HIDE DEF at
<1>2. ASSUME 1 <= n PROVE InOrder(1)
    <2>0. 1 \in 1 .. n
        BY <1>2
    <2>1. at[1] = IF X >= w THEN <<0, Y + 1>> ELSE <<X, Y>>
        <3>1. at[1] = IF 1 = 1 THEN IF X >= w THEN <<0, Y + 1>> ELSE <<X, Y>>
                      ELSE IF at[1 - 1][1] + 1 >= w THEN <<0, at[1 - 1][2] + 1>>
                      ELSE <<at[1 - 1][1] + 1, at[1 - 1][2]>>
            BY <1>1, <2>0
        <3> QED BY <3>1
    <2>2. CASE X >= w
        <3>1. X = w /\ at[1] = <<0, Y + 1>>
            BY <2>1, <2>2
        <3>2. (Y + 1) * w + 0 = Y * w + X + (1 - 1)
            BY <3>1
        <3> QED BY <3>1, <3>2
    <2>3. CASE ~ X >= w
        <3>1. at[1] = <<X, Y>> /\ X \in 0 .. w - 1
            BY <2>1, <2>3
        <3>2. Y * w + X = Y * w + X + (1 - 1)
            OBVIOUS
        <3> QED BY <3>1, <3>2
    <2> QED BY <2>2, <2>3
<1>3. ASSUME NEW m \in 1 .. n, InOrder(m), m < n PROVE InOrder(m + 1)
    <2>1. PICK x \in 0 .. w - 1, y \in Nat :
            at[m] = <<x, y>> /\ y * w + x = Y * w + X + (m - 1)
        BY <1>3
    <2>2. at[m + 1] = IF x + 1 >= w THEN <<0, y + 1>> ELSE <<x + 1, y>>
        <3>1. m + 1 \in 1 .. n /\ m + 1 # 1 /\ (m + 1) - 1 = m
            BY <1>3
        <3>2. at[m][1] = x /\ at[m][2] = y
            BY <2>1
        <3> QED BY <3>1, <3>2, <1>1
    <2> DEFINE r == Y * w + X
    <2>3. r \in Nat /\ y * w \in Nat /\ y * w + x = r + (m - 1)
        BY <2>1
    <2>4. CASE x + 1 >= w
        <3>1. x + 1 = w /\ at[m + 1] = <<0, y + 1>>
            BY <2>2, <2>4
        <3>2. (y + 1) * w = y * w + w
            OBVIOUS
        <3> HIDE DEF r
        <3>3. (y + 1) * w + 0 = r + ((m + 1) - 1)
            BY <3>1, <3>2, <2>3
        <3> QED BY <3>1, <3>3 DEF r
    <2>5. CASE ~ x + 1 >= w
        <3>1. at[m + 1] = <<x + 1, y>> /\ x + 1 \in 0 .. w - 1
            BY <2>2, <2>5
        <3> HIDE DEF r
        <3>2. y * w + (x + 1) = r + ((m + 1) - 1)
            BY <2>3
        <3> QED BY <3>1, <3>2 DEF r
    <2> QED BY <2>4, <2>5
<1>4. k \in S
    <2> HIDE DEF InOrder
    <2>1. 1 .. n \subseteq S
        <3>1. 1 <= n => 1 \in S
            BY <1>2
        <3>2. \A m \in 1 .. n : m \in S /\ m < n => m + 1 \in S
            BY <1>3
        <3> HIDE DEF S
        <3> QED BY <3>1, <3>2, Induction
    <2> QED BY <2>1
<1>5. PICK x \in 0 .. w - 1, y \in Nat :
        at[k] = <<x, y>> /\ y * w + x = Y * w + X + (k - 1)
    BY <1>4
<1>6. TileRun(X, Y, w, n)[k] = PackGlyphCachePoint(x, y)
    BY <1>5 DEF TileRun, at
<1>7. PackGlyphCachePoint(x, y) \in Nat
    BY DEF PackGlyphCachePoint
<1> QED BY <1>5, <1>6, <1>7 DEF IsTileAt

\* A row and a column of 16 bits are all that is packed.
Rows16 == 65536

\* The tile is in one of the rows that 16 bits tell apart.
LEMMA RowFits ==
    ASSUME NEW w \in Nat \ {0}, NEW R \in Nat, NEW x \in 0 .. w - 1, NEW y \in Nat,
           y * w + x < R * w
    PROVE  y < R
<1> SUFFICES ASSUME y >= R PROVE FALSE
    OBVIOUS
<1>1. PICK d \in Nat : y = R + d
    <2>1. y - R \in Nat /\ y = R + (y - R)
        OBVIOUS
    <2> QED BY <2>1
<1>2. y * w = R * w + d * w
    BY <1>1
<1>3. d * w \in Nat /\ R * w \in Nat /\ x \in Nat
    OBVIOUS
<1> QED BY <1>2, <1>3

\* In a texture of at most 65536 columns and rows a tile has one number.
LEMMA OneNumber ==
    ASSUME NEW w \in Nat \ {0}, w <= 65536, NEW g, NEW a, NEW b,
           IsTileAt(g, a, w), IsTileAt(g, b, w), a < Rows16 * w, b < Rows16 * w
    PROVE  a = b
<1>0. \A n : IsTileAt(g, n, w) =>
        \E x \in 0 .. w - 1, y \in Nat : g = PackGlyphCachePoint(x, y) /\ y * w + x = n
    BY DEF IsTileAt
<1>1. PICK x \in 0 .. w - 1, y \in Nat : g = PackGlyphCachePoint(x, y) /\ y * w + x = a
    BY <1>0
<1>2. PICK u \in 0 .. w - 1, v \in Nat : g = PackGlyphCachePoint(u, v) /\ v * w + u = b
    BY <1>0
<1>3. x = u /\ y = v
    <2>0. y < 65536 /\ v < 65536
        <3>1. Rows16 \in Nat
            BY DEF Rows16
        <3>2. y < Rows16 /\ v < Rows16
            BY <1>1, <1>2, <3>1, RowFits
        <3> QED BY <3>2 DEF Rows16
    <2>1. y * 65536 + x = v * 65536 + u
        <3>1. y % 65536 = y /\ v % 65536 = v
            BY <2>0
        <3> QED BY <1>1, <1>2, <3>1 DEF PackGlyphCachePoint
    <2>2. x \in Nat /\ u \in Nat /\ x < 65536 /\ u < 65536
        <3>1. \A z \in 0 .. w - 1 : z \in Nat /\ z < 65536
            OBVIOUS
        <3> QED BY <3>1
    <2> QED BY <2>1, <2>2
<1> QED BY <1>1, <1>2, <1>3

(***************************************************************************)
(* The table as it is placed, in memory that holds zeros                   *)
(***************************************************************************)

\* Where an entry's tile is: the last entry has none of its own.
TileNumber(p, e) == IF e < EntryCount - 1 THEN StartingTile(p) + e ELSE 0

LEMMA PlacedTiles ==
    ASSUME NEW p \in Layouts, NEW e \in Indices
    PROVE  LET T == PlaceGlyphTableInMemory(p, 0)
               w == p.CacheTileCountInX
           IN  T.Entries[e].GPUIndex \in Nat /\ IsTileAt(T.Entries[e].GPUIndex, TileNumber(p, e), w)
<1> DEFINE T == PlaceGlyphTableInMemory(p, 0)
           w == p.CacheTileCountInX
           S == StartingTile(p)
           X == S % w
           Y == S \div w
           tiles == TileRun(X, Y, w, EntryCount - 1)
<1>1. w \in Nat \ {0} /\ S \in Nat /\ EntryCount \in Nat /\ EntryCount >= 2
    BY ParamsAssumption DEF StartingTile
<1>2. T.Entries[e].GPUIndex = IF e < EntryCount - 1 THEN tiles[e + 1] ELSE 0
    BY DEF PlaceGlyphTableInMemory
<1> HIDE DEF T, w, S
<1>3. X \in Nat /\ Y \in Nat /\ X <= w /\ Y * w + X = S
    BY <1>1
<1>4. CASE e < EntryCount - 1
    <2>1. e + 1 \in 1 .. EntryCount - 1 /\ EntryCount - 1 \in Nat /\ e \in Nat
        BY <1>1, <1>4 DEF Indices
    <2> HIDE DEF X, Y
    <2>2. IsTileAt(tiles[e + 1], Y * w + X + ((e + 1) - 1), w) /\ tiles[e + 1] \in Nat
        BY <1>1, <1>3, <2>1, TilesInOrder
    <2>3. Y * w + X + ((e + 1) - 1) = S + e
        BY <1>1, <1>3, <2>1
    <2>4. IsTileAt(tiles[e + 1], S + e, w)
        BY <2>2, <2>3
    <2> HIDE DEF tiles
    <2> QED BY <1>2, <1>4, <2>2, <2>4 DEF TileNumber, S, T, w
<1>5. CASE ~ e < EntryCount - 1
    <2>1. IsTileAt(0, 0, w)
        <3>1. 0 \in 0 .. w - 1 /\ 0 \in Nat /\ 0 = PackGlyphCachePoint(0, 0) /\ 0 * w + 0 = 0
            BY <1>1 DEF PackGlyphCachePoint
        <3> QED BY <3>1 DEF IsTileAt
    <2> QED BY <1>2, <1>5, <2>1 DEF TileNumber, T, w
<1> QED BY <1>4, <1>5

\* Every entry but the sentinel is in the free chain, in order; the other lists
\* are empty.
LEMMA PlacedSound ==
    ASSUME NEW p \in Layouts
    PROVE  \E f, c : Sound(PlaceGlyphTableInMemory(p, 0), <<>>, f, c)
<1> DEFINE T == PlaceGlyphTableInMemory(p, 0)
           f == [k \in 1 .. EntryCount - 1 |-> k]
           c == [s \in Slots |-> <<>>]
<1>0. /\ EntryCount \in Nat /\ EntryCount >= 2 /\ Sentinel = 0 /\ 0 \in Indices /\ 1 \in Indices
      /\ Indices = 0 .. EntryCount - 1
    BY ParamsAssumption DEF Sentinel, Indices
<1>1. /\ T.HashTable = [s \in Slots |-> 0] /\ T.Stats = NoStats
      /\ T = [Entries |-> T.Entries, HashTable |-> T.HashTable, Stats |-> T.Stats]
    BY DEF PlaceGlyphTableInMemory
<1>2. \A e \in Indices :
        /\ T.Entries[e].HashValue = 0 /\ T.Entries[e].NextLRU = 0 /\ T.Entries[e].PrevLRU = 0
        /\ T.Entries[e].NextWithSameHash = IF e < EntryCount - 1 THEN e + 1 ELSE 0
        /\ T.Entries[e].FilledState = 0 /\ T.Entries[e].IndexCount = 0
    BY DEF PlaceGlyphTableInMemory
<1>3. T.Entries \in [Indices -> Entry]
    <2> DEFINE g(e) == T.Entries[e]
    <2>1. \E h : T.Entries = [e \in Indices |->
                 [HashValue |-> 0, NextLRU |-> 0, PrevLRU |-> 0,
                  NextWithSameHash |-> IF e < EntryCount - 1 THEN e + 1 ELSE 0,
                  GPUIndex |-> h[e], FilledState |-> 0, IndexCount |-> 0]]
        <3> DEFINE w == p.CacheTileCountInX
                   tiles == TileRun(StartingTile(p) % w, StartingTile(p) \div w, w, EntryCount - 1)
                   h == [e \in Indices |-> IF e < EntryCount - 1 THEN tiles[e + 1] ELSE 0]
        <3> HIDE DEF tiles
        <3>1. T.Entries = [e \in Indices |->
                 [HashValue |-> 0, NextLRU |-> 0, PrevLRU |-> 0,
                  NextWithSameHash |-> IF e < EntryCount - 1 THEN e + 1 ELSE 0,
                  GPUIndex |-> h[e], FilledState |-> 0, IndexCount |-> 0]]
            BY DEF PlaceGlyphTableInMemory, tiles
        <3> HIDE DEF h
        <3> QED BY <3>1
    <2>2. PICK h : T.Entries = [e \in Indices |->
                 [HashValue |-> 0, NextLRU |-> 0, PrevLRU |-> 0,
                  NextWithSameHash |-> IF e < EntryCount - 1 THEN e + 1 ELSE 0,
                  GPUIndex |-> h[e], FilledState |-> 0, IndexCount |-> 0]]
        BY <2>1
    <2>3. \A e \in Indices : T.Entries[e].GPUIndex \in Nat
        BY PlacedTiles
    <2> HIDE DEF T
    <2>4. \A e \in Indices : h[e] \in Nat
        BY <2>2, <2>3
    <2>5. \A e \in Indices : (IF e < EntryCount - 1 THEN e + 1 ELSE 0) \in Indices
        BY <1>0
    <2> QED BY <1>0, <2>2, <2>4, <2>5 DEF Entry
<1>4. T \in TableType
    <2>1. T.HashTable \in [Slots -> Indices]
        BY <1>0, <1>1
    <2>2. T.Stats \in [HitCount : Nat, MissCount : Nat, RecycleCount : Nat]
        BY <1>1 DEF NoStats
    <2> HIDE DEF T
    <2> QED BY <1>1, <1>3, <2>1, <2>2 DEF TableType
<1> HIDE DEF T
<1>5. /\ \A e \in Indices : NextLinks(T)[e] = 0 /\ PrevLinks(T)[e] = 0
      /\ \A e \in Indices : SameHashLinks(T)[e] = IF e < EntryCount - 1 THEN e + 1 ELSE 0
      /\ \A e \in Indices : StateOf(T)[e] = 0 /\ CountOf(T)[e] = 0
    BY <1>2 DEF NextLinks, PrevLinks, SameHashLinks, StateOf, CountOf
<1>6. <<>> \in Seq(Indices \ {Sentinel}) /\ Len(<<>>) = 0 /\ NoDuplicates(<<>>)
    BY DEF NoDuplicates
<1>7. LRUSound(T, <<>>)
    BY <1>0, <1>5, <1>6 DEF LRUSound, IsList, LeadsBack
<1>8. /\ f \in Seq(Indices \ {Sentinel}) /\ Len(f) = EntryCount - 1 /\ NoDuplicates(f)
      /\ \A k \in 1 .. EntryCount - 1 : f[k] = k
    <2>1. f \in [1 .. EntryCount - 1 -> Indices \ {Sentinel}] /\ EntryCount - 1 \in Nat
        BY <1>0
    <2>2. \A k \in 1 .. EntryCount - 1 : f[k] = k
        OBVIOUS
    <2> HIDE DEF f
    <2>3. f \in Seq(Indices \ {Sentinel}) /\ Len(f) = EntryCount - 1
        BY <2>1
    <2> QED BY <2>2, <2>3 DEF NoDuplicates
<1> HIDE DEF f
<1>9. FreeSound(T, f)
    <2>1. SameHashLinks(T)[Sentinel] = f[1] /\ f # <<>>
        BY <1>0, <1>5, <1>8
    <2>2. ASSUME NEW k \in 1 .. Len(f)
          PROVE  SameHashLinks(T)[f[k]] = IF k = Len(f) THEN 0 ELSE f[k + 1]
        <3>1. k \in 1 .. EntryCount - 1 /\ k \in Indices /\ f[k] = k
            BY <1>0, <1>8
        <3>2. SameHashLinks(T)[k] = IF k < EntryCount - 1 THEN k + 1 ELSE 0
            BY <1>5, <3>1
        <3>3. CASE k = EntryCount - 1
            BY <3>1, <3>2, <3>3, <1>0, <1>8
        <3>4. CASE k # EntryCount - 1
            <4>1. k + 1 \in 1 .. EntryCount - 1 /\ k < EntryCount - 1
                BY <3>1, <3>4, <1>0
            <4> QED BY <3>1, <3>2, <3>4, <4>1, <1>8
        <3> QED BY <3>3, <3>4
    <2> QED BY <1>8, <2>1, <2>2 DEF FreeSound, IsList
<1>10. c \in [Slots -> Seq(Indices \ {Sentinel})] /\ \A s \in Slots : c[s] = <<>>
    BY <1>6
<1> HIDE DEF c
<1>11. ChainsSound(T, c)
    BY <1>1, <1>6, <1>10 DEF ChainsSound, IsList
<1>12. Elements(<<>>) = {} /\ Elements(f) = Indices \ {Sentinel}
    <2>1. Elements(<<>>) = {}
        BY <1>6 DEF Elements
    <2>2. Elements(f) = Indices \ {Sentinel}
        BY <1>0, <1>8 DEF Elements
    <2> QED BY <2>1, <2>2
<1>13. Divided(T, Elements(<<>>), f, c)
    BY <1>5, <1>10, <1>12 DEF Divided
<1>14. Sound(T, <<>>, f, c)
    BY <1>4, <1>7, <1>9, <1>11, <1>13 DEF Sound
<1> QED BY <1>14 DEF T

(***************************************************************************)
(* The invariant                                                           *)
(***************************************************************************)

Chains(T) == [s \in Slots |-> HashChain(T, s)]
WellFormed(T) == Sound(T, FromNewest(T), FreeChain(T), Chains(T))

\* The lists of a table are the ones its links make.
LEMMA TheLists ==
    ASSUME NEW T, NEW q, NEW f, NEW c, Sound(T, q, f, c)
    PROVE  FromNewest(T) = q /\ FreeChain(T) = f /\ Chains(T) = c /\ WellFormed(T)
<1>1. LRUSound(T, q) /\ FreeSound(T, f) /\ ChainsSound(T, c)
    BY DEF Sound
<1>2. FromNewest(T) = q
    <2>1. IsList(q, NextLinks(T), NextLinks(T)[Sentinel])
        BY <1>1 DEF LRUSound
    <2>2. NextLinks(T)[Sentinel] = T.Entries[Sentinel].NextLRU
        BY Numbers DEF NextLinks
    <2> QED BY <2>1, <2>2, WalkIsList DEF FromNewest
<1>3. FreeChain(T) = f
    <2>1. IsList(f, SameHashLinks(T), SameHashLinks(T)[Sentinel])
        BY <1>1 DEF FreeSound
    <2>2. SameHashLinks(T)[Sentinel] = T.Entries[Sentinel].NextWithSameHash
        BY Numbers DEF SameHashLinks
    <2> QED BY <2>1, <2>2, WalkIsList DEF FreeChain
<1>4. Chains(T) = c
    <2>1. \A s \in Slots : HashChain(T, s) = c[s]
        BY <1>1, WalkIsList DEF ChainsSound, HashChain
    <2> QED BY <1>1, <2>1 DEF ChainsSound, Chains
<1> QED BY <1>2, <1>3, <1>4 DEF WellFormed

\* Every tile is where the table was placed with it.
TilesPlaced ==
    \A e \in Indices :
        IsTileAt(TileOf(Table)[e], TileNumber(Params, e), Params.CacheTileCountInX)

StateType == [ID : Indices, GPUIndex : Nat, FilledState : Nat, TileCount : Nat]

\* The glyph_state the user holds is the newest entry's, and 0 before any.
IInv ==
    /\ Params \in Layouts
    /\ State \in StateType
    /\ State.ID = Table.Entries[Sentinel].NextLRU
    /\ WellFormed(Table)
    /\ TilesPlaced

\* U is T after v and n were stored in the newest entry.
AfterStore(T, U, q, f, c, v, n) ==
    /\ Sound(U, q, f, c) /\ q[1] \in Indices \ {Sentinel}
    /\ HashOf(U) = HashOf(T) /\ TileOf(U) = TileOf(T)
    /\ U.Stats = T.Stats
    /\ \A x \in Indices : /\ StateOf(U)[x] = IF x = q[1] THEN v ELSE StateOf(T)[x]
                          /\ CountOf(U)[x] = IF x = q[1] THEN n ELSE CountOf(T)[x]

\* Storing in the newest entry disturbs no list.
LEMMA Stored ==
    ASSUME NEW T, NEW q, NEW f, NEW c, Sound(T, q, f, c), q # <<>>, NEW v \in Nat, NEW n \in Nat
    PROVE  AfterStore(T, UpdateGlyphCacheEntry(T, q[1], v, n), q, f, c, v, n)
<1> DEFINE e == q[1]
           U == UpdateGlyphCacheEntry(T, e, v, n)
<1>1. /\ T \in TableType /\ LRUSound(T, q) /\ FreeSound(T, f) /\ ChainsSound(T, c)
      /\ Divided(T, Elements(q), f, c)
    BY DEF Sound
<1>2. q \in Seq(Indices \ {Sentinel}) /\ 1 \in 1 .. Len(q)
    BY <1>1 DEF LRUSound, IsList
<1>3. e \in Elements(q) /\ e \in Indices \ {Sentinel}
    BY <1>2 DEF Elements
<1> HIDE DEF e
<1>4. /\ U \in TableType
      /\ \A x \in Indices :
           /\ StateOf(U)[x] = IF x = e THEN v ELSE StateOf(T)[x]
           /\ CountOf(U)[x] = IF x = e THEN n ELSE CountOf(T)[x]
      /\ HashOf(U) = HashOf(T) /\ SameHashLinks(U) = SameHashLinks(T)
      /\ NextLinks(U) = NextLinks(T) /\ PrevLinks(U) = PrevLinks(T)
      /\ TileOf(U) = TileOf(T)
      /\ U.HashTable = T.HashTable
      /\ U.Stats = T.Stats
    BY <1>1, <1>3, UpdateFields
<1> HIDE DEF U
<1>5. LRUSound(U, q) /\ FreeSound(U, f) /\ ChainsSound(U, c)
    BY <1>1, <1>4 DEF LRUSound, FreeSound, ChainsSound
<1>6. Divided(U, Elements(q), f, c)
    <2>1. \A x \in Elements(f) : x # e /\ x \in Indices
        BY <1>1, <1>3 DEF Divided
    <2> QED BY <1>1, <1>4, <2>1 DEF Divided
<1>7. Sound(U, q, f, c)
    BY <1>4, <1>5, <1>6 DEF Sound
<1> QED BY <1>3, <1>4, <1>7 DEF AfterStore, U, e

\* So does taking the statistics.
LEMMA StatsTaken ==
    ASSUME NEW T, NEW q, NEW f, NEW c, Sound(T, q, f, c)
    PROVE  LET U == [T EXCEPT !.Stats = NoStats]
           IN  Sound(U, q, f, c) /\ U.Entries = T.Entries /\ U.Stats = NoStats
<1> DEFINE U == [T EXCEPT !.Stats = NoStats]
<1>1. T \in TableType
    BY DEF Sound
<1>2. /\ U \in TableType /\ U.Entries = T.Entries /\ U.HashTable = T.HashTable
      /\ U.Stats = NoStats
    BY <1>1 DEF TableType, NoStats
<1> HIDE DEF U
<1>3. /\ NextLinks(U) = NextLinks(T) /\ PrevLinks(U) = PrevLinks(T)
      /\ SameHashLinks(U) = SameHashLinks(T) /\ HashOf(U) = HashOf(T)
      /\ StateOf(U) = StateOf(T) /\ CountOf(U) = CountOf(T)
    BY <1>2 DEF NextLinks, PrevLinks, SameHashLinks, HashOf, StateOf, CountOf
<1>4. LRUSound(U, q) /\ FreeSound(U, f) /\ ChainsSound(U, c) /\ Divided(U, Elements(q), f, c)
    BY <1>2, <1>3 DEF Sound, LRUSound, FreeSound, ChainsSound, Divided
<1>5. Sound(U, q, f, c)
    BY <1>2, <1>4 DEF Sound
<1> QED BY <1>2, <1>5 DEF U

\* The newest entry is the head of the list.
LEMMA Newest ==
    ASSUME NEW T, NEW q, NEW f, NEW c, Sound(T, q, f, c)
    PROVE  /\ T.Entries[Sentinel].NextLRU = IF q = <<>> THEN 0 ELSE q[1]
           /\ q # <<>> => q[1] # 0 /\ q[1] \in Elements(q)
<1>1. IsList(q, NextLinks(T), NextLinks(T)[Sentinel])
    BY DEF Sound, LRUSound
<1>2. NextLinks(T)[Sentinel] = T.Entries[Sentinel].NextLRU /\ Sentinel = 0
    BY Numbers DEF NextLinks
<1>3. q \in Seq(Indices \ {Sentinel}) /\ (q # <<>> => 1 \in 1 .. Len(q))
    BY <1>1 DEF IsList
<1> QED BY <1>1, <1>2, <1>3 DEF IsList, Elements

LEMMA InitIInv ==
    ASSUME Memory = {0}, Init
    PROVE  IInv
<1>1. Params \in Layouts /\ Table = PlaceGlyphTableInMemory(Params, 0) /\ State = NoState
    BY DEF Init
<1>2. PICK f, c : Sound(Table, <<>>, f, c)
    BY <1>1, PlacedSound
<1>3. WellFormed(Table)
    BY <1>2, TheLists
<1>4. Table.Entries[Sentinel].NextLRU = 0
    BY <1>2, Newest
<1>5. State \in StateType /\ State.ID = 0
    BY <1>1, Numbers DEF NoState, StateType
<1>6. TilesPlaced
    <2>1. ASSUME NEW e \in Indices
          PROVE  IsTileAt(TileOf(Table)[e], TileNumber(Params, e), Params.CacheTileCountInX)
        <3>1. IsTileAt(Table.Entries[e].GPUIndex, TileNumber(Params, e), Params.CacheTileCountInX)
            BY <1>1, PlacedTiles
        <3> QED BY <3>1 DEF TileOf
    <2> QED BY <2>1 DEF TilesPlaced
<1> QED BY <1>1, <1>3, <1>4, <1>5, <1>6 DEF IInv

\* A lookup: the lists afterwards, and what both tables agree on.
LookedUp(T, U, h, e) ==
    LET q == FromNewest(T)
        p == FromNewest(U)
    IN  /\ WellFormed(U) /\ TileOf(U) = TileOf(T)
        /\ p # <<>> /\ p[1] = e
        /\ \A x \in Elements(q), y \in Elements(p) : HashOf(T)[x] = HashOf(U)[y] => x = y

LEMMA LookupStep ==
    ASSUME NEW T, WellFormed(T), NEW h \in Nat
    PROVE  /\ Matches(T, h) # {} =>
                LET e == FirstMatch(T, h) IN LookedUp(T, BecomeNewest(LeaveLRU(T, e), e), h, e)
           /\ Matches(T, h) = {} =>
                LET e == FreeEntry(T) IN LookedUp(T, BecomeNewest(InsertHash(T, h), e), h, e)
<1> DEFINE q == FromNewest(T)
           f == FreeChain(T)
           c == Chains(T)
<1>1. Sound(T, q, f, c)
    BY DEF WellFormed
<1>2. /\ Elements(q) \subseteq Indices
      /\ \A x, y \in Elements(q) : HashOf(T)[x] = HashOf(T)[y] => x = y
    BY <1>1 DEF Sound, Divided
<1> HIDE DEF q, f, c
<1>3. ASSUME Matches(T, h) # {}
      PROVE  LET e == FirstMatch(T, h) IN LookedUp(T, BecomeNewest(LeaveLRU(T, e), e), h, e)
    <2> DEFINE e == FirstMatch(T, h)
               U == BecomeNewest(LeaveLRU(T, e), e)
    <2>1. PICK j \in 1 .. Len(q) :
            /\ e \in Indices \ {Sentinel}
            /\ Elements(Drop(q, j)) \cup {e} = Elements(q)
            /\ Sound(U, Push(e, Drop(q, j)), f, c)
            /\ SameStored(T, U, Indices)
        <3>1. AfterHit(T, U, q, f, c, h, e)
            BY <1>1, <1>3, HitFound
        <3> HIDE DEF e, U
        <3> QED BY <3>1 DEF AfterHit
    <2> DEFINE p == Push(e, Drop(q, j))
    <2> HIDE DEF e, U
    <2>2. FromNewest(U) = p /\ WellFormed(U)
        BY <2>1, TheLists
    <2>3. Drop(q, j) \in Seq(Indices \ {Sentinel})
        <3>1. q \in Seq(Indices \ {Sentinel})
            BY <1>1 DEF Sound, LRUSound, IsList
        <3> QED BY <3>1, Dropped
    <2>4. p # <<>> /\ p[1] = e /\ Elements(p) = Elements(q)
        <3>1. p # <<>> /\ Elements(p) = Elements(Drop(q, j)) \cup {e}
            BY <2>1, <2>3, PushedElements
        <3>2. p[1] = e
            BY <2>1, <2>3, Pushed
        <3> QED BY <3>1, <3>2, <2>1
    <2>5. \A x \in Elements(q), y \in Elements(p) : HashOf(T)[x] = HashOf(U)[y] => x = y
        BY <1>2, <2>1, <2>4 DEF SameStored
    <2> QED BY <2>1, <2>2, <2>4, <2>5 DEF LookedUp, SameStored, e, U, q
<1>4. ASSUME Matches(T, h) = {}
      PROVE  LET e == FreeEntry(T) IN LookedUp(T, BecomeNewest(InsertHash(T, h), e), h, e)
    <2> DEFINE e == FreeEntry(T)
               U == BecomeNewest(InsertHash(T, h), e)
    <2>1. PICK r, g, d :
            /\ e \in Indices \ {Sentinel}
            /\ Elements(r) \subseteq Elements(q)
            /\ \A x \in Elements(q) : HashOf(T)[x] # h
            /\ Sound(U, Push(e, r), g, d)
            /\ SameStored(T, U, Elements(r))
            /\ HashOf(U)[e] = h
            /\ r = q \/ (q # <<>> /\ r = Drop(q, Len(q)))
        <3>1. AfterMiss(T, U, q, f, h, e)
            BY <1>1, <1>4, MissInserted
        <3> HIDE DEF e, U
        <3>2. PICK r, g, d :
                /\ e \in Indices \ {Sentinel}
                /\ Elements(r) \subseteq Elements(q)
                /\ \A x \in Elements(q) : HashOf(T)[x] # h
                /\ Sound(U, Push(e, r), g, d)
                /\ SameStored(T, U, Elements(r))
                /\ HashOf(U)[e] = h
                /\ IF f # <<>> THEN r = q ELSE q # <<>> /\ r = Drop(q, Len(q))
            BY <3>1 DEF AfterMiss
        <3> QED BY <3>2
    <2> DEFINE p == Push(e, r)
    <2> HIDE DEF e, U
    <2>2. FromNewest(U) = p /\ WellFormed(U)
        BY <2>1, TheLists
    <2>3. r \in Seq(Indices \ {Sentinel})
        <3>1. q \in Seq(Indices \ {Sentinel}) /\ (q # <<>> => Len(q) \in 1 .. Len(q))
            BY <1>1 DEF Sound, LRUSound, IsList
        <3> QED BY <3>1, <2>1, Dropped
    <2>4. p # <<>> /\ p[1] = e /\ Elements(p) = Elements(r) \cup {e}
        <3>1. p # <<>> /\ Elements(p) = Elements(r) \cup {e}
            BY <2>1, <2>3, PushedElements
        <3>2. p[1] = e
            BY <2>1, <2>3, Pushed
        <3> QED BY <3>1, <3>2
    <2>5. \A x \in Elements(q), y \in Elements(p) : HashOf(T)[x] = HashOf(U)[y] => x = y
        BY <1>2, <2>1, <2>4 DEF SameStored
    <2> QED BY <2>1, <2>2, <2>4, <2>5 DEF LookedUp, SameStored, e, U, q
<1> QED BY <1>3, <1>4

\* Whatever table a step leaves, with the tiles and the newest entry in place,
\* has the rest of the invariant's tables.
LEMMA FindKeepsIInv ==
    ASSUME IInv, NEW h \in Hashes, FindGlyphEntryByHash(h)
    PROVE  IInv' /\ LookedUp(Table, Table', h, State'.ID)
<1> DEFINE e == IF Matches(Table, h) = {} THEN FreeEntry(Table) ELSE FirstMatch(Table, h)
<1>1. h \in Nat /\ WellFormed(Table)
    BY InputsAssumption DEF IInv
<1>2. /\ Table' = BecomeNewest(IF Matches(Table, h) = {} THEN InsertHash(Table, h)
                               ELSE LeaveLRU(Table, e), e)
      /\ State' = [ID |-> e,
                   TileCount |-> Table'.Entries[e].IndexCount,
                   GPUIndex |-> Table'.Entries[e].GPUIndex,
                   FilledState |-> Table'.Entries[e].FilledState]
      /\ Params' = Params
    BY DEF FindGlyphEntryByHash
<1>3. LookedUp(Table, Table', h, e)
    <2>1. CASE Matches(Table, h) = {}
        <3>1. LookedUp(Table, BecomeNewest(InsertHash(Table, h), FreeEntry(Table)), h, FreeEntry(Table))
            BY <1>1, <2>1, LookupStep
        <3> QED BY <3>1, <2>1, <1>2
    <2>2. CASE Matches(Table, h) # {}
        <3>1. LookedUp(Table, BecomeNewest(LeaveLRU(Table, FirstMatch(Table, h)), FirstMatch(Table, h)),
                       h, FirstMatch(Table, h))
            BY <1>1, <2>2, LookupStep
        <3> QED BY <3>1, <2>2, <1>2
    <2> QED BY <2>1, <2>2
<1> HIDE DEF e
<1>4. /\ WellFormed(Table') /\ TileOf(Table') = TileOf(Table)
      /\ FromNewest(Table') # <<>> /\ FromNewest(Table')[1] = e
    BY <1>3 DEF LookedUp
<1>5. PICK q, f, c : Sound(Table', q, f, c) /\ q = FromNewest(Table')
    BY <1>4 DEF WellFormed
<1>6. Table'.Entries[Sentinel].NextLRU = e /\ e \in Indices /\ Table' \in TableType
    <2>1. Table' \in TableType
        BY <1>5 DEF Sound
    <2>2. Table'.Entries[Sentinel].NextLRU = e
        BY <1>4, <1>5, Newest
    <2> QED BY <2>1, <2>2, Numbers DEF TableType, Entry
<1>7. State' \in StateType /\ State'.ID = e
    <2>1. Table'.Entries[e] \in Entry
        BY <1>6 DEF TableType
    <2> QED BY <2>1, <1>2, <1>6 DEF StateType, Entry
<1>8. TilesPlaced'
    BY <1>2, <1>4 DEF IInv, TilesPlaced
<1> QED BY <1>2, <1>3, <1>4, <1>6, <1>7, <1>8 DEF IInv

LEMMA UpdateKeepsIInv ==
    ASSUME IInv, NEW fill \in Fills, UpdateEntry(fill)
    PROVE  /\ IInv' /\ FromNewest(Table') = FromNewest(Table)
           /\ HashOf(Table') = HashOf(Table)
<1> DEFINE q == FromNewest(Table)
           f == FreeChain(Table)
           c == Chains(Table)
           v == fill[1]
           n == fill[2]
<1>1. v \in Nat /\ n \in Nat
    BY InputsAssumption
<1>2. Sound(Table, q, f, c)
    BY DEF IInv, WellFormed
<1>3. State.ID = (IF q = <<>> THEN 0 ELSE q[1]) /\ State.ID # 0
    BY <1>2, Newest DEF IInv, UpdateEntry
<1> HIDE DEF q, f, c, v, n
<1>4. q # <<>> /\ q[1] = State.ID
    BY <1>3
<1>5. Table' = UpdateGlyphCacheEntry(Table, q[1], v, n) /\ State' = State /\ Params' = Params
    BY <1>4 DEF UpdateEntry, v, n
<1>6. /\ Sound(Table', q, f, c) /\ HashOf(Table') = HashOf(Table)
      /\ TileOf(Table') = TileOf(Table)
    <2>1. AfterStore(Table, Table', q, f, c, v, n)
        BY <1>1, <1>2, <1>4, <1>5, Stored
    <2> QED BY <2>1 DEF AfterStore
<1>7. WellFormed(Table') /\ FromNewest(Table') = q
    BY <1>6, TheLists
<1>8. Table'.Entries[Sentinel].NextLRU = State'.ID
    BY <1>4, <1>5, <1>6, Newest
<1>9. TilesPlaced'
    BY <1>5, <1>6 DEF IInv, TilesPlaced
<1> QED BY <1>5, <1>6, <1>7, <1>8, <1>9 DEF IInv, q

LEMMA StatsKeepIInv ==
    ASSUME IInv, GetAndClearStats
    PROVE  /\ IInv' /\ FromNewest(Table') = FromNewest(Table)
           /\ HashOf(Table') = HashOf(Table)
<1> DEFINE q == FromNewest(Table)
           f == FreeChain(Table)
           c == Chains(Table)
<1>1. Sound(Table, q, f, c)
    BY DEF IInv, WellFormed
<1> HIDE DEF q, f, c
<1>2. Table' = [Table EXCEPT !.Stats = NoStats] /\ State' = State /\ Params' = Params
    BY DEF GetAndClearStats
<1>3. Sound(Table', q, f, c) /\ Table'.Entries = Table.Entries
    BY <1>1, <1>2, StatsTaken
<1>4. WellFormed(Table') /\ FromNewest(Table') = q
    BY <1>3, TheLists
<1>5. HashOf(Table') = HashOf(Table) /\ TileOf(Table') = TileOf(Table)
    BY <1>3 DEF HashOf, TileOf
<1>6. TilesPlaced'
    BY <1>2, <1>5 DEF IInv, TilesPlaced
<1> QED BY <1>2, <1>3, <1>4, <1>5, <1>6 DEF IInv, q

LEMMA StutterKeepsIInv ==
    ASSUME IInv, UNCHANGED vars
    PROVE  IInv'
BY DEF IInv, vars, WellFormed, TilesPlaced, Chains, FromNewest, FreeChain, HashChain

LEMMA InductiveInvariant ==
    ASSUME Memory = {0}
    PROVE  Spec => []IInv
<1>1. Init => IInv
    BY InitIInv
<1>2. IInv /\ [Next]_vars => IInv'
    <2> SUFFICES ASSUME IInv, [Next]_vars PROVE IInv'
        OBVIOUS
    <2>1. CASE \E h \in Hashes : FindGlyphEntryByHash(h)
        BY <2>1, FindKeepsIInv
    <2>2. CASE \E fill \in Fills : UpdateEntry(fill)
        BY <2>2, UpdateKeepsIInv
    <2>3. CASE GetAndClearStats
        BY <2>3, StatsKeepIInv
    <2>4. CASE UNCHANGED vars
        BY <2>4, StutterKeepsIInv
    <2> QED BY <2>1, <2>2, <2>3, <2>4 DEF Next
<1> QED BY <1>1, <1>2, PTL DEF Spec

(***************************************************************************)
(* The theorems                                                            *)
(***************************************************************************)

\* Type correctness: every link the cache follows is an index of an entry, in
\* memory that held zeros when the table was placed in it.
THEOREM TypeCorrect ==
    ASSUME Memory = {0}
    PROVE  Spec => []TypeOK
<1>1. IInv => TypeOK
    BY DEF IInv, WellFormed, Sound, TableType, TypeOK, StateType
<1> QED BY <1>1, InductiveInvariant, PTL

\* A sequence the other way round.
Backwards(q) == [k \in 1 .. Len(q) |-> q[Len(q) + 1 - k]]

LEMMA BackIsList ==
    ASSUME NEW q \in Seq(Indices \ {Sentinel}), NoDuplicates(q), NEW prev, NEW last,
           LeadsBack(q, prev, last)
    PROVE  IsList(Backwards(q), prev, last) /\ Len(Backwards(q)) = Len(q)
<1> DEFINE r == Backwards(q)
           n == Len(q)
<1>0. n \in Nat
    OBVIOUS
<1>1. \A k \in 1 .. n : n + 1 - k \in 1 .. n /\ r[k] = q[n + 1 - k]
    BY <1>0 DEF Backwards
<1>2. r \in [1 .. n -> Indices \ {Sentinel}]
    BY <1>0, <1>1 DEF Backwards
<1>3. r \in Seq(Indices \ {Sentinel}) /\ Len(r) = n
    BY <1>0, <1>2
<1> HIDE DEF r
<1>4. NoDuplicates(r)
    <2>1. ASSUME NEW j \in 1 .. Len(r), NEW k \in 1 .. Len(r), r[j] = r[k] PROVE j = k
        <3>1. /\ n + 1 - j \in 1 .. n /\ n + 1 - k \in 1 .. n
              /\ q[n + 1 - j] = q[n + 1 - k]
            BY <2>1, <1>1, <1>3
        <3>2. n + 1 - j = n + 1 - k
            BY <3>1 DEF NoDuplicates
        <3>3. j \in Int /\ k \in Int
            BY <1>0, <1>3
        <3> HIDE DEF n
        <3> QED BY <3>2, <3>3, <1>0
    <2> QED BY <2>1 DEF NoDuplicates
<1>5. last = IF r = <<>> THEN 0 ELSE r[1]
    <2>1. CASE n = 0
        <3>1. q = <<>> /\ r = <<>>
            BY <2>1, <1>3
        <3> QED BY <3>1 DEF LeadsBack
    <2>2. CASE n # 0
        <3>1. q # <<>> /\ r # <<>> /\ 1 \in 1 .. n /\ n + 1 - 1 = n
            BY <2>2, <1>0, <1>3
        <3> QED BY <3>1, <1>1 DEF LeadsBack
    <2> QED BY <2>1, <2>2
<1>6. ASSUME NEW k \in 1 .. n PROVE prev[r[k]] = IF k = n THEN 0 ELSE r[k + 1]
    <2> DEFINE m == n + 1 - k
    <2>1. m \in 1 .. n /\ r[k] = q[m]
        BY <1>1
    <2>2. prev[q[m]] = IF m = 1 THEN 0 ELSE q[m - 1]
        BY <2>1 DEF LeadsBack
    <2>3. m = 1 <=> k = n
        <3> HIDE DEF n
        <3> QED BY <1>0
    <2>4. k # n => k + 1 \in 1 .. n /\ n + 1 - (k + 1) = m - 1
        <3> HIDE DEF n
        <3> QED BY <1>0
    <2>5. k # n => r[k + 1] = q[m - 1]
        BY <2>4, <1>1
    <2> HIDE DEF m
    <2> QED BY <2>1, <2>2, <2>3, <2>5
<1> QED BY <1>3, <1>4, <1>5, <1>6 DEF IsList, r

\* The list RecycleLRU takes from the end of is the list the lookups build at
\* the front, the other way round.
THEOREM LRUListStaysSound ==
    ASSUME Memory = {0}
    PROVE  Spec => []LRUListSound
<1>1. IInv => LRUListSound
    <2> SUFFICES ASSUME IInv PROVE LRUListSound
        OBVIOUS
    <2> DEFINE q == FromNewest(Table)
    <2>1. LRUSound(Table, q)
        BY DEF IInv, WellFormed, Sound
    <2>2. q \in Seq(Indices \ {Sentinel}) /\ NoDuplicates(q)
          /\ LeadsBack(q, PrevLinks(Table), PrevLinks(Table)[Sentinel])
        BY <2>1 DEF LRUSound, IsList
    <2> HIDE DEF q
    <2>3. IsList(Backwards(q), PrevLinks(Table), PrevLinks(Table)[Sentinel])
          /\ Len(Backwards(q)) = Len(q)
        BY <2>2, BackIsList
    <2>4. PrevLinks(Table)[Sentinel] = Table.Entries[Sentinel].PrevLRU
        BY Numbers DEF PrevLinks
    <2>5. FromOldest(Table) = Backwards(q)
        BY <2>3, <2>4, WalkIsList DEF FromOldest
    <2>6. \A k \in 1 .. Len(q) : Backwards(q)[k] = q[Len(q) + 1 - k]
        BY DEF Backwards
    <2> QED BY <2>2, <2>3, <2>5, <2>6 DEF LRUListSound, q
<1> QED BY <1>1, InductiveInvariant, PTL

\* Every entry is free or in use, and an entry in use can be found: so the loops
\* over a chain end, and the one in RecycleLRU at the entry.
THEOREM ListsAlwaysPartition ==
    ASSUME Memory = {0}
    PROVE  Spec => []ListsPartitionEntries
<1>1. IInv => ListsPartitionEntries
    <2> SUFFICES ASSUME IInv PROVE ListsPartitionEntries
        OBVIOUS
    <2> DEFINE q == FromNewest(Table)
               f == FreeChain(Table)
               c == Chains(Table)
    <2>1. FreeSound(Table, f) /\ ChainsSound(Table, c) /\ Divided(Table, Elements(q), f, c)
        BY DEF IInv, WellFormed, Sound
    <2>2. NoDuplicates(f)
        BY <2>1 DEF FreeSound, IsList
    <2>3. /\ Elements(f) \cup Elements(q) = Indices \ {Sentinel}
          /\ Elements(f) \cap Elements(q) = {}
        BY <2>1 DEF Divided
    <2>4. ASSUME NEW s \in Slots
          PROVE  /\ NoDuplicates(HashChain(Table, s))
                 /\ Elements(HashChain(Table, s)) =
                        {e \in Elements(q) : SlotOf(Table.Entries[e].HashValue) = s}
        <3>1. c[s] = HashChain(Table, s)
            BY DEF Chains
        <3> HIDE DEF c
        <3>2. NoDuplicates(c[s]) /\ Elements(c[s]) = {e \in Elements(q) : SlotOf(HashOf(Table)[e]) = s}
            BY <2>1 DEF ChainsSound, IsList, Divided
        <3>3. \A e \in Elements(q) : HashOf(Table)[e] = Table.Entries[e].HashValue
            BY <2>3 DEF HashOf
        <3> QED BY <3>1, <3>2, <3>3
    <2> HIDE DEF q, f
    <2> QED BY <2>2, <2>3, <2>4 DEF ListsPartitionEntries, q, f
<1> QED BY <1>1, InductiveInvariant, PTL

\* A new glyph never gets an entry that holds another one's.
THEOREM FreeEntriesStayClean ==
    ASSUME Memory = {0}
    PROVE  Spec => []FreeEntryClean
<1>1. IInv => FreeEntryClean
    <2> SUFFICES ASSUME IInv PROVE FreeEntryClean
        OBVIOUS
    <2> DEFINE W == WithFreeEntry(Table)
               e == FreeEntry(Table)
               P == PopFreeEntry(Table)
               rest == W.Entries[e].NextWithSameHash
    <2>0. Sound(Table, FromNewest(Table), FreeChain(Table), Chains(Table))
        BY DEF IInv, WellFormed
    <2>1. PICK q, f, c : Sound(W, q, f, c) /\ f # <<>>
        <3>1. HasFree(Table, W, FromNewest(Table), FreeChain(Table))
            BY <2>0, FreeFound
        <3> HIDE DEF W
        <3> QED BY <3>1 DEF HasFree
    <2>2. /\ W \in TableType /\ f \in Seq(Indices \ {Sentinel})
          /\ SameHashLinks(W)[Sentinel] = f[1] /\ Divided(W, Elements(q), f, c)
        BY <2>1 DEF Sound, FreeSound, IsList
    <2>3. e = f[1] /\ Sentinel \in Indices
        BY <2>2, Numbers DEF SameHashLinks, FreeEntry
    <2>4. e \in Elements(f) /\ e \in Indices \ {Sentinel}
        BY <2>1, <2>2, <2>3 DEF Elements
    <2> HIDE DEF e, W
    <2>5. W.Entries[e].FilledState = 0 /\ W.Entries[e].IndexCount = 0
        BY <2>2, <2>4 DEF Divided, StateOf, CountOf
    <2>6. P = [W EXCEPT !.Entries[Sentinel].NextWithSameHash = rest,
                        !.Entries[e].NextWithSameHash = 0]
        BY DEF PopFreeEntry, W, e
    <2>7. W.Entries \in [Indices -> Entry]
        BY <2>2 DEF TableType
    <2> HIDE DEF P, rest
    <2>8. P.Entries[e].FilledState = 0 /\ P.Entries[e].IndexCount = 0
        <3>1. P.Entries = [W.Entries EXCEPT ![Sentinel].NextWithSameHash = rest,
                                            ![e].NextWithSameHash = 0]
            BY <2>2, <2>6 DEF TableType
        <3> HIDE DEF P
        <3> QED BY <3>1, <2>3, <2>4, <2>5, <2>7 DEF Entry
    <2> QED BY <2>4, <2>8 DEF FreeEntryClean, e, P
<1> QED BY <1>1, InductiveInvariant, PTL

\* As long as a glyph stays in the cache it stays in its entry.
THEOREM GlyphsKeepTheirEntry ==
    ASSUME Memory = {0}
    PROVE  Spec => GlyphKeepsEntry
<1> DEFINE Kept == \A p \in Holdings, q \in Holdings' : p[1] = q[1] => p[2] = q[2]
<1>1. ASSUME IInv, [Next]_vars PROVE Kept \/ UNCHANGED vars
    <2> DEFINE now == FromNewest(Table)
    <2>1. /\ Elements(now) \subseteq Indices
          /\ \A x, y \in Elements(now) : HashOf(Table)[x] = HashOf(Table)[y] => x = y
        BY <1>1 DEF IInv, WellFormed, Sound, Divided
    <2>2. IInv'
        BY <1>1, FindKeepsIInv, UpdateKeepsIInv, StatsKeepIInv, StutterKeepsIInv DEF Next
    <2>3. Elements(FromNewest(Table')) \subseteq Indices
        BY <2>2 DEF IInv, WellFormed, Sound, Divided
    <2>4. ASSUME \A x \in Elements(now), y \in Elements(FromNewest(Table')) :
                   HashOf(Table)[x] = HashOf(Table')[y] => x = y
          PROVE  Kept
        <3> SUFFICES ASSUME NEW p \in Holdings, NEW r \in Holdings', p[1] = r[1] PROVE p[2] = r[2]
            OBVIOUS
        <3>1. PICK x \in Elements(now) : p = <<Table.Entries[x].HashValue, x>>
            BY DEF Holdings
        <3>2. PICK y \in Elements(FromNewest(Table')) : r = <<Table'.Entries[y].HashValue, y>>
            BY DEF Holdings
        <3>3. HashOf(Table)[x] = Table.Entries[x].HashValue /\ HashOf(Table')[y] = Table'.Entries[y].HashValue
            BY <2>1, <2>3 DEF HashOf
        <3>4. HashOf(Table)[x] = HashOf(Table')[y]
            BY <3>1, <3>2, <3>3
        <3>5. x = y
            BY <2>4, <3>4
        <3> QED BY <3>1, <3>2, <3>5
    <2>5. ASSUME NEW h \in Hashes, FindGlyphEntryByHash(h) PROVE Kept
        <3>1. LookedUp(Table, Table', h, State'.ID)
            BY <1>1, <2>5, FindKeepsIInv
        <3> QED BY <3>1, <2>4 DEF LookedUp
    <2>6. ASSUME FromNewest(Table') = now, HashOf(Table') = HashOf(Table) PROVE Kept
        BY <2>1, <2>4, <2>6
    <2>7. ASSUME NEW fill \in Fills, UpdateEntry(fill) PROVE Kept
        BY <1>1, <2>6, <2>7, UpdateKeepsIInv
    <2>8. ASSUME GetAndClearStats PROVE Kept
        BY <1>1, <2>6, <2>8, StatsKeepIInv
    <2> HIDE DEF Kept
    <2> QED BY <1>1, <2>5, <2>7, <2>8 DEF Next
<1>2. IInv /\ [Next]_vars => [Kept]_vars
    BY <1>1
<1> HIDE DEF Kept
<1>3. Spec => [][Kept]_vars
    BY <1>2, InductiveInvariant, PTL DEF Spec
<1> QED BY <1>3, PTL DEF GlyphKeepsEntry, Kept

\* The tiles of the cache, the null tile, the direct glyphs and the others, fill
\* no more rows than a packed point can tell apart.
TilesFit ==
    \A p \in Layouts : p.ReservedTileCount + EntryCount <= Rows16 * p.CacheTileCountInX

\* No two glyphs share a tile of the texture, and none has a tile of the direct
\* glyphs, if the tiles are in 65536 rows: those of row 65536, whose number is cut
\* to 16 bits, would be the ones of row 0 again.
THEOREM TilesStayApart ==
    ASSUME Memory = {0}, TilesFit
    PROVE  Spec => []TilesApart
<1>1. IInv => TilesApart
    <2> SUFFICES ASSUME IInv PROVE TilesApart
        OBVIOUS
    <2> DEFINE w == Params.CacheTileCountInX
               r == Params.ReservedTileCount
    <2>1. /\ w \in Nat \ {0} /\ w <= 65536 /\ r \in Nat
          /\ EntryCount \in Nat /\ EntryCount >= 2
          /\ Rows16 * w \in Nat /\ r + EntryCount <= Rows16 * w
        <3>1. Params \in Layouts
            BY DEF IInv
        <3>2. /\ w \in Nat \ {0} /\ r \in Nat /\ EntryCount \in Nat /\ EntryCount >= 2
              /\ w <= 65536 /\ r + EntryCount <= Rows16 * w
            BY <3>1, ParamsAssumption, PackingAssumption DEF TilesFit
        <3>3. Rows16 * w \in Nat
            BY <3>2 DEF Rows16
        <3> QED BY <3>2, <3>3
    <2>2. \A e \in Indices : IsTileAt(Table.Entries[e].GPUIndex, TileNumber(Params, e), w)
        BY DEF IInv, TilesPlaced, TileOf
    <2>3. StartingTile(Params) = 1 + r
        BY DEF StartingTile
    <2> DEFINE direct == InitializeDirectGlyphTable(Params)
    <2>4. Len(direct) = r /\ \A k \in 1 .. r : IsTileAt(direct[k], k, w)
        <3>1. Len(direct) = r
            BY <2>1 DEF InitializeDirectGlyphTable, TileRun
        <3>2. ASSUME NEW k \in 1 .. r PROVE IsTileAt(direct[k], k, w)
            <4>1. direct = TileRun(1, 0, w, r)
                BY DEF InitializeDirectGlyphTable
            <4> HIDE DEF w, r, direct
            <4>2. IsTileAt(TileRun(1, 0, w, r)[k], 0 * w + 1 + (k - 1), w)
                BY <2>1, TilesInOrder
            <4>3. 0 * w + 1 + (k - 1) = k
                BY <2>1
            <4> QED BY <4>1, <4>2, <4>3
        <3> QED BY <3>1, <3>2
    <2> HIDE DEF w, r, direct
    <2>5. \A e \in Indices \ {Sentinel} :
            TileNumber(Params, e) = IF e < EntryCount - 1 THEN 1 + r + e ELSE 0
        BY <2>3 DEF TileNumber
    <2>6. ASSUME NEW e \in Indices \ {Sentinel}, NEW g \in Indices \ {Sentinel}, e # g
          PROVE  Table.Entries[e].GPUIndex # Table.Entries[g].GPUIndex
        <3>1. /\ TileNumber(Params, e) # TileNumber(Params, g)
              /\ TileNumber(Params, e) < Rows16 * w /\ TileNumber(Params, g) < Rows16 * w
            BY <2>1, <2>5, <2>6 DEF Indices, Sentinel
        <3> QED BY <3>1, <2>1, <2>2, OneNumber
    <2>7. ASSUME NEW e \in Indices \ {Sentinel}, Table.Entries[e].GPUIndex \in Elements(direct)
          PROVE  FALSE
        <3>1. PICK k \in 1 .. r : Table.Entries[e].GPUIndex = direct[k]
            BY <2>4, <2>7 DEF Elements
        <3>2. /\ TileNumber(Params, e) # k /\ k < Rows16 * w
              /\ TileNumber(Params, e) < Rows16 * w
            BY <2>1, <2>5 DEF Indices, Sentinel
        <3>3. IsTileAt(direct[k], TileNumber(Params, e), w)
            BY <2>2, <3>1
        <3> QED BY <2>1, <2>4, <3>2, <3>3, OneNumber
    <2> QED BY <2>6, <2>7 DEF TilesApart, direct
<1> QED BY <1>1, InductiveInvariant, PTL

(***************************************************************************)
(* The table is an LRU cache                                               *)
(***************************************************************************)

\* What LRUCache does to its sequence, in the terms of the lists.
LEMMA Sequences ==
    ASSUME NEW S, NEW s \in Seq(S), NEW h \in S
    PROVE  /\ <<h>> \o s = Push(h, s)
           /\ \A k \in 1 .. Len(s) : <<h>> \o Abstract!RemoveAt(s, k) = Push(h, Drop(s, k))
           /\ s # <<>> => <<h>> \o Abstract!Front(s) = Push(h, Drop(s, Len(s)))
<1>1. ASSUME NEW r \in Seq(S) PROVE <<h>> \o r = Push(h, r)
    BY DEF Push
<1>2. ASSUME NEW k \in 1 .. Len(s) PROVE Abstract!RemoveAt(s, k) = Drop(s, k)
    <2> DEFINE a == SubSeq(s, 1, k - 1)
               b == SubSeq(s, k + 1, Len(s))
               r == a \o b
    <2>1. Len(s) \in Nat /\ k \in Nat /\ k >= 1 /\ k <= Len(s)
        OBVIOUS
    <2>2. a \in Seq(S) /\ Len(a) = k - 1 /\ \A i \in 1 .. k - 1 : a[i] = s[i]
        BY <2>1
    <2>3. b \in Seq(S) /\ Len(b) = Len(s) - k /\ \A i \in 1 .. Len(s) - k : b[i] = s[k + i]
        <3>1. CASE k < Len(s)
            BY <2>1, <3>1
        <3>2. CASE k = Len(s)
            BY <2>1, <3>2
        <3> QED BY <2>1, <3>1, <3>2
    <2> HIDE DEF a, b
    <2>4. r \in Seq(S) /\ Len(r) = Len(s) - 1
        <3>0. a \in Seq(S) /\ b \in Seq(S)
            BY <2>2, <2>3
        <3>1. r \in Seq(S) /\ Len(r) = Len(a) + Len(b)
            BY <3>0
        <3>2. (k - 1) + (Len(s) - k) = Len(s) - 1
            BY <2>1
        <3> HIDE DEF r
        <3> QED BY <3>1, <3>2, <2>2, <2>3
    <2>5. ASSUME NEW i \in 1 .. Len(s) - 1 PROVE r[i] = IF i < k THEN s[i] ELSE s[i + 1]
        <3>1. CASE i < k
            <4>1. i \in 1 .. k - 1 /\ i \in 1 .. Len(a)
                BY <2>1, <2>2, <3>1
            <4>2. r[i] = a[i]
                BY <2>2, <2>3, <4>1
            <4> QED BY <2>2, <3>1, <4>1, <4>2
        <3>2. CASE ~ i < k
            <4>1. i - (k - 1) \in 1 .. Len(s) - k /\ k + (i - (k - 1)) = i + 1
                BY <2>1, <3>2
            <4>2. r[i] = b[i - (k - 1)]
                BY <2>1, <2>2, <2>3, <3>2
            <4> QED BY <2>3, <3>2, <4>1, <4>2
        <3> QED BY <3>1, <3>2
    <2> HIDE DEF r
    <2>6. r = [i \in 1 .. Len(s) - 1 |-> IF i < k THEN s[i] ELSE s[i + 1]]
        BY <2>1, <2>4, <2>5
    <2> QED BY <2>6 DEF Abstract!RemoveAt, Drop, r, a, b
<1>3. ASSUME s # <<>> PROVE Abstract!Front(s) = Drop(s, Len(s)) /\ Len(s) \in 1 .. Len(s)
    BY <1>3 DEF Abstract!Front, Drop
<1>4. \A k \in 1 .. Len(s) : Drop(s, k) \in Seq(S)
    BY Dropped
<1> QED BY <1>1, <1>2, <1>3, <1>4

\* A list is full when no entry is free.
LEMMA FullWhenNoneFree ==
    ASSUME NEW T, NEW q, NEW f, NEW c, Sound(T, q, f, c)
    PROVE  Len(q) = EntryCount - 1 <=> f = <<>>
<1> DEFINE n == EntryCount - 1
<1>0. n \in Nat /\ Indices \ {Sentinel} = 1 .. n
    BY ParamsAssumption DEF Indices, Sentinel
<1>1. /\ q \in Seq(Indices \ {Sentinel}) /\ NoDuplicates(q)
      /\ f \in Seq(Indices \ {Sentinel})
    BY DEF Sound, LRUSound, FreeSound, IsList
<1>2. Elements(f) \cap Elements(q) = {} /\ Elements(f) \cup Elements(q) = Indices \ {Sentinel}
    BY DEF Sound, Divided
<1>3. Len(q) \in 0 .. n
    BY <1>1, ListIsShort
<1>4. ASSUME f # <<>> PROVE Len(q) # n
    <2>1. f[1] \in Elements(f) /\ f[1] \in Indices \ {Sentinel}
        BY <1>1, <1>4 DEF Elements
    <2>2. f[1] \notin Elements(q)
        BY <1>2, <2>1
    <2> DEFINE e == f[1]
               r == Push(e, q)
    <2> HIDE DEF e
    <2>3. e \in Indices \ {Sentinel} /\ e \notin Elements(q)
        BY <2>1, <2>2 DEF e
    <2>4. r \in Seq(Indices \ {Sentinel}) /\ Len(r) = Len(q) + 1 /\ NoDuplicates(r)
        BY <1>1, <2>3, Pushed
    <2> HIDE DEF r
    <2>5. Len(r) \in 0 .. n
        BY <2>4, ListIsShort
    <2> HIDE DEF n
    <2> QED BY <1>0, <1>3, <2>4, <2>5
<1>5. ASSUME f = <<>>, Len(q) # n PROVE FALSE
    <2>1. Elements(f) = {}
        BY <1>5 DEF Elements
    <2>2. \A e \in 1 .. n : \E k \in 1 .. Len(q) : q[k] = e
        BY <1>0, <1>2, <2>1 DEF Elements
    <2> DEFINE at == [e \in 1 .. n |-> CHOOSE k \in 1 .. Len(q) : q[k] = e]
    <2>3. \A e \in 1 .. n : at[e] \in 1 .. Len(q) /\ q[at[e]] = e
        BY <2>2
    <2>4. at \in [1 .. n -> 1 .. Len(q)]
        BY <2>3
    <2> HIDE DEF at, n
    <2>5. \A m \in Nat : IsFiniteSet(1 .. m) /\ Cardinality(1 .. m) = m
        <3>1. ASSUME NEW m \in Nat PROVE IsFiniteSet(1 .. m) /\ Cardinality(1 .. m) = m
            <4>1. 1 \in Int /\ m \in Int
                OBVIOUS
            <4>2. IsFiniteSet(1 .. m) /\ Cardinality(1 .. m) = IF 1 > m THEN 0 ELSE m - 1 + 1
                BY <4>1, FS_Interval
            <4> QED BY <4>2
        <3> QED BY <3>1
    <2>6. Len(q) \in Nat /\ Len(q) < n
        BY <1>0, <1>3, <1>5
    <2>7. /\ IsFiniteSet(1 .. n) /\ Cardinality(1 .. n) = n
          /\ IsFiniteSet(1 .. Len(q)) /\ Cardinality(1 .. Len(q)) = Len(q)
        BY <1>0, <2>5, <2>6
    <2>8. \E x, y \in 1 .. n : x # y /\ at[x] = at[y]
        BY <2>4, <2>6, <2>7, FS_PigeonHole
    <2> QED BY <2>3, <2>8
<1> QED BY <1>4, <1>5

\* The hashes of a list of entries.
HashSeq(T, q) == [k \in 1 .. Len(q) |-> HashOf(T)[q[k]]]
HashSet(T, U) == {HashOf(T)[e] : e \in U}

\* The function g gives what the entries U store, by hash.
IsInfo(T, U, g) ==
    /\ g = [h \in HashSet(T, U) |-> g[h]]
    /\ \A e \in U : g[HashOf(T)[e]] = <<StateOf(T)[e], CountOf(T)[e]>>

RecentOf(T) ==
    LET newest == FromNewest(T)
    IN  [k \in 1 .. Len(newest) |-> T.Entries[newest[k]].HashValue]

InfoOf(T) ==
    LET used == Elements(FromNewest(T))
    IN  [h \in {T.Entries[e].HashValue : e \in used} |->
           LET e == CHOOSE e \in used : T.Entries[e].HashValue = h
           IN  <<T.Entries[e].FilledState, T.Entries[e].IndexCount>>]

\* The table as LRUCache sees it.
LEMMA View ==
    ASSUME NEW T, NEW q, NEW f, NEW c, Sound(T, q, f, c)
    PROVE  RecentOf(T) = HashSeq(T, q) /\ IsInfo(T, Elements(q), InfoOf(T))
<1>1. FromNewest(T) = q
    BY TheLists
<1>2. q \in Seq(Indices \ {Sentinel}) /\ Elements(q) \subseteq Indices
      /\ \A x, y \in Elements(q) : HashOf(T)[x] = HashOf(T)[y] => x = y
    BY DEF Sound, LRUSound, IsList, Divided
<1>3. \A k \in 1 .. Len(q) : q[k] \in Indices
    BY <1>2
<1>4. RecentOf(T) = HashSeq(T, q)
    BY <1>1, <1>3 DEF RecentOf, HashSeq, HashOf
<1> DEFINE used == Elements(q)
<1>5. \A e \in used : /\ T.Entries[e].HashValue = HashOf(T)[e]
                      /\ T.Entries[e].FilledState = StateOf(T)[e]
                      /\ T.Entries[e].IndexCount = CountOf(T)[e]
    BY <1>2 DEF HashOf, StateOf, CountOf
<1> DEFINE g == InfoOf(T)
           V(h) == LET e == CHOOSE e \in used : T.Entries[e].HashValue = h
                   IN  <<T.Entries[e].FilledState, T.Entries[e].IndexCount>>
<1>6. g = [h \in {T.Entries[e].HashValue : e \in used} |-> V(h)]
    BY <1>1 DEF InfoOf
<1> HIDE DEF g, used
<1>7. {T.Entries[e].HashValue : e \in used} = HashSet(T, used)
    BY <1>5 DEF HashSet
<1>8. ASSUME NEW x \in used PROVE V(HashOf(T)[x]) = <<StateOf(T)[x], CountOf(T)[x]>>
    <2> DEFINE d == CHOOSE e \in used : T.Entries[e].HashValue = HashOf(T)[x]
    <2>1. d \in used /\ T.Entries[d].HashValue = HashOf(T)[x]
        BY <1>5
    <2>2. V(HashOf(T)[x]) = <<T.Entries[d].FilledState, T.Entries[d].IndexCount>>
        OBVIOUS
    <2> HIDE DEF d, V
    <2>3. d = x
        BY <1>2, <1>5, <2>1 DEF used
    <2> QED BY <1>5, <2>2, <2>3
<1> HIDE DEF V
<1>9. \A x \in used : g[HashOf(T)[x]] = V(HashOf(T)[x])
    BY <1>6, <1>7 DEF HashSet
<1>10. g = [h \in HashSet(T, used) |-> g[h]]
    BY <1>6, <1>7
<1> QED BY <1>4, <1>8, <1>9, <1>10 DEF IsInfo, g, used

LEMMA HashesInSequence ==
    ASSUME NEW T \in TableType, NEW q \in Seq(Indices \ {Sentinel})
    PROVE  /\ HashSeq(T, q) \in Seq(Nat) /\ Len(HashSeq(T, q)) = Len(q)
           /\ \A k \in 1 .. Len(q) : HashSeq(T, q)[k] = HashOf(T)[q[k]]
           /\ Abstract!ToSet(HashSeq(T, q)) = HashSet(T, Elements(q))
<1> DEFINE s == HashSeq(T, q)
<1>1. \A k \in 1 .. Len(q) : HashOf(T)[q[k]] \in Nat
    BY LinkTypes
<1>2. s \in [1 .. Len(q) -> Nat] /\ Len(q) \in Nat
    BY <1>1 DEF HashSeq
<1>3. s \in Seq(Nat) /\ Len(s) = Len(q) /\ DOMAIN s = 1 .. Len(q)
    BY <1>2
<1>4. \A k \in 1 .. Len(q) : s[k] = HashOf(T)[q[k]]
    BY DEF HashSeq
<1> HIDE DEF s
<1>5. Abstract!ToSet(s) = HashSet(T, Elements(q))
    <2>1. Abstract!ToSet(s) = {s[k] : k \in 1 .. Len(q)}
        BY <1>3 DEF Abstract!ToSet
    <2>2. \A h \in HashSet(T, Elements(q)) : \E k \in 1 .. Len(q) : h = HashOf(T)[q[k]]
        BY DEF HashSet, Elements
    <2>3. \A k \in 1 .. Len(q) : HashOf(T)[q[k]] \in HashSet(T, Elements(q))
        BY DEF HashSet, Elements
    <2> QED BY <1>4, <2>1, <2>2, <2>3
<1> QED BY <1>3, <1>4, <1>5 DEF s

LEMMA HashesOfPush ==
    ASSUME NEW T \in TableType, NEW q \in Seq(Indices \ {Sentinel}), NEW e
    PROVE  HashSeq(T, Push(e, q)) = Push(HashOf(T)[e], HashSeq(T, q))
<1>1. Len(q) \in Nat /\ Len(Push(e, q)) = Len(q) + 1 /\ Len(HashSeq(T, q)) = Len(q)
    BY DEF Push, HashSeq
<1>2. ASSUME NEW k \in 1 .. Len(q) + 1
      PROVE  HashOf(T)[Push(e, q)[k]] = IF k = 1 THEN HashOf(T)[e] ELSE HashSeq(T, q)[k - 1]
    <2>1. Push(e, q)[k] = IF k = 1 THEN e ELSE q[k - 1]
        BY DEF Push
    <2>2. k # 1 => k - 1 \in 1 .. Len(q)
        BY <1>1
    <2>3. k # 1 => HashSeq(T, q)[k - 1] = HashOf(T)[q[k - 1]]
        BY <2>2 DEF HashSeq
    <2> QED BY <2>1, <2>3
<1>3. HashSeq(T, Push(e, q)) = [k \in 1 .. Len(q) + 1 |-> HashOf(T)[Push(e, q)[k]]]
    BY <1>1 DEF HashSeq
<1>4. Push(HashOf(T)[e], HashSeq(T, q)) =
        [k \in 1 .. Len(q) + 1 |-> IF k = 1 THEN HashOf(T)[e] ELSE HashSeq(T, q)[k - 1]]
    BY <1>1 DEF Push
<1> QED BY <1>2, <1>3, <1>4

LEMMA HashesOfDrop ==
    ASSUME NEW T \in TableType, NEW q \in Seq(Indices \ {Sentinel}), NEW j \in 1 .. Len(q)
    PROVE  HashSeq(T, Drop(q, j)) = Drop(HashSeq(T, q), j)
<1>1. /\ Len(q) \in Nat /\ Len(q) - 1 \in Nat /\ j \in Nat
      /\ Len(HashSeq(T, q)) = Len(q)
    BY DEF HashSeq
<1>2. Len(Drop(q, j)) = Len(q) - 1
    BY <1>1 DEF Drop
<1>3. ASSUME NEW k \in 1 .. Len(q) - 1
      PROVE  HashOf(T)[Drop(q, j)[k]] = IF k < j THEN HashSeq(T, q)[k] ELSE HashSeq(T, q)[k + 1]
    <2>1. Drop(q, j)[k] = IF k < j THEN q[k] ELSE q[k + 1]
        BY DEF Drop
    <2>2. k \in 1 .. Len(q) /\ k + 1 \in 1 .. Len(q)
        BY <1>1
    <2>3. HashSeq(T, q)[k] = HashOf(T)[q[k]] /\ HashSeq(T, q)[k + 1] = HashOf(T)[q[k + 1]]
        BY <2>2 DEF HashSeq
    <2> QED BY <2>1, <2>3
<1>4. HashSeq(T, Drop(q, j)) = [k \in 1 .. Len(q) - 1 |-> HashOf(T)[Drop(q, j)[k]]]
    BY <1>2 DEF HashSeq
<1>5. Drop(HashSeq(T, q), j) =
        [k \in 1 .. Len(q) - 1 |-> IF k < j THEN HashSeq(T, q)[k] ELSE HashSeq(T, q)[k + 1]]
    BY <1>1 DEF Drop
<1> QED BY <1>3, <1>4, <1>5

\* Tables that agree on the entries of a list have its hashes in common.
LEMMA HashesKept ==
    ASSUME NEW T, NEW U, NEW q, \A x \in Elements(q) : HashOf(U)[x] = HashOf(T)[x]
    PROVE  HashSeq(U, q) = HashSeq(T, q)
BY DEF HashSeq, Elements

\* What is stored by hash is one function.
LEMMA OneInfo ==
    ASSUME NEW T, NEW U, NEW V, NEW g, NEW i, IsInfo(T, V, g), IsInfo(U, V, i),
           SameStored(T, U, V)
    PROVE  g = i
<1>1. HashSet(T, V) = HashSet(U, V)
    BY DEF SameStored, HashSet
<1>2. ASSUME NEW h \in HashSet(T, V) PROVE g[h] = i[h]
    <2>1. PICK x \in V : h = HashOf(T)[x]
        BY DEF HashSet
    <2>2. g[HashOf(T)[x]] = <<StateOf(T)[x], CountOf(T)[x]>>
        BY DEF IsInfo
    <2>3. i[HashOf(U)[x]] = <<StateOf(U)[x], CountOf(U)[x]>>
        BY DEF IsInfo
    <2> QED BY <2>1, <2>2, <2>3 DEF SameStored
<1>3. g = [h \in HashSet(T, V) |-> g[h]] /\ i = [h \in HashSet(U, V) |-> i[h]]
    BY DEF IsInfo
<1> QED BY <1>1, <1>2, <1>3

LEMMA Views ==
    /\ RecentHashes = RecentOf(Table) /\ RecentHashes' = RecentOf(Table')
    /\ StoredInfo = InfoOf(Table) /\ StoredInfo' = InfoOf(Table')
BY DEF RecentHashes, StoredInfo, RecentOf, InfoOf

LEMMA HitImplemented ==
    ASSUME IInv, NEW h \in Hashes, FindGlyphEntryByHash(h), Matches(Table, h) # {}
    PROVE  Abstract!Hit(h)
<1> DEFINE e == FirstMatch(Table, h)
           q == FromNewest(Table)
           f == FreeChain(Table)
           c == Chains(Table)
           s == HashSeq(Table, q)
<1>1. h \in Nat /\ Sound(Table, q, f, c)
    BY InputsAssumption DEF IInv, WellFormed
<1>2. /\ Table' = BecomeNewest(LeaveLRU(Table, e), e)
      /\ State'.TileCount = Table'.Entries[e].IndexCount
      /\ State'.FilledState = Table'.Entries[e].FilledState
    BY DEF FindGlyphEntryByHash
<1>3. AfterHit(Table, Table', q, f, c, h, e)
    <2> HIDE DEF q, f, c
    <2>1. LET d == FirstMatch(Table, h)
              B == BecomeNewest(LeaveLRU(Table, d), d)
          IN  AfterHit(Table, B, q, f, c, h, d)
        BY <1>1, HitFound
    <2> QED BY <1>2, <2>1
<1> HIDE DEF e, q, f, c
<1>4. PICK j \in 1 .. Len(q) :
        /\ q[j] = e /\ HashOf(Table)[e] = h
        /\ e \in Indices \ {Sentinel}
        /\ Elements(Drop(q, j)) \cup {e} = Elements(q)
        /\ Sound(Table', Push(e, Drop(q, j)), f, c)
        /\ SameStored(Table, Table', Indices)
        /\ Table'.Stats = [Table.Stats EXCEPT !.HitCount = @ + 1]
    BY <1>3 DEF AfterHit
<1> DEFINE p == Drop(q, j)
           r == Push(e, p)
<1>5. /\ Table \in TableType /\ q \in Seq(Indices \ {Sentinel})
      /\ Table' \in TableType /\ Elements(q) \subseteq Indices
    BY <1>1, <1>4 DEF Sound, LRUSound, IsList, Divided
<1>6. p \in Seq(Indices \ {Sentinel})
    BY <1>5, Dropped
<1>7. Elements(r) = Elements(q)
    BY <1>4, <1>6, PushedElements
<1>8. RecentHashes = s
    BY <1>1, View, Views
<1>9. s \in Seq(Nat) /\ Len(s) = Len(q) /\ s[j] = h
    BY <1>4, <1>5, HashesInSequence
<1>10. RecentHashes' = <<h>> \o Abstract!RemoveAt(s, j)
    <2> HIDE DEF p
    <2>1. RecentHashes' = HashSeq(Table', r)
        BY <1>4, View, Views DEF p
    <2>2. HashSeq(Table', r) = Push(HashOf(Table')[e], HashSeq(Table', p))
        BY <1>5, <1>6, HashesOfPush
    <2>3. HashOf(Table')[e] = h
        BY <1>4 DEF SameStored
    <2>4. HashSeq(Table', p) = HashSeq(Table, p)
        <3>1. \A x \in Elements(p) : HashOf(Table')[x] = HashOf(Table)[x]
            BY <1>4, <1>5 DEF SameStored, p
        <3> QED BY <3>1, HashesKept
    <2>5. HashSeq(Table, p) = Drop(s, j)
        BY <1>5, HashesOfDrop DEF p
    <2> HIDE DEF s, r
    <2>6. <<h>> \o Abstract!RemoveAt(s, j) = Push(h, Drop(s, j))
        BY <1>1, <1>9, Sequences
    <2> QED BY <2>1, <2>2, <2>3, <2>4, <2>5, <2>6
<1>11. IsInfo(Table, Elements(q), StoredInfo) /\ IsInfo(Table', Elements(q), StoredInfo')
    <2>1. IsInfo(Table, Elements(q), StoredInfo)
        BY <1>1, View, Views
    <2>2. IsInfo(Table', Elements(r), StoredInfo')
        BY <1>4, View, Views
    <2> QED BY <2>1, <2>2, <1>7
<1>12. StoredInfo' = StoredInfo
    <2>1. SameStored(Table, Table', Elements(q))
        BY <1>4, <1>5 DEF SameStored
    <2> QED BY <1>11, <2>1, OneInfo
<1>13. <<State.FilledState, State.TileCount>>' = StoredInfo[h]
    <2>1. e \in Elements(q)
        BY <1>4
    <2>2. StoredInfo[h] = <<StateOf(Table)[e], CountOf(Table)[e]>>
        BY <1>4, <1>11, <2>1 DEF IsInfo
    <2>3. StateOf(Table')[e] = StateOf(Table)[e] /\ CountOf(Table')[e] = CountOf(Table)[e]
        BY <1>4 DEF SameStored
    <2>4. /\ StateOf(Table')[e] = Table'.Entries[e].FilledState
          /\ CountOf(Table')[e] = Table'.Entries[e].IndexCount
        BY <1>4 DEF StateOf, CountOf
    <2> QED BY <1>2, <2>2, <2>3, <2>4
<1> HIDE DEF s, p, r
<1>14. j \in 1 .. Len(RecentHashes) /\ RecentHashes[j] = h
    BY <1>4, <1>8, <1>9
<1>15. RecentHashes' = <<h>> \o Abstract!RemoveAt(RecentHashes, j)
    BY <1>8, <1>10
<1> QED BY <1>4, <1>12, <1>13, <1>14, <1>15 DEF Abstract!Hit

LEMMA MissImplemented ==
    ASSUME IInv, NEW h \in Hashes, FindGlyphEntryByHash(h), Matches(Table, h) = {}
    PROVE  Abstract!Miss(h)
<1> DEFINE e == FreeEntry(Table)
           q == FromNewest(Table)
           f == FreeChain(Table)
           c == Chains(Table)
           s == HashSeq(Table, q)
<1>1. h \in Nat /\ Sound(Table, q, f, c)
    BY InputsAssumption DEF IInv, WellFormed
<1>2. /\ Table' = BecomeNewest(InsertHash(Table, h), e)
      /\ State'.TileCount = Table'.Entries[e].IndexCount
      /\ State'.FilledState = Table'.Entries[e].FilledState
    BY DEF FindGlyphEntryByHash
<1>3. AfterMiss(Table, Table', q, f, h, e)
    <2> HIDE DEF q, f, c
    <2>1. LET d == FreeEntry(Table)
              B == BecomeNewest(InsertHash(Table, h), d)
          IN  AfterMiss(Table, B, q, f, h, d)
        BY <1>1, MissInserted
    <2> QED BY <1>2, <2>1
<1> HIDE DEF e, q, f, c
<1>4. PICK p, g, d :
        /\ e \in Indices \ {Sentinel} /\ Elements(p) \subseteq Elements(q)
        /\ \A x \in Elements(q) : HashOf(Table)[x] # h
        /\ Sound(Table', Push(e, p), g, d)
        /\ SameStored(Table, Table', Elements(p))
        /\ HashOf(Table')[e] = h /\ StateOf(Table')[e] = 0 /\ CountOf(Table')[e] = 0
        /\ IF f # <<>> THEN /\ p = q
                            /\ Table'.Stats = [Table.Stats EXCEPT !.MissCount = @ + 1]
           ELSE /\ q # <<>> /\ p = Drop(q, Len(q))
                /\ Table'.Stats = [Table.Stats EXCEPT !.MissCount = @ + 1, !.RecycleCount = @ + 1]
    BY <1>3 DEF AfterMiss
<1> DEFINE r == Push(e, p)
           full == Len(s) = EntryCount - 1
<1>5. /\ Table \in TableType /\ q \in Seq(Indices \ {Sentinel})
      /\ Table' \in TableType /\ Elements(q) \subseteq Indices
    BY <1>1, <1>4 DEF Sound, LRUSound, IsList, Divided
<1>6. p \in Seq(Indices \ {Sentinel})
    <2>1. CASE f # <<>>
        BY <1>4, <1>5, <2>1
    <2>2. CASE f = <<>>
        <3>1. Len(q) \in 1 .. Len(q) /\ p = Drop(q, Len(q))
            BY <1>4, <1>5, <2>2
        <3> QED BY <1>5, <3>1, Dropped
    <2> QED BY <2>1, <2>2
<1>7. Elements(r) = Elements(p) \cup {e} /\ r \in Seq(Indices \ {Sentinel})
    BY <1>4, <1>6, PushedElements
<1>8. RecentHashes = s
    BY <1>1, View, Views
<1>9. s \in Seq(Nat) /\ Len(s) = Len(q) /\ Abstract!ToSet(s) = HashSet(Table, Elements(q))
    BY <1>5, HashesInSequence
<1>10. full <=> f = <<>>
    BY <1>1, <1>9, FullWhenNoneFree
<1> HIDE DEF r
<1>11. RecentHashes' = HashSeq(Table', r)
    BY <1>4, View, Views DEF r
<1>12. RecentHashes' = <<h>> \o (IF full THEN Abstract!Front(s) ELSE s)
    <2>1. HashSeq(Table', r) = Push(HashOf(Table')[e], HashSeq(Table', p))
        BY <1>5, <1>6, HashesOfPush DEF r
    <2>2. HashSeq(Table', p) = HashSeq(Table, p)
        <3>1. \A x \in Elements(p) : HashOf(Table')[x] = HashOf(Table)[x]
            BY <1>4 DEF SameStored
        <3> QED BY <3>1, HashesKept
    <2>3. RecentHashes' = Push(h, HashSeq(Table, p))
        BY <1>4, <1>11, <2>1, <2>2
    <2>4. CASE f # <<>>
        <3>1. HashSeq(Table, p) = s
            BY <1>4, <2>4
        <3> HIDE DEF s, full
        <3>2. <<h>> \o s = Push(h, s)
            BY <1>1, <1>9, Sequences
        <3> QED BY <1>10, <2>3, <2>4, <3>1, <3>2
    <2>5. CASE f = <<>>
        <3>1. q # <<>> /\ Len(q) \in 1 .. Len(q) /\ p = Drop(q, Len(q))
            BY <1>4, <1>5, <2>5
        <3>2. HashSeq(Table, p) = Drop(s, Len(s))
            BY <1>5, <1>9, <3>1, HashesOfDrop
        <3> HIDE DEF s, full
        <3>3. s # <<>>
            BY <1>9, <3>1
        <3>4. <<h>> \o Abstract!Front(s) = Push(h, Drop(s, Len(s)))
            BY <1>1, <1>9, <3>3, Sequences
        <3> QED BY <1>10, <2>3, <2>5, <3>2, <3>4
    <2> QED BY <2>4, <2>5
<1> HIDE DEF s, full
<1>13. h \notin Abstract!ToSet(RecentHashes)
    BY <1>4, <1>8, <1>9 DEF HashSet
<1>14. Abstract!ToSet(RecentHashes') = HashSet(Table', Elements(r))
    BY <1>5, <1>7, <1>11, HashesInSequence
<1>15. IsInfo(Table, Elements(q), StoredInfo)
    BY <1>1, View, Views
<1>16. IsInfo(Table', Elements(r), StoredInfo')
    BY <1>4, View, Views DEF r
<1>17. StoredInfo' = [x \in Abstract!ToSet(RecentHashes') |->
                        IF x = h THEN <<0, 0>> ELSE StoredInfo[x]]
    <2>1. StoredInfo' = [x \in HashSet(Table', Elements(r)) |-> StoredInfo'[x]]
        BY <1>16 DEF IsInfo
    <2>2. ASSUME NEW x \in HashSet(Table', Elements(r))
          PROVE  StoredInfo'[x] = IF x = h THEN <<0, 0>> ELSE StoredInfo[x]
        <3>1. PICK y \in Elements(r) : x = HashOf(Table')[y]
            BY DEF HashSet
        <3>2. StoredInfo'[x] = <<StateOf(Table')[y], CountOf(Table')[y]>>
            BY <1>16, <3>1 DEF IsInfo
        <3>3. CASE y = e
            BY <1>4, <3>1, <3>2, <3>3
        <3>4. CASE y # e
            <4>1. y \in Elements(p) /\ y \in Elements(q)
                BY <1>4, <1>7, <3>1, <3>4
            <4>2. /\ HashOf(Table')[y] = HashOf(Table)[y]
                  /\ StateOf(Table')[y] = StateOf(Table)[y]
                  /\ CountOf(Table')[y] = CountOf(Table)[y]
                BY <1>4, <4>1 DEF SameStored
            <4>3. StoredInfo[HashOf(Table)[y]] = <<StateOf(Table)[y], CountOf(Table)[y]>>
                BY <1>15, <4>1 DEF IsInfo
            <4>4. x # h
                BY <1>4, <3>1, <4>1, <4>2
            <4> QED BY <3>1, <3>2, <4>2, <4>3, <4>4
        <3> QED BY <3>3, <3>4
    <2> QED BY <1>14, <2>1, <2>2
<1>18. <<State.FilledState, State.TileCount>>' = <<0, 0>>
    BY <1>2, <1>4 DEF StateOf, CountOf
<1>19. Table'.Stats = [Table.Stats EXCEPT !.MissCount = @ + 1,
                                          !.RecycleCount = IF full THEN @ + 1 ELSE @]
    <2>1. Table.Stats \in [HitCount : Nat, MissCount : Nat, RecycleCount : Nat]
        BY <1>5 DEF TableType
    <2>2. CASE full
        BY <1>4, <1>10, <2>2
    <2>3. CASE ~ full
        <3>1. Table'.Stats = [Table.Stats EXCEPT !.MissCount = @ + 1]
            BY <1>4, <1>10, <2>3
        <3> QED BY <2>1, <2>3, <3>1
    <2> QED BY <2>2, <2>3
<1>20. full = (Len(RecentHashes) = EntryCount - 1)
    BY <1>8 DEF full
<1>21. RecentHashes' = <<h>> \o (IF full THEN Abstract!Front(RecentHashes) ELSE RecentHashes)
    BY <1>8, <1>12
<1> QED BY <1>13, <1>17, <1>18, <1>19, <1>20, <1>21 DEF Abstract!Miss, Abstract!Remembered, Abstract!Empty

LEMMA StoreImplemented ==
    ASSUME IInv, NEW fill \in Fills, UpdateEntry(fill)
    PROVE  Abstract!Store(fill)
<1> DEFINE q == FromNewest(Table)
           f == FreeChain(Table)
           c == Chains(Table)
           v == fill[1]
           n == fill[2]
           s == HashSeq(Table, q)
<1>1. v \in Nat /\ n \in Nat /\ fill = <<v, n>>
    BY InputsAssumption
<1>2. Sound(Table, q, f, c)
    BY DEF IInv, WellFormed
<1>3. State.ID = (IF q = <<>> THEN 0 ELSE q[1]) /\ State.ID # 0
    BY <1>2, Newest DEF IInv, UpdateEntry
<1> HIDE DEF q, f, c, v, n
<1>4. q # <<>> /\ q[1] = State.ID
    BY <1>3
<1>5. Table' = UpdateGlyphCacheEntry(Table, q[1], v, n) /\ State' = State
    BY <1>4 DEF UpdateEntry, v, n
<1>6. /\ Sound(Table', q, f, c) /\ HashOf(Table') = HashOf(Table)
      /\ Table'.Stats = Table.Stats
      /\ \A x \in Indices : /\ StateOf(Table')[x] = IF x = q[1] THEN v ELSE StateOf(Table)[x]
                            /\ CountOf(Table')[x] = IF x = q[1] THEN n ELSE CountOf(Table)[x]
    <2>1. AfterStore(Table, Table', q, f, c, v, n)
        BY <1>1, <1>2, <1>4, <1>5, Stored
    <2> QED BY <2>1 DEF AfterStore
<1>7. /\ Table \in TableType /\ q \in Seq(Indices \ {Sentinel})
      /\ Elements(q) \subseteq Indices
      /\ \A x, y \in Elements(q) : HashOf(Table)[x] = HashOf(Table)[y] => x = y
    BY <1>2 DEF Sound, LRUSound, IsList, Divided
<1>8. RecentHashes = s /\ RecentHashes' = HashSeq(Table', q)
    BY <1>2, <1>6, View, Views
<1>9. RecentHashes' = RecentHashes
    BY <1>6, <1>8 DEF HashSeq
<1>10. 1 \in 1 .. Len(q) /\ q[1] \in Elements(q)
    BY <1>4, <1>7 DEF Elements
<1>11. s \in Seq(Nat) /\ Len(s) = Len(q) /\ s[1] = HashOf(Table)[q[1]]
    BY <1>7, <1>10, HashesInSequence
<1> HIDE DEF s
<1>12. RecentHashes # <<>> /\ Head(RecentHashes) = HashOf(Table)[q[1]]
    BY <1>8, <1>10, <1>11
<1>13. IsInfo(Table, Elements(q), StoredInfo) /\ IsInfo(Table', Elements(q), StoredInfo')
    BY <1>2, <1>6, View, Views
<1>14. HashSet(Table', Elements(q)) = HashSet(Table, Elements(q))
    BY <1>6 DEF HashSet
<1>15. ASSUME NEW x \in HashSet(Table, Elements(q))
       PROVE  StoredInfo'[x] = IF x = HashOf(Table)[q[1]] THEN fill ELSE StoredInfo[x]
    <2>1. PICK y \in Elements(q) : x = HashOf(Table)[y]
        BY DEF HashSet
    <2>2. StoredInfo[HashOf(Table)[y]] = <<StateOf(Table)[y], CountOf(Table)[y]>>
        BY <1>13 DEF IsInfo
    <2>3. StoredInfo'[HashOf(Table')[y]] = <<StateOf(Table')[y], CountOf(Table')[y]>>
        BY <1>13 DEF IsInfo
    <2>4. x = HashOf(Table)[q[1]] <=> y = q[1]
        BY <1>7, <1>10, <2>1
    <2>5. y \in Indices
        BY <1>7
    <2>6. /\ StateOf(Table')[y] = IF y = q[1] THEN v ELSE StateOf(Table)[y]
          /\ CountOf(Table')[y] = IF y = q[1] THEN n ELSE CountOf(Table)[y]
        BY <1>6, <2>5
    <2> QED BY <1>1, <1>6, <2>1, <2>2, <2>3, <2>4, <2>6
<1>16. StoredInfo' = [StoredInfo EXCEPT ![Head(RecentHashes)] = fill]
    <2>1. StoredInfo = [x \in HashSet(Table, Elements(q)) |-> StoredInfo[x]]
        BY <1>13 DEF IsInfo
    <2>2. StoredInfo' = [x \in HashSet(Table, Elements(q)) |-> StoredInfo'[x]]
        BY <1>13, <1>14 DEF IsInfo
    <2> QED BY <1>12, <1>15, <2>1, <2>2
<1> QED BY <1>5, <1>6, <1>9, <1>12, <1>16 DEF Abstract!Store

LEMMA StatsImplemented ==
    ASSUME IInv, GetAndClearStats
    PROVE  Abstract!TakeStats
<1>1. Sound(Table, FromNewest(Table), FreeChain(Table), Chains(Table))
    BY DEF IInv, WellFormed
<1>2. Table' = [Table EXCEPT !.Stats = NoStats] /\ State' = State
    BY DEF GetAndClearStats
<1>3. Table'.Entries = Table.Entries /\ Table'.Stats = NoStats
    BY <1>1, <1>2, StatsTaken
<1>4. FromNewest(Table') = FromNewest(Table)
    BY StatsKeepIInv
<1>5. RecentHashes' = RecentHashes /\ StoredInfo' = StoredInfo
    BY <1>3, <1>4, Views DEF RecentOf, InfoOf
<1> QED BY <1>2, <1>3, <1>5 DEF Abstract!TakeStats, Abstract!NoStats, NoStats

LEMMA InitImplemented ==
    ASSUME Memory = {0}, Init
    PROVE  Abstract!Init
<1>1. Params \in Layouts /\ Table = PlaceGlyphTableInMemory(Params, 0) /\ State = NoState
    BY DEF Init
<1>2. PICK f, c : Sound(Table, <<>>, f, c)
    BY <1>1, PlacedSound
<1>3. RecentHashes = HashSeq(Table, <<>>) /\ IsInfo(Table, Elements(<<>>), StoredInfo)
    BY <1>2, View, Views
<1>4. RecentHashes = <<>>
    <2>1. HashSeq(Table, <<>>) = [k \in 1 .. 0 |-> HashOf(Table)[<<>>[k]]]
        BY DEF HashSeq
    <2>2. HashSeq(Table, <<>>) = <<>>
        BY <2>1
    <2> QED BY <1>3, <2>2
<1>5. HashSet(Table, Elements(<<>>)) = {}
    BY DEF HashSet, Elements
<1>6. StoredInfo = [h \in {} |-> <<0, 0>>]
    BY <1>3, <1>5 DEF IsInfo
<1>7. <<State.FilledState, State.TileCount>> = <<0, 0>>
    BY <1>1 DEF NoState
<1>8. Table.Stats = NoStats
    BY <1>1 DEF PlaceGlyphTableInMemory
<1> QED BY <1>4, <1>6, <1>7, <1>8 DEF Abstract!Init, Abstract!Empty, Abstract!NoStats, NoStats

LEMMA StutterImplemented ==
    ASSUME UNCHANGED vars
    PROVE  UNCHANGED Abstract!vars
<1>1. Table' = Table /\ State' = State
    BY DEF vars
<1>2. RecentHashes' = RecentHashes /\ StoredInfo' = StoredInfo
    BY <1>1, Views
<1> QED BY <1>1, <1>2 DEF Abstract!vars

\* The three lists in one array are an LRU cache: a glyph is found exactly if it
\* was among the last EntryCount - 1 different ones, with what was stored for it,
\* and the one unused for longest gives way, for every number of entries and slots.
THEOREM CacheImplemented ==
    ASSUME Memory = {0}
    PROVE  Spec => CacheSpec
<1>1. Init => Abstract!Init
    BY InitImplemented
<1>2. IInv /\ [Next]_vars => [Abstract!Next]_(Abstract!vars)
    <2> SUFFICES ASSUME IInv, [Next]_vars PROVE [Abstract!Next]_(Abstract!vars)
        OBVIOUS
    <2>1. ASSUME NEW h \in Hashes, FindGlyphEntryByHash(h) PROVE Abstract!Next
        <3>1. CASE Matches(Table, h) # {}
            <4>1. Abstract!Hit(h)
                BY <2>1, <3>1, HitImplemented
            <4> QED BY <4>1 DEF Abstract!Next
        <3>2. CASE Matches(Table, h) = {}
            <4>1. Abstract!Miss(h)
                BY <2>1, <3>2, MissImplemented
            <4> QED BY <4>1 DEF Abstract!Next
        <3> QED BY <3>1, <3>2
    <2>2. ASSUME NEW fill \in Fills, UpdateEntry(fill) PROVE Abstract!Next
        <3>1. Abstract!Store(fill)
            BY <2>2, StoreImplemented
        <3> QED BY <3>1 DEF Abstract!Next
    <2>3. ASSUME GetAndClearStats PROVE Abstract!Next
        <3>1. Abstract!TakeStats
            BY <2>3, StatsImplemented
        <3> QED BY <3>1 DEF Abstract!Next
    <2>4. ASSUME UNCHANGED vars PROVE UNCHANGED Abstract!vars
        BY <2>4, StutterImplemented
    <2> QED BY <2>1, <2>2, <2>3, <2>4 DEF Next
<1> QED BY <1>1, <1>2, InductiveInvariant, PTL DEF Spec, CacheSpec, Abstract!Spec
=============================================================================
