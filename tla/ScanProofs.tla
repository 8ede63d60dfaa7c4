----------------------------- MODULE ScanProofs -----------------------------
(***************************************************************************)
(* Proofs about the emoji scanner, for texts of any length: a call goes    *)
(* forward and returns an end within the text; and a call that sees less   *)
(* of the text finds no longer match.  Both follow what the automaton      *)
(* knows when it looks at a character, over the rows of its tables.        *)
(*                                                                         *)
(* What is defined by recursion over 0 .. n is reasoned about through the  *)
(* sets of the first section.                                              *)
(***************************************************************************)
EXTENDS EmojiAutomaton, WellFoundedInduction, TLAPS

(***************************************************************************)
(* Numbers, and recursion over 0 .. n                                      *)
(***************************************************************************)

\* There is a least one, as < on the numbers is well founded.
LEMMA LeastNatural ==
    ASSUME NEW S \in SUBSET Nat, S # {}
    PROVE  \E m \in S : \A k \in S : m <= k
  <1> DEFINE R == OpToRel(<, Nat)
  <1>1. IsWellFoundedOn(R, Nat)
    BY NatLessThanWellFounded
  <1>2. \A x, y \in Nat : y < x => <<y, x>> \in R
    BY DEF OpToRel
  <1> HIDE DEF R
  <1>3. PICK m \in S : \A k \in S : <<k, m>> \notin R
    BY <1>1, WFMin
  <1>4. ASSUME NEW k \in S PROVE m <= k
    <2>1. k \in Nat /\ m \in Nat
      OBVIOUS
    <2>2. ~ k < m
      BY <1>2, <1>3, <2>1
    <2> QED BY <2>1, <2>2
  <1> QED BY <1>4

\* A set that has 0 and, with each number below n, the next one, has all up to n.
LEMMA UpTo ==
    ASSUME NEW S, NEW n \in Nat, 0 \in S, \A k \in 0 .. n - 1 : k \in S => k + 1 \in S
    PROVE  0 .. n \subseteq S
  <1> DEFINE M == {k \in 0 .. n : k \notin S}
  <1> SUFFICES ASSUME M # {} PROVE FALSE
    OBVIOUS
  <1>1. M \in SUBSET Nat /\ M # {}
    OBVIOUS
  <1>2. PICK m \in M : \A k \in M : m <= k
    <2> HIDE DEF M
    <2> QED BY <1>1, LeastNatural
  <1>3. m \in 1 .. n /\ m \notin S
    OBVIOUS
  <1>4. m - 1 \in 0 .. n - 1 /\ (m - 1) + 1 = m /\ m - 1 \notin M
    BY <1>2, <1>3
  <1> QED BY <1>3, <1>4

\* F maps A into itself, at each k.
Closed(A, n, F) == \A k \in 1 .. n : \A a \in A : F[<<k, a>>] \in A

\* g begins with b, and goes on with F.
Solves(g, b, n, F) == g = [k \in 0 .. n |-> IF k = 0 THEN b ELSE F[<<k, g[k - 1]>>]]

\* A recursion over 0 .. n has a solution.
LEMMA RecursionDefined ==
    ASSUME NEW A, NEW b \in A, NEW n \in Nat, NEW F, Closed(A, n, F)
    PROVE  \E g \in [0 .. n -> A] : Solves(g, b, n, F)
  <1> DEFINE Good(g, m) == /\ g \in [0 .. m -> A]
                           /\ g[0] = b
                           /\ \A k \in 1 .. m : g[k] = F[<<k, g[k - 1]>>]
             S == {m \in 0 .. n : \E g : Good(g, m)}
  <1>1. 0 \in S
    <2>1. Good([k \in 0 .. 0 |-> b], 0)
      OBVIOUS
    <2> HIDE DEF Good
    <2> QED BY <2>1
  <1>2. ASSUME NEW m \in 0 .. n - 1, m \in S PROVE m + 1 \in S
    <2>1. PICK g : Good(g, m)
      BY <1>2
    <2> DEFINE next == F[<<m + 1, g[m]>>]
               h == [k \in 0 .. m + 1 |-> IF k = m + 1 THEN next ELSE g[k]]
    <2>2. g[m] \in A /\ m + 1 \in 1 .. n
      BY <2>1
    <2>3. next \in A
      BY <2>2 DEF Closed
    <2> HIDE DEF next
    <2>4. h \in [0 .. m + 1 -> A]
      BY <2>1, <2>3
    <2>5. h[0] = b
      BY <2>1
    <2>6. ASSUME NEW k \in 1 .. m + 1 PROVE h[k] = F[<<k, h[k - 1]>>]
      <3>1. h[k - 1] = g[k - 1]
        OBVIOUS
      <3>2. CASE k = m + 1
        <4>1. h[k] = next /\ k - 1 = m
          BY <3>2
        <4> QED BY <3>1, <3>2, <4>1 DEF next
      <3>3. CASE k # m + 1
        <4>1. k \in 1 .. m /\ h[k] = g[k]
          BY <3>3
        <4> QED BY <2>1, <3>1, <4>1
      <3> QED BY <3>2, <3>3
    <2>7. Good(h, m + 1)
      <3> HIDE DEF h
      <3> QED BY <2>4, <2>5, <2>6
    <2> HIDE DEF Good
    <2> QED BY <2>7
  <1>3. 0 .. n \subseteq S
    <2> HIDE DEF S
    <2> QED BY <1>1, <1>2, UpTo
  <1>4. PICK g : Good(g, n)
    <2>1. n \in 0 .. n
      OBVIOUS
    <2>2. n \in S
      BY <1>3, <2>1
    <2> HIDE DEF Good
    <2> QED BY <2>2
  <1>5. g = [k \in 0 .. n |-> g[k]]
    BY <1>4
  <1>6. \A k \in 0 .. n : g[k] = IF k = 0 THEN b ELSE F[<<k, g[k - 1]>>]
    BY <1>4
  <1>7. g = [k \in 0 .. n |-> IF k = 0 THEN b ELSE F[<<k, g[k - 1]>>]]
    BY <1>5, <1>6
  <1> QED BY <1>4, <1>7 DEF Solves

(***************************************************************************)
(* The actions, and what a transition does                                 *)
(***************************************************************************)

ScanState == [cs : 0 .. 11, te : Int, act : Int, returned : BOOLEAN, out : Int,
              is_emoji : BOOLEAN]

\* The actions, one by one.
LEMMA PerformIs ==
    ASSUME NEW s, NEW p
    PROVE  /\ Perform(s, 2, p) = [s EXCEPT !.te = p + 1]
           /\ Perform(s, 3, p) = [s EXCEPT !.act = 2]
           /\ Perform(s, 4, p) = [s EXCEPT !.act = 3]
           /\ Perform(s, 5, p) = Return(s, p + 1, FALSE)
           /\ Perform(s, 6, p) = Return(s, p + 1, TRUE)
           /\ Perform(s, 7, p) = Return(s, p + 1, FALSE)
           /\ Perform(s, 8, p) = Return(s, p, TRUE)
           /\ Perform(s, 9, p) = Return(s, p, FALSE)
           /\ Perform(s, 10, p) = Return(s, s.te, TRUE)
           /\ s.act = 2 => Perform(s, 11, p) = Return(s, s.te, TRUE)
           /\ s.act = 3 => Perform(s, 11, p) = Return(s, s.te, FALSE)
  <1> USE DEF Perform
  <1>1. Perform(s, 2, p) = [s EXCEPT !.te = p + 1] OBVIOUS
  <1>2. Perform(s, 3, p) = [s EXCEPT !.act = 2] OBVIOUS
  <1>3. Perform(s, 4, p) = [s EXCEPT !.act = 3] OBVIOUS
  <1>4. Perform(s, 5, p) = Return(s, p + 1, FALSE) OBVIOUS
  <1>5. Perform(s, 6, p) = Return(s, p + 1, TRUE) OBVIOUS
  <1>6. Perform(s, 7, p) = Return(s, p + 1, FALSE) OBVIOUS
  <1>7. Perform(s, 8, p) = Return(s, p, TRUE) OBVIOUS
  <1>8. Perform(s, 9, p) = Return(s, p, FALSE) OBVIOUS
  <1>9. Perform(s, 10, p) = Return(s, s.te, TRUE) OBVIOUS
  <1>10. s.act = 2 => Perform(s, 11, p) = Return(s, s.te, TRUE) OBVIOUS
  <1>11. s.act = 3 => Perform(s, 11, p) = Return(s, s.te, FALSE) OBVIOUS
  <1> QED BY <1>1, <1>2, <1>3, <1>4, <1>5, <1>6, <1>7, <1>8, <1>9, <1>10, <1>11

\* They keep the type of the state.
LEMMA PerformTyped ==
    ASSUME NEW s \in ScanState, NEW a, NEW p \in Int
    PROVE  Perform(s, a, p) \in ScanState
  <1>1. ASSUME NEW end \in Int
        PROVE  Return(s, end, FALSE) \in ScanState /\ Return(s, end, TRUE) \in ScanState
    BY DEF Return, ScanState
  <1>2. s.te \in Int /\ p + 1 \in Int
    BY DEF ScanState
  <1>3. /\ [s EXCEPT !.te = p + 1] \in ScanState
        /\ [s EXCEPT !.act = 2] \in ScanState /\ [s EXCEPT !.act = 3] \in ScanState
    BY <1>2 DEF ScanState
  <1>4. CASE a \in 2 .. 10
    <2>1. CASE a = 2 BY <1>3, <2>1, PerformIs
    <2>2. CASE a = 3 BY <1>3, <2>2, PerformIs
    <2>3. CASE a = 4 BY <1>3, <2>3, PerformIs
    <2>4. CASE a = 5
      <3>1. Perform(s, a, p) = Return(s, p + 1, FALSE)
        BY <2>4, PerformIs
      <3> QED BY <1>1, <1>2, <3>1
    <2>5. CASE a = 6
      <3>1. Perform(s, a, p) = Return(s, p + 1, TRUE)
        BY <2>5, PerformIs
      <3> QED BY <1>1, <1>2, <3>1
    <2>6. CASE a = 7
      <3>1. Perform(s, a, p) = Return(s, p + 1, FALSE)
        BY <2>6, PerformIs
      <3> QED BY <1>1, <1>2, <3>1
    <2>7. CASE a = 8
      <3>1. Perform(s, a, p) = Return(s, p, TRUE)
        BY <2>7, PerformIs
      <3> QED BY <1>1, <1>2, <3>1
    <2>8. CASE a = 9
      <3>1. Perform(s, a, p) = Return(s, p, FALSE)
        BY <2>8, PerformIs
      <3> QED BY <1>1, <1>2, <3>1
    <2>9. CASE a = 10
      <3>1. Perform(s, a, p) = Return(s, s.te, TRUE)
        BY <2>9, PerformIs
      <3> QED BY <1>1, <1>2, <3>1
    <2> QED BY <1>4, <2>1, <2>2, <2>3, <2>4, <2>5, <2>6, <2>7, <2>8, <2>9
  <1>5. CASE a = 11 /\ s.act \in {2, 3}
    <2>1. CASE s.act = 2
      <3>1. Perform(s, a, p) = Return(s, s.te, TRUE)
        BY <1>5, <2>1, PerformIs
      <3> QED BY <1>1, <1>2, <3>1
    <2>2. CASE s.act = 3
      <3>1. Perform(s, a, p) = Return(s, s.te, FALSE)
        BY <1>5, <2>2, PerformIs
      <3> QED BY <1>1, <1>2, <3>1
    <2> QED BY <1>5, <2>1, <2>2
  <1>6. CASE a \notin 2 .. 10 /\ ~(a = 11 /\ s.act \in {2, 3})
    <2>1. /\ a # 2 /\ a # 3 /\ a # 4 /\ a # 5 /\ a # 6 /\ a # 7 /\ a # 8 /\ a # 9 /\ a # 10
          /\ ~(a = 11 /\ s.act = 2) /\ ~(a = 11 /\ s.act = 3)
      BY <1>6
    <2>2. Perform(s, a, p) = s
      BY <2>1 DEF Perform
    <2> QED BY <2>2
  <1> QED BY <1>4, <1>5, <1>6

\* Take goes through the actions of the transition, until one returns.
TakenIn(s, trans, p, n, b) ==
    \E done \in [0 .. n -> ScanState] :
        /\ Take(s, trans, p) = done[n]
        /\ done[0] = b
        /\ \A k \in 1 .. n : done[k] = IF done[k - 1].returned THEN done[k - 1]
                                       ELSE Perform(done[k - 1], ActionsOf(trans)[k], p)

\* The steps of Take, as a function of what was done so far.
LEMMA TakeSteps ==
    ASSUME NEW s \in ScanState, NEW trans, NEW p \in Int,
           trans_targs[trans + 1] \in 0 .. 11, Len(ActionsOf(trans)) \in Nat
    PROVE  TakenIn(s, trans, p, Len(ActionsOf(trans)), [s EXCEPT !.cs = trans_targs[trans + 1]])
  <1> DEFINE todo == ActionsOf(trans)
             n == Len(todo)
             b == [s EXCEPT !.cs = trans_targs[trans + 1]]
             Step(k, t) == IF t.returned THEN t ELSE Perform(t, todo[k], p)
             F == [x \in (1 .. n) \X ScanState |-> Step(x[1], x[2])]
             Rec(g) == g = [k \in 0 .. n |-> IF k = 0 THEN b ELSE IF g[k - 1].returned THEN g[k - 1] ELSE Perform(g[k - 1], todo[k], p)]
             done == CHOOSE g : Rec(g)
  <1>1. b \in ScanState
    BY DEF ScanState
  <1>2. \A k \in 1 .. n : \A t \in ScanState : Step(k, t) \in ScanState
    BY PerformTyped
  <1>3. n \in Nat
    OBVIOUS
  <1>13. \A k \in 1 .. n : \A t \in ScanState : F[<<k, t>>] = Step(k, t)
    OBVIOUS
  <1>14. Closed(ScanState, n, F)
    BY <1>2, <1>13 DEF Closed
  <1> HIDE DEF F, n, b, todo, Step
  <1>4. PICK g \in [0 .. n -> ScanState] : Solves(g, b, n, F)
    BY <1>1, <1>3, <1>14, RecursionDefined
  <1>5. ASSUME NEW k \in 0 .. n PROVE g[k] = IF k = 0 THEN b ELSE Step(k, g[k - 1])
    <2>1. k # 0 => k - 1 \in 0 .. n /\ k \in 1 .. n
      BY <1>3
    <2> QED BY <1>4, <1>13, <2>1 DEF Solves
  <1>6. Rec(g)
    BY <1>4, <1>5 DEF Step
  <1>7. Rec(done)
    <2> HIDE DEF Rec
    <2> QED BY <1>6
  <1>8. \A k \in 0 .. n : done[k] = IF k = 0 THEN b ELSE Step(k, done[k - 1])
    <2> HIDE DEF done
    <2> QED BY <1>7 DEF Step
  <1>9. DOMAIN done = 0 .. n /\ done = [k \in 0 .. n |-> done[k]]
    <2> HIDE DEF done
    <2> QED BY <1>7
  <1>10. Take(s, trans, p) = done[n]
    BY DEF Take, n, b, todo
  <1> HIDE DEF done
  <1>11. \A k \in 0 .. n : done[k] \in ScanState
    <2> DEFINE S == {k \in 0 .. n : done[k] \in ScanState}
    <2>1. 0 \in S
      BY <1>1, <1>3, <1>8
    <2>2. ASSUME NEW k \in 0 .. n - 1, k \in S PROVE k + 1 \in S
      <3>1. k + 1 \in 1 .. n /\ k + 1 \in 0 .. n /\ (k + 1) - 1 = k
        BY <1>3
      <3>2. done[k + 1] = Step(k + 1, done[k])
        BY <1>3, <1>8, <3>1
      <3>3. done[k] \in ScanState
        BY <2>2
      <3> QED BY <1>2, <3>1, <3>2, <3>3
    <2>3. 0 .. n \subseteq S
      <3> HIDE DEF S
      <3> QED BY <1>3, <2>1, <2>2, UpTo
    <2> QED BY <2>3
  <1>12. done \in [0 .. n -> ScanState]
    BY <1>9, <1>11
  <1>15. done[0] = b
    BY <1>3, <1>8
  <1>16. ASSUME NEW k \in 1 .. n PROVE done[k] = Step(k, done[k - 1])
    BY <1>3, <1>8
  <1>17. TakenIn(s, trans, p, n, b)
    BY <1>10, <1>12, <1>15, <1>16 DEF todo, Step, TakenIn
  <1> QED BY <1>17 DEF n, b, todo

(***************************************************************************)
(* The tables                                                              *)
(***************************************************************************)

\* What the program does for each transition.
LEMMA Targets ==
    /\ \A k \in {1} : trans_targs[k + 1] = 4
    /\ trans_targs[2 + 1] = 6 /\ trans_targs[4 + 1] = 1 /\ trans_targs[6 + 1] = 3
    /\ trans_targs[7 + 1] = 3 /\ trans_targs[8 + 1] = 7 /\ trans_targs[10 + 1] = 8
    /\ trans_targs[11 + 1] = 9 /\ trans_targs[12 + 1] = 11 /\ trans_targs[13 + 1] = 0
    /\ trans_targs[15 + 1] = 5 /\ trans_targs[18 + 1] = 10
    /\ \A k \in {0, 3, 5, 9, 14, 16, 17} : trans_targs[k + 1] = 2
  BY DEF trans_targs

\* From the tables: transitions without an action,
LEMMA NoActions ==
    ASSUME NEW trans \in {4, 10, 13}
    PROVE  ActionsOf(trans) = <<>>
  <1>1. trans_actions[trans + 1] = 0
    <2>1. CASE trans = 4 BY <2>1 DEF trans_actions
    <2>2. CASE trans = 10 BY <2>2 DEF trans_actions
    <2>3. CASE trans = 13 BY <2>3 DEF trans_actions
    <2> QED BY <2>1, <2>2, <2>3
  <1> QED BY <1>1 DEF ActionsOf

\* The action of the transitions that have one.
OneAction(trans) == CASE trans = 0 -> 11 [] trans = 3 -> 10 [] trans = 5 -> 6 [] trans = 9 -> 7
                      [] trans = 14 -> 5 [] trans = 16 -> 8 [] trans = 17 -> 9

\* with one, which returns,
LEMMA OneActionIs ==
    ASSUME NEW trans \in {0, 3, 5, 9, 14, 16, 17}
    PROVE  Len(ActionsOf(trans)) = 1 /\ ActionsOf(trans)[1] = OneAction(trans)
  <1> DEFINE a == trans_actions[trans + 1]
  <1>1. a \in 1 .. 17 /\ actions[a + 1] = 1 /\ actions[a + 2] = OneAction(trans)
    BY DEF trans_actions, actions, OneAction
  <1>2. actions \in Seq(Nat) /\ Len(actions) = 25
    BY DEF actions
  <1>3. ActionsOf(trans) = SubSeq(actions, a + 2, a + 2)
    <2>1. a # 0 /\ a + 1 + actions[a + 1] = a + 2
      BY <1>1
    <2>2. ActionsOf(trans) = SubSeq(actions, a + 2, a + 1 + actions[a + 1])
      BY <2>1, Zenon DEF ActionsOf
    <2> QED BY <2>1, <2>2
  <1> HIDE DEF a
  <1> QED BY <1>1, <1>2, <1>3

\* and with two, which remember a match that ends behind the character.
LEMMA TwoActionsAre ==
    ASSUME NEW trans \in {1, 2, 6, 7, 8, 11, 12, 15, 18}
    PROVE  /\ Len(ActionsOf(trans)) = 2 /\ ActionsOf(trans)[1] = 2
           /\ ActionsOf(trans)[2] = IF trans \in {6, 11} THEN 4 ELSE 3
  <1> DEFINE a == trans_actions[trans + 1]
  <1>1. /\ a \in 1 .. 22 /\ actions[a + 1] = 2 /\ actions[a + 2] = 2
        /\ actions[a + 3] = IF trans \in {6, 11} THEN 4 ELSE 3
    BY DEF trans_actions, actions
  <1>2. actions \in Seq(Nat) /\ Len(actions) = 25
    BY DEF actions
  <1>3. ActionsOf(trans) = SubSeq(actions, a + 2, a + 3)
    <2>1. a # 0 /\ a + 1 + actions[a + 1] = a + 3
      BY <1>1
    <2>2. ActionsOf(trans) = SubSeq(actions, a + 2, a + 1 + actions[a + 1])
      BY <2>1, Zenon DEF ActionsOf
    <2> QED BY <2>1, <2>2
  <1> HIDE DEF a
  <1> QED BY <1>1, <1>2, <1>3

\* Transitions out of a state.
LEMMA TransitionOffset ==
    ASSUME NEW cs \in 0 .. 11, NEW c
    PROVE  \E offset \in 0 .. single_lengths[cs + 1] + range_lengths[cs + 1] :
               Transition(cs, c) = indicies[index_offsets[cs + 1] + offset + 1]
  <1>1. single_lengths[cs + 1] \in Nat /\ range_lengths[cs + 1] \in Nat
    BY DEF single_lengths, range_lengths
  <1> DEFINE first  == key_offsets[cs + 1]
             single == single_lengths[cs + 1]
             ranges == range_lengths[cs + 1]
             key(k) == trans_keys[k + 1]
             hits   == {k \in 0 .. single - 1 : key(first + k) = c}
             within == {k \in 0 .. ranges - 1 :
                           /\ key(first + single + 2 * k) <= c
                           /\ c <= key(first + single + 2 * k + 1)}
             h == CHOOSE k \in hits : TRUE
             w == CHOOSE k \in within : TRUE
             offset == IF hits # {} THEN h ELSE single + (IF within # {} THEN w ELSE ranges)
  <1>2. Transition(cs, c) = indicies[index_offsets[cs + 1] + offset + 1]
    BY Zenon DEF Transition
  <1>3. hits # {} => h \in 0 .. single - 1
    <2>1. hits # {} => h \in hits
      BY Zenon
    <2> QED BY <2>1
  <1>4. within # {} => w \in 0 .. ranges - 1
    <2>1. within # {} => w \in within
      BY Zenon
    <2> QED BY <2>1
  <1> HIDE DEF h, w, hits, within
  <1>5. offset \in 0 .. single + ranges
    BY <1>1, <1>3, <1>4
  <1> QED BY <1>2, <1>5

\* The transitions of a row; those of the first state and of state 8.
LEMMA TransitionTyped ==
    ASSUME NEW cs \in 0 .. 11, NEW c
    PROVE  /\ Transition(cs, c) \in 0 .. 18
           /\ cs = 2 => Transition(cs, c) \in {6, 7, 8, 9, 10, 11, 12}
           /\ cs = 8 => Transition(cs, c) \in {5, 17}
  <1>1. PICK offset \in 0 .. single_lengths[cs + 1] + range_lengths[cs + 1] :
               Transition(cs, c) = indicies[index_offsets[cs + 1] + offset + 1]
    BY TransitionOffset
  <1>2. index_offsets[cs + 1] + offset \in 0 .. 50
        /\ (cs = 2 => index_offsets[cs + 1] + offset \in 8 .. 14)
        /\ (cs = 8 => index_offsets[cs + 1] + offset \in 35 .. 36)
    BY DEF single_lengths, range_lengths, index_offsets
  <1>3. \A i \in 0 .. 50 : indicies[i + 1] \in 0 .. 18
    BY DEF indicies
  <1>4. \A i \in 8 .. 14 : indicies[i + 1] \in {6, 7, 8, 9, 10, 11, 12}
    BY DEF indicies
  <1>5. \A i \in 35 .. 36 : indicies[i + 1] \in {5, 17}
    BY DEF indicies
  <1> QED BY <1>1, <1>2, <1>3, <1>4, <1>5

(***************************************************************************)
(* One transition                                                          *)
(***************************************************************************)

\* What a transition does to the state, by the number of its actions.
LEMMA TakeNone ==
    ASSUME NEW s \in ScanState, NEW trans \in {4, 10, 13}, NEW p \in Int
    PROVE  Take(s, trans, p) = [s EXCEPT !.cs = trans_targs[trans + 1]]
  <1>1. Len(ActionsOf(trans)) = 0
    BY NoActions
  <1>2. trans_targs[trans + 1] \in 0 .. 11
    BY Targets
  <1>3. TakenIn(s, trans, p, 0, [s EXCEPT !.cs = trans_targs[trans + 1]])
    BY <1>1, <1>2, TakeSteps
  <1> QED BY <1>3 DEF TakenIn

LEMMA TakeOne ==
    ASSUME NEW s \in ScanState, ~s.returned,
           NEW trans \in {0, 3, 5, 9, 14, 16, 17}, NEW p \in Int
    PROVE  Take(s, trans, p) = Perform([s EXCEPT !.cs = 2], OneAction(trans), p)
  <1>1. Len(ActionsOf(trans)) = 1 /\ ActionsOf(trans)[1] = OneAction(trans)
    BY OneActionIs
  <1>2. trans_targs[trans + 1] = 2
    BY Targets
  <1> DEFINE b == [s EXCEPT !.cs = 2]
  <1>3. ~b.returned
    BY DEF ScanState
  <1>11. TakenIn(s, trans, p, 1, b)
    <2>1. Len(ActionsOf(trans)) \in Nat /\ trans_targs[trans + 1] \in 0 .. 11
      BY <1>1, <1>2
    <2>2. TakenIn(s, trans, p, Len(ActionsOf(trans)), [s EXCEPT !.cs = trans_targs[trans + 1]])
      BY <2>1, TakeSteps
    <2> QED BY <1>1, <1>2, <2>2
  <1>4. PICK done \in [0 .. 1 -> ScanState] :
              /\ Take(s, trans, p) = done[1]
              /\ done[0] = b
              /\ \A k \in 1 .. 1 :
                    done[k] = IF done[k - 1].returned THEN done[k - 1]
                              ELSE Perform(done[k - 1], ActionsOf(trans)[k], p)
    BY <1>11 DEF TakenIn
  <1> HIDE DEF b
  <1>5. done[1] = IF done[0].returned THEN done[0] ELSE Perform(done[0], ActionsOf(trans)[1], p)
    BY <1>4
  <1> QED BY <1>1, <1>3, <1>4, <1>5 DEF b

\* The match so far ends behind p.
Matched(r, s, cs, p, act) == r = [s EXCEPT !.cs = cs, !.te = p + 1, !.act = act]

\* The kind of match a transition remembers: 2 is an emoji, 3 is text.
ActOf(trans) == IF trans \in {6, 11} THEN 3 ELSE 2

LEMMA TakeTwo ==
    ASSUME NEW s \in ScanState, ~s.returned,
           NEW trans \in {1, 2, 6, 7, 8, 11, 12, 15, 18}, NEW p \in Int
    PROVE  Matched(Take(s, trans, p), s, trans_targs[trans + 1], p, ActOf(trans))
  <1> DEFINE cs == trans_targs[trans + 1]
             b == [s EXCEPT !.cs = cs]
             act == ActOf(trans)
  <1>1. /\ Len(ActionsOf(trans)) = 2 /\ ActionsOf(trans)[1] = 2
        /\ ActionsOf(trans)[2] = act + 1
    BY TwoActionsAre DEF ActOf
  <1>2. cs \in 0 .. 11
    BY Targets
  <1>3. ~b.returned
    BY DEF ScanState
  <1>11. TakenIn(s, trans, p, 2, b)
    <2>1. Len(ActionsOf(trans)) \in Nat /\ trans_targs[trans + 1] \in 0 .. 11
      BY <1>1, <1>2
    <2>2. TakenIn(s, trans, p, Len(ActionsOf(trans)), [s EXCEPT !.cs = trans_targs[trans + 1]])
      BY <2>1, TakeSteps
    <2> QED BY <1>1, <1>2, <2>2
  <1>4. PICK done \in [0 .. 2 -> ScanState] :
              /\ Take(s, trans, p) = done[2]
              /\ done[0] = b
              /\ \A k \in 1 .. 2 :
                    done[k] = IF done[k - 1].returned THEN done[k - 1]
                              ELSE Perform(done[k - 1], ActionsOf(trans)[k], p)
    BY <1>11 DEF TakenIn
  <1> HIDE DEF cs
  <1>5. done[1] = [s EXCEPT !.cs = cs, !.te = p + 1]
    <2> HIDE DEF b
    <2>1. done[1] = IF done[0].returned THEN done[0] ELSE Perform(done[0], ActionsOf(trans)[1], p)
      BY <1>4
    <2>2. done[1] = Perform(b, 2, p)
      BY <1>1, <1>3, <1>4, <2>1
    <2>3. done[1] = [b EXCEPT !.te = p + 1]
      BY <2>2, PerformIs
    <2> QED BY <1>2, <2>3 DEF b, ScanState
  <1>6. ~done[1].returned
    BY <1>5 DEF ScanState
  <1>7. done[2] = Perform(done[1], act + 1, p)
    <2>1. done[2] = IF done[1].returned THEN done[1] ELSE Perform(done[1], ActionsOf(trans)[2], p)
      BY <1>4
    <2> HIDE DEF act
    <2> QED BY <1>1, <1>6, <2>1
  <1>8. done[2] = [done[1] EXCEPT !.act = act]
    <2>0. act \in {2, 3}
      BY DEF ActOf
    <2> HIDE DEF act
    <2>1. CASE act = 2
      <3>1. done[2] = Perform(done[1], 3, p)
        BY <1>7, <2>1
      <3> QED BY <2>1, <3>1, PerformIs
    <2>2. CASE act = 3
      <3>1. done[2] = Perform(done[1], 4, p)
        BY <1>7, <2>2
      <3> QED BY <2>2, <3>1, PerformIs
    <2> QED BY <2>0, <2>1, <2>2
  <1>9. done[2] = [s EXCEPT !.cs = cs, !.te = p + 1, !.act = act]
    BY <1>5, <1>8 DEF ScanState
  <1> QED BY <1>4, <1>9 DEF cs, Matched

(***************************************************************************)
(* A scan                                                                  *)
(***************************************************************************)

\* The scanner, started at p, before it looks at q: it is in its first state at
\* the start only, and where it may come back to a match it knows one.
Scanning(s, p, q) ==
    /\ s \in ScanState
    /\ IF s.returned THEN s.out \in p + 1 .. q
       ELSE /\ s.cs = 2 <=> q = p
            /\ s.cs \notin {2, 8} => s.te \in p + 1 .. q /\ s.act \in {2, 3}

\* A return at `end'.
Returns(r, s, end) == r \in {Return(s, end, TRUE), Return(s, end, FALSE)}

\* A return within the text ends the scan.
LEMMA ReturnScanning ==
    ASSUME NEW s \in ScanState, NEW p \in Int, NEW q \in Int, NEW end \in p + 1 .. q,
           NEW r, Returns(r, s, end)
    PROVE  Scanning(r, p, q) /\ r.returned
  <1> DEFINE yes == Return(s, end, TRUE)
             no  == Return(s, end, FALSE)
  <1>1. /\ yes \in ScanState /\ yes.returned /\ yes.out = end
        /\ no \in ScanState /\ no.returned /\ no.out = end
    <2>1. end \in Int
      OBVIOUS
    <2>2. yes \in ScanState /\ no \in ScanState
      BY <2>1 DEF Return, ScanState
    <2>3. yes.returned = TRUE /\ yes.out = end /\ no.returned = TRUE /\ no.out = end
      BY <2>1 DEF Return, ScanState
    <2> QED BY <2>2, <2>3
  <1> HIDE DEF yes, no
  <1>2. Scanning(yes, p, q) /\ Scanning(no, p, q)
    BY <1>1 DEF Scanning
  <1> QED BY <1>1, <1>2 DEF yes, no, Returns

\* What a transition returns, and the end it returns.
EndOf(s, trans, p) == IF trans \in {0, 3} THEN s.te ELSE IF trans \in {16, 17} THEN p ELSE p + 1

\* Whether it returns an emoji.
EmojiEnd(s, trans) == trans \in {3, 5, 16} \/ (trans = 0 /\ s.act = 2)

\* r is that return.
ReturnsAs(r, s, trans, b, end) ==
    r = IF EmojiEnd(s, trans) THEN Return(b, end, TRUE) ELSE Return(b, end, FALSE)

\* What the transitions with one action return.
LEMMA TakeReturns ==
    ASSUME NEW s \in ScanState, ~s.returned, NEW p \in Int,
           NEW trans \in {0, 3, 5, 9, 14, 16, 17}, trans = 0 => s.act \in {2, 3}
    PROVE  ReturnsAs(Take(s, trans, p), s, trans, [s EXCEPT !.cs = 2], EndOf(s, trans, p))
  <1> DEFINE b == [s EXCEPT !.cs = 2]
             r == Take(s, trans, p)
  <1>1. r = Perform(b, OneAction(trans), p)
    BY TakeOne
  <1>2. b.te = s.te /\ b.act = s.act
    BY DEF ScanState
  <1> HIDE DEF b, r
  <1> SUFFICES ReturnsAs(r, s, trans, b, EndOf(s, trans, p))
    BY DEF b, r
  <1>3. CASE trans = 0
    <2>1. r = Perform(b, 11, p) /\ EndOf(s, trans, p) = s.te
      BY <1>1, <1>3 DEF OneAction, EndOf
    <2>2. CASE b.act = 2
      <3>1. r = Return(b, b.te, TRUE)
        BY <2>1, <2>2, PerformIs
      <3> QED BY <1>2, <1>3, <2>1, <2>2, <3>1 DEF EmojiEnd, ReturnsAs
    <2>3. CASE b.act = 3
      <3>1. r = Return(b, b.te, FALSE)
        BY <2>1, <2>3, PerformIs
      <3>8. ~EmojiEnd(s, trans)
        BY <1>2, <1>3, <2>1, <2>3, <3>1 DEF EmojiEnd
      <3> QED BY <1>2, <1>3, <2>1, <2>3, <3>1, <3>8 DEF ReturnsAs
    <2> QED BY <1>2, <1>3, <2>2, <2>3
  <1>4. CASE trans = 3
    <2>1. r = Perform(b, 10, p) /\ EndOf(s, trans, p) = s.te
      BY <1>1, <1>4 DEF OneAction, EndOf
    <2>2. r = Return(b, b.te, TRUE)
      BY <2>1, PerformIs
    <2> QED BY <1>4, <1>2, <2>1, <2>2 DEF EmojiEnd, ReturnsAs
  <1>5. CASE trans = 5
    <2>1. r = Perform(b, 6, p) /\ EndOf(s, trans, p) = p + 1
      BY <1>1, <1>5 DEF OneAction, EndOf
    <2>2. r = Return(b, p + 1, TRUE)
      BY <2>1, PerformIs
    <2> QED BY <1>5, <2>1, <2>2 DEF EmojiEnd, ReturnsAs
  <1>6. CASE trans = 9
    <2>1. r = Perform(b, 7, p) /\ EndOf(s, trans, p) = p + 1
      BY <1>1, <1>6 DEF OneAction, EndOf
    <2>2. r = Return(b, p + 1, FALSE)
      BY <2>1, PerformIs
    <2>8. ~EmojiEnd(s, trans)
      BY <1>6, <2>1, <2>2 DEF EmojiEnd
    <2> QED BY <1>6, <2>1, <2>2, <2>8 DEF ReturnsAs
  <1>7. CASE trans = 14
    <2>1. r = Perform(b, 5, p) /\ EndOf(s, trans, p) = p + 1
      BY <1>1, <1>7 DEF OneAction, EndOf
    <2>2. r = Return(b, p + 1, FALSE)
      BY <2>1, PerformIs
    <2>8. ~EmojiEnd(s, trans)
      BY <1>7, <2>1, <2>2 DEF EmojiEnd
    <2> QED BY <1>7, <2>1, <2>2, <2>8 DEF ReturnsAs
  <1>8. CASE trans = 16
    <2>1. r = Perform(b, 8, p) /\ EndOf(s, trans, p) = p
      BY <1>1, <1>8 DEF OneAction, EndOf
    <2>2. r = Return(b, p, TRUE)
      BY <2>1, PerformIs
    <2> QED BY <1>8, <2>1, <2>2 DEF EmojiEnd, ReturnsAs
  <1>9. CASE trans = 17
    <2>1. r = Perform(b, 9, p) /\ EndOf(s, trans, p) = p
      BY <1>1, <1>9 DEF OneAction, EndOf
    <2>2. r = Return(b, p, FALSE)
      BY <2>1, PerformIs
    <2>8. ~EmojiEnd(s, trans)
      BY <1>9, <2>1, <2>2 DEF EmojiEnd
    <2> QED BY <1>9, <2>1, <2>2, <2>8 DEF ReturnsAs
  <1> QED BY <1>3, <1>4, <1>5, <1>6, <1>7, <1>8, <1>9

\* A transition keeps what the scanner knows.
LEMMA TakeScanning ==
    ASSUME NEW s, NEW p \in Int, NEW q \in Int, p <= q,
           Scanning(s, p, q), ~s.returned, NEW c
    PROVE  Scanning(Take(s, Transition(s.cs, c), q), p, q + 1)
  <1> DEFINE trans == Transition(s.cs, c)
             r == Take(s, trans, q)
  <1>1. /\ s \in ScanState /\ s.cs \in 0 .. 11
        /\ s.cs = 2 <=> q = p
        /\ s.cs \notin {2, 8} => s.te \in p + 1 .. q /\ s.act \in {2, 3}
    BY DEF Scanning, ScanState
  <1>2. /\ trans \in 0 .. 18
        /\ s.cs = 2 => trans \in {6, 7, 8, 9, 10, 11, 12}
        /\ s.cs = 8 => trans \in {5, 17}
    BY <1>1, TransitionTyped
  <1> HIDE DEF trans
  <1> SUFFICES Scanning(r, p, q + 1)
    BY DEF trans
  <1>5. CASE trans \in {4, 10, 13}
    <2> DEFINE cs == trans_targs[trans + 1]
    <2>1. r = [s EXCEPT !.cs = cs]
      BY <1>1, <1>5, TakeNone
    <2>2. cs \in 0 .. 11 /\ cs # 2 /\ (trans = 10 => cs = 8)
      BY <1>5, Targets
    <2>3. trans # 10 => s.cs \notin {2, 8}
      BY <1>2, <1>5
    <2> HIDE DEF cs
    <2>4. r \in ScanState /\ r.cs = cs /\ r.te = s.te /\ r.act = s.act /\ ~r.returned
      BY <1>1, <2>1, <2>2 DEF ScanState
    <2> HIDE DEF r
    <2> QED BY <1>1, <2>2, <2>3, <2>4 DEF Scanning
  <1>6. CASE trans \in {1, 2, 6, 7, 8, 11, 12, 15, 18}
    <2> DEFINE cs == trans_targs[trans + 1]
               act == ActOf(trans)
    <2>1. Matched(r, s, cs, q, act)
      BY <1>1, <1>6, TakeTwo
    <2>2. cs \in 0 .. 11 /\ cs # 2
      BY <1>6, Targets
    <2>5. q + 1 \in Int /\ act \in Int /\ act \in {2, 3}
      BY DEF ActOf
    <2> HIDE DEF cs, r, act
    <2>3. r = [s EXCEPT !.cs = cs, !.te = q + 1, !.act = act]
      BY <2>1 DEF Matched
    <2>6. r.cs = cs /\ r.te = q + 1 /\ r.act = act /\ r.returned = s.returned
      BY <1>1, <2>3 DEF ScanState
    <2>7. r \in ScanState
      BY <1>1, <2>2, <2>3, <2>5 DEF ScanState
    <2>4. r \in ScanState /\ r.cs = cs /\ r.te = q + 1 /\ r.act \in {2, 3} /\ ~r.returned
      BY <2>5, <2>6, <2>7
    <2> QED BY <2>2, <2>4 DEF Scanning
  <1>7. CASE trans \in {0, 3, 5, 9, 14, 16, 17}
    <2> DEFINE b == [s EXCEPT !.cs = 2]
               end == EndOf(s, trans, q)
    <2>1. trans \in {0, 3} => s.cs \notin {2, 8}
      BY <1>2
    <2>2. Returns(r, b, end)
      <3>1. trans = 0 => s.act \in {2, 3}
        BY <1>1, <2>1
      <3>2. ReturnsAs(r, s, trans, b, end)
        BY <1>1, <1>7, <3>1, TakeReturns
      <3> HIDE DEF r, b, end
      <3> QED BY <3>2 DEF Returns, ReturnsAs
    <2>3. end \in p + 1 .. q + 1
      <3>1. CASE trans \in {0, 3}
        BY <1>1, <2>1, <3>1 DEF EndOf
      <3>2. CASE trans \in {16, 17}
        <4>1. q # p /\ end = q
          BY <1>1, <1>2, <3>2 DEF EndOf
        <4> QED BY <4>1
      <3>3. CASE trans \in {5, 9, 14}
        <4>1. end = q + 1
          BY <3>3 DEF EndOf
        <4> QED BY <4>1
      <3> QED BY <1>7, <3>1, <3>2, <3>3
    <2>4. b \in ScanState
      BY <1>1 DEF ScanState
    <2> HIDE DEF r, end, b
    <2>5. q + 1 \in Int
      OBVIOUS
    <2> QED BY <2>2, <2>3, <2>4, <2>5, ReturnScanning
  <1>8. trans \in {4, 10, 13} \/ trans \in {1, 2, 6, 7, 8, 11, 12, 15, 18}
        \/ trans \in {0, 3, 5, 9, 14, 16, 17}
    BY <1>2
  <1> QED BY <1>5, <1>6, <1>7, <1>8

(***************************************************************************)
(* A call                                                                  *)
(***************************************************************************)

\* The scan, character by character.
Advances(after, text, p, n) ==
    /\ after[0] = Begin
    /\ \A k \in 1 .. n :
          after[k] = IF after[k - 1].returned THEN after[k - 1]
                     ELSE Take(after[k - 1], Transition(after[k - 1].cs, text[p + k]), p + k - 1)

\* Any transition keeps the type of the state.
LEMMA TakeTyped ==
    ASSUME NEW s \in ScanState, NEW c, NEW p \in Int
    PROVE  Take(s, Transition(s.cs, c), p) \in ScanState
  <1> DEFINE trans == Transition(s.cs, c)
             n == Len(ActionsOf(trans))
             b == [s EXCEPT !.cs = trans_targs[trans + 1]]
  <1>1. trans \in 0 .. 18
    <2>1. s.cs \in 0 .. 11
      BY DEF ScanState
    <2> QED BY <2>1, TransitionTyped
  <1> HIDE DEF trans
  <1>2. trans_targs[trans + 1] \in 0 .. 11 /\ n \in Nat
    <2>1. CASE trans \in {4, 10, 13}
      BY <2>1, NoActions, Targets
    <2>2. CASE trans \in {1, 2, 6, 7, 8, 11, 12, 15, 18}
      BY SMTT(30), <2>2, TwoActionsAre, Targets
    <2>3. CASE trans \in {0, 3, 5, 9, 14, 16, 17}
      BY SMTT(30), <2>3, OneActionIs, Targets
    <2> QED BY <1>1, <2>1, <2>2, <2>3
  <1>3. TakenIn(s, trans, p, n, b)
    BY <1>2, TakeSteps
  <1> HIDE DEF n, b
  <1>4. PICK done \in [0 .. n -> ScanState] : Take(s, trans, p) = done[n]
    BY <1>3 DEF TakenIn
  <1> QED BY <1>2, <1>4 DEF trans

\* AtEnd is the last state of the scan.
LEMMA AtEndAdvances ==
    ASSUME NEW text, NEW p \in Nat, NEW pe \in Nat, p <= pe
    PROVE  \E after : Advances(after, text, p, pe - p) /\ AtEnd(text, p, pe) = after[pe - p]
  <1> DEFINE n == pe - p
             Step(k, s) == IF s.returned THEN s
                           ELSE Take(s, Transition(s.cs, text[p + k]), p + k - 1)
             F == [x \in (1 .. n) \X ScanState |-> Step(x[1], x[2])]
             Rec(g) == g = [k \in 0 .. n |->
                              IF k = 0 THEN Begin
                              ELSE LET s == g[k - 1]
                                   IN  IF s.returned THEN s
                                       ELSE Take(s, Transition(s.cs, text[p + k]), p + k - 1)]
             after == CHOOSE g : Rec(g)
  <1>1. Begin \in ScanState
    BY DEF Begin, ScanState, start
  <1>2. ASSUME NEW k \in 1 .. n, NEW s \in ScanState PROVE Step(k, s) \in ScanState
    <2>1. p + k - 1 \in Int
      OBVIOUS
    <2> QED BY <2>1, TakeTyped
  <1>3. n \in Nat
    OBVIOUS
  <1>4. \A k \in 1 .. n : \A s \in ScanState : F[<<k, s>>] = Step(k, s)
    OBVIOUS
  <1>5. Closed(ScanState, n, F)
    BY <1>2, <1>4 DEF Closed
  <1>6. AtEnd(text, p, pe) = after[n]
    BY DEF AtEnd
  <1> HIDE DEF F, n, Step
  <1>7. PICK g \in [0 .. n -> ScanState] : Solves(g, Begin, n, F)
    BY <1>1, <1>3, <1>5, RecursionDefined
  <1>8. ASSUME NEW k \in 0 .. n PROVE g[k] = IF k = 0 THEN Begin ELSE Step(k, g[k - 1])
    <2>1. k # 0 => k - 1 \in 0 .. n /\ k \in 1 .. n
      BY <1>3
    <2> QED BY <1>4, <1>7, <2>1 DEF Solves
  <1>9. Rec(g)
    BY <1>7, <1>8 DEF Step
  <1>10. Rec(after)
    <2> HIDE DEF Rec
    <2> QED BY <1>9
  <1> HIDE DEF after
  <1>11. \A k \in 0 .. n : after[k] = IF k = 0 THEN Begin ELSE Step(k, after[k - 1])
    BY <1>10 DEF Step
  <1>12. Advances(after, text, p, n)
    BY <1>3, <1>11 DEF Advances, Step
  <1> QED BY <1>6, <1>12 DEF n

\* So the scanner knows it at the end of the text.
LEMMA AtEndScanning ==
    ASSUME NEW text, NEW p \in Nat, NEW pe \in Nat, p <= pe
    PROVE  Scanning(AtEnd(text, p, pe), p, pe)
  <1> DEFINE n == pe - p
  <1>1. PICK after : Advances(after, text, p, n) /\ AtEnd(text, p, pe) = after[n]
    BY AtEndAdvances
  <1>2. n \in Nat /\ p + n = pe /\ p + 0 = p
    OBVIOUS
  <1> HIDE DEF n
  <1> DEFINE S == {k \in 0 .. n : Scanning(after[k], p, p + k)}
  <1>3. 0 \in S
    <2>1. Scanning(Begin, p, p)
      BY DEF Scanning, Begin, ScanState, start
    <2> QED BY <1>1, <1>2, <2>1 DEF Advances
  <1>4. ASSUME NEW k \in 0 .. n - 1, k \in S PROVE k + 1 \in S
    <2> DEFINE s == after[k]
               q == p + k
               c == text[p + (k + 1)]
    <2>1. k + 1 \in 1 .. n /\ k + 1 \in 0 .. n /\ (k + 1) - 1 = k /\ p + (k + 1) - 1 = q
          /\ p + (k + 1) = q + 1 /\ q \in Int /\ p <= q
      BY <1>2
    <2>2. after[k + 1] = IF s.returned THEN s ELSE Take(s, Transition(s.cs, c), q)
      BY <1>1, <2>1 DEF Advances
    <2>3. Scanning(s, p, q)
      BY <1>4
    <2> HIDE DEF s, q, c
    <2>4. Scanning(after[k + 1], p, q + 1)
      <3>1. CASE s.returned
        BY <2>1, <2>2, <2>3, <3>1 DEF Scanning
      <3>2. CASE ~s.returned
        BY <2>1, <2>2, <2>3, <3>2, TakeScanning
      <3> QED BY <3>1, <3>2
    <2> QED BY <2>1, <2>4
  <1>5. 0 .. n \subseteq S
    <2> HIDE DEF S
    <2> QED BY <1>2, <1>3, <1>4, UpTo
  <1>6. n \in S
    BY <1>2, <1>5
  <1> QED BY <1>1, <1>2, <1>6

\* A call that has something to scan takes at least one character and none behind
\* the end, and does not get to the lines that "should not be reached".
THEOREM ScanAdvances ==
    ASSUME NEW text, NEW p \in Nat, NEW pe \in Nat, p < pe
    PROVE  /\ Scan(text, p, pe).returned
           /\ Scan(text, p, pe).out \in p + 1 .. pe
           /\ Scan(text, p, pe).is_emoji \in BOOLEAN
  <1> DEFINE s == AtEnd(text, p, pe)
             trans == eof_trans[s.cs + 1] - 1
             r == Take(s, trans, pe)
             b == [s EXCEPT !.cs = 2]
             end == EndOf(s, trans, pe)
  <1>1. Scanning(s, p, pe)
    BY AtEndScanning
  <1>2. Scan(text, p, pe) = IF s.returned THEN s
                            ELSE IF eof_trans[s.cs + 1] > 0 THEN r ELSE [s EXCEPT !.out = pe]
    BY Zenon DEF Scan
  <1> HIDE DEF s
  <1>3. CASE s.returned
    BY <1>1, <1>2, <1>3 DEF Scanning, ScanState
  <1>4. CASE ~s.returned
    <2>1. /\ s \in ScanState /\ s.cs \in 0 .. 11 /\ s.cs # 2
          /\ s.cs # 8 => s.te \in p + 1 .. pe /\ s.act \in {2, 3}
      BY <1>1, <1>4 DEF Scanning, ScanState
    <2>2. eof_trans[s.cs + 1] > 0 /\ trans \in {0, 3, 16, 17} /\ (s.cs = 8 => trans = 17)
      BY <2>1 DEF eof_trans
    <2>3. Scan(text, p, pe) = r
      BY <1>2, <1>4, <2>2
    <2> HIDE DEF trans
    <2>4. Returns(r, b, end)
      <3>1. trans = 0 => s.act \in {2, 3}
        BY <2>1, <2>2
      <3>2. ReturnsAs(r, s, trans, b, end)
        BY <1>4, <2>1, <2>2, <3>1, TakeReturns
      <3> HIDE DEF r, b, end
      <3> QED BY <3>2 DEF Returns, ReturnsAs
    <2>5. end \in p + 1 .. pe
      BY <2>1, <2>2 DEF EndOf
    <2>6. b \in ScanState
      BY <2>1 DEF ScanState
    <2> HIDE DEF r, end, b
    <2>7. Scanning(r, p, pe) /\ r.returned
      BY <2>4, <2>5, <2>6, ReturnScanning
    <2> QED BY <2>3, <2>7 DEF Scanning, ScanState
  <1> QED BY <1>3, <1>4

(***************************************************************************)
(* Calls that see more or less of the text                                 *)
(***************************************************************************)

\* The match a state stands for, if the text ends at q: where it ends, and
\* whether it is an emoji.
Mark(s, q) == IF s.returned THEN s.out ELSE IF s.cs \in {0, 1, 3} THEN s.te ELSE q

IsEmojiMark(s) == IF s.returned THEN s.is_emoji = TRUE ELSE s.cs \notin {8, 9} /\ s.act = 2

\* What the scanner knows where it looks at q.
Knowing(s, p, q) ==
    /\ Scanning(s, p, q)
    /\ ~s.returned /\ s.cs \in {4, 5, 6, 7, 9, 10, 11} => s.te = q
    /\ ~s.returned /\ s.cs \in {1, 4, 5, 6, 7, 10, 11} => s.act = 2
    /\ ~s.returned /\ s.cs = 9 => s.act = 3

\* The states that some transitions leave.
LEMMA TransitionFrom ==
    ASSUME NEW cs \in 0 .. 11, NEW c
    PROVE  /\ Transition(cs, c) = 0 => cs \in {0, 3}
           /\ Transition(cs, c) = 3 => cs = 1
           /\ Transition(cs, c) = 4 => cs \in {1, 11}
           /\ Transition(cs, c) = 10 => cs = 2
           /\ Transition(cs, c) = 16 => cs \in {4, 5, 6, 7, 10, 11}
           /\ Transition(cs, c) = 17 => cs \in {8, 9}
  <1>1. PICK offset \in 0 .. single_lengths[cs + 1] + range_lengths[cs + 1] :
               Transition(cs, c) = indicies[index_offsets[cs + 1] + offset + 1]
    BY TransitionOffset
  <1> DEFINE i == index_offsets[cs + 1] + offset
             trans == Transition(cs, c)
  <1>2. i \in 0 .. 50
    BY DEF single_lengths, range_lengths, index_offsets
  <1>3. /\ i \in {4, 19} => cs \in {0, 3}
        /\ i \in {7} => cs = 1
        /\ i \in {5, 49} => cs \in {1, 11}
        /\ i \in {10} => cs = 2
        /\ i \in {22, 24, 28, 34, 44, 50} => cs \in {4, 5, 6, 7, 10, 11}
        /\ i \in {36, 41} => cs \in {8, 9}
    BY DEF single_lengths, range_lengths, index_offsets
  <1>4. \A j \in 0 .. 50 :
           /\ indicies[j + 1] = 0 => j \in {4, 19}
           /\ indicies[j + 1] = 3 => j \in {7}
           /\ indicies[j + 1] = 4 => j \in {5, 49}
           /\ indicies[j + 1] = 10 => j \in {10}
           /\ indicies[j + 1] = 16 => j \in {22, 24, 28, 34, 44, 50}
           /\ indicies[j + 1] = 17 => j \in {36, 41}
    BY DEF indicies
  <1>5. trans = indicies[i + 1]
    BY <1>1
  <1> HIDE DEF i, trans
  <1> QED BY <1>2, <1>3, <1>4, <1>5 DEF trans

\* A transition keeps that too, and moves the mark forward: where it stays it stands
\* for the same.
LEMMA TakeKnowing ==
    ASSUME NEW s, NEW p \in Int, NEW q \in Int, p <= q,
           Knowing(s, p, q), ~s.returned, NEW c, NEW r, r = Take(s, Transition(s.cs, c), q)
    PROVE  /\ Knowing(r, p, q + 1)
           /\ p < q => /\ Mark(s, q) <= Mark(r, q + 1)
                       /\ Mark(s, q) = Mark(r, q + 1) => (IsEmojiMark(s) <=> IsEmojiMark(r))
  <1> DEFINE trans == Transition(s.cs, c)
  <1>1. /\ s \in ScanState /\ s.cs \in 0 .. 11
        /\ s.cs = 2 <=> q = p
        /\ s.cs \notin {2, 8} => s.te \in p + 1 .. q /\ s.act \in {2, 3}
        /\ s.cs \in {4, 5, 6, 7, 9, 10, 11} => s.te = q
        /\ s.cs \in {1, 4, 5, 6, 7, 10, 11} => s.act = 2
        /\ s.cs = 9 => s.act = 3
    BY DEF Knowing, Scanning, ScanState
  <1>2. /\ trans \in 0 .. 18
        /\ s.cs = 2 => trans \in {6, 7, 8, 9, 10, 11, 12}
        /\ s.cs = 8 => trans \in {5, 17}
    BY <1>1, TransitionTyped
  <1>3. /\ trans = 0 => s.cs \in {0, 3}
        /\ trans = 3 => s.cs = 1
        /\ trans = 4 => s.cs \in {1, 11}
        /\ trans = 10 => s.cs = 2
        /\ trans = 16 => s.cs \in {4, 5, 6, 7, 10, 11}
        /\ trans = 17 => s.cs \in {8, 9}
    BY <1>1, TransitionFrom
  <1>4. Scanning(r, p, q + 1)
    BY TakeScanning DEF Knowing
  <1> HIDE DEF trans
  <1>10. r = Take(s, trans, q)
    BY DEF trans
  <1>11. p < q => Mark(s, q) \in p + 1 .. q
    BY <1>1 DEF Mark
  <1>5. CASE trans \in {4, 10, 13}
    <2> DEFINE cs == trans_targs[trans + 1]
    <2>1. r = [s EXCEPT !.cs = cs]
      BY <1>1, <1>5, <1>10, TakeNone
    <2>2. (trans = 4 => cs = 1) /\ (trans = 10 => cs = 8) /\ (trans = 13 => cs = 0)
      BY <1>5, Targets
    <2> HIDE DEF cs
    <2>3. r.cs = cs /\ r.te = s.te /\ r.act = s.act /\ ~r.returned
      BY <1>1, <2>1 DEF ScanState
    <2>4. trans = 4 => s.cs \in {1, 11} /\ s.act = 2
      BY <1>1, <1>3
    <2>5. Knowing(r, p, q + 1)
      BY <1>4, <1>5, <2>2, <2>3, <2>4 DEF Knowing
    <2>6. ASSUME p < q PROVE Mark(s, q) = Mark(r, q + 1)
      <3>1. s.cs \notin {2, 8} /\ trans # 10 /\ r.cs \in {0, 1}
        BY <1>1, <1>2, <1>3, <1>5, <2>2, <2>3, <2>6
      <3>2. Mark(s, q) = s.te
        BY <1>1, <3>1 DEF Mark
      <3> QED BY <2>3, <3>1, <3>2 DEF Mark
    <2>7. ASSUME p < q PROVE IsEmojiMark(s) <=> IsEmojiMark(r)
      <3>1. s.cs \notin {2, 8} /\ trans # 10 /\ r.cs \in {0, 1}
        BY <1>1, <1>2, <1>3, <1>5, <2>2, <2>3, <2>7
      <3> QED BY <1>1, <2>3, <3>1 DEF IsEmojiMark
    <2>8. p < q => Mark(s, q) \in Int
      BY <1>11
    <2> QED BY <2>5, <2>6, <2>7, <2>8
  <1>6. CASE trans \in {1, 2, 6, 7, 8, 11, 12, 15, 18}
    <2> DEFINE cs == trans_targs[trans + 1]
               act == ActOf(trans)
    <2>1. Matched(r, s, cs, q, act)
      BY <1>1, <1>6, <1>10, TakeTwo
    <2>2. /\ cs \in {3, 4, 5, 6, 7, 9, 10, 11}
          /\ (trans = 11 => cs = 9) /\ (trans = 6 => cs = 3) /\ (cs = 9 => trans = 11)
      BY <1>6, Targets
    <2>3. (trans \in {6, 11} => act = 3) /\ (trans \notin {6, 11} => act = 2)
      BY DEF ActOf
    <2> HIDE DEF cs, act
    <2>4. r = [s EXCEPT !.cs = cs, !.te = q + 1, !.act = act]
      BY <2>1 DEF Matched
    <2>5. r.cs = cs /\ r.te = q + 1 /\ r.act = act /\ ~r.returned
      BY <1>1, <2>4 DEF ScanState
    <2>6. Knowing(r, p, q + 1)
      BY <1>4, <2>2, <2>3, <2>5 DEF Knowing
    <2>7. Mark(r, q + 1) = q + 1
      BY <2>2, <2>5 DEF Mark
    <2> QED BY <1>11, <2>6, <2>7
  <1>7. CASE trans \in {0, 3, 5, 9, 14, 16, 17}
    <2> DEFINE b == [s EXCEPT !.cs = 2]
               end == EndOf(s, trans, q)
    <2>1. trans = 0 => s.act \in {2, 3}
      BY <1>1, <1>3
    <2>2. ReturnsAs(r, s, trans, b, end)
      BY <1>1, <1>7, <1>10, <2>1, TakeReturns
    <2>3. b \in ScanState
      BY <1>1 DEF ScanState
    <2> HIDE DEF end, b
    <2>4. r.returned = TRUE /\ r.out = end
      BY <2>2, <2>3 DEF ReturnsAs, Return, ScanState
    <2>5. Knowing(r, p, q + 1) /\ Mark(r, q + 1) = end
      BY <1>4, <2>4 DEF Knowing, Mark
    <2>6. IsEmojiMark(r) <=> EmojiEnd(s, trans)
      <3>1. CASE EmojiEnd(s, trans)
        <4>1. r = Return(b, end, TRUE)
          BY <2>2, <3>1 DEF ReturnsAs
        <4>2. r.is_emoji = TRUE
          BY <2>3, <4>1 DEF Return, ScanState
        <4> QED BY <2>4, <3>1, <4>2 DEF IsEmojiMark
      <3>2. CASE ~EmojiEnd(s, trans)
        <4>1. r = Return(b, end, FALSE)
          BY <2>2, <3>2 DEF ReturnsAs
        <4>2. r.is_emoji = FALSE
          BY <2>3, <4>1 DEF Return, ScanState
        <4> QED BY <2>4, <3>2, <4>2 DEF IsEmojiMark
      <3> QED BY <3>1, <3>2
    <2>7. CASE trans \in {5, 9, 14}
      <3>1. end = q + 1
        BY <2>7 DEF EndOf, end
      <3> QED BY <1>11, <2>5, <3>1
    <2>8. CASE trans \in {0, 3, 16, 17}
      <3>1. Mark(s, q) = end
        <4>1. CASE trans \in {0, 3}
          <5>1. s.cs \in {0, 1, 3}
            BY <1>3, <4>1
          <5> QED BY <4>1, <5>1 DEF EndOf, Mark, end
        <4>2. CASE trans \in {16, 17}
          <5>1. s.cs \notin {0, 1, 3}
            BY <1>3, <4>2
          <5> QED BY <4>2, <5>1 DEF EndOf, Mark, end
        <4> QED BY <2>8, <4>1, <4>2
      <3>2. IsEmojiMark(s) <=> EmojiEnd(s, trans)
        BY <1>1, <1>3, <2>8 DEF IsEmojiMark, EmojiEnd
      <3> QED BY <1>11, <2>5, <2>6, <3>1, <3>2
    <2> QED BY <1>7, <2>7, <2>8
  <1>8. trans \in {4, 10, 13} \/ trans \in {1, 2, 6, 7, 8, 11, 12, 15, 18}
        \/ trans \in {0, 3, 5, 9, 14, 16, 17}
    BY <1>2
  <1> QED BY <1>5, <1>6, <1>7, <1>8

\* What the scanner knows after each character.
LEMMA AdvancesKnowing ==
    ASSUME NEW after, NEW text, NEW p \in Nat, NEW n \in Nat, Advances(after, text, p, n)
    PROVE  \A k \in 0 .. n : Knowing(after[k], p, p + k)
  <1> DEFINE S == {k \in 0 .. n : Knowing(after[k], p, p + k)}
  <1>1. 0 \in S
    <2>1. Knowing(Begin, p, p)
      BY DEF Knowing, Scanning, Begin, ScanState, start
    <2> QED BY <2>1 DEF Advances
  <1>2. ASSUME NEW k \in 0 .. n - 1, k \in S PROVE k + 1 \in S
    <2> DEFINE s == after[k]
               r == after[k + 1]
               q == p + k
               c == text[p + (k + 1)]
    <2>1. k + 1 \in 1 .. n /\ k + 1 \in 0 .. n /\ (k + 1) - 1 = k /\ p + (k + 1) - 1 = q
          /\ p + (k + 1) = q + 1 /\ q \in Int /\ p <= q
      OBVIOUS
    <2>2. r = IF s.returned THEN s ELSE Take(s, Transition(s.cs, c), q)
      BY <2>1 DEF Advances
    <2>3. Knowing(s, p, q)
      BY <1>2
    <2> HIDE DEF s, q, c, r
    <2>4. Knowing(r, p, q + 1)
      <3>1. CASE s.returned
        BY <2>1, <2>2, <2>3, <3>1 DEF Knowing, Scanning
      <3>2. CASE ~s.returned
        BY <2>1, <2>2, <2>3, <3>2, TakeKnowing
      <3> QED BY <3>1, <3>2
    <2> QED BY <2>1, <2>4 DEF r
  <1>3. 0 .. n \subseteq S
    <2> HIDE DEF S
    <2> QED BY <1>1, <1>2, UpTo
  <1> QED BY <1>3

\* A match known is kept, unless a longer one is found.
LEMMA MarksGrow ==
    ASSUME NEW after, NEW text, NEW p \in Nat, NEW n \in Nat, Advances(after, text, p, n),
           NEW m \in 1 .. n
    PROVE  /\ Mark(after[m], p + m) <= Mark(after[n], p + n)
           /\ Mark(after[m], p + m) = Mark(after[n], p + n)
                 => (IsEmojiMark(after[m]) <=> IsEmojiMark(after[n]))
  <1> DEFINE M(k) == Mark(after[k], p + k)
             E(k) == IsEmojiMark(after[k])
             S == {k \in 0 .. n - m : M(m) <= M(m + k) /\ (M(m) = M(m + k) => (E(m) <=> E(m + k)))}
  <1>1. ASSUME NEW k \in 1 .. n PROVE M(k) \in p + 1 .. p + k
    <2>1. Knowing(after[k], p, p + k) /\ p + k \in Int /\ p + k # p
      BY AdvancesKnowing
    <2> QED BY <2>1 DEF Knowing, Scanning, ScanState, Mark
  <1>2. 0 \in S
    <2>1. m + 0 = m /\ M(m) \in Int
      BY <1>1
    <2> HIDE DEF M, E
    <2> QED BY <2>1
  <1>3. ASSUME NEW k \in 0 .. (n - m) - 1, k \in S PROVE k + 1 \in S
    <2> DEFINE j == m + k
               s == after[j]
               r == after[j + 1]
               q == p + j
               c == text[p + (j + 1)]
    <2>1. j + 1 \in 1 .. n /\ j \in 1 .. n /\ j \in 0 .. n /\ (j + 1) - 1 = j
          /\ p + (j + 1) - 1 = q /\ p + (j + 1) = q + 1 /\ q \in Int /\ p < q
          /\ m + (k + 1) = j + 1 /\ k + 1 \in 0 .. n - m
      OBVIOUS
    <2>2. r = IF s.returned THEN s ELSE Take(s, Transition(s.cs, c), q)
      BY <2>1 DEF Advances
    <2>3. Knowing(s, p, q)
      BY <2>1, AdvancesKnowing
    <2>4. M(m) \in Int /\ M(j) \in Int /\ M(j + 1) \in Int
      BY <1>1, <2>1
    <2>5. M(m) <= M(j) /\ (M(m) = M(j) => (E(m) <=> E(j)))
      BY <1>3
    <2>6. M(j) <= M(j + 1) /\ (M(j) = M(j + 1) => (E(j) <=> E(j + 1)))
      <3>1. /\ Mark(s, q) <= Mark(r, q + 1)
            /\ Mark(s, q) = Mark(r, q + 1) => (IsEmojiMark(s) <=> IsEmojiMark(r))
        <4> HIDE DEF s, r, q, c
        <4>1. CASE s.returned
          <5>1. r = s /\ Mark(s, q) = s.out /\ Mark(r, q + 1) = s.out /\ s.out \in Int
            BY <2>2, <2>3, <4>1 DEF Mark, Knowing, Scanning, ScanState
          <5> QED BY <5>1
        <4>2. CASE ~s.returned
          BY <2>1, <2>2, <2>3, <4>2, TakeKnowing
        <4> QED BY <4>1, <4>2
      <3> QED BY <2>1, <3>1
    <2> HIDE DEF M, E, j
    <2>7. M(m) <= M(j + 1) /\ (M(m) = M(j + 1) => (E(m) <=> E(j + 1)))
      BY <2>4, <2>5, <2>6
    <2> QED BY <2>1, <2>7
  <1>4. 0 .. n - m \subseteq S
    <2>1. n - m \in Nat
      OBVIOUS
    <2> HIDE DEF S
    <2> QED BY <1>2, <1>3, <2>1, UpTo
  <1>5. n - m \in S /\ m + (n - m) = n
    <2>1. n - m \in 0 .. n - m /\ m + (n - m) = n
      OBVIOUS
    <2> QED BY <1>4, <2>1
  <1> QED BY <1>5

\* What a call returns is the match its last state stands for.
LEMMA ScanMark ==
    ASSUME NEW text, NEW p \in Nat, NEW pe \in Nat, p < pe, Knowing(AtEnd(text, p, pe), p, pe)
    PROVE  /\ Scan(text, p, pe).out = Mark(AtEnd(text, p, pe), pe)
           /\ Scan(text, p, pe).is_emoji = TRUE <=> IsEmojiMark(AtEnd(text, p, pe))
  <1> DEFINE s == AtEnd(text, p, pe)
             trans == eof_trans[s.cs + 1] - 1
             r == Take(s, trans, pe)
             b == [s EXCEPT !.cs = 2]
             end == EndOf(s, trans, pe)
  <1>1. Knowing(s, p, pe)
    OBVIOUS
  <1>2. Scan(text, p, pe) = IF s.returned THEN s
                            ELSE IF eof_trans[s.cs + 1] > 0 THEN r ELSE [s EXCEPT !.out = pe]
    BY Zenon DEF Scan
  <1> HIDE DEF s
  <1> SUFFICES /\ Scan(text, p, pe).out = Mark(s, pe)
               /\ Scan(text, p, pe).is_emoji = TRUE <=> IsEmojiMark(s)
    BY DEF s
  <1>3. CASE s.returned
    BY <1>1, <1>2, <1>3 DEF Mark, IsEmojiMark
  <1>4. CASE ~s.returned
    <2>1. /\ s \in ScanState /\ s.cs \in 0 .. 11 /\ s.cs # 2
          /\ s.cs # 8 => s.te \in p + 1 .. pe /\ s.act \in {2, 3}
          /\ s.cs \in {1, 4, 5, 6, 7, 10, 11} => s.act = 2
      BY <1>1, <1>4 DEF Knowing, Scanning, ScanState
    <2>2. /\ eof_trans[s.cs + 1] > 0 /\ trans \in {0, 3, 16, 17}
          /\ trans = 0 => s.cs \in {0, 3}
          /\ trans = 3 => s.cs = 1
          /\ trans = 16 => s.cs \in {4, 5, 6, 7, 10, 11}
          /\ trans = 17 => s.cs \in {8, 9}
      BY <2>1 DEF eof_trans
    <2>3. Scan(text, p, pe) = r
      BY <1>2, <1>4, <2>2
    <2> HIDE DEF trans
    <2>4. trans = 0 => s.act \in {2, 3}
      BY <2>1, <2>2
    <2>5. ReturnsAs(r, s, trans, b, end)
      BY <1>4, <2>1, <2>2, <2>4, TakeReturns
    <2>6. b \in ScanState
      BY <2>1 DEF ScanState
    <2> HIDE DEF r, end, b
    <2>7. r.out = end
      BY <2>5, <2>6 DEF ReturnsAs, Return, ScanState
    <2>8. r.is_emoji = TRUE <=> EmojiEnd(s, trans)
      <3>1. CASE EmojiEnd(s, trans)
        <4>1. r = Return(b, end, TRUE)
          BY <2>5, <3>1 DEF ReturnsAs
        <4>2. r.is_emoji = TRUE
          BY <2>6, <4>1 DEF Return, ScanState
        <4> QED BY <3>1, <4>2
      <3>2. CASE ~EmojiEnd(s, trans)
        <4>1. r = Return(b, end, FALSE)
          BY <2>5, <3>2 DEF ReturnsAs
        <4>2. r.is_emoji = FALSE
          BY <2>6, <4>1 DEF Return, ScanState
        <4> QED BY <3>2, <4>2
      <3> QED BY <3>1, <3>2
    <2>9. end = Mark(s, pe)
      <3>1. CASE trans \in {0, 3}
        <4>1. s.cs \in {0, 1, 3}
          BY <2>2, <3>1
        <4> QED BY <1>4, <3>1, <4>1 DEF end, EndOf, Mark
      <3>2. CASE trans \in {16, 17}
        <4>1. s.cs \notin {0, 1, 3}
          BY <2>2, <3>2
        <4> QED BY <1>4, <3>2, <4>1 DEF end, EndOf, Mark
      <3> QED BY <2>2, <3>1, <3>2
    <2>10. EmojiEnd(s, trans) <=> IsEmojiMark(s)
      BY <1>4, <2>1, <2>2 DEF EmojiEnd, IsEmojiMark
    <2> QED BY <2>3, <2>7, <2>8, <2>9, <2>10
  <1> QED BY <1>3, <1>4

\* A call that sees less of the text finds no longer match, and the same if it
\* finds one as long.
THEOREM ScanSeesLess ==
    ASSUME NEW text, NEW p \in Nat, NEW less \in Nat, NEW more \in Nat, p < less, less <= more
    PROVE  /\ Scan(text, p, less).out <= Scan(text, p, more).out
           /\ Scan(text, p, less).out = Scan(text, p, more).out
                 => Scan(text, p, less).is_emoji = Scan(text, p, more).is_emoji
  <1> DEFINE m == less - p
             n == more - p
  <1>1. PICK short : Advances(short, text, p, m) /\ AtEnd(text, p, less) = short[m]
    BY AtEndAdvances
  <1>2. PICK after : Advances(after, text, p, n) /\ AtEnd(text, p, more) = after[n]
    BY AtEndAdvances
  <1>3. m \in 1 .. n /\ m \in Nat /\ n \in Nat /\ p + m = less /\ p + n = more /\ n \in 0 .. n
        /\ p < more
    OBVIOUS
  <1> HIDE DEF m, n
  <1>4. short[m] = after[m]
    <2> DEFINE S == {k \in 0 .. m : short[k] = after[k]}
    <2>1. 0 \in S
      BY <1>1, <1>2, <1>3 DEF Advances
    <2>2. ASSUME NEW k \in 0 .. m - 1, k \in S PROVE k + 1 \in S
      <3>1. k + 1 \in 1 .. m /\ k + 1 \in 1 .. n /\ k + 1 \in 0 .. m /\ (k + 1) - 1 = k
        BY <1>3
      <3>2. short[k] = after[k]
        BY <2>2
      <3>3. short[k + 1] = after[k + 1]
        BY <1>1, <1>2, <3>1, <3>2 DEF Advances
      <3> QED BY <3>1, <3>3
    <2>3. 0 .. m \subseteq S
      <3> HIDE DEF S
      <3> QED BY <1>3, <2>1, <2>2, UpTo
    <2> QED BY <1>3, <2>3
  <1>5. Knowing(after[m], p, less) /\ Knowing(after[n], p, more)
    BY <1>2, <1>3, AdvancesKnowing
  <1>6. /\ Mark(after[m], less) <= Mark(after[n], more)
        /\ Mark(after[m], less) = Mark(after[n], more)
              => (IsEmojiMark(after[m]) <=> IsEmojiMark(after[n]))
    BY <1>2, <1>3, MarksGrow
  <1>7. /\ Scan(text, p, less).out = Mark(after[m], less)
        /\ Scan(text, p, less).is_emoji = TRUE <=> IsEmojiMark(after[m])
    <2>1. AtEnd(text, p, less) = after[m]
      BY <1>1, <1>4
    <2>2. Knowing(AtEnd(text, p, less), p, less)
      BY <1>5, <2>1
    <2>3. /\ Scan(text, p, less).out = Mark(AtEnd(text, p, less), less)
          /\ Scan(text, p, less).is_emoji = TRUE <=> IsEmojiMark(AtEnd(text, p, less))
      BY <2>2, ScanMark
    <2> QED BY <2>1, <2>3
  <1>8. /\ Scan(text, p, more).out = Mark(after[n], more)
        /\ Scan(text, p, more).is_emoji = TRUE <=> IsEmojiMark(after[n])
    <2>1. Knowing(AtEnd(text, p, more), p, more)
      BY <1>2, <1>5
    <2>2. /\ Scan(text, p, more).out = Mark(AtEnd(text, p, more), more)
          /\ Scan(text, p, more).is_emoji = TRUE <=> IsEmojiMark(AtEnd(text, p, more))
      BY <1>3, <2>1, ScanMark
    <2> QED BY <1>2, <2>2
  <1>9. Scan(text, p, less).is_emoji \in BOOLEAN /\ Scan(text, p, more).is_emoji \in BOOLEAN
    BY ScanAdvances
  <1> QED BY <1>6, <1>7, <1>8, <1>9
=============================================================================
