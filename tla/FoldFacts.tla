----------------------------- MODULE FoldFacts ------------------------------
(***************************************************************************)
(* What FoldLeft computes, for every sequence.  The step `op` is a         *)
(* constant of the module, so that a module which folds with a step of its *)
(* own instantiates this one and has the facts for that step; its first    *)
(* argument is what the step depends on besides the state and the element. *)
(*                                                                         *)
(* The fold of a sequence has a course: the states after 0, 1, ..., n      *)
(* elements.  A fact about a fold is an induction along its course, and    *)
(* the induction is over a set of numbers (SetInduction), which the        *)
(* least-element property of the naturals gives.                           *)
(***************************************************************************)
EXTENDS Integers, FiniteSetsExt, WellFoundedInduction, TLAPS

CONSTANT op(_, _, _)

\* FoldLeft of SequencesExt, with that module's definition in place of its name:
\* an instance of FoldFacts copies all the modules it extends, and the theorems
\* are cited after nine of them.
Fold(par, base, seq) ==
    MapThenFoldSet(LAMBDA x, a : op(par, a, x), base, LAMBDA i : seq[i],
                   LAMBDA s : Max(s), DOMAIN seq)

\* A set with 0 that has the successor of each of its members has every natural number.
LEMMA SetInduction ==
    ASSUME NEW S, 0 \in S, \A n \in Nat : n \in S => n + 1 \in S
    PROVE  Nat \subseteq S
<1> DEFINE T == Nat \ S
<1> SUFFICES ASSUME T # {} PROVE FALSE OBVIOUS
<1>1. \E x \in T : \A y \in T : <<y, x>> \notin OpToRel(<, Nat)
  BY NatLessThanWellFounded, WFMin
<1>2. PICK x \in T : \A y \in T : ~(y < x)
  BY <1>1 DEF OpToRel
<1>3. x # 0 /\ x - 1 \in Nat BY <1>2
<1>4. x - 1 \in S BY <1>2, <1>3
<1> QED BY <1>2, <1>3, <1>4

-----------------------------------------------------------------------------
(* The recursion behind FoldLeft has a solution.                           *)

\* f folds each set of positions in 1..n, from its least to its greatest.
Solves(f, par, base, seq, n) ==
    f = [s \in SUBSET (1..n) |->
            IF s = {} THEN base ELSE op(par, f[s \ {Max(s)}], seq[Max(s)])]

LEMMA Solvable ==
    ASSUME NEW par, NEW base, NEW seq
    PROVE  \A n \in Nat : \E f : Solves(f, par, base, seq, n)
<1> DEFINE S == {n \in Nat : \E f : Solves(f, par, base, seq, n)}
<1>1. 0 \in S
  <2>1. 1..0 = {} OBVIOUS
  <2>2. Solves([s \in SUBSET {} |-> base], par, base, seq, 0) BY <2>1 DEF Solves
  <2> QED BY <2>2
<1>2. ASSUME NEW n \in Nat, n \in S PROVE n + 1 \in S
  <2>1. PICK f : Solves(f, par, base, seq, n) BY <1>2
  <2> DEFINE g == [s \in SUBSET (1..(n + 1)) |->
                      IF n + 1 \in s THEN op(par, f[s \ {n + 1}], seq[n + 1]) ELSE f[s]]
  <2>2. ASSUME NEW s \in SUBSET (1..(n + 1))
        PROVE  g[s] = IF s = {} THEN base ELSE op(par, g[s \ {Max(s)}], seq[Max(s)])
    <3>1. CASE n + 1 \in s
      <4>1. Max(s) = n + 1
        <5>1. \A y \in s : n + 1 >= y OBVIOUS
        <5>2. \A x \in s : (\A y \in s : x >= y) => x = n + 1 BY <3>1
        <5> QED BY <3>1, <5>1, <5>2 DEF Max
      <4>2. g[s \ {n + 1}] = f[s \ {n + 1}] OBVIOUS
      <4>3. g[s] = op(par, f[s \ {n + 1}], seq[n + 1]) BY <3>1
      <4> HIDE DEF g
      <4> QED BY <3>1, <4>1, <4>2, <4>3
    <3>2. CASE n + 1 \notin s
      <4>1. s \in SUBSET (1..n) BY <3>2
      <4>2. f[s] = IF s = {} THEN base ELSE op(par, f[s \ {Max(s)}], seq[Max(s)])
        BY <2>1, <4>1 DEF Solves
      <4>3. g[s] = f[s] BY <3>2
      <4>4. g[s \ {Max(s)}] = f[s \ {Max(s)}] BY <3>2
      <4> HIDE DEF g
      <4> QED BY <4>2, <4>3, <4>4
    <3> QED BY <3>1, <3>2
  <2>3. g = [s \in SUBSET (1..(n + 1)) |-> g[s]] OBVIOUS
  <2> HIDE DEF g
  <2>4. g = [s \in SUBSET (1..(n + 1)) |->
                IF s = {} THEN base ELSE op(par, g[s \ {Max(s)}], seq[Max(s)])]
    BY <2>2, <2>3
  <2>5. Solves(g, par, base, seq, n + 1) BY <2>4 DEF Solves
  <2> QED BY <2>5
<1> HIDE DEF S
<1>3. Nat \subseteq S BY <1>1, <1>2, SetInduction
<1> QED BY <1>3 DEF S

LEMMA FoldSolves ==
    ASSUME NEW par, NEW base, NEW seq, NEW n \in Nat, DOMAIN seq = 1..n
    PROVE  \E f : /\ Solves(f, par, base, seq, n)
                  /\ Fold(par, base, seq) = f[1..n]
<1>1. \E f : Solves(f, par, base, seq, n) BY Solvable
<1> DEFINE g == CHOOSE f : Solves(f, par, base, seq, n)
<1>2. Solves(g, par, base, seq, n) BY <1>1
<1>3. Fold(par, base, seq) = g[1..n]
  BY Zenon DEF Fold, MapThenFoldSet, Solves
<1> QED BY <1>2, <1>3

-----------------------------------------------------------------------------
(* The course of a fold.                                                   *)

Course(g, par, base, seq, n) ==
    /\ g[0] = base
    /\ \A i \in 1..n : g[i] = op(par, g[i - 1], seq[i])

\* Folding a sequence takes its elements one at a time, in order: there is a
\* course of states, from the base and one step per element, and the fold is
\* the last of them.  This is how the code folds the lines of a transcript
\* (`advance_from_source`), the messages of a line (`Replayer::apply`) and the
\* records of a stream (`MaterializedMeta::push`).
LEMMA FoldCourse ==
    ASSUME NEW par, NEW base, NEW seq, NEW n \in Nat, DOMAIN seq = 1..n
    PROVE  \E g : /\ Course(g, par, base, seq, n)
                  /\ Fold(par, base, seq) = g[n]
<1>1. PICK f : /\ Solves(f, par, base, seq, n)
               /\ Fold(par, base, seq) = f[1..n]
  BY FoldSolves
<1>2. \A s \in SUBSET (1..n) :
        f[s] = IF s = {} THEN base ELSE op(par, f[s \ {Max(s)}], seq[Max(s)])
  BY <1>1 DEF Solves
<1> DEFINE g == [i \in 0..n |-> f[1..i]]
<1>3. g[0] = base
  <2>1. 1..0 = {} /\ 0 \in 0..n OBVIOUS
  <2> QED BY <1>2, <2>1
<1>4. ASSUME NEW i \in 1..n PROVE g[i] = op(par, g[i - 1], seq[i])
  <2>1. 1..i \in SUBSET (1..n) /\ i \in 1..i /\ i - 1 \in 0..n
    <3> HIDE DEF g
    <3> QED OBVIOUS
  <2>2. Max(1..i) = i
    <3>1. i \in 1..i /\ \A y \in 1..i : i >= y OBVIOUS
    <3>2. \A x \in 1..i : (\A y \in 1..i : x >= y) => x = i OBVIOUS
    <3> QED BY <3>1, <3>2 DEF Max
  <2>3. (1..i) \ {i} = 1..(i - 1) OBVIOUS
  <2>4. f[1..i] = op(par, f[1..(i - 1)], seq[i]) BY <1>2, <2>1, <2>2, <2>3
  <2> QED BY <2>1, <2>4
<1>5. g[n] = f[1..n] OBVIOUS
<1> HIDE DEF g
<1> QED BY <1>1, <1>3, <1>4, <1>5 DEF Course

\* Two courses over the same elements are one.
LEMMA CourseUnique ==
    ASSUME NEW par, NEW base, NEW seq, NEW n \in Nat, NEW t, NEW g, NEW h,
           Course(g, par, base, seq, n), Course(h, par, base, t, n),
           \A i \in 1..n : seq[i] = t[i]
    PROVE  g[n] = h[n]
<1> DEFINE S == {i \in Nat : i <= n => g[i] = h[i]}
<1>1. 0 \in S BY DEF Course
<1>2. ASSUME NEW i \in Nat, i \in S PROVE i + 1 \in S
  <2> SUFFICES ASSUME i + 1 <= n PROVE g[i + 1] = h[i + 1] OBVIOUS
  <2>1. i + 1 \in 1..n /\ (i + 1) - 1 = i /\ g[i] = h[i] BY <1>2
  <2> QED BY <2>1 DEF Course
<1> HIDE DEF S
<1>3. Nat \subseteq S BY <1>1, <1>2, SetInduction
<1> QED BY <1>3 DEF S

\* There is no other course: whatever takes the elements one at a time from the
\* base, as `MaterializedMeta::push` does with the records it has read, ends at
\* the fold.
LEMMA FoldIs ==
    ASSUME NEW par, NEW base, NEW seq, NEW n \in Nat, DOMAIN seq = 1..n,
           NEW g, Course(g, par, base, seq, n)
    PROVE  Fold(par, base, seq) = g[n]
<1>1. PICK h : /\ Course(h, par, base, seq, n)
               /\ Fold(par, base, seq) = h[n]
  BY FoldCourse
<1>2. \A i \in 1..n : seq[i] = seq[i] OBVIOUS
<1>3. h[n] = g[n] BY <1>1, <1>2, CourseUnique
<1> QED BY <1>1, <1>3
=============================================================================
