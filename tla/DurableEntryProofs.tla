------------------------- MODULE DurableEntryProofs -------------------------
(***************************************************************************)
(* Invariants of the durable entry for every transcript.  The state of the *)
(* fold is a record of sequences that grow and are cut, so the facts are   *)
(* about folds: FoldFacts is instantiated for each step the model folds    *)
(* with, and a property of a line, a turn or a record is carried along the *)
(* course of the fold.                                                     *)
(*                                                                         *)
(* The order: sequences; the replayer under one message, one line and the  *)
(* frontier (IsReplayer, Bounded, Timed); the accumulator (IsAcc) and how  *)
(* its totals tie up with its records (Ties); the entry (EntryInv); and    *)
(* that committing turn by turn is one shaping of the transcript (Whole).  *)
(***************************************************************************)
EXTENDS DurableEntry, FiniteSetTheorems, SequenceTheorems, TLAPS

\* A finite sequence, whatever its elements are.
IsSeq(s) == Len(s) \in Nat /\ s = [i \in 1..Len(s) |-> s[i]]

LEMMA SeqTyped ==
    ASSUME NEW s, IsSeq(s)
    PROVE  s \in Seq({s[i] : i \in 1..Len(s)}) /\ DOMAIN s = 1..Len(s)
<1> DEFINE S == {s[i] : i \in 1..Len(s)}
<1>1. s \in [1..Len(s) -> S] BY DEF IsSeq
<1> HIDE DEF S
<1>2. s \in Seq(S) BY <1>1, SeqDef DEF IsSeq
<1>3. DOMAIN s = 1..Len(s) BY <1>1
<1> QED BY <1>2, <1>3 DEF S

LEMMA TypedSeq ==
    ASSUME NEW S, NEW s \in Seq(S)
    PROVE  IsSeq(s) /\ \A i \in 1..Len(s) : s[i] \in S
BY LenProperties DEF IsSeq

LEMMA SeqOfDomain ==
    ASSUME NEW f, NEW n \in Nat, f = [i \in 1..n |-> f[i]]
    PROVE  IsSeq(f) /\ Len(f) = n
<1> DEFINE S == {f[i] : i \in 1..n}
<1>1. f \in [1..n -> S] OBVIOUS
<1> HIDE DEF S
<1>2. f \in Seq(S) BY <1>1, SeqDef
<1>3. DOMAIN f = 1..Len(f) /\ DOMAIN f = 1..n /\ Len(f) \in Nat BY <1>1, <1>2, LenProperties
<1>4. Len(f) = n
  <2>1. Len(f) \in 0..n /\ n \in 0..Len(f) BY <1>3
  <2> QED BY <2>1
<1> QED BY <1>4 DEF IsSeq

LEMMA EmptyIsSeq == IsSeq(<<>>) /\ Len(<<>>) = 0
<1>1. <<>> \in Seq({}) OBVIOUS
<1> QED BY <1>1, TypedSeq

LEMMA SeqAppend ==
    ASSUME NEW s, NEW x, IsSeq(s)
    PROVE  /\ IsSeq(Append(s, x)) /\ Len(Append(s, x)) = Len(s) + 1
           /\ \A i \in 1..Len(s) : Append(s, x)[i] = s[i]
           /\ Append(s, x)[Len(s) + 1] = x
<1> DEFINE S == {s[i] : i \in 1..Len(s)} \cup {x}
<1>1. s \in Seq(S)
  <2>1. s \in Seq({s[i] : i \in 1..Len(s)}) BY SeqTyped
  <2>2. {s[i] : i \in 1..Len(s)} \subseteq S OBVIOUS
  <2> HIDE DEF S
  <2> QED BY <2>1, <2>2, SeqMonotonic
<1>2. x \in S OBVIOUS
<1> HIDE DEF S
<1>3. Append(s, x) \in Seq(S) BY <1>1, <1>2
<1>4. IsSeq(Append(s, x)) BY <1>3, TypedSeq
<1>5. Len(s) \in Nat BY DEF IsSeq
<1> QED BY <1>1, <1>2, <1>4, <1>5

LEMMA SeqConcat ==
    ASSUME NEW s, NEW t, IsSeq(s), IsSeq(t)
    PROVE  /\ IsSeq(s \o t) /\ Len(s \o t) = Len(s) + Len(t)
           /\ \A i \in 1..Len(s) : (s \o t)[i] = s[i]
           /\ \A i \in 1..Len(t) : (s \o t)[Len(s) + i] = t[i]
<1> DEFINE S == {s[i] : i \in 1..Len(s)} \cup {t[i] : i \in 1..Len(t)}
<1>1. s \in Seq(S) /\ t \in Seq(S)
  <2>1. s \in Seq({s[i] : i \in 1..Len(s)}) /\ t \in Seq({t[i] : i \in 1..Len(t)}) BY SeqTyped
  <2>2. {s[i] : i \in 1..Len(s)} \subseteq S /\ {t[i] : i \in 1..Len(t)} \subseteq S OBVIOUS
  <2> HIDE DEF S
  <2> QED BY <2>1, <2>2, SeqMonotonic
<1> HIDE DEF S
<1>2. s \o t \in Seq(S) BY <1>1
<1>3. IsSeq(s \o t) BY <1>2, TypedSeq
<1>4. Len(s) \in Nat /\ Len(t) \in Nat BY DEF IsSeq
<1>5. Len(s \o t) = Len(s) + Len(t) BY <1>1
<1>6. \A i \in 1 .. Len(s) + Len(t) : (s \o t)[i] = IF i <= Len(s) THEN s[i] ELSE t[i - Len(s)]
  BY <1>1, ConcatProperties
<1> QED BY <1>3, <1>4, <1>5, <1>6

LEMMA SeqSub ==
    ASSUME NEW s, NEW m \in Nat, NEW n \in Nat
    PROVE  /\ IsSeq(SubSeq(s, m, n))
           /\ Len(SubSeq(s, m, n)) = IF m <= n THEN n - m + 1 ELSE 0
           /\ \A i \in 1..(n - m + 1) : SubSeq(s, m, n)[i] = s[m + i - 1]
<1> DEFINE S == {s[i] : i \in m..n}
<1>1. \A i \in m..n : s[i] \in S OBVIOUS
<1> HIDE DEF S
<1>2. m \in Int /\ n \in Int OBVIOUS
<1>3. /\ SubSeq(s, m, n) \in Seq(S)
      /\ Len(SubSeq(s, m, n)) = IF m <= n THEN n - m + 1 ELSE 0
      /\ \A i \in 1..(n - m + 1) : SubSeq(s, m, n)[i] = s[m + i - 1]
  BY <1>1, <1>2, SubSeqProperties
<1> QED BY <1>3, TypedSeq

LEMMA SameSeq ==
    ASSUME NEW s, NEW t, IsSeq(s), IsSeq(t), Len(s) = Len(t),
           \A i \in 1..Len(s) : s[i] = t[i]
    PROVE  s = t
BY DEF IsSeq

\* A function on the positions of a sequence is a sequence as long.
LEMMA SeqLike ==
    ASSUME NEW s, NEW f, IsSeq(s), f = [j \in DOMAIN s |-> f[j]]
    PROVE  IsSeq(f) /\ Len(f) = Len(s)
<1>1. Len(s) \in Nat /\ DOMAIN s = 1..Len(s) BY SeqTyped DEF IsSeq
<1>2. f = [j \in 1..Len(s) |-> f[j]] BY <1>1
<1> QED BY <1>1, <1>2, SeqOfDomain

-----------------------------------------------------------------------------
Same(par, a, x) == a
C == INSTANCE FoldFacts WITH op <- Same

LEMMA MaxIn ==
    ASSUME NEW n \in Nat, NEW S \in SUBSET (1..n), S # {}
    PROVE  Max(S) \in S /\ \A y \in S : y <= Max(S)
<1> DEFINE T == {k \in Nat : \A U \in SUBSET (1..k) :
                               U # {} => \E x \in U : \A y \in U : x >= y}
<1>1. 0 \in T
  <2>1. 1..0 = {} OBVIOUS
  <2> QED BY <2>1
<1>2. ASSUME NEW k \in Nat, k \in T PROVE k + 1 \in T
  <2> SUFFICES ASSUME NEW U \in SUBSET (1..(k + 1)), U # {}
               PROVE  \E x \in U : \A y \in U : x >= y
    OBVIOUS
  <2>1. CASE k + 1 \in U BY <2>1
  <2>2. CASE k + 1 \notin U
    <3>1. U \in SUBSET (1..k) BY <2>2
    <3> QED BY <1>2, <3>1
  <2> QED BY <2>1, <2>2
<1> HIDE DEF T
<1>3. Nat \subseteq T BY <1>1, <1>2, C!SetInduction
<1>4. \E x \in S : \A y \in S : x >= y BY <1>3 DEF T
<1>5. Max(S) \in S /\ \A y \in S : Max(S) >= y BY <1>4 DEF Max
<1> QED BY <1>5

LEMMA MinIn ==
    ASSUME NEW S \in SUBSET Nat, S # {}
    PROVE  Min(S) \in S /\ \A y \in S : Min(S) <= y
<1>1. \E x \in S : \A y \in S : <<y, x>> \notin C!OpToRel(<, Nat)
  BY C!NatLessThanWellFounded, C!WFMin
<1>2. \E x \in S : \A y \in S : ~(y < x)
  BY <1>1 DEF C!OpToRel
<1>3. \E x \in S : \A y \in S : x <= y BY <1>2
<1> QED BY <1>3 DEF Min

-----------------------------------------------------------------------------
Heads(s) == {i \in DOMAIN s : OpensTurn(s[i])}

LEMMA HeadsFinite ==
    ASSUME NEW s, IsSeq(s)
    PROVE  /\ IsFiniteSet(Heads(s)) /\ Heads(s) \subseteq 1..Len(s)
           /\ Openers(s) = Cardinality(Heads(s)) /\ Openers(s) \in Nat
<1>1. DOMAIN s = 1..Len(s) /\ Len(s) \in Nat BY SeqTyped DEF IsSeq
<1>2. IsFiniteSet(1..Len(s)) BY <1>1, FS_Interval
<1>3. Heads(s) \subseteq 1..Len(s) BY <1>1 DEF Heads
<1>4. IsFiniteSet(Heads(s)) BY <1>2, <1>3, FS_Subset
<1>5. Openers(s) = Cardinality(Heads(s)) BY DEF Openers, Heads
<1> QED BY <1>3, <1>4, <1>5, FS_CardinalityType

LEMMA HeadsIn ==
    ASSUME NEW s, IsSeq(s), NEW i
    PROVE  i \in Heads(s) <=> (i \in 1..Len(s) /\ OpensTurn(s[i]))
BY SeqTyped DEF Heads

LEMMA OpenersSame ==
    ASSUME NEW s, NEW t, IsSeq(s), IsSeq(t), Len(s) = Len(t),
           \A i \in 1..Len(s) : OpensTurn(s[i]) <=> OpensTurn(t[i])
    PROVE  Openers(s) = Openers(t)
<1>1. \A i : i \in Heads(s) <=> i \in Heads(t) BY HeadsIn
<1>2. Heads(s) = Heads(t) BY <1>1
<1> QED BY <1>2, HeadsFinite

LEMMA OpenersNone ==
    ASSUME NEW s, IsSeq(s), \A i \in 1..Len(s) : ~OpensTurn(s[i])
    PROVE  Openers(s) = 0
<1>1. Heads(s) = {} BY HeadsIn
<1> QED BY <1>1, HeadsFinite, FS_EmptySet

LEMMA OpenersConcat ==
    ASSUME NEW s, NEW t, IsSeq(s), IsSeq(t)
    PROVE  Openers(s \o t) = Openers(s) + Openers(t)
<1> DEFINE u == s \o t
           n == Len(s)
           B == {n + j : j \in Heads(t)}
           f == [j \in Heads(t) |-> n + j]
<1>1. n \in Nat /\ Len(t) \in Nat BY DEF IsSeq
<1>2. /\ IsSeq(u) /\ Len(u) = n + Len(t)
      /\ \A i \in 1..n : u[i] = s[i]
      /\ \A i \in 1..Len(t) : u[n + i] = t[i]
  BY SeqConcat
<1>3. IsFiniteSet(Heads(s)) /\ IsFiniteSet(Heads(t)) /\ Heads(s) \subseteq 1..n
      /\ Heads(t) \subseteq 1..Len(t)
  BY HeadsFinite
<1>4. Heads(u) = Heads(s) \cup B
  <2> HIDE DEF u, n
  <2>1. ASSUME NEW i \in Heads(u) PROVE i \in Heads(s) \cup B
    <3>1. i \in 1..Len(u) /\ OpensTurn(u[i]) BY <1>2, HeadsIn
    <3>2. CASE i <= n
      <4>1. i \in 1..n BY <1>1, <1>2, <3>1, <3>2
      <4>2. i \in Heads(s) BY <1>2, <3>1, <4>1, HeadsIn DEF n
      <4> QED BY <4>2
    <3>3. CASE i > n
      <4>1. i - n \in 1..Len(t) /\ n + (i - n) = i BY <1>1, <1>2, <3>1, <3>3
      <4>2. u[i] = t[i - n] BY <1>2, <4>1
      <4>3. i - n \in Heads(t) BY <3>1, <4>1, <4>2, HeadsIn
      <4> QED BY <4>1, <4>3
    <3> QED BY <1>1, <1>2, <3>1, <3>2, <3>3
  <2>2. ASSUME NEW i \in Heads(s) PROVE i \in Heads(u)
    <3>1. i \in 1..n /\ OpensTurn(s[i]) BY HeadsIn DEF n
    <3>2. i \in 1..Len(u) /\ u[i] = s[i] BY <1>1, <1>2, <3>1
    <3> QED BY <1>2, <3>1, <3>2, HeadsIn
  <2>3. ASSUME NEW j \in Heads(t) PROVE n + j \in Heads(u)
    <3>1. j \in 1..Len(t) /\ OpensTurn(t[j]) BY HeadsIn
    <3>2. n + j \in 1..Len(u) /\ u[n + j] = t[j] BY <1>1, <1>2, <3>1
    <3> QED BY <1>2, <3>1, <3>2, HeadsIn
  <2> QED BY <2>1, <2>2, <2>3
<1>5. f \in Bijection(Heads(t), B)
  <2> HIDE DEF u, n
  <2>1. f \in [Heads(t) -> B] OBVIOUS
  <2>2. \A a, b \in Heads(t) : f[a] = f[b] => a = b BY <1>1, <1>3
  <2>3. \A y \in B : \E x \in Heads(t) : f[x] = y OBVIOUS
  <2> HIDE DEF f, B
  <2> QED BY <2>1, <2>2, <2>3 DEF Bijection, Injection, Surjection, IsInjective
<1>6. IsFiniteSet(B) /\ Cardinality(B) = Cardinality(Heads(t))
  <2> HIDE DEF f, B
  <2>1. ExistsBijection(Heads(t), B) BY <1>5 DEF ExistsBijection
  <2> QED BY <1>3, <2>1, FS_Bijection
<1>7. Heads(s) \cap B = {} BY <1>1, <1>3
<1>8. Cardinality(Heads(u)) = Cardinality(Heads(s)) + Cardinality(B)
  <2> HIDE DEF f, B, u
  <2>1. Cardinality(Heads(s) \cup B)
          = Cardinality(Heads(s)) + Cardinality(B) - Cardinality(Heads(s) \cap B)
    BY <1>3, <1>6, FS_Union
  <2>2. Cardinality(Heads(s)) \in Nat /\ Cardinality(B) \in Nat BY <1>3, <1>6, FS_CardinalityType
  <2> QED BY <1>4, <1>7, <2>1, <2>2, FS_EmptySet
<1> HIDE DEF f, B, u
<1>9. Openers(u) = Cardinality(Heads(u)) BY <1>2, HeadsFinite
<1>10. Openers(s) = Cardinality(Heads(s)) /\ Openers(t) = Cardinality(Heads(t)) BY HeadsFinite
<1> QED BY <1>6, <1>8, <1>9, <1>10 DEF u

LEMMA OpenersAppend ==
    ASSUME NEW s, NEW b, IsSeq(s)
    PROVE  Openers(Append(s, b)) = Openers(s) + (IF OpensTurn(b) THEN 1 ELSE 0)
<1> DEFINE u == Append(s, b)
<1>1. Len(s) \in Nat BY DEF IsSeq
<1>2. /\ IsSeq(u) /\ Len(u) = Len(s) + 1
      /\ \A i \in 1..Len(s) : u[i] = s[i]
      /\ u[Len(s) + 1] = b
  BY SeqAppend
<1> HIDE DEF u
<1>3. CASE OpensTurn(b)
  <2>1. Heads(u) = Heads(s) \cup {Len(s) + 1}
    <3>1. \A i : i \in Heads(u) <=> i \in Heads(s) \/ i = Len(s) + 1
      BY <1>1, <1>2, <1>3, HeadsIn
    <3> QED BY <3>1
  <2>2. Len(s) + 1 \notin Heads(s) BY <1>1, HeadsFinite
  <2> QED BY <1>2, <1>3, <2>1, <2>2, HeadsFinite, FS_AddElement DEF u
<1>4. CASE ~OpensTurn(b)
  <2>1. Heads(u) = Heads(s)
    <3>1. \A i : i \in Heads(u) <=> i \in Heads(s)
      BY <1>1, <1>2, <1>4, HeadsIn
    <3> QED BY <3>1
  <2> QED BY <1>2, <1>4, <2>1, HeadsFinite DEF u
<1> QED BY <1>3, <1>4

LEMMA SplitSeq ==
    ASSUME NEW s, IsSeq(s), NEW k \in 0..Len(s)
    PROVE  s = SubSeq(s, 1, k) \o SubSeq(s, k + 1, Len(s))
<1> DEFINE x == SubSeq(s, 1, k)
           y == SubSeq(s, k + 1, Len(s))
<1>1. Len(s) \in Nat /\ k \in Nat /\ k + 1 \in Nat /\ 1 \in Nat BY DEF IsSeq
<1>2. IsSeq(x) /\ Len(x) = k /\ \A i \in 1..k : x[i] = s[i]
  BY <1>1, SeqSub
<1>3. IsSeq(y) /\ Len(y) = Len(s) - k /\ \A i \in 1..(Len(s) - k) : y[i] = s[k + i]
  BY <1>1, SeqSub
<1> HIDE DEF x, y
<1> DEFINE u == x \o y
<1>4. /\ IsSeq(u) /\ Len(u) = Len(x) + Len(y)
      /\ \A i \in 1..Len(x) : u[i] = x[i]
      /\ \A i \in 1..Len(y) : u[Len(x) + i] = y[i]
  BY <1>2, <1>3, SeqConcat
<1> HIDE DEF u
<1>5. Len(u) = Len(s) BY <1>1, <1>2, <1>3, <1>4
<1>6. ASSUME NEW i \in 1..Len(s) PROVE s[i] = u[i]
  <2>1. CASE i <= k
    <3>1. i \in 1..k BY <1>1, <2>1
    <3> QED BY <1>2, <1>4, <3>1
  <2>2. CASE i > k
    <3>1. i - k \in 1..(Len(s) - k) /\ k + (i - k) = i BY <1>1, <2>2
    <3>2. u[k + (i - k)] = y[i - k] BY <1>2, <1>3, <1>4, <3>1
    <3>3. y[i - k] = s[k + (i - k)] BY <1>3, <3>1
    <3> QED BY <3>1, <3>2, <3>3
  <2> QED BY <1>1, <2>1, <2>2
<1>7. s = u BY <1>4, <1>5, <1>6, SameSeq
<1> QED BY <1>7 DEF u, x, y

LEMMA OpenersSplit ==
    ASSUME NEW s, IsSeq(s), NEW k \in 0..Len(s)
    PROVE  Openers(s) = Openers(SubSeq(s, 1, k)) + Openers(SubSeq(s, k + 1, Len(s)))
<1>1. Len(s) \in Nat /\ k \in Nat /\ k + 1 \in Nat /\ 1 \in Nat BY DEF IsSeq
<1>2. IsSeq(SubSeq(s, 1, k)) /\ IsSeq(SubSeq(s, k + 1, Len(s))) BY <1>1, SeqSub
<1>3. s = SubSeq(s, 1, k) \o SubSeq(s, k + 1, Len(s)) BY SplitSeq
<1> QED BY <1>2, <1>3, OpenersConcat

-----------------------------------------------------------------------------
IsBlock(b) == DOMAIN b = {"kind", "name", "joined", "parts"}

Fields == {"out", "base", "durable", "queue", "suppress", "slot", "skill", "inbox", "times",
           "stamped", "pending", "past", "gone"}

\* m is the logical index of a marker of r, or of a block that has left the window.
Marks(r, m) ==
    m \in Nat /\ (m > r.base => m - r.base <= Len(r.out) /\ r.out[m - r.base].kind = "QueueEvent")

IsReplayer(r) ==
    /\ DOMAIN r = Fields
    /\ IsSeq(r.out) /\ \A i \in 1..Len(r.out) : IsBlock(r.out[i])
    /\ r.base \in Nat
    /\ r.stamped \in r.base..(r.base + Len(r.out))
    /\ IsSeq(r.times)
    /\ IsSeq(r.queue) /\ \A i \in 1..Len(r.queue) : Marks(r, r.queue[i].marker)
    /\ \A m \in r.gone : Marks(r, m)
    /\ \A m \in Nat : m > r.base => (m \in r.suppress <=> m \in r.gone)

\* What a message may do to a replayer.
Moves(r, s) ==
    /\ IsReplayer(s)
    /\ s.base = r.base /\ s.stamped = r.stamped /\ s.times = r.times /\ s.pending = r.pending
    /\ s.past = r.past /\ s.durable = r.durable
    /\ Len(r.out) <= Len(s.out)
    /\ \A i \in 1..Len(r.out) : s.out[i].kind = r.out[i].kind
    /\ \A m \in Nat : m <= r.base => (m \in s.gone <=> m \in r.gone)

LEMMA MovesNot ==
    ASSUME NEW r, IsReplayer(r)
    PROVE  Moves(r, r)
<1>1. Len(r.out) \in Nat BY DEF IsReplayer, IsSeq
<1> QED BY <1>1 DEF Moves

LEMMA MovesTwice ==
    ASSUME NEW r, NEW s, NEW t, IsReplayer(r), Moves(r, s), Moves(s, t)
    PROVE  Moves(r, t)
<1>1. Len(r.out) \in Nat /\ Len(s.out) \in Nat /\ Len(t.out) \in Nat
  BY DEF IsReplayer, IsSeq, Moves
<1>2. 1..Len(r.out) \subseteq 1..Len(s.out) BY <1>1 DEF Moves
<1> QED BY <1>1, <1>2 DEF Moves

\* The fields a message may write besides the ones that IsReplayer is about.
LEMMA MovesAside ==
    ASSUME NEW r, NEW s, IsReplayer(r), DOMAIN s = Fields,
           s.out = r.out, s.base = r.base, s.durable = r.durable, s.queue = r.queue,
           s.suppress = r.suppress, s.times = r.times, s.stamped = r.stamped,
           s.pending = r.pending, s.past = r.past, s.gone = r.gone
    PROVE  Moves(r, s)
<1>1. IsReplayer(s) BY DEF IsReplayer, Marks
<1>2. Len(r.out) \in Nat BY DEF IsReplayer, IsSeq
<1> QED BY <1>1, <1>2 DEF Moves

LEMMA NewBlockIsBlock ==
    ASSUME NEW kind, NEW name
    PROVE  IsBlock(NewBlock(kind, name)) /\ NewBlock(kind, name).kind = kind
BY DEF IsBlock, NewBlock

\* Appending a block.
LEMMA PushMoves ==
    ASSUME NEW r, NEW b, IsReplayer(r), IsBlock(b)
    PROVE  /\ Moves(r, Push(r, b))
           /\ Push(r, b).out = Append(r.out, b) /\ Len(Push(r, b).out) = Len(r.out) + 1
           /\ Push(r, b).out[Len(r.out) + 1] = b
           /\ Push(r, b).queue = r.queue
<1> DEFINE s == Push(r, b)
<1>1. /\ DOMAIN s = Fields /\ s.out = Append(r.out, b)
      /\ s.base = r.base /\ s.durable = r.durable /\ s.queue = r.queue
      /\ s.suppress = r.suppress /\ s.times = r.times /\ s.stamped = r.stamped
      /\ s.pending = r.pending /\ s.past = r.past /\ s.gone = r.gone
  BY DEF Push, IsReplayer, Fields
<1> HIDE DEF s
<1>2. Len(r.out) \in Nat /\ IsSeq(r.out) /\ r.base \in Nat BY DEF IsReplayer, IsSeq
<1>3. /\ IsSeq(s.out) /\ Len(s.out) = Len(r.out) + 1
      /\ \A i \in 1..Len(r.out) : s.out[i] = r.out[i]
      /\ s.out[Len(r.out) + 1] = b
  BY <1>1, <1>2, SeqAppend
<1>4. ASSUME NEW m, Marks(r, m) PROVE Marks(s, m)
  <2> SUFFICES ASSUME m > s.base PROVE m - s.base <= Len(s.out) /\ s.out[m - s.base].kind = "QueueEvent"
    BY <1>4 DEF Marks
  <2>1. m \in Nat /\ m - r.base \in 1..Len(r.out) /\ r.out[m - r.base].kind = "QueueEvent"
    BY <1>1, <1>2, <1>4 DEF Marks
  <2> QED BY <1>1, <1>2, <1>3, <2>1
<1>5. \A i \in 1..Len(s.out) : IsBlock(s.out[i])
  <2>1. \A i \in 1..Len(s.out) : i \in 1..Len(r.out) \/ i = Len(r.out) + 1 BY <1>2, <1>3
  <2> QED BY <1>3, <2>1 DEF IsReplayer
<1>6. s.stamped \in s.base..(s.base + Len(s.out)) BY <1>1, <1>2, <1>3 DEF IsReplayer
<1>7. IsReplayer(s) BY <1>1, <1>2, <1>3, <1>4, <1>5, <1>6 DEF IsReplayer
<1>8. Moves(r, s) BY <1>1, <1>2, <1>3, <1>7 DEF Moves
<1> QED BY <1>1, <1>3, <1>8 DEF s

\* Patching a block in place, wherever the index points.
LEMMA JoinMoves ==
    ASSUME NEW r, NEW i, IsReplayer(r)
    PROVE  /\ Moves(r, Join(r, i)) /\ Join(r, i).queue = r.queue
           /\ Len(Join(r, i).out) = Len(r.out)
<1> DEFINE s == Join(r, i)
           e == [r.out[i] EXCEPT !.joined = @ + 1]
<1>1. /\ DOMAIN s = Fields /\ s.out = [r.out EXCEPT ![i] = e]
      /\ s.base = r.base /\ s.durable = r.durable /\ s.queue = r.queue
      /\ s.suppress = r.suppress /\ s.times = r.times /\ s.stamped = r.stamped
      /\ s.pending = r.pending /\ s.past = r.past /\ s.gone = r.gone
  BY DEF Join, IsReplayer, Fields
<1>2. Len(r.out) \in Nat /\ IsSeq(r.out) /\ r.base \in Nat BY DEF IsReplayer, IsSeq
<1>3. i \in 1..Len(r.out) => IsBlock(e) /\ e.kind = r.out[i].kind BY DEF IsReplayer, IsBlock
<1> HIDE DEF s, e
<1>4. /\ IsSeq(s.out) /\ Len(s.out) = Len(r.out)
      /\ \A j \in 1..Len(r.out) : s.out[j] = IF j = i THEN e ELSE r.out[j]
  <2>1. PICK o : o = r.out OBVIOUS
  <2>2. PICK f : f = [o EXCEPT ![i] = e] OBVIOUS
  <2>3. f = [j \in DOMAIN o |-> f[j]] /\ \A j \in DOMAIN o : f[j] = IF j = i THEN e ELSE o[j]
    BY <2>2
  <2>4. IsSeq(o) /\ DOMAIN o = 1..Len(o) BY <1>2, <2>1, SeqTyped
  <2>5. IsSeq(f) /\ Len(f) = Len(o) BY <2>3, <2>4, SeqLike
  <2> QED BY <1>1, <2>1, <2>2, <2>3, <2>4, <2>5
<1>5. \A j \in 1..Len(r.out) : IsBlock(s.out[j]) /\ s.out[j].kind = r.out[j].kind
  BY <1>3, <1>4 DEF IsReplayer
<1>6. ASSUME NEW m, Marks(r, m) PROVE Marks(s, m)
  <2> SUFFICES ASSUME m > s.base PROVE m - s.base <= Len(s.out) /\ s.out[m - s.base].kind = "QueueEvent"
    BY <1>6 DEF Marks
  <2>1. m \in Nat /\ m - r.base \in 1..Len(r.out) /\ r.out[m - r.base].kind = "QueueEvent"
    BY <1>1, <1>2, <1>6 DEF Marks
  <2> QED BY <1>1, <1>2, <1>4, <1>5, <2>1
<1>7. IsReplayer(s) BY <1>1, <1>2, <1>4, <1>5, <1>6 DEF IsReplayer
<1>8. Moves(r, s) BY <1>1, <1>2, <1>4, <1>5, <1>7 DEF Moves
<1> QED BY <1>1, <1>4, <1>8 DEF s

\* A sequence without one of its elements.
LEMMA SeqRemove ==
    ASSUME NEW s, IsSeq(s), NEW i \in 1..Len(s)
    PROVE  /\ IsSeq(RemoveAt(s, i)) /\ Len(RemoveAt(s, i)) = Len(s) - 1
           /\ \A j \in 1..(Len(s) - 1) : \E l \in 1..Len(s) : RemoveAt(s, i)[j] = s[l]
<1> DEFINE x == SubSeq(s, 1, i - 1)
           y == SubSeq(s, i + 1, Len(s))
<1>1. Len(s) \in Nat /\ i - 1 \in Nat /\ i + 1 \in Nat /\ 1 \in Nat BY DEF IsSeq
<1>2. IsSeq(x) /\ Len(x) = i - 1 /\ \A j \in 1..(i - 1) : x[j] = s[j]
  <2>1. /\ IsSeq(x) /\ Len(x) = (IF 1 <= i - 1 THEN (i - 1) - 1 + 1 ELSE 0)
        /\ \A j \in 1..((i - 1) - 1 + 1) : x[j] = s[1 + j - 1]
    BY <1>1, SeqSub
  <2> HIDE DEF x
  <2> QED BY <1>1, <2>1
<1>3. IsSeq(y) /\ Len(y) = Len(s) - i /\ \A j \in 1..(Len(s) - i) : y[j] = s[i + j]
  <2>1. /\ IsSeq(y) /\ Len(y) = (IF i + 1 <= Len(s) THEN Len(s) - (i + 1) + 1 ELSE 0)
        /\ \A j \in 1..(Len(s) - (i + 1) + 1) : y[j] = s[(i + 1) + j - 1]
    BY <1>1, SeqSub
  <2> HIDE DEF y
  <2> QED BY <1>1, <2>1
<1>5. RemoveAt(s, i) = x \o y BY DEF RemoveAt
<1> HIDE DEF x, y
<1>8. IsSeq(x) /\ IsSeq(y) BY <1>2, <1>3
<1> DEFINE u == x \o y
<1>4. /\ IsSeq(u) /\ Len(u) = Len(x) + Len(y)
      /\ \A j \in 1..Len(x) : u[j] = x[j]
      /\ \A j \in 1..Len(y) : u[Len(x) + j] = y[j]
  BY <1>8, SeqConcat
<1> HIDE DEF u
<1>6. ASSUME NEW j \in 1..(Len(s) - 1) PROVE \E l \in 1..Len(s) : u[j] = s[l]
  <2>1. CASE j \in 1..(i - 1)
    <3>1. u[j] = s[j] /\ j \in 1..Len(s) BY <1>1, <1>2, <1>4, <2>1
    <3> QED BY <3>1
  <2>2. CASE j \notin 1..(i - 1)
    <3>1. j - (i - 1) \in 1..Len(y) /\ (i - 1) + (j - (i - 1)) = j
      BY <1>1, <1>2, <1>3, <2>2
    <3>2. u[j] = y[j - (i - 1)] BY <1>2, <1>4, <3>1
    <3>3. y[j - (i - 1)] = s[i + (j - (i - 1))] /\ i + (j - (i - 1)) \in 1..Len(s)
      BY <1>1, <1>3, <3>1
    <3> QED BY <3>2, <3>3
  <2> QED BY <2>1, <2>2
<1>7. Len(u) = Len(s) - 1 BY <1>1, <1>2, <1>3, <1>4
<1> QED BY <1>4, <1>5, <1>6, <1>7 DEF u

\* Taking an item off the queue.
LEMMA PopMoves ==
    ASSUME NEW r, IsReplayer(r), NEW i \in 1..Len(r.queue)
    PROVE  Moves(r, Pop(r, i)) /\ Len(Pop(r, i).queue) = Len(r.queue) - 1
<1> DEFINE s == Pop(r, i)
           marker == r.queue[i].marker
<1>1. /\ DOMAIN s = Fields /\ s.out = r.out
      /\ s.base = r.base /\ s.durable = r.durable
      /\ s.times = r.times /\ s.stamped = r.stamped
      /\ s.pending = r.pending /\ s.past = r.past
  BY DEF Pop, IsReplayer, Fields
<1>2. /\ s.queue = RemoveAt(r.queue, i)
      /\ s.suppress = IF marker = 0 THEN r.suppress ELSE r.suppress \cup {marker}
      /\ s.gone = IF marker > r.base THEN r.gone \cup {marker} ELSE r.gone
  BY DEF Pop, IsReplayer, Fields
<1> HIDE DEF s
<1>3. Len(r.queue) \in Nat /\ IsSeq(r.queue) /\ r.base \in Nat /\ Marks(r, marker)
  BY DEF IsReplayer, IsSeq
<1> HIDE DEF marker
<1>6. /\ IsSeq(s.queue) /\ Len(s.queue) = Len(r.queue) - 1
      /\ \A j \in 1..(Len(r.queue) - 1) : \E l \in 1..Len(r.queue) : s.queue[j] = r.queue[l]
  <2>1. PICK q : q = r.queue OBVIOUS
  <2>2. /\ IsSeq(RemoveAt(q, i)) /\ Len(RemoveAt(q, i)) = Len(q) - 1
        /\ \A j \in 1..(Len(q) - 1) : \E l \in 1..Len(q) : RemoveAt(q, i)[j] = q[l]
    <3>1. IsSeq(q) /\ i \in 1..Len(q) BY <1>3, <2>1
    <3> QED BY <3>1, SeqRemove
  <2> QED BY <1>2, <2>1, <2>2
<1>7. \A m : Marks(r, m) => Marks(s, m) BY <1>1 DEF Marks
<1>8. ASSUME NEW j \in 1..Len(s.queue) PROVE Marks(s, s.queue[j].marker)
  <2>1. PICK l \in 1..Len(r.queue) : s.queue[j] = r.queue[l] BY <1>6
  <2> QED BY <1>7, <2>1 DEF IsReplayer
<1>9. \A m \in s.gone : Marks(s, m) BY <1>2, <1>3, <1>7 DEF IsReplayer
<1>10. \A m \in Nat : m > s.base => (m \in s.suppress <=> m \in s.gone)
  BY <1>1, <1>2, <1>3 DEF IsReplayer, Marks
<1>11. IsReplayer(s) BY <1>1, <1>6, <1>8, <1>9, <1>10 DEF IsReplayer
<1>12. \A m \in Nat : m <= r.base => (m \in s.gone <=> m \in r.gone) BY <1>2, <1>3 DEF Marks
<1>13. Len(r.out) \in Nat BY DEF IsReplayer, IsSeq
<1>14. Moves(r, s) BY <1>1, <1>11, <1>12, <1>13 DEF Moves
<1> QED BY <1>6, <1>14 DEF s

LEMMA DeliverMoves ==
    ASSUME NEW r, NEW text, IsReplayer(r)
    PROVE  Moves(r, Deliver(r, text))
<1> DEFINE I == {j \in 1..Len(r.queue) : r.queue[j].text = text}
<1>1. Deliver(r, text) = r \/ (I # {} /\ Deliver(r, text) = Pop(r, Min(I)))
  BY DEF Deliver, SelectInSeq
<1>2. ASSUME I # {} PROVE Min(I) \in 1..Len(r.queue)
  <2>1. I \in SUBSET Nat OBVIOUS
  <2>2. I \subseteq 1..Len(r.queue) OBVIOUS
  <2> HIDE DEF I
  <2> QED BY <1>2, <2>1, <2>2, MinIn
<1> HIDE DEF I
<1> QED BY <1>1, <1>2, MovesNot, PopMoves

LEMMA EnqueueMoves ==
    ASSUME NEW r, NEW m, NEW prose \in BOOLEAN, IsReplayer(r)
    PROVE  Moves(r, Enqueue(r, m, prose))
<1> DEFINE p == IF prose THEN Push(r, NewBlock("QueueEvent", m.name)) ELSE r
           marker == IF prose THEN RawLen(p) ELSE 0
           item == [text |-> m.name, marker |-> marker]
           s == Enqueue(r, m, prose)
<1>1. /\ Moves(r, p)
      /\ prose => Len(p.out) = Len(r.out) + 1 /\ p.out[Len(r.out) + 1].kind = "QueueEvent"
  BY PushMoves, MovesNot, NewBlockIsBlock
<1>2. s = [p EXCEPT !.queue = Append(@, item)] BY DEF Enqueue
<1> HIDE DEF p, s
<1>3. IsReplayer(p) /\ Len(p.out) \in Nat /\ Len(r.out) \in Nat /\ p.base \in Nat
  BY <1>1 DEF Moves, IsReplayer, IsSeq
<1>4. Marks(p, marker)
  <2>1. CASE prose
    <3>1. marker = p.base + Len(p.out) BY <2>1 DEF RawLen
    <3>2. Len(p.out) = Len(r.out) + 1 /\ p.out[Len(p.out)].kind = "QueueEvent" BY <1>1, <2>1
    <3>3. marker \in Nat /\ marker - p.base = Len(p.out) /\ Len(p.out) \in 1..Len(p.out)
      BY <1>3, <3>1, <3>2
    <3> QED BY <3>2, <3>3 DEF Marks
  <2>2. CASE ~prose
    <3>1. marker = 0 BY <2>2
    <3> QED BY <1>3, <3>1 DEF Marks
  <2> QED BY <2>1, <2>2
<1>5. item.marker = marker OBVIOUS
<1> HIDE DEF marker, item
<1>6. /\ DOMAIN s = Fields /\ s.out = p.out /\ s.queue = Append(p.queue, item)
      /\ s.base = p.base /\ s.durable = p.durable
      /\ s.suppress = p.suppress /\ s.times = p.times /\ s.stamped = p.stamped
      /\ s.pending = p.pending /\ s.past = p.past /\ s.gone = p.gone
  BY <1>2, <1>3 DEF IsReplayer, Fields
<1>7. IsSeq(p.queue) /\ Len(p.queue) \in Nat BY <1>3 DEF IsReplayer, IsSeq
<1>8. /\ IsSeq(s.queue) /\ Len(s.queue) = Len(p.queue) + 1
      /\ \A i \in 1..Len(p.queue) : s.queue[i] = p.queue[i]
      /\ s.queue[Len(p.queue) + 1] = item
  BY <1>6, <1>7, SeqAppend
<1>9. \A k : Marks(p, k) => Marks(s, k) BY <1>6 DEF Marks
<1>10. \A i \in 1..Len(s.queue) : Marks(s, s.queue[i].marker)
  <2>1. \A i \in 1..Len(s.queue) : i \in 1..Len(p.queue) \/ i = Len(p.queue) + 1
    BY <1>7, <1>8
  <2> QED BY <1>3, <1>4, <1>5, <1>8, <1>9, <2>1 DEF IsReplayer
<1>11. IsReplayer(s) BY <1>3, <1>6, <1>8, <1>9, <1>10 DEF IsReplayer
<1>12. Moves(p, s) BY <1>3, <1>6, <1>11 DEF Moves
<1>13. Moves(r, s) BY <1>1, <1>12, MovesTwice
<1> QED BY <1>13 DEF s

PopOne(par, s, i) == Pop(s, 1)
P == INSTANCE FoldFacts WITH op <- PopOne

LEMMA PopAllMoves ==
    ASSUME NEW r, IsReplayer(r)
    PROVE  Moves(r, PopAll(r))
<1>1. PICK q : q = r.queue OBVIOUS
<1>2. PopAll(r) = P!Fold(0, r, q)
  BY <1>1, Zenon DEF P!Fold, FoldLeft, P!MapThenFoldSet, MapThenFoldSet,
                     P!Max, Max, PopAll, PopOne
<1>3. PICK n \in Nat : n = Len(q) /\ DOMAIN q = 1..n
  BY <1>1, SeqTyped DEF IsReplayer, IsSeq
<1>4. PICK g : P!Course(g, 0, r, q, n) /\ P!Fold(0, r, q) = g[n]
  BY <1>3, P!FoldCourse
<1>5. g[0] = r /\ \A i \in 1..n : g[i] = Pop(g[i - 1], 1)
  BY <1>4 DEF P!Course, PopOne
<1> DEFINE S == {i \in Nat : i <= n => (Moves(r, g[i]) /\ Len(g[i].queue) = n - i)}
<1>6. 0 \in S BY <1>1, <1>3, <1>5, MovesNot
<1>7. ASSUME NEW i \in Nat, i \in S PROVE i + 1 \in S
  <2> SUFFICES ASSUME i + 1 <= n
               PROVE  Moves(r, g[i + 1]) /\ Len(g[i + 1].queue) = n - (i + 1)
    OBVIOUS
  <2>1. PICK a : a = g[i] OBVIOUS
  <2>2. g[i + 1] = Pop(a, 1)
    <3>1. i + 1 \in 1..n /\ (i + 1) - 1 = i OBVIOUS
    <3> QED BY <1>5, <2>1, <3>1
  <2>3. Moves(r, a) /\ Len(a.queue) = n - i BY <1>7, <2>1
  <2>4. IsReplayer(a) /\ 1 \in 1..Len(a.queue) BY <2>3 DEF Moves
  <2>5. Moves(a, Pop(a, 1)) /\ Len(Pop(a, 1).queue) = Len(a.queue) - 1 BY <2>4, PopMoves
  <2>6. Moves(r, Pop(a, 1)) BY <2>3, <2>5, MovesTwice
  <2> QED BY <2>2, <2>3, <2>5, <2>6
<1> HIDE DEF S
<1>8. Nat \subseteq S BY <1>6, <1>7, P!SetInduction
<1> QED BY <1>2, <1>4, <1>8 DEF S

LEMMA MessageMoves ==
    ASSUME NEW r, NEW m, IsReplayer(r)
    PROVE  Moves(r, ApplyMessage(r, m))
<1>1. \A k, n : Moves(r, Push(r, NewBlock(k, n))) BY PushMoves, NewBlockIsBlock
<1>2. CASE m.kind = "UserText"
  <2>1. PICK d : d = Deliver(r, m.name) OBVIOUS
  <2>2. Moves(r, d) /\ IsReplayer(d) BY <2>1, DeliverMoves DEF Moves
  <2>3. Moves(d, Push(d, NewBlock("UserText", m.name))) BY <2>2, PushMoves, NewBlockIsBlock
  <2>4. ApplyMessage(r, m) = Push(d, NewBlock("UserText", m.name)) BY <1>2, <2>1 DEF ApplyMessage
  <2> QED BY <2>2, <2>3, <2>4, MovesTwice
<1>3. CASE m.kind = "UserInbox"
  <2>1. PICK d : d = Deliver(r, m.name) OBVIOUS
  <2>2. Moves(r, d) /\ IsReplayer(d) BY <2>1, DeliverMoves DEF Moves
  <2>3. \A k : Moves(d, Push(d, NewBlock(k, m.name))) BY <2>2, PushMoves, NewBlockIsBlock
  <2>4. PICK p : p = Push(d, NewBlock("UserInbox", m.name)) OBVIOUS
  <2>5. Moves(d, p) /\ IsReplayer(p) BY <2>3, <2>4 DEF Moves
  <2>6. Moves(p, [p EXCEPT !.inbox = @ \cup {m.name}])
    <3>1. PICK s : s = [p EXCEPT !.inbox = @ \cup {m.name}] OBVIOUS
    <3>2. /\ DOMAIN s = Fields
          /\ s.out = p.out /\ s.base = p.base /\ s.durable = p.durable /\ s.queue = p.queue
          /\ s.suppress = p.suppress /\ s.times = p.times /\ s.stamped = p.stamped
          /\ s.pending = p.pending /\ s.past = p.past /\ s.gone = p.gone
      BY <2>5, <3>1 DEF IsReplayer, Fields
    <3> QED BY <2>5, <3>1, <3>2, MovesAside
  <2>7. ApplyMessage(r, m) = Push(d, NewBlock("UserText", m.name))
        \/ ApplyMessage(r, m) = [p EXCEPT !.inbox = @ \cup {m.name}]
    BY <1>3, <2>1, <2>4 DEF ApplyMessage, UserInbox
  <2> QED BY <2>2, <2>3, <2>5, <2>6, <2>7, MovesTwice
<1>4. CASE m.kind \in {"ToolUse", "Edit", "Skill"}
  <2>1. PICK p : p = Push(r, NewBlock(m.kind, m.name)) OBVIOUS
  <2>2. Moves(r, p) /\ IsReplayer(p) BY <1>1, <2>1 DEF Moves
  <2>3. PICK s : s = ToolUse(r, m) OBVIOUS
  <2>4. /\ DOMAIN s = Fields
        /\ s.out = p.out /\ s.base = p.base /\ s.durable = p.durable /\ s.queue = p.queue
        /\ s.suppress = p.suppress /\ s.times = p.times /\ s.stamped = p.stamped
        /\ s.pending = p.pending /\ s.past = p.past /\ s.gone = p.gone
    BY <2>1, <2>2, <2>3 DEF ToolUse, IsReplayer, Fields
  <2>5. Moves(p, s) BY <2>2, <2>4, MovesAside
  <2>6. ApplyMessage(r, m) = s BY <1>4, <2>3 DEF ApplyMessage
  <2> QED BY <2>2, <2>5, <2>6, MovesTwice
<1>5. CASE m.kind = "ToolResult"
  <2>1. ApplyMessage(r, m) = Join(r, r.slot[m.name] - r.base)
        \/ ApplyMessage(r, m) = Push(r, NewBlock("ToolResult", Nil))
    BY <1>5 DEF ApplyMessage, ToolResult
  <2> QED BY <1>1, <2>1, JoinMoves
<1>6. CASE m.kind = "SkillBody"
  <2>1. ApplyMessage(r, m) = Join(r, r.skill - r.base)
        \/ ApplyMessage(r, m) = Push(r, NewBlock("ToolResult", Nil))
    BY <1>6 DEF ApplyMessage, SkillBody
  <2> QED BY <1>1, <2>1, JoinMoves
<1>7. CASE m.kind = "CommandStdout"
  <2>1. PICK p : p = Push(r, NewBlock("Command", Nil)) OBVIOUS
  <2>2. Moves(r, p) /\ IsReplayer(p) BY <1>1, <2>1 DEF Moves
  <2>3. ApplyMessage(r, m) = Join(r, Len(r.out)) \/ ApplyMessage(r, m) = Join(p, Len(r.out) + 1)
    BY <1>7, <2>1 DEF ApplyMessage
  <2>4. Moves(p, Join(p, Len(r.out) + 1)) BY <2>2, JoinMoves
  <2> QED BY <2>2, <2>3, <2>4, JoinMoves, MovesTwice
<1>8. CASE m.kind = "CompactSummary"
  <2>1. ApplyMessage(r, m) = Join(r, Len(r.out))
        \/ ApplyMessage(r, m) = Push(r, NewBlock("ToolResult", Nil))
    BY <1>8 DEF ApplyMessage
  <2> QED BY <1>1, <2>1, JoinMoves
<1>9. CASE m.kind \in {"Enqueue", "EnqueueQuiet"}
  <2>1. ApplyMessage(r, m) = Enqueue(r, m, TRUE) \/ ApplyMessage(r, m) = Enqueue(r, m, FALSE)
    BY <1>9 DEF ApplyMessage
  <2> QED BY <2>1, EnqueueMoves
<1>10. CASE m.kind = "Dequeue"
  <2>1. r.queue # <<>> => 1 \in 1..Len(r.queue)
    <3>1. IsSeq(r.queue) BY DEF IsReplayer
    <3>2. Len(r.queue) = 0 => r.queue = <<>>
      <4> SUFFICES ASSUME Len(r.queue) = 0 PROVE r.queue = <<>> OBVIOUS
      <4>1. PICK q : q = r.queue OBVIOUS
      <4>2. IsSeq(q) /\ Len(q) = Len(<<>>) /\ \A i \in 1..Len(q) : q[i] = <<>>[i]
        BY <3>1, <4>1, EmptyIsSeq
      <4> QED BY <4>1, <4>2, EmptyIsSeq, SameSeq
    <3>3. Len(r.queue) \in Nat BY <3>1 DEF IsSeq
    <3> QED BY <3>2, <3>3
  <2>2. \/ ApplyMessage(r, m) = Deliver(r, m.name)
        \/ ApplyMessage(r, m) = r
        \/ (r.queue # <<>> /\ ApplyMessage(r, m) = Pop(r, 1))
    BY <1>10 DEF ApplyMessage, Dequeue
  <2> QED BY <2>1, <2>2, DeliverMoves, MovesNot, PopMoves
<1>11. CASE m.kind = "PopAll"
  <2>1. ApplyMessage(r, m) = PopAll(r) BY <1>11 DEF ApplyMessage
  <2> QED BY <2>1, PopAllMoves
<1>12. CASE m.kind \notin {"UserText", "UserInbox", "ToolUse", "Edit", "Skill", "ToolResult",
                          "SkillBody", "CommandStdout", "CompactSummary", "Enqueue",
                          "EnqueueQuiet", "Dequeue", "PopAll"}
  <2>1. ApplyMessage(r, m) = Push(r, NewBlock(m.kind, m.name)) BY <1>12 DEF ApplyMessage
  <2> QED BY <1>1, <2>1
<1> QED BY <1>2, <1>3, <1>4, <1>5, <1>6, <1>7, <1>8, <1>9, <1>10, <1>11, <1>12

MessageStep(par, s, m) == ApplyMessage(s, m)
L == INSTANCE FoldFacts WITH op <- MessageStep

LEMMA LineMoves ==
    ASSUME NEW r, NEW line \in Lines, IsReplayer(r)
    PROVE  Moves(r, FoldLeft(ApplyMessage, r, line))
<1>2. FoldLeft(ApplyMessage, r, line) = L!Fold(0, r, line)
  BY Zenon DEF L!Fold, FoldLeft, L!MapThenFoldSet, MapThenFoldSet,
               L!Max, Max, MessageStep
<1>3. PICK n \in Nat : DOMAIN line = 1..n BY LinesAssumption
<1>4. PICK g : L!Course(g, 0, r, line, n) /\ L!Fold(0, r, line) = g[n]
  BY <1>3, L!FoldCourse
<1>5. g[0] = r /\ \A i \in 1..n : g[i] = ApplyMessage(g[i - 1], line[i])
  BY <1>4 DEF L!Course, MessageStep
<1> DEFINE S == {i \in Nat : i <= n => Moves(r, g[i])}
<1>6. 0 \in S BY <1>5, MovesNot
<1>7. ASSUME NEW i \in Nat, i \in S PROVE i + 1 \in S
  <2> SUFFICES ASSUME i + 1 <= n PROVE Moves(r, g[i + 1]) OBVIOUS
  <2>1. i + 1 \in 1..n /\ (i + 1) - 1 = i OBVIOUS
  <2>2. g[i + 1] = ApplyMessage(g[i], line[i + 1]) BY <1>5, <2>1
  <2>3. Moves(r, g[i]) /\ IsReplayer(g[i]) BY <1>7 DEF Moves
  <2>4. Moves(g[i], ApplyMessage(g[i], line[i + 1])) BY <2>3, MessageMoves
  <2> QED BY <2>2, <2>3, <2>4, MovesTwice
<1> HIDE DEF S
<1>8. Nat \subseteq S BY <1>6, <1>7, L!SetInduction
<1> QED BY <1>2, <1>4, <1>8 DEF S

-----------------------------------------------------------------------------
LEMMA SubFirst ==
    ASSUME NEW s, NEW k \in Nat
    PROVE  /\ IsSeq(SubSeq(s, 1, k)) /\ Len(SubSeq(s, 1, k)) = k
           /\ \A j \in 1..k : SubSeq(s, 1, k)[j] = s[j]
<1>1. /\ IsSeq(SubSeq(s, 1, k))
      /\ Len(SubSeq(s, 1, k)) = IF 1 <= k THEN k - 1 + 1 ELSE 0
      /\ \A j \in 1..(k - 1 + 1) : SubSeq(s, 1, k)[j] = s[1 + j - 1]
  <2>1. 1 \in Nat OBVIOUS
  <2> QED BY <2>1, SeqSub
<1> QED BY <1>1

LEMMA SubRest ==
    ASSUME NEW s, NEW k \in Nat, NEW n \in Nat, k <= n
    PROVE  /\ IsSeq(SubSeq(s, k + 1, n)) /\ Len(SubSeq(s, k + 1, n)) = n - k
           /\ \A j \in 1..(n - k) : SubSeq(s, k + 1, n)[j] = s[k + j]
<1>1. /\ IsSeq(SubSeq(s, k + 1, n))
      /\ Len(SubSeq(s, k + 1, n)) = IF k + 1 <= n THEN n - (k + 1) + 1 ELSE 0
      /\ \A j \in 1..(n - (k + 1) + 1) : SubSeq(s, k + 1, n)[j] = s[(k + 1) + j - 1]
  BY SeqSub
<1> QED BY <1>1

LEMMA SubNext ==
    ASSUME NEW s, NEW i \in Nat
    PROVE  SubSeq(s, 1, i + 1) = Append(SubSeq(s, 1, i), s[i + 1])
<1> DEFINE x == SubSeq(s, 1, i)
           y == SubSeq(s, 1, i + 1)
<1>1. 1 \in Nat /\ i + 1 \in Nat OBVIOUS
<1>2. IsSeq(x) /\ Len(x) = i /\ \A j \in 1..i : x[j] = s[j] BY <1>1, SubFirst
<1>3. IsSeq(y) /\ Len(y) = i + 1 /\ \A j \in 1..(i + 1) : y[j] = s[j] BY <1>1, SubFirst
<1> HIDE DEF x, y
<1> DEFINE z == Append(x, s[i + 1])
<1>4. /\ IsSeq(z) /\ Len(z) = Len(x) + 1
      /\ \A j \in 1..Len(x) : z[j] = x[j]
      /\ z[Len(x) + 1] = s[i + 1]
  BY <1>2, SeqAppend
<1> HIDE DEF z
<1>5. ASSUME NEW j \in 1..Len(y) PROVE y[j] = z[j]
  <2>1. j \in 1..i \/ j = i + 1 BY <1>3
  <2> QED BY <1>2, <1>3, <1>4, <2>1
<1>6. y = z BY <1>2, <1>3, <1>4, <1>5, SameSeq
<1> QED BY <1>6 DEF x, y, z

LEMMA SubNone ==
    ASSUME NEW s
    PROVE  SubSeq(s, 1, 0) = <<>>
BY SubSeqEmpty

LEMMA SubAll ==
    ASSUME NEW s, IsSeq(s)
    PROVE  SubSeq(s, 1, Len(s)) = s
<1>1. Len(s) \in Nat /\ 1 \in Nat BY DEF IsSeq
<1>2. /\ IsSeq(SubSeq(s, 1, Len(s))) /\ Len(SubSeq(s, 1, Len(s))) = Len(s)
      /\ \A j \in 1..Len(s) : SubSeq(s, 1, Len(s))[j] = s[j]
  BY <1>1, SubFirst
<1> QED BY <1>1, <1>2, SameSeq

LEMMA OpenersEmpty == Openers(<<>>) = 0
BY EmptyIsSeq, OpenersNone

LEMMA LenZero ==
    ASSUME NEW s, IsSeq(s)
    PROVE  s = <<>> <=> Len(s) = 0
BY EmptyIsSeq, SameSeq

-----------------------------------------------------------------------------
(* Shaping keeps every block that opens a turn, and makes none.            *)

IsShaping(s) ==
    /\ DOMAIN s = {"out", "run", "held"}
    /\ IsSeq(s.out) /\ IsSeq(s.run) /\ IsSeq(s.held)
    /\ \A i \in 1..Len(s.run) : ~OpensTurn(s.run[i])
    /\ \A i \in 1..Len(s.held) : ~OpensTurn(s.held[i])

LEMMA FlushFacts ==
    ASSUME NEW s, IsShaping(s)
    PROVE  /\ IsShaping(Flush(s)) /\ Openers(Flush(s).out) = Openers(s.out)
           /\ Flush(s).run = <<>> /\ Flush(s).held = <<>>
<1> DEFINE span == [kind |-> "Span", name |-> Nil,
                    joined |-> Len(SelectSeq(s.run, LAMBDA b : b.kind = "Thinking")),
                    parts |-> SelectSeq(s.run, LAMBDA b : b.kind # "Thinking")]
           edits == \A i \in DOMAIN s.run : s.run[i].kind = "Edit"
           f == Flush(s)
<1>1. PICK mid : mid = (IF edits THEN s.run ELSE <<span>>) OBVIOUS
<1>2. f = [out |-> s.out \o mid \o s.held, run |-> <<>>, held |-> <<>>] BY <1>1 DEF Flush
<1>3. IsSeq(mid) /\ \A i \in 1..Len(mid) : ~OpensTurn(mid[i])
  <2>1. CASE edits
    <3>1. mid = s.run BY <1>1, <2>1
    <3> HIDE DEF edits
    <3> QED BY <3>1 DEF IsShaping
  <2>2. CASE ~edits
    <3>1. mid = <<span>> BY <1>1, <2>2
    <3>2. span.kind = "Span" OBVIOUS
    <3> HIDE DEF span, edits
    <3>3. <<span>> \in Seq({span}) /\ Len(<<span>>) = 1 /\ <<span>>[1] = span OBVIOUS
    <3>4. IsSeq(<<span>>) BY <3>3, TypedSeq
    <3> QED BY <3>1, <3>2, <3>3, <3>4 DEF OpensTurn
  <2> HIDE DEF edits
  <2> QED BY <2>1, <2>2
<1> HIDE DEF span, edits, f
<1>4. PICK o, h : o = s.out /\ h = s.held OBVIOUS
<1>5. IsSeq(o) /\ IsSeq(h) /\ \A i \in 1..Len(h) : ~OpensTurn(h[i]) BY <1>4 DEF IsShaping
<1>6. PICK om : om = o \o mid OBVIOUS
<1>7. IsSeq(om) BY <1>3, <1>5, <1>6, SeqConcat
<1>8. Openers(om) = Openers(o) + Openers(mid) BY <1>3, <1>5, <1>6, OpenersConcat
<1>9. IsSeq(om \o h) BY <1>5, <1>7, SeqConcat
<1>10. Openers(om \o h) = Openers(om) + Openers(h) BY <1>5, <1>7, OpenersConcat
<1>11. Openers(mid) = 0 /\ Openers(h) = 0 BY <1>3, <1>5, OpenersNone
<1>12. Openers(o) \in Nat BY <1>5, HeadsFinite
<1>13. Openers(om \o h) = Openers(o) BY <1>8, <1>10, <1>11, <1>12
<1>14. f.out = om \o h /\ f.run = <<>> /\ f.held = <<>> /\ DOMAIN f = {"out", "run", "held"}
  BY <1>2, <1>4, <1>6
<1>15. IsShaping(f) BY <1>9, <1>14, EmptyIsSeq DEF IsShaping
<1> QED BY <1>4, <1>13, <1>14, <1>15 DEF f

LEMMA ShapeFacts ==
    ASSUME NEW s, NEW b, IsShaping(s)
    PROVE  /\ IsShaping(Shape(s, b))
           /\ Openers(Shape(s, b).out) = Openers(s.out) + (IF OpensTurn(b) THEN 1 ELSE 0)
<1> DEFINE t == Shape(s, b)
<1>0. PICK o, u, h : o = s.out /\ u = s.run /\ h = s.held OBVIOUS
<1>1. IsSeq(o) /\ IsSeq(u) /\ IsSeq(h) /\ Openers(o) \in Nat
  BY <1>0, HeadsFinite DEF IsShaping
<1>2. CASE InRun(b)
  <2>1. t = [s EXCEPT !.run = Append(@, b)] BY <1>2 DEF Shape
  <2>2. /\ DOMAIN t = {"out", "run", "held"} /\ t.out = o /\ t.run = Append(u, b) /\ t.held = h
    BY <1>0, <2>1 DEF IsShaping
  <2>3. ~OpensTurn(b) BY <1>2 DEF InRun, OpensTurn
  <2> HIDE DEF t
  <2>4. /\ IsSeq(Append(u, b)) /\ Len(Append(u, b)) = Len(u) + 1
        /\ \A i \in 1..Len(u) : Append(u, b)[i] = u[i]
        /\ Append(u, b)[Len(u) + 1] = b
    BY <1>1, SeqAppend
  <2>5. \A i \in 1..Len(Append(u, b)) : i \in 1..Len(u) \/ i = Len(u) + 1
    BY <1>1, <2>4 DEF IsSeq
  <2>6. \A i \in 1..Len(Append(u, b)) : ~OpensTurn(Append(u, b)[i])
    BY <1>0, <2>3, <2>4, <2>5 DEF IsShaping
  <2>7. IsShaping(t) BY <1>0, <1>1, <2>2, <2>4, <2>6 DEF IsShaping
  <2> QED BY <1>0, <1>1, <2>2, <2>3, <2>7 DEF t
<1>3. CASE ~InRun(b) /\ b.kind = "Attachment" /\ s.run # <<>>
  <2>1. t = [s EXCEPT !.held = Append(@, b)] BY <1>3 DEF Shape
  <2>2. /\ DOMAIN t = {"out", "run", "held"} /\ t.out = o /\ t.run = u /\ t.held = Append(h, b)
    BY <1>0, <2>1 DEF IsShaping
  <2>3. ~OpensTurn(b) BY <1>3 DEF OpensTurn
  <2> HIDE DEF t
  <2>4. /\ IsSeq(Append(h, b)) /\ Len(Append(h, b)) = Len(h) + 1
        /\ \A i \in 1..Len(h) : Append(h, b)[i] = h[i]
        /\ Append(h, b)[Len(h) + 1] = b
    BY <1>1, SeqAppend
  <2>5. \A i \in 1..Len(Append(h, b)) : i \in 1..Len(h) \/ i = Len(h) + 1
    BY <1>1, <2>4 DEF IsSeq
  <2>6. \A i \in 1..Len(Append(h, b)) : ~OpensTurn(Append(h, b)[i])
    BY <1>0, <2>3, <2>4, <2>5 DEF IsShaping
  <2>7. IsShaping(t) BY <1>0, <1>1, <2>2, <2>4, <2>6 DEF IsShaping
  <2> QED BY <1>0, <1>1, <2>2, <2>3, <2>7 DEF t
<1>4. CASE ~InRun(b) /\ b.kind = "Attachment" /\ s.run = <<>>
  <2>1. t = [s EXCEPT !.out = Append(@, b)] BY <1>4 DEF Shape
  <2>2. /\ DOMAIN t = {"out", "run", "held"} /\ t.out = Append(o, b) /\ t.run = u /\ t.held = h
    BY <1>0, <2>1 DEF IsShaping
  <2> HIDE DEF t
  <2>4. IsSeq(Append(o, b)) BY <1>1, SeqAppend
  <2>5. Openers(Append(o, b)) = Openers(o) + (IF OpensTurn(b) THEN 1 ELSE 0) BY <1>1, OpenersAppend
  <2>7. IsShaping(t) BY <1>0, <1>1, <2>2, <2>4 DEF IsShaping
  <2> QED BY <1>0, <2>2, <2>5, <2>7 DEF t
<1>5. CASE ~InRun(b) /\ b.kind # "Attachment"
  <2>1. PICK f : f = Flush(s) OBVIOUS
  <2>2. IsShaping(f) /\ Openers(f.out) = Openers(o) BY <1>0, <2>1, FlushFacts
  <2>3. t = [f EXCEPT !.out = Append(@, b)] BY <1>5, <2>1 DEF Shape
  <2>4. PICK fo : fo = f.out OBVIOUS
  <2>5. /\ DOMAIN t = {"out", "run", "held"} /\ t.out = Append(fo, b)
        /\ t.run = f.run /\ t.held = f.held
    BY <2>2, <2>3, <2>4 DEF IsShaping
  <2> HIDE DEF t
  <2>6. IsSeq(fo) BY <2>2, <2>4 DEF IsShaping
  <2>7. IsSeq(Append(fo, b)) BY <2>6, SeqAppend
  <2>8. Openers(Append(fo, b)) = Openers(fo) + (IF OpensTurn(b) THEN 1 ELSE 0) BY <2>6, OpenersAppend
  <2>9. IsShaping(t) BY <2>2, <2>5, <2>7 DEF IsShaping
  <2> QED BY <1>0, <2>2, <2>4, <2>5, <2>8, <2>9 DEF t
<1> QED BY <1>2, <1>3, <1>4, <1>5

ShapeStep(par, s, b) == Shape(s, b)
H == INSTANCE FoldFacts WITH op <- ShapeStep

NoShaping == [out |-> <<>>, run |-> <<>>, held |-> <<>>]

LEMMA NoShapingFacts == IsShaping(NoShaping) /\ Openers(NoShaping.out) = 0
<1>1. DOMAIN NoShaping = {"out", "run", "held"} /\ NoShaping.out = <<>> /\ NoShaping.run = <<>>
      /\ NoShaping.held = <<>>
  BY DEF NoShaping
<1> QED BY <1>1, EmptyIsSeq, OpenersEmpty DEF IsShaping

\* The course of the shaping of a sequence of blocks.
LEMMA ShapeCourse ==
    ASSUME NEW blocks, IsSeq(blocks)
    PROVE  \E g : /\ g[0] = NoShaping
                  /\ \A i \in 1..Len(blocks) : g[i] = Shape(g[i - 1], blocks[i])
                  /\ FinishTurns(blocks) = Flush(g[Len(blocks)]).out
                  /\ \A i \in 0..Len(blocks) : /\ IsShaping(g[i])
                                               /\ Openers(g[i].out) = Openers(SubSeq(blocks, 1, i))
<1>1. FoldLeft(Shape, NoShaping, blocks) = H!Fold(0, NoShaping, blocks)
  BY Zenon DEF H!Fold, FoldLeft, H!MapThenFoldSet, MapThenFoldSet,
               H!Max, Max, ShapeStep
<1>2. FinishTurns(blocks) = Flush(H!Fold(0, NoShaping, blocks)).out
  BY <1>1 DEF FinishTurns, NoShaping
<1>3. PICK n \in Nat : n = Len(blocks) /\ DOMAIN blocks = 1..n BY SeqTyped DEF IsSeq
<1>4. PICK g : H!Course(g, 0, NoShaping, blocks, n) /\ H!Fold(0, NoShaping, blocks) = g[n]
  BY <1>3, H!FoldCourse
<1>5. g[0] = NoShaping /\ \A i \in 1..n : g[i] = Shape(g[i - 1], blocks[i])
  BY <1>4 DEF H!Course, ShapeStep
<1> DEFINE S == {i \in Nat : i <= n => /\ IsShaping(g[i])
                                       /\ Openers(g[i].out) = Openers(SubSeq(blocks, 1, i))}
<1>6. 0 \in S BY <1>5, NoShapingFacts, SubNone, OpenersEmpty
<1>7. ASSUME NEW i \in Nat, i \in S PROVE i + 1 \in S
  <2> SUFFICES ASSUME i + 1 <= n
               PROVE  IsShaping(g[i + 1]) /\ Openers(g[i + 1].out) = Openers(SubSeq(blocks, 1, i + 1))
    OBVIOUS
  <2>1. i + 1 \in 1..n /\ (i + 1) - 1 = i OBVIOUS
  <2>2. PICK a, b : a = g[i] /\ b = blocks[i + 1] OBVIOUS
  <2>3. g[i + 1] = Shape(a, b) BY <1>5, <2>1, <2>2
  <2>4. IsShaping(a) /\ Openers(a.out) = Openers(SubSeq(blocks, 1, i)) BY <1>7, <2>2
  <2>5. IsShaping(Shape(a, b))
        /\ Openers(Shape(a, b).out) = Openers(a.out) + (IF OpensTurn(b) THEN 1 ELSE 0)
    BY <2>4, ShapeFacts
  <2>6. PICK x : x = SubSeq(blocks, 1, i) OBVIOUS
  <2>7. IsSeq(x) BY <2>6, SeqSub
  <2>8. Openers(Append(x, b)) = Openers(x) + (IF OpensTurn(b) THEN 1 ELSE 0) BY <2>7, OpenersAppend
  <2>9. SubSeq(blocks, 1, i + 1) = Append(x, b) BY <2>2, <2>6, SubNext
  <2> QED BY <2>3, <2>4, <2>5, <2>6, <2>8, <2>9
<1> HIDE DEF S
<1>8. Nat \subseteq S BY <1>6, <1>7, H!SetInduction
<1>9. \A i \in 0..n : IsShaping(g[i]) /\ Openers(g[i].out) = Openers(SubSeq(blocks, 1, i))
  BY <1>8 DEF S
<1> QED BY <1>2, <1>3, <1>4, <1>5, <1>9

LEMMA FinishTurnsFacts ==
    ASSUME NEW blocks, IsSeq(blocks)
    PROVE  IsSeq(FinishTurns(blocks)) /\ Openers(FinishTurns(blocks)) = Openers(blocks)
<1>1. PICK g : /\ FinishTurns(blocks) = Flush(g[Len(blocks)]).out
               /\ \A i \in 0..Len(blocks) : /\ IsShaping(g[i])
                                            /\ Openers(g[i].out) = Openers(SubSeq(blocks, 1, i))
  BY ShapeCourse
<1>2. Len(blocks) \in 0..Len(blocks) BY DEF IsSeq
<1>3. PICK a : a = g[Len(blocks)] OBVIOUS
<1>4. IsShaping(a) /\ Openers(a.out) = Openers(blocks) BY <1>1, <1>2, <1>3, SubAll
<1>5. IsShaping(Flush(a)) /\ Openers(Flush(a).out) = Openers(a.out) BY <1>4, FlushFacts
<1> QED BY <1>1, <1>3, <1>4, <1>5 DEF IsShaping

ShowStep(par, kept, i) == IF par.lo + i \in par.suppress THEN kept ELSE Append(kept, par.blocks[i])
W == INSTANCE FoldFacts WITH op <- ShowStep

\* The course of the selection of the blocks that are shown.
LEMMA ShownCourse ==
    ASSUME NEW blocks, NEW lo, NEW suppress, IsSeq(blocks)
    PROVE  \E g : /\ g[0] = <<>>
                  /\ \A i \in 1..Len(blocks) :
                        g[i] = IF lo + i \in suppress THEN g[i - 1] ELSE Append(g[i - 1], blocks[i])
                  /\ Shown(blocks, lo, suppress) = g[Len(blocks)]
                  /\ \A i \in 0..Len(blocks) : /\ IsSeq(g[i])
                                               /\ Openers(g[i]) <= Openers(SubSeq(blocks, 1, i))
<1>1. PICK par : par = [blocks |-> blocks, lo |-> lo, suppress |-> suppress] OBVIOUS
<1>2. par.lo = lo /\ par.suppress = suppress /\ par.blocks = blocks BY <1>1
<1> DEFINE at == [i \in DOMAIN (par.blocks) |-> i]
<1>3. Shown(par.blocks, par.lo, par.suppress) = W!Fold(par, <<>>, at)
  BY Zenon DEF W!Fold, FoldLeft, W!MapThenFoldSet, MapThenFoldSet,
               W!Max, Max, ShowStep, Shown
<1>4. PICK n \in Nat : n = Len(blocks) /\ DOMAIN blocks = 1..n BY SeqTyped DEF IsSeq
<1>5. DOMAIN at = 1..n /\ \A i \in 1..n : at[i] = i BY <1>2, <1>4
<1> HIDE DEF at
<1>6. PICK g : W!Course(g, par, <<>>, at, n) /\ W!Fold(par, <<>>, at) = g[n]
  BY <1>5, W!FoldCourse
<1>7. g[0] = <<>>
      /\ \A i \in 1..n : g[i] = IF lo + i \in suppress THEN g[i - 1] ELSE Append(g[i - 1], blocks[i])
  BY <1>2, <1>5, <1>6 DEF W!Course, ShowStep
<1> DEFINE S == {i \in Nat : i <= n => /\ IsSeq(g[i])
                                       /\ Openers(g[i]) <= Openers(SubSeq(blocks, 1, i))}
<1>8. 0 \in S
  <2>1. IsSeq(g[0]) /\ Openers(g[0]) = 0 BY <1>7, EmptyIsSeq, OpenersEmpty
  <2>2. Openers(SubSeq(blocks, 1, 0)) = 0 BY SubNone, OpenersEmpty
  <2> QED BY <2>1, <2>2
<1>9. ASSUME NEW i \in Nat, i \in S PROVE i + 1 \in S
  <2> SUFFICES ASSUME i + 1 <= n
               PROVE  IsSeq(g[i + 1]) /\ Openers(g[i + 1]) <= Openers(SubSeq(blocks, 1, i + 1))
    OBVIOUS
  <2>1. i + 1 \in 1..n /\ (i + 1) - 1 = i OBVIOUS
  <2>2. PICK a, b, x : a = g[i] /\ b = blocks[i + 1] /\ x = SubSeq(blocks, 1, i) OBVIOUS
  <2>3. g[i + 1] = a \/ g[i + 1] = Append(a, b) BY <1>7, <2>1, <2>2
  <2>4. IsSeq(a) /\ Openers(a) <= Openers(x) BY <1>9, <2>2
  <2>5. IsSeq(Append(a, b)) BY <2>4, SeqAppend
  <2>6. IsSeq(x) BY <2>2, SeqSub
  <2>7. Openers(Append(a, b)) = Openers(a) + (IF OpensTurn(b) THEN 1 ELSE 0) BY <2>4, OpenersAppend
  <2>8. Openers(Append(x, b)) = Openers(x) + (IF OpensTurn(b) THEN 1 ELSE 0) BY <2>6, OpenersAppend
  <2>9. SubSeq(blocks, 1, i + 1) = Append(x, b) BY <2>2, SubNext
  <2>10. Openers(a) \in Nat /\ Openers(x) \in Nat BY <2>4, <2>6, HeadsFinite
  <2>11. IsSeq(g[i + 1]) BY <2>3, <2>4, <2>5
  <2>12. Openers(g[i + 1]) <= Openers(a) + (IF OpensTurn(b) THEN 1 ELSE 0)
    <3>1. CASE g[i + 1] = a BY <2>10, <3>1
    <3>2. CASE g[i + 1] = Append(a, b) BY <2>7, <2>10, <3>2
    <3> QED BY <2>3, <3>1, <3>2
  <2>13. Openers(g[i + 1]) <= Openers(Append(x, b))
    <3>1. PICK u, v, w, z : u = Openers(g[i + 1]) /\ v = Openers(a) /\ w = Openers(x)
                           /\ z = Openers(Append(x, b)) OBVIOUS
    <3>2. u \in Nat BY <2>11, <3>1, HeadsFinite
    <3> QED BY <2>4, <2>8, <2>10, <2>12, <3>1, <3>2
  <2> QED BY <2>9, <2>11, <2>13
<1> HIDE DEF S
<1>10. Nat \subseteq S BY <1>8, <1>9, W!SetInduction
<1>11. \A i \in 0..n : IsSeq(g[i]) /\ Openers(g[i]) <= Openers(SubSeq(blocks, 1, i))
  BY <1>10 DEF S
<1> QED BY <1>2, <1>3, <1>4, <1>6, <1>7, <1>11

LEMMA ShownFacts ==
    ASSUME NEW blocks, NEW lo, NEW suppress, IsSeq(blocks)
    PROVE  /\ IsSeq(Shown(blocks, lo, suppress))
           /\ Openers(Shown(blocks, lo, suppress)) <= Openers(blocks)
<1>1. PICK g : /\ Shown(blocks, lo, suppress) = g[Len(blocks)]
               /\ \A i \in 0..Len(blocks) : /\ IsSeq(g[i])
                                            /\ Openers(g[i]) <= Openers(SubSeq(blocks, 1, i))
  BY ShownCourse
<1>2. Len(blocks) \in 0..Len(blocks) BY DEF IsSeq
<1> QED BY <1>1, <1>2, SubAll

-----------------------------------------------------------------------------
(* Times.                                                                  *)

\* There is a time for each of t turns that left the window and for each
\* turn of the window that is stamped.
Timed(r, t) == t \in Nat /\ t + Openers(SubSeq(r.out, 1, r.stamped - r.base)) <= Len(r.times)

\* The times of s begin with those of r.
TimesGrow(r, s) ==
    Len(r.times) <= Len(s.times) /\ \A i \in 1..Len(r.times) : s.times[i] = r.times[i]

LEMMA MovesTimed ==
    ASSUME NEW r, NEW s, IsReplayer(r), Moves(r, s), NEW t, Timed(r, t)
    PROVE  Timed(s, t)
<1>1. s.stamped = r.stamped /\ s.base = r.base /\ s.times = r.times BY DEF Moves
<1>2. PICK k \in Nat : k = r.stamped - r.base /\ k <= Len(r.out) /\ Len(r.out) \in Nat
  BY DEF IsReplayer, IsSeq
<1>3. PICK x, y : x = SubSeq(r.out, 1, k) /\ y = SubSeq(s.out, 1, k) OBVIOUS
<1>4. IsSeq(x) /\ Len(x) = k /\ \A j \in 1..k : x[j] = r.out[j] BY <1>3, SubFirst
<1>5. IsSeq(y) /\ Len(y) = k /\ \A j \in 1..k : y[j] = s.out[j] BY <1>3, SubFirst
<1>6. \A j \in 1..k : s.out[j].kind = r.out[j].kind BY <1>2 DEF Moves
<1>7. \A j \in 1..k : OpensTurn(x[j]) <=> OpensTurn(y[j]) BY <1>4, <1>5, <1>6 DEF OpensTurn
<1>8. Openers(x) = Openers(y) BY <1>4, <1>5, <1>7, OpenersSame
<1> QED BY <1>1, <1>2, <1>3, <1>8 DEF Timed

\* Stamped: s is r with a time for each turn of its window.
Stamps(r, s) ==
    /\ IsReplayer(s)
    /\ s.out = r.out /\ s.base = r.base /\ s.durable = r.durable /\ s.queue = r.queue
    /\ s.suppress = r.suppress /\ s.past = r.past /\ s.gone = r.gone
    /\ s.stamped = r.base + Len(r.out)
    /\ TimesGrow(r, s)
    /\ \A t : Timed(r, t) => Timed(s, t)

LEMMA StampStamps ==
    ASSUME NEW r, IsReplayer(r)
    PROVE  Stamps(r, StampUserTurns(r))
<1> DEFINE new == Openers(SubSeq(r.out, r.stamped - r.base + 1, Len(r.out)))
           s == StampUserTurns(r)
<1>1. PICK k \in Nat : k = r.stamped - r.base /\ k <= Len(r.out) /\ Len(r.out) \in Nat
  BY DEF IsReplayer, IsSeq
<1>2. PICK o : o = r.out OBVIOUS
<1>3. IsSeq(o) /\ k \in 0..Len(o) BY <1>1, <1>2 DEF IsReplayer
<1>4. IsSeq(SubSeq(o, k + 1, Len(o))) /\ IsSeq(SubSeq(o, 1, k)) BY <1>1, <1>2, SubRest, SubFirst
<1>5. PICK n \in Nat : n = new BY <1>1, <1>2, <1>4, HeadsFinite
<1>6. Openers(o) = Openers(SubSeq(o, 1, k)) + n BY <1>1, <1>2, <1>3, <1>5, OpenersSplit
<1>7. PICK ts : ts = [i \in 1..n |-> r.pending] OBVIOUS
<1>8. IsSeq(ts) /\ Len(ts) = n
  <2>1. ts = [i \in 1..n |-> ts[i]] BY <1>7
  <2> QED BY <2>1, SeqOfDomain
<1>9. /\ DOMAIN s = Fields /\ s.out = r.out /\ s.base = r.base /\ s.durable = r.durable
      /\ s.queue = r.queue /\ s.suppress = r.suppress /\ s.past = r.past /\ s.gone = r.gone
      /\ s.stamped = r.base + Len(r.out) /\ s.times = r.times \o ts
  BY <1>5, <1>7 DEF StampUserTurns, IsReplayer, Fields, RawLen
<1> HIDE DEF s, new
<1>10. IsSeq(r.times) /\ Len(r.times) \in Nat BY DEF IsReplayer, IsSeq
<1>11. /\ IsSeq(s.times) /\ Len(s.times) = Len(r.times) + n
       /\ \A i \in 1..Len(r.times) : s.times[i] = r.times[i]
  <2>1. PICK rt : rt = r.times OBVIOUS
  <2>2. /\ IsSeq(rt \o ts) /\ Len(rt \o ts) = Len(rt) + Len(ts)
        /\ \A i \in 1..Len(rt) : (rt \o ts)[i] = rt[i]
    BY <1>8, <1>10, <2>1, SeqConcat
  <2> QED BY <1>8, <1>9, <2>1, <2>2
<1>12. r.base \in Nat BY DEF IsReplayer
<1>13. IsReplayer(s)
  <2>1. s.stamped \in s.base..(s.base + Len(s.out)) BY <1>1, <1>9, <1>12
  <2>2. \A m : Marks(r, m) => Marks(s, m) BY <1>9 DEF Marks
  <2> QED BY <1>9, <1>11, <2>1, <2>2 DEF IsReplayer
<1>14. TimesGrow(r, s) BY <1>10, <1>11 DEF TimesGrow
<1>15. ASSUME NEW t, Timed(r, t) PROVE Timed(s, t)
  <2>1. SubSeq(s.out, 1, s.stamped - s.base) = o
    <3>1. s.stamped - s.base = Len(o) BY <1>1, <1>2, <1>9, <1>12
    <3> QED BY <1>2, <1>3, <1>9, <3>1, SubAll
  <2>2. t \in Nat /\ t + Openers(SubSeq(o, 1, k)) <= Len(r.times) BY <1>1, <1>2, <1>15 DEF Timed
  <2>3. Openers(SubSeq(o, 1, k)) \in Nat BY <1>4, HeadsFinite
  <2>4. t + Openers(o) <= Len(s.times) BY <1>6, <1>10, <1>11, <2>2, <2>3
  <2> QED BY <2>1, <2>2, <2>4 DEF Timed
<1> QED BY <1>9, <1>13, <1>14, <1>15 DEF Stamps, s

LEMMA LineStartStamps ==
    ASSUME NEW r, NEW ts, IsReplayer(r)
    PROVE  Stamps(r, LineStart(r, ts))
<1>1. PICK p : p = StampUserTurns(r) OBVIOUS
<1>2. PICK s : s = LineStart(r, ts) OBVIOUS
<1>3. s = [p EXCEPT !.pending = ts] BY <1>1, <1>2 DEF LineStart
<1>4. Stamps(r, p) BY <1>1, StampStamps
<1>5. /\ DOMAIN s = Fields /\ s.out = p.out /\ s.base = p.base /\ s.durable = p.durable
      /\ s.queue = p.queue /\ s.suppress = p.suppress /\ s.past = p.past /\ s.gone = p.gone
      /\ s.stamped = p.stamped /\ s.times = p.times
  BY <1>3, <1>4 DEF Stamps, IsReplayer, Fields
<1>6. IsReplayer(s)
  <2>1. IsReplayer(p) BY <1>4 DEF Stamps
  <2>2. \A m : Marks(p, m) => Marks(s, m) BY <1>5 DEF Marks
  <2> QED BY <1>5, <2>1, <2>2 DEF IsReplayer
<1>7. TimesGrow(r, s) BY <1>4, <1>5 DEF Stamps, TimesGrow
<1>8. \A t : Timed(p, t) => Timed(s, t) BY <1>5 DEF Timed
<1> QED BY <1>2, <1>4, <1>5, <1>6, <1>7, <1>8 DEF Stamps

-----------------------------------------------------------------------------
(* The frontier.                                                           *)

\* The last opener of the first n blocks.
LEMMA LastOpener ==
    ASSUME NEW s, NEW n \in Nat, NEW h, h = SelectLastInSubSeq(s, 1, n, OpensTurn)
    PROVE  \/ h = 0 /\ \A i \in 1..n : ~OpensTurn(s[i])
           \/ h \in 1..n /\ OpensTurn(s[h]) /\ \A i \in 1..n : OpensTurn(s[i]) => i <= h
<1> DEFINE I == {i \in 1..n : OpensTurn(s[i])}
<1>1. h = IF I # {} THEN Max(I) ELSE 0 BY DEF SelectLastInSubSeq
<1>2. CASE I = {} BY <1>1, <1>2
<1>3. CASE I # {}
  <2>1. I \in SUBSET (1..n) OBVIOUS
  <2>2. Max(I) \in I /\ \A y \in I : y <= Max(I)
    <3> HIDE DEF I
    <3> QED BY <1>3, <2>1, MaxIn
  <2> QED BY <1>1, <1>3, <2>2
<1> QED BY <1>2, <1>3

LEMMA PinFacts ==
    ASSUME NEW r, IsReplayer(r), NEW k \in 0..Len(r.out), NEW p, p = QueuePin(r, k)
    PROVE  /\ p \in 0..k
           /\ Openers(SubSeq(r.out, p + 1, k)) <= MaxPinnedTurns
           /\ p = k \/ p = 0 \/ OpensTurn(r.out[p + 1])
<1> DEFINE markers == {r.queue[i].marker : i \in DOMAIN r.queue} \ {0}
           oldest == Min(markers) - r.base
           head == SelectLastInSubSeq(r.out, 1, oldest, OpensTurn)
           pinned == IF head = 0 THEN 0 ELSE head - 1
<1>1. \/ p = k
      \/ /\ markers # {} /\ ~(Min(markers) <= r.base) /\ ~(oldest > k) /\ p = pinned
         /\ Openers(SubSeq(r.out, pinned + 1, k)) <= MaxPinnedTurns
  BY DEF QueuePin
<1>2. CASE p = k
  <2>1. SubSeq(r.out, p + 1, k) = <<>> BY <1>2, SubSeqEmpty
  <2>2. 0 <= MaxPinnedTurns BY PinAssumption
  <2>3. Openers(SubSeq(r.out, p + 1, k)) = 0 BY <2>1, OpenersEmpty
  <2>4. p \in 0..k BY <1>2
  <2> QED BY <1>2, <2>2, <2>3, <2>4
<1>3. CASE /\ markers # {} /\ ~(Min(markers) <= r.base) /\ ~(oldest > k) /\ p = pinned
           /\ Openers(SubSeq(r.out, pinned + 1, k)) <= MaxPinnedTurns
  <2>1. markers \in SUBSET Nat
    <3>1. DOMAIN r.queue = 1..Len(r.queue) BY SeqTyped DEF IsReplayer
    <3> QED BY <3>1 DEF IsReplayer, Marks
  <2>2. Min(markers) \in Nat
    <3> HIDE DEF markers
    <3> QED BY <1>3, <2>1, MinIn
  <2>3. r.base \in Nat BY DEF IsReplayer
  <2> HIDE DEF markers
  <2>4. oldest \in 1..k BY <1>3, <2>2, <2>3
  <2> HIDE DEF oldest
  <2>5. oldest \in Nat BY <2>4
  <2>6. PICK h : h = head OBVIOUS
  <2>7. \/ h = 0
        \/ h \in 1..oldest /\ OpensTurn(r.out[h])
    BY <2>5, <2>6, LastOpener
  <2>8. p = (IF h = 0 THEN 0 ELSE h - 1) BY <1>3, <2>6
  <2> HIDE DEF head, pinned
  <2>9. p \in 0..k BY <2>4, <2>7, <2>8
  <2>10. p = 0 \/ OpensTurn(r.out[p + 1])
    <3>1. CASE h = 0 BY <2>8, <3>1
    <3>2. CASE h \in 1..oldest /\ OpensTurn(r.out[h])
      <4>1. p + 1 = h BY <2>4, <2>8, <3>2
      <4> QED BY <3>2, <4>1
    <3> QED BY <2>7, <3>1, <3>2
  <2> QED BY <1>3, <2>9, <2>10
<1> QED BY <1>1, <1>2, <1>3

\* What a drain of the first k blocks does: they leave the window, finished, and
\* the messages that left keep their times.
Drained(r, k, z) ==
    /\ IsReplayer(z)
    /\ z.out = SubSeq(r.out, k + 1, Len(r.out))
    /\ z.base = r.base + k
    /\ z.durable = FinishTurns(Shown(SubSeq(r.out, 1, k), r.base, r.suppress))
    /\ z.past = r.past \o SubSeq(r.out, 1, k) /\ z.gone = r.gone
    /\ IsSeq(z.durable)
    /\ TimesGrow(r, z)
    /\ \A t : Timed(r, t) => Timed(z, t + Openers(z.durable))

LEMMA DrainFacts ==
    ASSUME NEW r, IsReplayer(r), NEW k \in 0..Len(r.out), NEW z, z = Drain(r, k)
    PROVE  Drained(r, k, z)
<1>1. PICK s : s = StampUserTurns(r) OBVIOUS
<1>2. Stamps(r, s) /\ IsReplayer(s) BY <1>1, StampStamps DEF Stamps
<1>3. PICK o, n, x, y : /\ o = r.out /\ n = Len(o)
                        /\ x = SubSeq(o, 1, k) /\ y = SubSeq(o, k + 1, n)
  OBVIOUS
<1>4. IsSeq(o) /\ n \in Nat /\ k \in Nat /\ k <= n /\ r.base \in Nat
  BY <1>3 DEF IsReplayer, IsSeq
<1>5. IsSeq(x) /\ Len(x) = k /\ \A j \in 1..k : x[j] = o[j] BY <1>3, <1>4, SubFirst
<1>6. IsSeq(y) /\ Len(y) = n - k /\ \A j \in 1..(n - k) : y[j] = o[k + j] BY <1>3, <1>4, SubRest
<1>7. /\ DOMAIN z = Fields /\ z.out = y /\ z.base = r.base + k
      /\ z.durable = FinishTurns(Shown(x, r.base, r.suppress))
      /\ z.past = s.past \o x /\ z.gone = s.gone /\ z.queue = s.queue
      /\ z.times = s.times /\ z.stamped = s.stamped
      /\ z.suppress = {i \in s.suppress : i > r.base + k}
  BY <1>1, <1>2, <1>3 DEF Drain, IsReplayer, Fields
<1>8. /\ s.out = o /\ s.base = r.base /\ s.queue = r.queue /\ s.suppress = r.suppress
      /\ s.past = r.past /\ s.gone = r.gone /\ s.stamped = r.base + n
      /\ TimesGrow(r, s) /\ \A t : Timed(r, t) => Timed(s, t)
  BY <1>2, <1>3 DEF Stamps
<1>9. ASSUME NEW m, Marks(r, m) PROVE Marks(z, m)
  <2> SUFFICES ASSUME m > z.base PROVE m - z.base <= Len(z.out) /\ z.out[m - z.base].kind = "QueueEvent"
    BY <1>9 DEF Marks
  <2>1. m \in Nat /\ m > r.base /\ m - r.base <= n /\ o[m - r.base].kind = "QueueEvent"
    BY <1>3, <1>4, <1>7, <1>9 DEF Marks
  <2>2. m - z.base \in 1..(n - k) /\ k + (m - z.base) = m - r.base BY <1>4, <1>7, <2>1
  <2> QED BY <1>6, <1>7, <2>1, <2>2
<1>10. IsReplayer(z)
  <2>1. \A i \in 1..Len(z.out) : IsBlock(z.out[i])
    <3>1. \A i \in 1..(n - k) : k + i \in 1..n BY <1>4
    <3>2. \A i \in 1..n : IsBlock(o[i]) BY <1>3 DEF IsReplayer
    <3> QED BY <1>6, <1>7, <3>1, <3>2
  <2>2. z.stamped \in z.base..(z.base + Len(z.out)) BY <1>4, <1>6, <1>7, <1>8
  <2>3. \A m \in Nat : m > z.base => (m \in z.suppress <=> m \in z.gone)
    <3>1. \A m \in Nat : m > r.base => (m \in r.suppress <=> m \in r.gone) BY DEF IsReplayer
    <3>2. \A m \in Nat : m > z.base => m > r.base BY <1>4, <1>7
    <3> QED BY <1>7, <1>8, <3>1, <3>2
  <2>4. z.base \in Nat BY <1>4, <1>7
  <2>5. IsSeq(z.times) BY <1>2, <1>7 DEF IsReplayer
  <2> QED BY <1>6, <1>7, <1>8, <1>9, <2>1, <2>2, <2>3, <2>4, <2>5 DEF IsReplayer
<1>11. TimesGrow(r, z) BY <1>7, <1>8 DEF TimesGrow
<1>12. PICK w : w = Shown(x, r.base, r.suppress) OBVIOUS
<1>13. IsSeq(w) /\ Openers(w) <= Openers(x) BY <1>5, <1>12, ShownFacts
<1>14. IsSeq(z.durable) /\ Openers(z.durable) = Openers(w)
  BY <1>7, <1>12, <1>13, FinishTurnsFacts
<1>15. ASSUME NEW t, Timed(r, t) PROVE Timed(z, t + Openers(z.durable))
  <2>1. Timed(s, t) BY <1>8, <1>15
  <2>2. SubSeq(s.out, 1, s.stamped - s.base) = o
    <3>1. s.stamped - s.base = Len(o) BY <1>3, <1>4, <1>8
    <3> QED BY <1>4, <1>8, <3>1, SubAll
  <2>3. t \in Nat /\ t + Openers(o) <= Len(s.times) BY <2>1, <2>2 DEF Timed
  <2>4. Openers(o) = Openers(x) + Openers(y)
    <3>1. k \in 0..Len(o) BY <1>3, <1>4
    <3> QED BY <1>3, <1>4, <3>1, OpenersSplit
  <2>5. SubSeq(z.out, 1, z.stamped - z.base) = y
    <3>1. z.stamped - z.base = Len(y) BY <1>4, <1>6, <1>7, <1>8
    <3> QED BY <1>6, <1>7, <3>1, SubAll
  <2>6. Openers(x) \in Nat /\ Openers(y) \in Nat /\ Openers(w) \in Nat
    BY <1>5, <1>6, <1>13, HeadsFinite
  <2>7. Len(s.times) \in Nat BY <1>2 DEF IsReplayer, IsSeq
  <2>8. (t + Openers(w)) + Openers(y) <= Len(z.times) /\ t + Openers(w) \in Nat
    BY <1>7, <1>13, <2>3, <2>4, <2>6, <2>7
  <2> QED BY <1>14, <2>5, <2>8 DEF Timed
<1> QED BY <1>3, <1>7, <1>8, <1>10, <1>11, <1>14, <1>15 DEF Drained

LEMMA SubSplit ==
    ASSUME NEW s, NEW p \in Nat, NEW k \in Nat, NEW n \in Nat, p <= k, k <= n
    PROVE  SubSeq(s, p + 1, n) = SubSeq(s, p + 1, k) \o SubSeq(s, k + 1, n)
<1>1. PICK x, y, w : /\ x = SubSeq(s, p + 1, k) /\ y = SubSeq(s, k + 1, n)
                     /\ w = SubSeq(s, p + 1, n)
  OBVIOUS
<1>2. IsSeq(x) /\ Len(x) = k - p /\ \A j \in 1..(k - p) : x[j] = s[p + j] BY <1>1, SubRest
<1>3. IsSeq(y) /\ Len(y) = n - k /\ \A j \in 1..(n - k) : y[j] = s[k + j] BY <1>1, SubRest
<1>4. IsSeq(w) /\ Len(w) = n - p /\ \A j \in 1..(n - p) : w[j] = s[p + j] BY <1>1, SubRest
<1>5. PICK u : u = x \o y OBVIOUS
<1>6. /\ IsSeq(u) /\ Len(u) = Len(x) + Len(y)
      /\ \A i \in 1..Len(x) : u[i] = x[i]
      /\ \A i \in 1..Len(y) : u[Len(x) + i] = y[i]
  BY <1>2, <1>3, <1>5, SeqConcat
<1>7. Len(u) = Len(w) BY <1>2, <1>3, <1>4, <1>6
<1>8. ASSUME NEW j \in 1..Len(w) PROVE w[j] = u[j]
  <2>1. CASE j \in 1..(k - p) BY <1>2, <1>4, <1>6, <2>1
  <2>2. CASE j \notin 1..(k - p)
    <3>1. j - (k - p) \in 1..(n - k) /\ (k - p) + (j - (k - p)) = j /\ k + (j - (k - p)) = p + j
      BY <1>4, <2>2
    <3>2. u[(k - p) + (j - (k - p))] = y[j - (k - p)] BY <1>2, <1>3, <1>6, <3>1
    <3>3. y[j - (k - p)] = s[k + (j - (k - p))] BY <1>3, <3>1
    <3>4. w[j] = s[p + j] BY <1>4
    <3> QED BY <3>1, <3>2, <3>3, <3>4
  <2> QED BY <2>1, <2>2
<1>9. w = u BY <1>4, <1>6, <1>7, <1>8, SameSeq
<1> QED BY <1>1, <1>5, <1>9

LEMMA SubFromOne ==
    ASSUME NEW s, NEW k \in Nat, NEW n \in Nat, k <= n
    PROVE  SubSeq(s, 1, n) = SubSeq(s, 1, k) \o SubSeq(s, k + 1, n)
<1>1. PICK w : w = SubSeq(s, 1, n) OBVIOUS
<1>2. IsSeq(w) /\ Len(w) = n /\ \A j \in 1..n : w[j] = s[j] BY <1>1, SubFirst
<1>3. PICK x, y, u, v : /\ x = SubSeq(w, 1, k) /\ y = SubSeq(w, k + 1, n)
                        /\ u = SubSeq(s, 1, k) /\ v = SubSeq(s, k + 1, n)
  OBVIOUS
<1>4. w = x \o y
  <2>1. k \in 0..Len(w) BY <1>2
  <2> QED BY <1>2, <1>3, <2>1, SplitSeq
<1>5. IsSeq(x) /\ Len(x) = k /\ \A j \in 1..k : x[j] = w[j] BY <1>3, SubFirst
<1>6. IsSeq(u) /\ Len(u) = k /\ \A j \in 1..k : u[j] = s[j] BY <1>3, SubFirst
<1>7. IsSeq(y) /\ Len(y) = n - k /\ \A j \in 1..(n - k) : y[j] = w[k + j] BY <1>3, SubRest
<1>8. IsSeq(v) /\ Len(v) = n - k /\ \A j \in 1..(n - k) : v[j] = s[k + j] BY <1>3, SubRest
<1>9. x = u
  <2>1. \A j \in 1..k : j \in 1..n OBVIOUS
  <2>2. \A j \in 1..k : x[j] = u[j] BY <1>2, <1>5, <1>6, <2>1
  <2> QED BY <1>5, <1>6, <2>2, SameSeq
<1>10. y = v
  <2>1. \A j \in 1..(n - k) : k + j \in 1..n OBVIOUS
  <2>2. \A j \in 1..(n - k) : y[j] = v[j] BY <1>2, <1>7, <1>8, <2>1
  <2> QED BY <1>7, <1>8, <2>2, SameSeq
<1> QED BY <1>1, <1>3, <1>4, <1>9, <1>10

\* From its last opener on, a sequence has one opener.
LEMMA OneOpener ==
    ASSUME NEW s, IsSeq(s), NEW h \in 1..Len(s), OpensTurn(s[h]),
           \A i \in 1..Len(s) : OpensTurn(s[i]) => i <= h
    PROVE  Openers(SubSeq(s, (h - 1) + 1, Len(s))) = 1
<1>1. Len(s) \in Nat /\ h - 1 \in Nat /\ h - 1 <= Len(s) BY DEF IsSeq
<1>2. PICK y : y = SubSeq(s, (h - 1) + 1, Len(s)) OBVIOUS
<1>3. /\ IsSeq(y) /\ Len(y) = Len(s) - (h - 1)
      /\ \A j \in 1..(Len(s) - (h - 1)) : y[j] = s[(h - 1) + j]
  <2>1. PICK k \in Nat, n \in Nat : k = h - 1 /\ n = Len(s) BY <1>1
  <2>2. k <= n BY <1>1, <2>1
  <2>3. y = SubSeq(s, k + 1, n) BY <1>2, <2>1
  <2>4. IsSeq(y) /\ Len(y) = n - k /\ \A j \in 1..(n - k) : y[j] = s[k + j]
    BY <2>2, <2>3, SubRest
  <2> QED BY <2>1, <2>4
<1>4. Heads(y) = {1}
  <2>1. ASSUME NEW i \in Heads(y) PROVE i = 1
    <3>1. i \in 1..(Len(s) - (h - 1)) /\ OpensTurn(y[i]) BY <1>3, HeadsIn
    <3>2. (h - 1) + i \in 1..Len(s) /\ OpensTurn(s[(h - 1) + i]) BY <1>1, <1>3, <3>1
    <3>3. (h - 1) + i <= h BY <3>2
    <3> QED BY <1>1, <3>1, <3>3
  <2>2. 1 \in Heads(y)
    <3>1. 1 \in 1..(Len(s) - (h - 1)) /\ (h - 1) + 1 = h BY <1>1
    <3>2. y[1] = s[(h - 1) + 1] BY <1>3, <3>1
    <3>3. OpensTurn(y[1]) BY <3>1, <3>2
    <3> QED BY <1>3, <3>1, <3>3, HeadsIn
  <2> QED BY <2>1, <2>2
<1>5. Openers(y) = Cardinality({1}) BY <1>3, <1>4, HeadsFinite
<1> QED BY <1>2, <1>5, FS_Singleton

\* Once the turns that are complete have left, the window is bounded.
Bounded(r) == Openers(r.out) <= MaxPinnedTurns + 1

LEMMA FinalizeFacts ==
    ASSUME NEW r, IsReplayer(r), NEW z, z = FinalizeCompleted(r)
    PROVE  /\ IsReplayer(z) /\ Bounded(z)
           /\ IsSeq(z.durable)
           /\ TimesGrow(r, z)
           /\ \A t : Timed(r, t) => Timed(z, t + Openers(z.durable))
<1>1. PICK o, n : o = r.out /\ n = Len(o) OBVIOUS
<1>2. IsSeq(o) /\ n \in Nat BY <1>1 DEF IsReplayer, IsSeq
<1>3. PICK h : h = SelectLastInSeq(o, OpensTurn) OBVIOUS
<1>4. h = SelectLastInSubSeq(o, 1, n, OpensTurn)
  BY <1>1, <1>3 DEF SelectLastInSeq, SelectLastInSubSeq
<1>5. \/ h = 0 /\ \A i \in 1..n : ~OpensTurn(o[i])
      \/ h \in 1..n /\ OpensTurn(o[h]) /\ \A i \in 1..n : OpensTurn(o[i]) => i <= h
  BY <1>2, <1>4, LastOpener
<1>6. PICK p : p = IF h = 0 THEN 0 ELSE QueuePin(r, h - 1) OBVIOUS
<1>7. z = IF p = 0 THEN [r EXCEPT !.durable = <<>>] ELSE Drain(r, p)
  BY <1>1, <1>3, <1>6 DEF FinalizeCompleted
<1>8. p \in 0..n /\ Openers(SubSeq(o, p + 1, n)) <= MaxPinnedTurns + 1
  <2>1. CASE h = 0 /\ \A i \in 1..n : ~OpensTurn(o[i])
    <3>1. p = 0 BY <1>6, <2>1
    <3>2. SubSeq(o, p + 1, n) = o BY <1>1, <1>2, <3>1, SubAll
    <3>3. Openers(o) = 0 BY <1>1, <1>2, <2>1, OpenersNone
    <3>4. p \in 0..n /\ 0 <= MaxPinnedTurns + 1 BY <1>2, <3>1, PinAssumption
    <3> QED BY <3>2, <3>3, <3>4
  <2>2. CASE h \in 1..n /\ OpensTurn(o[h]) /\ \A i \in 1..n : OpensTurn(o[i]) => i <= h
    <3>1. PICK k \in Nat : k = h - 1 BY <2>2
    <3>2. k \in 0..n /\ k + 1 = (h - 1) + 1 BY <1>2, <2>2, <3>1
    <3>3. p = QueuePin(r, k) BY <1>6, <2>2, <3>1
    <3>4. p \in 0..k /\ Openers(SubSeq(o, p + 1, k)) <= MaxPinnedTurns
      BY <1>1, <3>2, <3>3, PinFacts
    <3>5. Openers(SubSeq(o, k + 1, n)) = 1 BY <1>1, <1>2, <2>2, <3>2, OneOpener
    <3>6. PICK x, y : x = SubSeq(o, p + 1, k) /\ y = SubSeq(o, k + 1, n) OBVIOUS
    <3>7. p \in Nat /\ p <= k /\ k <= n BY <1>2, <3>2, <3>4
    <3>8. IsSeq(x) /\ IsSeq(y) BY <1>2, <3>6, <3>7, SubRest
    <3>9. SubSeq(o, p + 1, n) = x \o y BY <1>2, <3>6, <3>7, SubSplit
    <3>10. Openers(x \o y) = Openers(x) + Openers(y) BY <3>8, OpenersConcat
    <3>11. Openers(x) \in Nat BY <3>8, HeadsFinite
    <3>12. Openers(x \o y) <= MaxPinnedTurns + 1
      BY <3>4, <3>5, <3>6, <3>10, <3>11, PinAssumption
    <3>13. p \in 0..n BY <1>2, <3>7
    <3> QED BY <3>9, <3>12, <3>13
  <2> QED BY <1>5, <2>1, <2>2
<1>9. CASE p = 0
  <2>1. z = [r EXCEPT !.durable = <<>>] BY <1>7, <1>9
  <2>2. /\ DOMAIN z = Fields /\ z.out = r.out /\ z.base = r.base /\ z.durable = <<>>
        /\ z.queue = r.queue /\ z.suppress = r.suppress /\ z.gone = r.gone
        /\ z.times = r.times /\ z.stamped = r.stamped
    BY <2>1 DEF IsReplayer, Fields
  <2>3. IsReplayer(z)
    <3>1. \A m : Marks(r, m) => Marks(z, m) BY <2>2 DEF Marks
    <3> QED BY <2>2, <3>1 DEF IsReplayer
  <2>4. Bounded(z)
    <3>1. SubSeq(o, p + 1, n) = o BY <1>1, <1>2, <1>9, SubAll
    <3> QED BY <1>1, <1>8, <2>2, <3>1 DEF Bounded
  <2>5. IsSeq(z.durable) /\ Openers(z.durable) = 0 BY <2>2, EmptyIsSeq, OpenersEmpty
  <2>6. TimesGrow(r, z)
    <3>1. Len(r.times) \in Nat BY DEF IsReplayer, IsSeq
    <3> QED BY <2>2, <3>1 DEF TimesGrow
  <2>7. ASSUME NEW t, Timed(r, t) PROVE Timed(z, t + Openers(z.durable))
    <3>1. t + Openers(z.durable) = t BY <2>5, <2>7 DEF Timed
    <3>2. Timed(z, t) BY <2>2, <2>7 DEF Timed
    <3> QED BY <3>1, <3>2
  <2> QED BY <2>3, <2>4, <2>5, <2>6, <2>7
<1>10. CASE p # 0
  <2>1. z = Drain(r, p) /\ p \in 0..Len(r.out) BY <1>1, <1>7, <1>8, <1>10
  <2>2. /\ IsReplayer(z)
        /\ z.out = SubSeq(r.out, p + 1, Len(r.out))
        /\ IsSeq(z.durable)
        /\ TimesGrow(r, z)
        /\ \A t : Timed(r, t) => Timed(z, t + Openers(z.durable))
    <3>1. Drained(r, p, z) BY <2>1, DrainFacts
    <3> QED BY <3>1 DEF Drained
  <2>3. Bounded(z) BY <1>1, <1>8, <2>2 DEF Bounded
  <2> QED BY <2>2, <2>3
<1> QED BY <1>9, <1>10

LEMMA ApplyFacts ==
    ASSUME NEW r, NEW ts, NEW line \in Lines, IsReplayer(r), NEW z, z = Apply(r, ts, line)
    PROVE  /\ IsReplayer(z) /\ Bounded(z)
           /\ IsSeq(z.durable)
           /\ TimesGrow(r, z)
           /\ \A t : Timed(r, t) => Timed(z, t + Openers(z.durable))
<1>1. PICK s : s = LineStart(r, ts) OBVIOUS
<1>2. Stamps(r, s) /\ IsReplayer(s) BY <1>1, LineStartStamps DEF Stamps
<1>3. PICK f : f = FoldLeft(ApplyMessage, s, line) OBVIOUS
<1>4. Moves(s, f) /\ IsReplayer(f) BY <1>2, <1>3, LineMoves DEF Moves
<1>5. z = FinalizeCompleted(f) BY <1>1, <1>3 DEF Apply
<1>6. /\ IsReplayer(z) /\ Bounded(z)
      /\ IsSeq(z.durable)
      /\ TimesGrow(f, z)
      /\ \A t : Timed(f, t) => Timed(z, t + Openers(z.durable))
  BY <1>4, <1>5, FinalizeFacts
<1>7. ASSUME NEW t, Timed(r, t) PROVE Timed(z, t + Openers(z.durable))
  <2>1. Timed(s, t) BY <1>2, <1>7 DEF Stamps
  <2>2. Timed(f, t) BY <1>2, <1>4, <2>1, MovesTimed
  <2> QED BY <1>6, <2>2
<1>8. TimesGrow(r, z)
  <2>1. TimesGrow(r, s) /\ f.times = s.times BY <1>2, <1>4 DEF Stamps, Moves
  <2>2. Len(r.times) \in Nat /\ Len(s.times) \in Nat /\ Len(z.times) \in Nat
    BY <1>2, <1>6 DEF IsReplayer, IsSeq
  <2>3. \A i \in 1..Len(r.times) : i \in 1..Len(s.times) BY <2>1, <2>2 DEF TimesGrow
  <2> QED BY <1>6, <2>1, <2>2, <2>3 DEF TimesGrow
<1> QED BY <1>6, <1>7, <1>8

-----------------------------------------------------------------------------
(* The accumulator.                                                        *)

AccFields == {"r", "log", "boundary", "emitted", "out", "tokens", "turns", "inbox", "seen", "due"}

RecordFields == {"turns", "inbox", "times", "tokens", "resume", "checkpoint"}

\* Totals: a time for each turn.
IsMeta(mm) ==
    /\ mm = [turns |-> mm.turns, times |-> mm.times, inbox |-> mm.inbox, tokens |-> mm.tokens]
    /\ mm.turns \in Nat /\ IsSeq(mm.times) /\ Len(mm.times) = mm.turns /\ mm.tokens \in Nat

IsRecord(rec) ==
    /\ DOMAIN rec = RecordFields
    /\ rec.turns \in Nat /\ IsSeq(rec.times) /\ Len(rec.times) = rec.turns /\ rec.tokens \in Nat
    /\ \A c \in rec.checkpoint : IsMeta(c)
    /\ rec.resume.id # Nil => rec.resume.id \in Nat \ {0} /\ rec.resume.from \in Nat

IsStream(recs) == IsSeq(recs) /\ \A i \in 1..Len(recs) : IsRecord(recs[i])

IsAcc(a) ==
    /\ DOMAIN a = AccFields
    /\ IsReplayer(a.r) /\ Bounded(a.r) /\ Timed(a.r, a.turns)
    /\ IsSeq(a.log) /\ IsStream(a.out)
    /\ IsSeq(a.boundary)
    /\ \A i \in 1..Len(a.boundary) : a.boundary[i].offset \in Nat /\ a.boundary[i].tokens \in Nat
    /\ a.tokens \in Nat /\ a.emitted \in Nat

LEMMA HeadIs ==
    ASSUME NEW s, IsSeq(s), s # <<>>
    PROVE  1 \in 1..Len(s) /\ Head(s) = s[1]
<1>1. Len(s) \in Nat /\ Len(s) # 0 BY LenZero DEF IsSeq
<1>2. s \in Seq({s[i] : i \in 1..Len(s)}) BY SeqTyped
<1> QED BY <1>1, <1>2

LEMMA StreamAppend ==
    ASSUME NEW s, NEW rec, IsStream(s), IsRecord(rec)
    PROVE  IsStream(Append(s, rec))
<1>1. IsSeq(s) /\ Len(s) \in Nat BY DEF IsStream, IsSeq
<1>2. /\ IsSeq(Append(s, rec)) /\ Len(Append(s, rec)) = Len(s) + 1
      /\ \A i \in 1..Len(s) : Append(s, rec)[i] = s[i]
      /\ Append(s, rec)[Len(s) + 1] = rec
  BY <1>1, SeqAppend
<1>3. \A i \in 1..(Len(s) + 1) : i \in 1..Len(s) \/ i = Len(s) + 1 BY <1>1
<1> QED BY <1>2, <1>3 DEF IsStream

LEMMA StreamConcat ==
    ASSUME NEW s, NEW t, IsStream(s), IsStream(t)
    PROVE  IsStream(s \o t)
<1>1. IsSeq(s) /\ Len(s) \in Nat /\ IsSeq(t) /\ Len(t) \in Nat BY DEF IsStream, IsSeq
<1>2. PICK u : u = s \o t OBVIOUS
<1>3. /\ IsSeq(u) /\ Len(u) = Len(s) + Len(t)
      /\ \A i \in 1..Len(s) : u[i] = s[i]
      /\ \A i \in 1..Len(t) : u[Len(s) + i] = t[i]
  BY <1>1, <1>2, SeqConcat
<1>4. ASSUME NEW i \in 1..Len(u) PROVE IsRecord(u[i])
  <2>1. CASE i \in 1..Len(s) BY <1>3, <2>1 DEF IsStream
  <2>2. CASE i \notin 1..Len(s)
    <3>1. i - Len(s) \in 1..Len(t) /\ Len(s) + (i - Len(s)) = i BY <1>1, <1>3, <2>2
    <3>2. u[i] = t[i - Len(s)] BY <1>3, <3>1
    <3> QED BY <3>1, <3>2 DEF IsStream
  <2> QED BY <2>1, <2>2
<1> QED BY <1>2, <1>3, <1>4 DEF IsStream

LEMMA StreamPrefix ==
    ASSUME NEW s, IsStream(s), NEW k \in 0..Len(s)
    PROVE  IsStream(SubSeq(s, 1, k)) /\ Len(SubSeq(s, 1, k)) = k
<1>1. Len(s) \in Nat /\ k \in Nat BY DEF IsStream, IsSeq
<1>2. /\ IsSeq(SubSeq(s, 1, k)) /\ Len(SubSeq(s, 1, k)) = k
      /\ \A j \in 1..k : SubSeq(s, 1, k)[j] = s[j]
  BY <1>1, SubFirst
<1>3. \A j \in 1..k : j \in 1..Len(s) BY <1>1
<1> QED BY <1>2, <1>3 DEF IsStream

PutStep(par, a, b) == Put(a, b)
Q == INSTANCE FoldFacts WITH op <- PutStep

\* Storing blocks only extends the log and counts the turns rendered.
Stores(a, z, n) ==
    /\ DOMAIN z = AccFields
    /\ z.r = a.r /\ z.boundary = a.boundary /\ z.emitted = a.emitted /\ z.out = a.out
    /\ z.tokens = a.tokens /\ z.turns = a.turns /\ z.inbox = a.inbox /\ z.due = a.due
    /\ IsSeq(z.log) /\ Len(z.log) = Len(a.log) + n
    /\ \A i \in 1..Len(a.log) : z.log[i] = a.log[i]

LEMMA PutFacts ==
    ASSUME NEW a, NEW b, DOMAIN a = AccFields, IsSeq(a.log)
    PROVE  /\ Stores(a, Put(a, b), 1)
           /\ Put(a, b).log[Len(a.log) + 1].block = b
<1>1. PICK z, time : /\ z = Put(a, b)
                     /\ time = IF OpensTurn(b) /\ a.seen < Len(a.r.times)
                               THEN a.r.times[a.seen + 1] ELSE 0
  OBVIOUS
<1>2. PICK item : item = [block |-> b, time |-> time] OBVIOUS
<1>3. z = [a EXCEPT !.log = Append(@, item), !.seen = IF OpensTurn(b) THEN @ + 1 ELSE @]
  BY <1>1, <1>2 DEF Put
<1>4. /\ DOMAIN z = AccFields /\ z.log = Append(a.log, item)
      /\ z.r = a.r /\ z.boundary = a.boundary /\ z.emitted = a.emitted /\ z.out = a.out
      /\ z.tokens = a.tokens /\ z.turns = a.turns /\ z.inbox = a.inbox /\ z.due = a.due
  BY <1>3 DEF AccFields
<1>5. /\ IsSeq(z.log) /\ Len(z.log) = Len(a.log) + 1
      /\ \A i \in 1..Len(a.log) : z.log[i] = a.log[i]
      /\ z.log[Len(a.log) + 1] = item
  BY <1>4, SeqAppend
<1>6. item.block = b BY <1>2
<1> QED BY <1>1, <1>4, <1>5, <1>6 DEF Stores

LEMMA PutAllFacts ==
    ASSUME NEW a, NEW blocks, DOMAIN a = AccFields, IsSeq(a.log), IsSeq(blocks)
    PROVE  /\ Stores(a, FoldLeft(Put, a, blocks), Len(blocks))
           /\ \A j \in 1..Len(blocks) :
                 FoldLeft(Put, a, blocks).log[Len(a.log) + j].block = blocks[j]
<1>1. FoldLeft(Put, a, blocks) = Q!Fold(0, a, blocks)
  BY Zenon DEF Q!Fold, FoldLeft, Q!MapThenFoldSet, MapThenFoldSet,
               Q!Max, Max, PutStep
<1>2. PICK n \in Nat : n = Len(blocks) /\ DOMAIN blocks = 1..n BY SeqTyped DEF IsSeq
<1>3. PICK g : Q!Course(g, 0, a, blocks, n) /\ Q!Fold(0, a, blocks) = g[n]
  BY <1>2, Q!FoldCourse
<1>4. g[0] = a /\ \A i \in 1..n : g[i] = Put(g[i - 1], blocks[i])
  BY <1>3 DEF Q!Course, PutStep
<1>5. PICK l \in Nat : l = Len(a.log) BY DEF IsSeq
<1> DEFINE S == {i \in Nat : i <= n => /\ Stores(a, g[i], i)
                                       /\ \A j \in 1..i : g[i].log[l + j].block = blocks[j]}
<1>6. 0 \in S
  <2>1. Stores(a, a, 0) BY <1>5 DEF Stores
  <2> QED BY <1>4, <2>1
<1>7. ASSUME NEW i \in Nat, i \in S PROVE i + 1 \in S
  <2> SUFFICES ASSUME i + 1 <= n
               PROVE  /\ Stores(a, g[i + 1], i + 1)
                      /\ \A j \in 1..(i + 1) : g[i + 1].log[l + j].block = blocks[j]
    OBVIOUS
  <2>1. i + 1 \in 1..n /\ (i + 1) - 1 = i OBVIOUS
  <2>2. PICK x, b, z : x = g[i] /\ b = blocks[i + 1] /\ z = g[i + 1] OBVIOUS
  <2>3. z = Put(x, b) BY <1>4, <2>1, <2>2
  <2>4. Stores(a, x, i) /\ \A j \in 1..i : x.log[l + j].block = blocks[j] BY <1>7, <2>2
  <2>5. DOMAIN x = AccFields /\ IsSeq(x.log) /\ Len(x.log) = l + i BY <1>5, <2>4 DEF Stores
  <2>6. Stores(x, z, 1) /\ z.log[(l + i) + 1].block = b BY <2>3, <2>5, PutFacts
  <2>7. Stores(a, z, i + 1)
    <3>1. \A j \in 1..l : j \in 1..(l + i) OBVIOUS
    <3>2. IsSeq(z.log) /\ Len(z.log) = Len(a.log) + (i + 1)
      <4>1. IsSeq(z.log) /\ Len(z.log) = Len(x.log) + 1 BY <2>6 DEF Stores
      <4>2. Len(x.log) = l + i BY <2>5
      <4>3. (l + i) + 1 = l + (i + 1) OBVIOUS
      <4> QED BY <1>5, <4>1, <4>2, <4>3
    <3>3. \A j \in 1..Len(a.log) : z.log[j] = a.log[j]
      <4>1. \A j \in 1..(l + i) : z.log[j] = x.log[j] BY <2>5, <2>6 DEF Stores
      <4>2. \A j \in 1..l : x.log[j] = a.log[j] BY <1>5, <2>4 DEF Stores
      <4> QED BY <1>5, <3>1, <4>1, <4>2
    <3> QED BY <2>4, <2>6, <3>2, <3>3 DEF Stores
  <2>8. \A j \in 1..(i + 1) : z.log[l + j].block = blocks[j]
    <3>1. \A j \in 1..i : l + j \in 1..(l + i) OBVIOUS
    <3>2. \A j \in 1..i : z.log[l + j].block = blocks[j]
      BY <2>4, <2>5, <2>6, <3>1 DEF Stores
    <3>3. z.log[l + (i + 1)].block = blocks[i + 1] BY <2>2, <2>6
    <3>4. \A j \in 1..(i + 1) : j \in 1..i \/ j = i + 1 OBVIOUS
    <3> QED BY <3>2, <3>3, <3>4
  <2> QED BY <2>2, <2>7, <2>8
<1> HIDE DEF S
<1>8. Nat \subseteq S BY <1>6, <1>7, Q!SetInduction
<1> QED BY <1>1, <1>2, <1>3, <1>5, <1>8 DEF S

PruneStep(par, kept, e) == IF e.logical >= par THEN Append(kept, e) ELSE kept
K == INSTANCE FoldFacts WITH op <- PruneStep

Pruned(boundary, base) ==
    FoldLeft(LAMBDA kept, e : IF e.logical >= base THEN Append(kept, e) ELSE kept, <<>>, boundary)

Sorted(s) == \A i, j \in 1..Len(s) : i <= j => s[i].tokens <= s[j].tokens

\* What is left of the boundaries is some of them, in their order.
LEMMA PrunedFacts ==
    ASSUME NEW boundary, NEW base, IsSeq(boundary),
           \A i \in 1..Len(boundary) : boundary[i].tokens \in Nat
    PROVE  /\ IsSeq(Pruned(boundary, base))
           /\ \A j \in 1..Len(Pruned(boundary, base)) :
                 \E i \in 1..Len(boundary) : Pruned(boundary, base)[j] = boundary[i]
           /\ Sorted(boundary) => Sorted(Pruned(boundary, base))
<1>1. Pruned(boundary, base) = K!Fold(base, <<>>, boundary)
  BY Zenon DEF K!Fold, FoldLeft, K!MapThenFoldSet, MapThenFoldSet,
               K!Max, Max, PruneStep, Pruned
<1>2. PICK n \in Nat : n = Len(boundary) /\ DOMAIN boundary = 1..n BY SeqTyped DEF IsSeq
<1>3. PICK g : K!Course(g, base, <<>>, boundary, n) /\ K!Fold(base, <<>>, boundary) = g[n]
  BY <1>2, K!FoldCourse
<1>4. g[0] = <<>> /\ \A i \in 1..n : \/ g[i] = Append(g[i - 1], boundary[i])
                                     \/ g[i] = g[i - 1]
  BY <1>3 DEF K!Course, PruneStep
<1> DEFINE S == {i \in Nat : i <= n =>
                   /\ IsSeq(g[i])
                   /\ \A j \in 1..Len(g[i]) : \E l \in 1..i : g[i][j] = boundary[l]
                   /\ Sorted(boundary) => Sorted(g[i])}
<1>5. 0 \in S
  <2>1. IsSeq(g[0]) /\ 1..Len(g[0]) = {} BY <1>4, EmptyIsSeq
  <2> QED BY <2>1 DEF Sorted
<1>6. ASSUME NEW i \in Nat, i \in S PROVE i + 1 \in S
  <2> SUFFICES ASSUME i + 1 <= n
               PROVE  /\ IsSeq(g[i + 1])
                      /\ \A j \in 1..Len(g[i + 1]) : \E l \in 1..(i + 1) : g[i + 1][j] = boundary[l]
                      /\ Sorted(boundary) => Sorted(g[i + 1])
    OBVIOUS
  <2>1. i + 1 \in 1..n /\ (i + 1) - 1 = i OBVIOUS
  <2>2. PICK x, b, z : x = g[i] /\ b = boundary[i + 1] /\ z = g[i + 1] OBVIOUS
  <2>3. z = Append(x, b) \/ z = x BY <1>4, <2>1, <2>2
  <2>4. /\ IsSeq(x) /\ \A j \in 1..Len(x) : \E l \in 1..i : x[j] = boundary[l]
        /\ Sorted(boundary) => Sorted(x)
    BY <1>6, <2>2
  <2>5. CASE z = x
    <3>1. \A j \in 1..Len(z) : \E l \in 1..(i + 1) : z[j] = boundary[l]
      <4>1. \A l \in 1..i : l \in 1..(i + 1) OBVIOUS
      <4> QED BY <2>4, <2>5, <4>1
    <3> QED BY <2>2, <2>4, <2>5, <3>1
  <2>6. CASE z = Append(x, b)
    <3>1. /\ IsSeq(z) /\ Len(z) = Len(x) + 1
          /\ \A j \in 1..Len(x) : z[j] = x[j]
          /\ z[Len(x) + 1] = b
      BY <2>4, <2>6, SeqAppend
    <3>2. Len(x) \in Nat BY <2>4 DEF IsSeq
    <3>3. \A j \in 1..Len(z) : j \in 1..Len(x) \/ j = Len(x) + 1 BY <3>1, <3>2
    <3>4. \A l \in 1..i : l \in 1..(i + 1) OBVIOUS
    <3>5. \A j \in 1..Len(z) : \E l \in 1..(i + 1) : z[j] = boundary[l]
      BY <2>2, <2>4, <3>1, <3>3, <3>4
    <3>6. ASSUME Sorted(boundary) PROVE Sorted(z)
      <4>1. ASSUME NEW j \in 1..Len(z), NEW l \in 1..Len(z), j <= l
            PROVE  z[j].tokens <= z[l].tokens
        <5>1. CASE l \in 1..Len(x)
          <6>1. j \in 1..Len(x) BY <3>2, <4>1, <5>1
          <6>2. x[j].tokens <= x[l].tokens BY <2>4, <3>6, <4>1, <5>1, <6>1 DEF Sorted
          <6> QED BY <3>1, <5>1, <6>1, <6>2
        <5>2. CASE l = Len(x) + 1 /\ j \in 1..Len(x)
          <6>1. PICK k \in 1..i : x[j] = boundary[k] BY <2>4, <5>2
          <6>2. k \in 1..Len(boundary) /\ i + 1 \in 1..Len(boundary) /\ k <= i + 1
            BY <1>2, <2>1
          <6>3. boundary[k].tokens <= boundary[i + 1].tokens BY <3>6, <6>2 DEF Sorted
          <6> QED BY <2>2, <3>1, <5>2, <6>1, <6>3
        <5>3. CASE l = Len(x) + 1 /\ j = Len(x) + 1
          <6>1. b.tokens \in Nat BY <1>2, <2>1, <2>2
          <6> QED BY <3>1, <5>3, <6>1
        <5> QED BY <3>3, <5>1, <5>2, <5>3
      <4> QED BY <4>1 DEF Sorted
    <3> QED BY <2>2, <3>1, <3>5, <3>6
  <2> QED BY <2>3, <2>5, <2>6
<1> HIDE DEF S
<1>7. Nat \subseteq S BY <1>5, <1>6, K!SetInduction
<1> QED BY <1>1, <1>2, <1>3, <1>7 DEF S

IsBoundary(boundary) ==
    /\ IsSeq(boundary)
    /\ \A i \in 1..Len(boundary) : boundary[i].offset \in Nat /\ boundary[i].tokens \in Nat

\* The counters' baseline and what the new record says of it and of the totals.
Baseline(a, z, full) ==
    \/ z.emitted = a.emitted /\ full.tokens = 0 /\ full.checkpoint = {}
    \/ /\ z.boundary # <<>> /\ z.emitted = z.boundary[1].tokens
       /\ full.tokens = Since(a.emitted, z.emitted)
       /\ full.checkpoint \in {{}, {Materialized(z)}}

LEMMA TotalsAreMeta ==
    ASSUME NEW a, a.turns \in Nat, a.emitted \in Nat
    PROVE  IsMeta(Materialized(a))
<1>1. PICK times : times = SubSeq(a.r.times, 1, a.turns) OBVIOUS
<1>2. IsSeq(times) /\ Len(times) = a.turns BY <1>1, SubFirst
<1>3. PICK mm : mm = Materialized(a) OBVIOUS
<1>4. /\ mm = [turns |-> mm.turns, times |-> mm.times, inbox |-> mm.inbox, tokens |-> mm.tokens]
      /\ mm.turns = a.turns /\ mm.times = times /\ mm.tokens = a.emitted
  BY <1>1, <1>3 DEF Materialized
<1> QED BY <1>2, <1>3, <1>4 DEF IsMeta

\* What authoring a record does: the stream gets one record, the totals stay.
Authored(a, rec, z, full) ==
    /\ DOMAIN z = AccFields
    /\ z.r = a.r /\ z.log = a.log /\ z.boundary = a.boundary /\ z.tokens = a.tokens
    /\ z.turns = a.turns /\ z.inbox = a.inbox /\ z.emitted \in Nat
    /\ z.out = Append(a.out, full) /\ IsRecord(full)
    /\ full.turns = rec.turns /\ full.inbox = rec.inbox /\ full.times = rec.times
    /\ Baseline(a, z, full)

LEMMA AuthorFacts ==
    ASSUME NEW a, NEW rec, NEW z, z = AuthorResume(a, rec),
           DOMAIN a = AccFields, IsStream(a.out), IsBoundary(a.boundary), a.emitted \in Nat,
           a.turns \in Nat,
           IsSeq(a.log), Len(a.log) > 0,
           IsRecord(rec), rec.tokens = 0, rec.checkpoint = {}
    PROVE  \E full : Authored(a, rec, z, full)
<1>1. CASE a.boundary = <<>> \/ Head(a.boundary).logical # a.r.base
  <2>1. z = [a EXCEPT !.out = Append(@, rec)] BY <1>1 DEF AuthorResume
  <2>2. /\ DOMAIN z = AccFields
        /\ z.r = a.r /\ z.log = a.log /\ z.boundary = a.boundary /\ z.tokens = a.tokens
        /\ z.turns = a.turns /\ z.inbox = a.inbox /\ z.emitted = a.emitted
        /\ z.out = Append(a.out, rec)
    BY <2>1 DEF AccFields
  <2>3. Baseline(a, z, rec) BY <2>2 DEF Baseline
  <2>4. Authored(a, rec, z, rec) BY <2>2, <2>3 DEF Authored
  <2> QED BY <2>4
<1>2. CASE ~(a.boundary = <<>> \/ Head(a.boundary).logical # a.r.base)
  <2>1. PICK e : e = Head(a.boundary) OBVIOUS
  <2>2. PICK b : b = [a EXCEPT !.emitted = e.tokens, !.due = (a.due + 1) % CheckpointEvery] OBVIOUS
  <2>3. PICK full : full = [rec EXCEPT !.tokens = Since(a.emitted, e.tokens),
                                 !.resume = [id |-> Len(a.log), from |-> e.offset,
                                             pending |-> e.pending],
                                 !.checkpoint = IF b.due = 0 THEN {Materialized(b)} ELSE {}]
    OBVIOUS
  <2>4. z = [b EXCEPT !.out = Append(@, full)]
    BY <1>2, <2>1, <2>2, <2>3 DEF AuthorResume
  <2>5. /\ DOMAIN b = AccFields
        /\ b.r = a.r /\ b.log = a.log /\ b.boundary = a.boundary /\ b.tokens = a.tokens
        /\ b.turns = a.turns /\ b.inbox = a.inbox /\ b.emitted = e.tokens /\ b.out = a.out
    BY <2>2 DEF AccFields
  <2>6. /\ DOMAIN z = AccFields
        /\ z.r = a.r /\ z.log = a.log /\ z.boundary = a.boundary /\ z.tokens = a.tokens
        /\ z.turns = a.turns /\ z.inbox = a.inbox /\ z.emitted = e.tokens
        /\ z.out = Append(a.out, full)
    BY <2>4, <2>5 DEF AccFields
  <2>7. Materialized(b) = Materialized(z) BY <2>5, <2>6 DEF Materialized
  <2>8. a.boundary # <<>> /\ e = a.boundary[1] /\ e.tokens \in Nat /\ e.offset \in Nat
    BY <1>2, <2>1, HeadIs DEF IsBoundary
  <2>9. /\ DOMAIN full = RecordFields
        /\ full.turns = rec.turns /\ full.inbox = rec.inbox /\ full.times = rec.times
        /\ full.tokens = Since(a.emitted, e.tokens)
        /\ full.resume.id = Len(a.log) /\ full.resume.from = e.offset
        /\ full.checkpoint \in {{}, {Materialized(b)}}
    BY <2>3 DEF IsRecord, RecordFields
  <2>10. Since(a.emitted, e.tokens) \in Nat BY <2>8 DEF Since
  <2>11. Len(a.log) \in Nat \ {0} BY DEF IsSeq
  <2>14. IsMeta(Materialized(b)) BY <2>5, <2>8, TotalsAreMeta
  <2>12. IsRecord(full) BY <2>8, <2>9, <2>10, <2>11, <2>14 DEF IsRecord
  <2>13. Baseline(a, z, full) BY <2>6, <2>7, <2>8, <2>9 DEF Baseline
  <2>15. Authored(a, rec, z, full) BY <2>6, <2>8, <2>9, <2>12, <2>13 DEF Authored
  <2> QED BY <2>15
<1> QED BY <1>1, <1>2

\* What a commit does: the turns that left are counted, and one record says so.
Committed(a, z, full) ==
    /\ DOMAIN z = AccFields
    /\ z.r = a.r /\ z.tokens = a.tokens /\ z.emitted \in Nat
    /\ z.turns = a.turns + Openers(a.r.durable)
    /\ z.inbox = a.inbox \cup InboxOf(a.r.durable)
    /\ IsSeq(z.log) /\ Len(z.log) = Len(a.log) + Len(a.r.durable)
    /\ \A i \in 1..Len(a.log) : z.log[i] = a.log[i]
    /\ \A j \in 1..Len(a.r.durable) : z.log[Len(a.log) + j].block = a.r.durable[j]
    /\ IsBoundary(z.boundary)
    /\ \A j \in 1..Len(z.boundary) : \E i \in 1..Len(a.boundary) : z.boundary[j] = a.boundary[i]
    /\ Sorted(a.boundary) => Sorted(z.boundary)
    /\ z.out = Append(a.out, full) /\ IsRecord(full)
    /\ full.turns = Openers(a.r.durable) /\ full.inbox = InboxOf(a.r.durable)
    /\ full.times = SubSeq(a.r.times, a.turns + 1, z.turns)
    /\ Baseline(a, z, full)

LEMMA CommitFacts ==
    ASSUME NEW a, NEW z, z = Commit(a),
           DOMAIN a = AccFields, IsStream(a.out), IsBoundary(a.boundary), a.emitted \in Nat,
           IsSeq(a.log), a.turns \in Nat, IsSeq(a.r.durable), a.r.durable # <<>>
    PROVE  \E full : Committed(a, z, full)
<1>1. PICK drained : drained = a.r.durable OBVIOUS
<1>2. PICK turns : turns = a.turns + Openers(drained) OBVIOUS
<1>3. PICK stored : stored = FoldLeft(Put, a, drained) OBVIOUS
<1>4. PICK rec : rec = [turns |-> Openers(drained), inbox |-> InboxOf(drained),
                        times |-> SubSeq(a.r.times, a.turns + 1, turns),
                        tokens |-> 0, resume |-> NoResume, checkpoint |-> {}]
  OBVIOUS
<1>5. PICK pruned : pruned = Pruned(a.boundary, a.r.base) OBVIOUS
<1>6. PICK c : c = [stored EXCEPT !.turns = turns, !.inbox = @ \cup InboxOf(drained),
                                  !.boundary = pruned]
  OBVIOUS
<1>7. z = AuthorResume(c, rec)
  BY <1>1, <1>2, <1>3, <1>4, <1>5, <1>6 DEF Commit, Pruned
<1>8. IsSeq(drained) /\ Len(drained) \in Nat /\ Len(drained) # 0 BY <1>1, LenZero DEF IsSeq
<1>9. /\ Stores(a, stored, Len(drained))
      /\ \A j \in 1..Len(drained) : stored.log[Len(a.log) + j].block = drained[j]
  BY <1>3, <1>8, PutAllFacts
<1>10. /\ DOMAIN c = AccFields /\ c.r = a.r /\ c.log = stored.log /\ c.boundary = pruned
       /\ c.tokens = a.tokens /\ c.turns = turns /\ c.inbox = a.inbox \cup InboxOf(drained)
       /\ c.emitted = a.emitted /\ c.out = a.out
  BY <1>6, <1>9 DEF Stores, AccFields
<1>11. Openers(drained) \in Nat /\ turns \in Nat BY <1>2, <1>8, HeadsFinite
<1>12. IsRecord(rec) /\ rec.tokens = 0 /\ rec.checkpoint = {}
  <2>1. /\ IsSeq(SubSeq(a.r.times, a.turns + 1, turns))
        /\ Len(SubSeq(a.r.times, a.turns + 1, turns)) = Openers(drained)
    <3>1. PICK t, times : t = a.turns /\ t \in Nat /\ times = a.r.times OBVIOUS
    <3>2. turns \in Nat /\ t <= turns /\ turns - t = Openers(drained) BY <1>2, <1>11, <3>1
    <3>3. IsSeq(SubSeq(times, t + 1, turns)) /\ Len(SubSeq(times, t + 1, turns)) = turns - t
      BY <3>1, <3>2, SubRest
    <3> QED BY <3>1, <3>2, <3>3
  <2>2. /\ DOMAIN rec = RecordFields /\ rec.turns = Openers(drained) /\ rec.tokens = 0
        /\ rec.times = SubSeq(a.r.times, a.turns + 1, turns) /\ rec.checkpoint = {}
        /\ rec.resume.id = Nil
    BY <1>4 DEF RecordFields, NoResume
  <2> QED BY <1>11, <2>1, <2>2 DEF IsRecord
<1>13. rec.turns = Openers(drained) /\ rec.inbox = InboxOf(drained)
       /\ rec.times = SubSeq(a.r.times, a.turns + 1, turns)
  BY <1>4
<1>14. /\ IsSeq(pruned)
       /\ \A j \in 1..Len(pruned) : \E i \in 1..Len(a.boundary) : pruned[j] = a.boundary[i]
       /\ Sorted(a.boundary) => Sorted(pruned)
  BY <1>5, PrunedFacts DEF IsBoundary
<1>15. IsBoundary(pruned) BY <1>14 DEF IsBoundary
<1>16. /\ IsSeq(c.log) /\ Len(c.log) = Len(a.log) + Len(drained)
       /\ \A i \in 1..Len(a.log) : c.log[i] = a.log[i]
       /\ \A j \in 1..Len(drained) : c.log[Len(a.log) + j].block = drained[j]
  BY <1>9, <1>10 DEF Stores
<1>17. Len(c.log) > 0 BY <1>8, <1>16 DEF IsSeq
<1>18. PICK full :
         /\ DOMAIN z = AccFields
         /\ z.r = c.r /\ z.log = c.log /\ z.boundary = c.boundary /\ z.tokens = c.tokens
         /\ z.turns = c.turns /\ z.inbox = c.inbox /\ z.emitted \in Nat
         /\ z.out = Append(c.out, full) /\ IsRecord(full)
         /\ full.turns = rec.turns /\ full.inbox = rec.inbox /\ full.times = rec.times
         /\ Baseline(c, z, full)
  <2>1. IsStream(c.out) /\ IsBoundary(c.boundary) /\ c.emitted \in Nat /\ c.turns \in Nat
    BY <1>10, <1>11, <1>15
  <2>2. DOMAIN c = AccFields /\ IsSeq(c.log) /\ Len(c.log) > 0 BY <1>10, <1>16, <1>17
  <2>3. PICK full : Authored(c, rec, z, full) BY <1>7, <1>12, <2>1, <2>2, AuthorFacts
  <2> QED BY <2>3 DEF Authored
<1>19. Baseline(a, z, full) BY <1>10, <1>18 DEF Baseline
<1>20. /\ DOMAIN z = AccFields
       /\ z.r = a.r /\ z.tokens = a.tokens /\ z.emitted \in Nat
       /\ z.turns = a.turns + Openers(drained)
       /\ z.inbox = a.inbox \cup InboxOf(drained)
       /\ z.out = Append(a.out, full) /\ IsRecord(full)
       /\ full.turns = Openers(drained) /\ full.inbox = InboxOf(drained)
       /\ full.times = SubSeq(a.r.times, a.turns + 1, z.turns)
  BY <1>2, <1>10, <1>13, <1>18
<1>21. z.log = c.log /\ z.boundary = pruned BY <1>10, <1>18
<1>22. Committed(a, z, full)
  BY <1>1, <1>14, <1>15, <1>16, <1>19, <1>20, <1>21 DEF Committed
<1> QED BY <1>22

-----------------------------------------------------------------------------
(* The state folded from the records.                                      *)

RecordStep(par, mm, rec) == PushRecord(mm, rec)
R == INSTANCE FoldFacts WITH op <- RecordStep

LEMMA MetaNone ==
    ASSUME NEW recs
    PROVE  MetaAt(recs, 0) = NoMeta
<1>1. MetaAt(recs, 0) = FoldLeft(PushRecord, NoMeta, <<>>) BY SubNone DEF MetaAt
<1>2. FoldLeft(PushRecord, NoMeta, <<>>) = R!Fold(0, NoMeta, <<>>)
  BY Zenon DEF R!Fold, FoldLeft, R!MapThenFoldSet, MapThenFoldSet,
               R!Max, Max, RecordStep
<1>3. 0 \in Nat /\ DOMAIN <<>> = 1..0 BY EmptyIsSeq, SeqTyped
<1>4. PICK g : R!Course(g, 0, NoMeta, <<>>, 0) /\ R!Fold(0, NoMeta, <<>>) = g[0]
  BY <1>3, R!FoldCourse
<1> QED BY <1>1, <1>2, <1>4 DEF R!Course

LEMMA MetaStep ==
    ASSUME NEW recs, NEW k \in Nat
    PROVE  MetaAt(recs, k + 1) = PushRecord(MetaAt(recs, k), recs[k + 1])
<1>1. PICK s, t : s = SubSeq(recs, 1, k + 1) /\ t = SubSeq(recs, 1, k) OBVIOUS
<1>2. k + 1 \in Nat OBVIOUS
<1>3. IsSeq(s) /\ Len(s) = k + 1 /\ \A j \in 1..(k + 1) : s[j] = recs[j]
  BY <1>1, <1>2, SubFirst
<1>4. IsSeq(t) /\ Len(t) = k /\ \A j \in 1..k : t[j] = recs[j] BY <1>1, SubFirst
<1>5. DOMAIN s = 1..(k + 1) /\ DOMAIN t = 1..k BY <1>3, <1>4, SeqTyped
<1>6. MetaAt(recs, k + 1) = R!Fold(0, NoMeta, s)
  <2>1. FoldLeft(PushRecord, NoMeta, s) = R!Fold(0, NoMeta, s)
    BY Zenon DEF R!Fold, FoldLeft, R!MapThenFoldSet, MapThenFoldSet,
                 R!Max, Max, RecordStep
  <2> QED BY <1>1, <2>1 DEF MetaAt
<1>7. MetaAt(recs, k) = R!Fold(0, NoMeta, t)
  <2>1. FoldLeft(PushRecord, NoMeta, t) = R!Fold(0, NoMeta, t)
    BY Zenon DEF R!Fold, FoldLeft, R!MapThenFoldSet, MapThenFoldSet,
                 R!Max, Max, RecordStep
  <2> QED BY <1>1, <2>1 DEF MetaAt
<1>8. PICK n \in Nat : n = k + 1 OBVIOUS
<1>9. PICK g : R!Course(g, 0, NoMeta, s, n) /\ R!Fold(0, NoMeta, s) = g[n]
  BY <1>5, <1>8, R!FoldCourse
<1>10. g[0] = NoMeta /\ \A i \in 1..n : g[i] = PushRecord(g[i - 1], s[i])
  BY <1>9 DEF R!Course, RecordStep
<1>11. R!Course(g, 0, NoMeta, t, k)
  <2>1. \A i \in 1..k : i \in 1..n /\ s[i] = t[i] BY <1>3, <1>4, <1>8
  <2>2. \A i \in 1..k : g[i] = PushRecord(g[i - 1], t[i]) BY <1>10, <2>1
  <2> QED BY <1>10, <2>2 DEF R!Course, RecordStep
<1>12. R!Fold(0, NoMeta, t) = g[k] BY <1>5, <1>11, R!FoldIs
<1>13. n \in 1..n /\ n - 1 = k /\ s[n] = recs[k + 1] BY <1>3, <1>8
<1>14. g[n] = PushRecord(g[k], recs[k + 1]) BY <1>10, <1>13
<1> QED BY <1>6, <1>7, <1>9, <1>12, <1>14

LEMMA MetaPrefix ==
    ASSUME NEW s, NEW t, NEW k \in Nat, \A j \in 1..k : s[j] = t[j]
    PROVE  MetaAt(s, k) = MetaAt(t, k)
<1>1. PICK x, y : x = SubSeq(s, 1, k) /\ y = SubSeq(t, 1, k) OBVIOUS
<1>2. IsSeq(x) /\ Len(x) = k /\ \A j \in 1..k : x[j] = s[j] BY <1>1, SubFirst
<1>3. IsSeq(y) /\ Len(y) = k /\ \A j \in 1..k : y[j] = t[j] BY <1>1, SubFirst
<1>4. x = y BY <1>2, <1>3, SameSeq
<1> QED BY <1>1, <1>4 DEF MetaAt

\* Each checkpoint says what the records up to it add up to.
Agrees(recs) ==
    \A k \in 1..Len(recs) :
        \/ recs[k].checkpoint = {}
        \/ recs[k].checkpoint = {PushDelta(MetaAt(recs, k - 1), recs[k])}

\* The baseline of the counters never runs ahead of a boundary.
Ordered(a) ==
    /\ a.emitted <= a.tokens /\ Sorted(a.boundary)
    /\ \A i \in 1..Len(a.boundary) :
          a.emitted <= a.boundary[i].tokens /\ a.boundary[i].tokens <= a.tokens

\* The records, written and not yet written, add up to the maintained totals.
Ties(a, m) ==
    /\ Agrees(m \o a.out)
    /\ MetaAt(m \o a.out, Len(m \o a.out)) = Materialized(a)
    /\ Ordered(a)

LEMMA PushAgreed ==
    ASSUME NEW mm, NEW rec,
           rec.checkpoint = {} \/ rec.checkpoint = {PushDelta(mm, rec)}
    PROVE  PushRecord(mm, rec) = PushDelta(mm, rec)
<1>1. CASE rec.checkpoint = {} BY <1>1 DEF PushRecord
<1>2. CASE rec.checkpoint = {PushDelta(mm, rec)}
  <2>1. PICK d : d = PushDelta(mm, rec) OBVIOUS
  <2>2. (CHOOSE c \in {d} : TRUE) = d OBVIOUS
  <2> QED BY <1>2, <2>1, <2>2 DEF PushRecord
<1> QED BY <1>1, <1>2

\* A stream that agrees, and one record more.
LEMMA AgreesNext ==
    ASSUME NEW recs, NEW rec, IsSeq(recs), Agrees(recs), NEW d,
           d = PushDelta(MetaAt(recs, Len(recs)), rec),
           rec.checkpoint = {} \/ rec.checkpoint = {d}
    PROVE  Agrees(Append(recs, rec)) /\ MetaAt(Append(recs, rec), Len(Append(recs, rec))) = d
<1>1. PICK n \in Nat : n = Len(recs) BY DEF IsSeq
<1>2. PICK u : u = Append(recs, rec) OBVIOUS
<1>3. /\ IsSeq(u) /\ Len(u) = n + 1 /\ u[n + 1] = rec
      /\ \A i \in 1..n : u[i] = recs[i]
  BY <1>1, <1>2, SeqAppend
<1>4. ASSUME NEW k \in 0..n PROVE MetaAt(u, k) = MetaAt(recs, k)
  <2>1. k \in Nat /\ \A j \in 1..k : u[j] = recs[j] BY <1>3
  <2> QED BY <2>1, MetaPrefix
<1>5. MetaAt(u, n) = MetaAt(recs, n) BY <1>4
<1>6. ASSUME NEW k \in 1..Len(u)
      PROVE  \/ u[k].checkpoint = {}
             \/ u[k].checkpoint = {PushDelta(MetaAt(u, k - 1), u[k])}
  <2>1. CASE k \in 1..n
    <3>1. k - 1 \in 0..n /\ u[k] = recs[k] BY <1>3, <2>1
    <3>2. MetaAt(u, k - 1) = MetaAt(recs, k - 1) BY <1>4, <3>1
    <3> QED BY <1>1, <2>1, <3>1, <3>2 DEF Agrees
  <2>2. CASE k = n + 1
    <3>1. k - 1 = n BY <2>2
    <3> QED BY <1>1, <1>3, <1>5, <2>2, <3>1
  <2>3. k \in 1..n \/ k = n + 1 BY <1>3
  <2> QED BY <2>1, <2>2, <2>3
<1>7. Agrees(u) BY <1>6 DEF Agrees
<1>8. MetaAt(u, n + 1) = PushRecord(MetaAt(recs, n), rec) BY <1>3, <1>5, MetaStep
<1>9. PushRecord(MetaAt(recs, n), rec) = d BY <1>1, PushAgreed
<1> QED BY <1>2, <1>3, <1>7, <1>8, <1>9

LEMMA ConcatAppend ==
    ASSUME NEW s, NEW t, NEW x, IsSeq(s), IsSeq(t)
    PROVE  s \o Append(t, x) = Append(s \o t, x)
<1>1. PICK m \in Nat, n \in Nat : m = Len(s) /\ n = Len(t) BY DEF IsSeq
<1>2. PICK tx, st : tx = Append(t, x) /\ st = s \o t OBVIOUS
<1>3. /\ IsSeq(tx) /\ Len(tx) = n + 1 /\ tx[n + 1] = x
      /\ \A i \in 1..n : tx[i] = t[i]
  BY <1>1, <1>2, SeqAppend
<1>4. /\ IsSeq(st) /\ Len(st) = m + n
      /\ \A i \in 1..m : st[i] = s[i]
      /\ \A i \in 1..n : st[m + i] = t[i]
  BY <1>1, <1>2, SeqConcat
<1>5. PICK u, v : u = s \o tx /\ v = Append(st, x) OBVIOUS
<1>6. /\ IsSeq(u) /\ Len(u) = m + (n + 1)
      /\ \A i \in 1..m : u[i] = s[i]
      /\ \A i \in 1..(n + 1) : u[m + i] = tx[i]
  <2>1. IsSeq(s) /\ IsSeq(tx) BY <1>3
  <2>2. /\ IsSeq(u) /\ Len(u) = Len(s) + Len(tx)
        /\ \A i \in 1..Len(s) : u[i] = s[i]
        /\ \A i \in 1..Len(tx) : u[Len(s) + i] = tx[i]
    BY <1>5, <2>1, SeqConcat
  <2>3. Len(tx) = n + 1 BY <1>3
  <2> QED BY <1>1, <2>2, <2>3
<1>7. /\ IsSeq(v) /\ Len(v) = (m + n) + 1 /\ v[(m + n) + 1] = x
      /\ \A i \in 1..(m + n) : v[i] = st[i]
  BY <1>4, <1>5, SeqAppend
<1>8. Len(u) = Len(v) BY <1>6, <1>7
<1>9. ASSUME NEW i \in 1..Len(u) PROVE u[i] = v[i]
  <2>1. CASE i \in 1..m
    <3>1. i \in 1..(m + n) BY <2>1
    <3> QED BY <1>4, <1>6, <1>7, <2>1, <3>1
  <2>2. CASE i \in (m + 1)..(m + n)
    <3>1. i - m \in 1..n /\ i - m \in 1..(n + 1) /\ m + (i - m) = i /\ i \in 1..(m + n) BY <2>2
    <3>2. u[m + (i - m)] = tx[i - m] BY <1>6, <3>1
    <3>3. st[m + (i - m)] = t[i - m] BY <1>4, <3>1
    <3>4. tx[i - m] = t[i - m] BY <1>3, <3>1
    <3>5. v[i] = st[i] BY <1>7, <3>1
    <3> QED BY <3>1, <3>2, <3>3, <3>4, <3>5
  <2>3. CASE i = m + (n + 1)
    <3>1. n + 1 \in 1..(n + 1) /\ m + (n + 1) = (m + n) + 1 OBVIOUS
    <3>2. u[m + (n + 1)] = tx[n + 1] BY <1>6, <3>1
    <3> QED BY <1>3, <1>7, <2>3, <3>1, <3>2
  <2>4. i \in 1..m \/ i \in (m + 1)..(m + n) \/ i = m + (n + 1) BY <1>6
  <2> QED BY <2>1, <2>2, <2>3, <2>4
<1>10. u = v BY <1>6, <1>7, <1>8, <1>9, SameSeq
<1> QED BY <1>2, <1>5, <1>10

-----------------------------------------------------------------------------
(* One line.                                                               *)

\* The times of the turns committed so far do not change.
LEMMA TimesKept ==
    ASSUME NEW q, NEW r, NEW t, Timed(q, t), IsReplayer(q), IsReplayer(r), TimesGrow(q, r)
    PROVE  SubSeq(r.times, 1, t) = SubSeq(q.times, 1, t)
<1>1. t \in Nat /\ t <= Len(q.times)
  <2>1. PICK k \in Nat : k = q.stamped - q.base BY DEF IsReplayer, IsSeq
  <2>2. IsSeq(SubSeq(q.out, 1, k)) BY SubFirst
  <2>3. Openers(SubSeq(q.out, 1, k)) \in Nat BY <2>2, HeadsFinite
  <2>4. Len(q.times) \in Nat BY DEF IsReplayer, IsSeq
  <2> QED BY <2>1, <2>3, <2>4 DEF Timed
<1>2. PICK x, y : x = SubSeq(r.times, 1, t) /\ y = SubSeq(q.times, 1, t) OBVIOUS
<1>3. IsSeq(x) /\ Len(x) = t /\ \A j \in 1..t : x[j] = r.times[j] BY <1>1, <1>2, SubFirst
<1>4. IsSeq(y) /\ Len(y) = t /\ \A j \in 1..t : y[j] = q.times[j] BY <1>1, <1>2, SubFirst
<1>5. Len(q.times) \in Nat BY DEF IsReplayer, IsSeq
<1>6. \A j \in 1..t : j \in 1..Len(q.times) BY <1>1, <1>5
<1>7. \A j \in 1..t : x[j] = y[j] BY <1>3, <1>4, <1>6 DEF TimesGrow
<1>8. x = y BY <1>3, <1>4, <1>7, SameSeq
<1> QED BY <1>2, <1>8

\* The state before a line may become a boundary.
LEMMA BoundaryNext ==
    ASSUME NEW a, NEW here, NEW boundary, IsBoundary(a.boundary),
           here.offset \in Nat, here.tokens = a.tokens, a.tokens \in Nat, a.emitted \in Nat,
           boundary = a.boundary \/ boundary = Append(a.boundary, here)
    PROVE  /\ IsBoundary(boundary)
           /\ Ordered(a) =>
                /\ Sorted(boundary)
                /\ \A i \in 1..Len(boundary) : a.emitted <= boundary[i].tokens
                                              /\ boundary[i].tokens <= a.tokens
<1>1. CASE boundary = a.boundary BY <1>1 DEF Ordered
<1>2. CASE boundary = Append(a.boundary, here)
  <2>1. PICK s : s = a.boundary OBVIOUS
  <2>2. IsSeq(s) /\ Len(s) \in Nat BY <2>1 DEF IsBoundary, IsSeq
  <2>3. /\ IsSeq(boundary) /\ Len(boundary) = Len(s) + 1 /\ boundary[Len(s) + 1] = here
        /\ \A i \in 1..Len(s) : boundary[i] = s[i]
    BY <1>2, <2>1, <2>2, SeqAppend
  <2>4. \A i \in 1..Len(boundary) : i \in 1..Len(s) \/ i = Len(s) + 1 BY <2>2, <2>3
  <2>5. IsBoundary(boundary)
    <3>1. \A i \in 1..Len(boundary) : boundary[i].offset \in Nat /\ boundary[i].tokens \in Nat
      BY <2>1, <2>3, <2>4 DEF IsBoundary
    <3> QED BY <2>3, <3>1 DEF IsBoundary
  <2>6. ASSUME Ordered(a)
        PROVE  /\ Sorted(boundary)
               /\ \A i \in 1..Len(boundary) : a.emitted <= boundary[i].tokens
                                             /\ boundary[i].tokens <= a.tokens
    <3>1. ASSUME NEW i \in 1..Len(boundary)
          PROVE  a.emitted <= boundary[i].tokens /\ boundary[i].tokens <= a.tokens
      <4>1. CASE i \in 1..Len(s) BY <2>1, <2>3, <2>6, <4>1 DEF Ordered
      <4>2. CASE i = Len(s) + 1 BY <2>3, <2>6, <4>2 DEF Ordered
      <4> QED BY <2>4, <4>1, <4>2
    <3>2. ASSUME NEW i \in 1..Len(boundary), NEW j \in 1..Len(boundary), i <= j
          PROVE  boundary[i].tokens <= boundary[j].tokens
      <4>1. CASE j \in 1..Len(s)
        <5>1. i \in 1..Len(s) BY <2>2, <3>2, <4>1
        <5>2. s[i].tokens <= s[j].tokens BY <2>1, <2>6, <3>2, <4>1, <5>1 DEF Ordered, Sorted
        <5> QED BY <2>3, <4>1, <5>1, <5>2
      <4>2. CASE j = Len(s) + 1
        <5>1. boundary[j].tokens = a.tokens BY <2>3, <4>2
        <5> QED BY <3>1, <5>1
      <4> QED BY <2>4, <4>1, <4>2
    <3> QED BY <3>1, <3>2 DEF Sorted
  <2> QED BY <2>5, <2>6
<1> QED BY <1>1, <1>2

\* A commit keeps the records and the totals together.
LEMMA CommitTies ==
    ASSUME NEW a, NEW z, NEW full, NEW m, Committed(a, z, full),
           IsStream(m), IsStream(a.out), IsSeq(a.r.durable), a.turns \in Nat, a.emitted \in Nat,
           Ties(a, m)
    PROVE  Ties(z, m)
<1>1. PICK recs : recs = m \o a.out OBVIOUS
<1>2. IsSeq(m) /\ IsSeq(a.out) BY DEF IsStream
<1>3. IsSeq(recs) BY <1>1, <1>2, SeqConcat
<1>4. m \o z.out = Append(recs, full)
  <2>1. PICK o : o = a.out OBVIOUS
  <2>2. m \o Append(o, full) = Append(m \o o, full) BY <1>2, <2>1, ConcatAppend
  <2> QED BY <1>1, <2>1, <2>2 DEF Committed
<1>5. Agrees(recs) /\ MetaAt(recs, Len(recs)) = Materialized(a) /\ Ordered(a) BY <1>1 DEF Ties
<1>6. PICK o \in Nat : o = Openers(a.r.durable) BY HeadsFinite
<1>7. IsBoundary(z.boundary) /\ Sorted(z.boundary) BY <1>5 DEF Committed, Ordered
<1>8. \A j \in 1..Len(z.boundary) : a.emitted <= z.boundary[j].tokens
                                  /\ z.boundary[j].tokens <= a.tokens
  <2>1. ASSUME NEW j \in 1..Len(z.boundary)
        PROVE  a.emitted <= z.boundary[j].tokens /\ z.boundary[j].tokens <= a.tokens
    <3>1. PICK i \in 1..Len(a.boundary) : z.boundary[j] = a.boundary[i] BY DEF Committed
    <3> QED BY <1>5, <3>1 DEF Ordered
  <2> QED BY <2>1
<1>9. /\ z.emitted = a.emitted + full.tokens
      /\ z.emitted <= z.tokens
      /\ \A j \in 1..Len(z.boundary) : z.emitted <= z.boundary[j].tokens
      /\ full.checkpoint \in {{}, {Materialized(z)}}
  <2>1. CASE z.emitted = a.emitted /\ full.tokens = 0 /\ full.checkpoint = {}
    <3>1. z.emitted = a.emitted + full.tokens BY <2>1
    <3>2. z.emitted <= z.tokens BY <1>5, <2>1 DEF Committed, Ordered
    <3> QED BY <1>8, <2>1, <3>1, <3>2
  <2>2. CASE /\ z.boundary # <<>> /\ z.emitted = z.boundary[1].tokens
             /\ full.tokens = Since(a.emitted, z.emitted)
             /\ full.checkpoint \in {{}, {Materialized(z)}}
    <3>1. 1 \in 1..Len(z.boundary) BY <1>7, <2>2, HeadIs DEF IsBoundary
    <3>2. a.emitted <= z.emitted /\ z.emitted <= z.tokens BY <1>8, <2>2, <3>1 DEF Committed
    <3>3. z.emitted \in Nat BY DEF Committed
    <3>4. z.emitted = a.emitted + full.tokens BY <2>2, <3>2, <3>3 DEF Since
    <3>5. \A j \in 1..Len(z.boundary) : z.emitted <= z.boundary[j].tokens
      BY <1>7, <2>2, <3>1 DEF Sorted
    <3> QED BY <2>2, <3>2, <3>4, <3>5
  <2> QED BY <2>1, <2>2 DEF Committed, Baseline
<1>10. Ordered(z)
  BY <1>7, <1>8, <1>9 DEF Ordered, Committed
<1>11. PushDelta(Materialized(a), full) = Materialized(z)
  <2>0. PICK k \in Nat, t \in Nat : k = a.turns + o /\ t = a.turns /\ t <= k
    <3>1. a.turns + o \in Nat /\ a.turns <= a.turns + o BY <1>6
    <3> QED BY <3>1
  <2>1. PICK x, y, w, times : /\ x = SubSeq(times, 1, t) /\ y = SubSeq(times, t + 1, k)
                              /\ w = SubSeq(times, 1, k) /\ times = a.r.times
    OBVIOUS
  <2>2. w = x \o y
    <3>1. SubSeq(times, 1, k) = SubSeq(times, 1, t) \o SubSeq(times, t + 1, k)
      BY <2>0, SubFromOne
    <3> QED BY <2>1, <3>1
  <2>3. /\ z.turns = k /\ z.r = a.r /\ z.inbox = a.inbox \cup full.inbox
        /\ full.turns = o /\ full.times = y
    BY <1>6, <2>0, <2>1 DEF Committed
  <2>4. Materialized(z) = [turns |-> k, times |-> w, inbox |-> a.inbox \cup full.inbox,
                           tokens |-> z.emitted]
    BY <2>0, <2>1, <2>3 DEF Materialized
  <2>5. PushDelta(Materialized(a), full) =
          [turns |-> a.turns + o, times |-> x \o y, inbox |-> a.inbox \cup full.inbox,
           tokens |-> a.emitted + full.tokens]
    BY <2>0, <2>1, <2>3 DEF Materialized, PushDelta
  <2> QED BY <1>9, <2>0, <2>2, <2>4, <2>5
<1>12. PICK d : d = Materialized(z) OBVIOUS
<1>13. Agrees(Append(recs, full)) /\ MetaAt(Append(recs, full), Len(Append(recs, full))) = d
  <2>1. d = PushDelta(MetaAt(recs, Len(recs)), full) BY <1>5, <1>11, <1>12
  <2>2. full.checkpoint = {} \/ full.checkpoint = {d} BY <1>9, <1>12
  <2> QED BY <1>3, <1>5, <2>1, <2>2, AgreesNext
<1> QED BY <1>4, <1>10, <1>12, <1>13 DEF Ties

LEMMA AdvanceFacts ==
    ASSUME NEW a, IsAcc(a), NEW n \in Nat \ {0}, NEW line \in Lines,
           NEW z, z = AdvanceAt(a, n, line)
    PROVE  IsAcc(z) /\ \A m : IsStream(m) /\ Ties(a, m) => Ties(z, m)
<1>1. PICK r : r = Apply(a.r, n, line) OBVIOUS
<1>2. /\ IsReplayer(r) /\ Bounded(r) /\ IsSeq(r.durable) /\ TimesGrow(a.r, r)
      /\ Timed(r, a.turns + Openers(r.durable))
  BY <1>1, ApplyFacts DEF IsAcc
<1>3. PICK here : here = [logical |-> RawLen(a.r), offset |-> n - 1, tokens |-> a.tokens,
                          pending |-> a.r.pending]
  OBVIOUS
<1>4. PICK b : b = [a EXCEPT !.r = r,
                             !.boundary = IF Candidate(a.r, r, line) THEN Append(@, here) ELSE @]
  OBVIOUS
<1>5. PICK c : c = IF r.durable = <<>> THEN b ELSE Commit(b) OBVIOUS
<1>6. z = [c EXCEPT !.tokens = @ + 1] BY <1>1, <1>3, <1>4, <1>5 DEF AdvanceAt
<1>7. /\ DOMAIN b = AccFields /\ b.r = r
      /\ b.boundary = a.boundary \/ b.boundary = Append(a.boundary, here)
      /\ b.log = a.log /\ b.emitted = a.emitted /\ b.out = a.out /\ b.tokens = a.tokens
      /\ b.turns = a.turns /\ b.inbox = a.inbox
  BY <1>4 DEF IsAcc, AccFields
<1>8. here.offset \in Nat /\ here.tokens = a.tokens BY <1>3
<1>9. /\ IsBoundary(b.boundary)
      /\ Ordered(a) => Ordered(b)
  <2>1. IsBoundary(a.boundary) /\ a.tokens \in Nat /\ a.emitted \in Nat
    BY DEF IsAcc, IsBoundary
  <2>2. /\ IsBoundary(b.boundary)
        /\ Ordered(a) =>
             /\ Sorted(b.boundary)
             /\ \A i \in 1..Len(b.boundary) : a.emitted <= b.boundary[i].tokens
                                             /\ b.boundary[i].tokens <= a.tokens
    BY <1>7, <1>8, <2>1, BoundaryNext
  <2> QED BY <1>7, <2>2 DEF Ordered
<1>10. Materialized(b) = Materialized(a)
  <2>1. SubSeq(r.times, 1, a.turns) = SubSeq(a.r.times, 1, a.turns)
    BY <1>2, TimesKept DEF IsAcc
  <2> QED BY <1>7, <2>1 DEF Materialized
<1>11. \A m : Ties(a, m) => Ties(b, m) BY <1>7, <1>9, <1>10 DEF Ties
<1>12. a.turns \in Nat BY DEF IsAcc, Timed
<1>13. /\ DOMAIN c = AccFields /\ c.r = r /\ Timed(r, c.turns) /\ IsSeq(c.log)
       /\ IsStream(c.out) /\ IsBoundary(c.boundary) /\ c.tokens = a.tokens /\ c.emitted \in Nat
       /\ \A m : IsStream(m) /\ Ties(b, m) => Ties(c, m)
  <2>1. CASE r.durable = <<>>
    <3>1. c = b BY <1>5, <2>1
    <3>2. Openers(r.durable) = 0 BY <2>1, OpenersEmpty
    <3>3. Timed(r, c.turns) BY <1>2, <1>7, <1>12, <3>1, <3>2
    <3> QED BY <1>7, <1>9, <3>1, <3>3 DEF IsAcc
  <2>2. CASE r.durable # <<>>
    <3>1. c = Commit(b) BY <1>5, <2>2
    <3>2. /\ IsStream(b.out) /\ b.emitted \in Nat /\ IsSeq(b.log) /\ b.turns \in Nat
          /\ IsSeq(b.r.durable) /\ b.r.durable # <<>>
      BY <1>2, <1>7, <1>12, <2>2 DEF IsAcc
    <3>3. PICK full : Committed(b, c, full) BY <1>7, <1>9, <3>1, <3>2, CommitFacts
    <3>4. /\ DOMAIN c = AccFields /\ c.r = r /\ c.turns = a.turns + Openers(r.durable)
          /\ IsSeq(c.log) /\ IsBoundary(c.boundary) /\ c.tokens = a.tokens /\ c.emitted \in Nat
          /\ c.out = Append(b.out, full) /\ IsRecord(full)
      BY <1>7, <3>3 DEF Committed
    <3>5. IsStream(c.out) BY <3>2, <3>4, StreamAppend
    <3>6. \A m : IsStream(m) /\ Ties(b, m) => Ties(c, m) BY <3>2, <3>3, CommitTies
    <3> QED BY <1>2, <3>4, <3>5, <3>6
  <2> QED BY <2>1, <2>2
<1>14. /\ DOMAIN z = AccFields /\ z.r = c.r /\ z.turns = c.turns /\ z.log = c.log
       /\ z.out = c.out /\ z.boundary = c.boundary /\ z.emitted = c.emitted /\ z.inbox = c.inbox
       /\ z.tokens = a.tokens + 1
  BY <1>6, <1>13 DEF AccFields
<1>15. a.tokens \in Nat BY DEF IsAcc
<1>16. IsAcc(z) BY <1>2, <1>13, <1>14, <1>15 DEF IsAcc, IsBoundary
<1>17. \A m : Ties(c, m) => Ties(z, m)
  <2>1. Materialized(z) = Materialized(c) BY <1>14 DEF Materialized
  <2>2. Ordered(c) => Ordered(z)
    <3>1. \A i \in 1..Len(c.boundary) : c.boundary[i].tokens \in Nat BY <1>13 DEF IsBoundary
    <3> QED BY <1>13, <1>14, <1>15, <3>1 DEF Ordered
  <2> QED BY <1>14, <2>1, <2>2 DEF Ties
<1> QED BY <1>11, <1>13, <1>16, <1>17

LineStep(lines, a, n) == AdvanceAt(a, n, lines[n])
A == INSTANCE FoldFacts WITH op <- LineStep

\* Folding what a tick has to read.
LEMMA AdvanceOverFacts ==
    ASSUME NEW a, IsAcc(a), NEW lines \in Seq(Lines), NEW from \in 0..Len(lines),
           NEW z, z = AdvanceOver(a, lines, from)
    PROVE  IsAcc(z) /\ \A m : IsStream(m) /\ Ties(a, m) => Ties(z, m)
<1> DEFINE at == [i \in 1..(Len(lines) - from) |-> from + i]
<1>1. z = A!Fold(lines, a, at)
  BY Zenon DEF A!Fold, FoldLeft, A!MapThenFoldSet, MapThenFoldSet,
               A!Max, Max, AdvanceOver, LineStep
<1>2. PICK n \in Nat : n = Len(lines) - from
  <2>1. Len(lines) \in Nat OBVIOUS
  <2>2. Len(lines) - from \in Nat BY <2>1
  <2> HIDE DEF at
  <2> QED BY <2>2
<1>3. DOMAIN at = 1..n /\ \A i \in 1..n : at[i] = from + i BY <1>2
<1> HIDE DEF at
<1>4. PICK g : A!Course(g, lines, a, at, n) /\ A!Fold(lines, a, at) = g[n]
  BY <1>3, A!FoldCourse
<1>5. g[0] = a /\ \A i \in 1..n : g[i] = AdvanceAt(g[i - 1], from + i, lines[from + i])
  BY <1>3, <1>4 DEF A!Course, LineStep
<1> DEFINE S == {i \in Nat : i <= n =>
                   IsAcc(g[i]) /\ \A m : IsStream(m) /\ Ties(a, m) => Ties(g[i], m)}
<1>6. 0 \in S BY <1>5
<1>7. ASSUME NEW i \in Nat, i \in S PROVE i + 1 \in S
  <2> SUFFICES ASSUME i + 1 <= n
               PROVE  /\ IsAcc(g[i + 1])
                      /\ \A m : IsStream(m) /\ Ties(a, m) => Ties(g[i + 1], m)
    OBVIOUS
  <2>1. i + 1 \in 1..n /\ (i + 1) - 1 = i OBVIOUS
  <2>2. PICK x, y, k, line : /\ x = g[i] /\ y = g[i + 1]
                             /\ k = from + (i + 1) /\ line = lines[from + (i + 1)]
    OBVIOUS
  <2>3. y = AdvanceAt(x, k, line) BY <1>5, <2>1, <2>2
  <2>4. k \in Nat \ {0} /\ line \in Lines BY <1>2, <2>1, <2>2
  <2>5. IsAcc(x) /\ \A m : IsStream(m) /\ Ties(a, m) => Ties(x, m) BY <1>7, <2>2
  <2>6. IsAcc(y) /\ \A m : IsStream(m) /\ Ties(x, m) => Ties(y, m)
    BY <2>3, <2>4, <2>5, AdvanceFacts
  <2> QED BY <2>2, <2>5, <2>6
<1> HIDE DEF S
<1>8. Nat \subseteq S BY <1>6, <1>7, A!SetInduction
<1> QED BY <1>1, <1>4, <1>8 DEF S

-----------------------------------------------------------------------------
(* The entry.                                                              *)

\* The records on disk tie up with a session that has nothing left to write.
Tied == Agrees(meta) /\ (up => MetaAt(meta, Len(meta)) = Materialized(acc) /\ Ordered(acc))

EntryInv ==
    /\ source \in Seq(Lines) /\ Len(source) + shrinks <= MaxLines
    /\ up \in BOOLEAN /\ exact \in BOOLEAN /\ dirty \in BOOLEAN
    /\ crashes \in Nat /\ shrinks \in Nat
    /\ cursor \in 0..MaxLines
    /\ IsAcc(acc) /\ acc.out = <<>>
    /\ IsSeq(content) /\ (up => acc.log = content)
    /\ IsStream(meta)
    /\ ~dirty => Tied

LEMMA NewReplayerFacts == IsReplayer(NewReplayer) /\ Bounded(NewReplayer) /\ Timed(NewReplayer, 0)
<1>1. PICK r : r = NewReplayer OBVIOUS
<1>2. /\ DOMAIN r = Fields /\ r.out = <<>> /\ r.base = 0 /\ r.queue = <<>> /\ r.suppress = {}
      /\ r.times = <<>> /\ r.stamped = 0 /\ r.gone = {}
  BY <1>1 DEF NewReplayer, Fields
<1>3. Len(r.out) = 0 /\ IsSeq(r.out) /\ IsSeq(r.queue) /\ Len(r.queue) = 0 /\ IsSeq(r.times)
      /\ Len(r.times) = 0
  BY <1>2, EmptyIsSeq
<1>4. IsReplayer(r) BY <1>2, <1>3 DEF IsReplayer
<1>5. Bounded(r)
  <2>1. Openers(r.out) = 0 BY <1>2, OpenersEmpty
  <2> QED BY <2>1, PinAssumption DEF Bounded
<1>6. Timed(r, 0)
  <2>1. Openers(SubSeq(r.out, 1, r.stamped - r.base)) = 0
    <3>1. r.stamped - r.base = 0 BY <1>2
    <3> QED BY <3>1, SubNone, OpenersEmpty
  <2> QED BY <1>3, <2>1 DEF Timed
<1> QED BY <1>1, <1>4, <1>5, <1>6

LEMMA EmptyStream == IsStream(<<>>)
BY EmptyIsSeq DEF IsStream

LEMMA NewAccFacts ==
    /\ IsAcc(NewAccumulator) /\ NewAccumulator.out = <<>> /\ NewAccumulator.log = <<>>
    /\ Ordered(NewAccumulator) /\ Materialized(NewAccumulator) = NoMeta
<1>1. PICK a : a = NewAccumulator OBVIOUS
<1>2. /\ DOMAIN a = AccFields /\ a.r = NewReplayer /\ a.log = <<>> /\ a.boundary = <<>>
      /\ a.emitted = 0 /\ a.out = <<>> /\ a.tokens = 0 /\ a.turns = 0 /\ a.inbox = {}
  BY <1>1 DEF NewAccumulator, AccFields
<1>3. IsSeq(a.log) /\ IsSeq(a.boundary) /\ Len(a.boundary) = 0 BY <1>2, EmptyIsSeq
<1>4. IsAcc(a) BY <1>2, <1>3, NewReplayerFacts, EmptyStream DEF IsAcc
<1>5. Ordered(a) BY <1>2, <1>3 DEF Ordered, Sorted
<1>6. Materialized(a) = NoMeta
  <2>1. SubSeq(a.r.times, 1, a.turns) = <<>> BY <1>2, SubNone
  <2> QED BY <1>2, <2>1 DEF Materialized, NoMeta
<1> QED BY <1>1, <1>2, <1>4, <1>5, <1>6

LEMMA ResetFacts ==
    ASSUME NEW a, IsAcc(a)
    PROVE  IsAcc(Reset(a)) /\ Reset(a).out = a.out
<1>1. PICK z : z = Reset(a) OBVIOUS
<1>2. /\ DOMAIN z = AccFields /\ z.r = NewReplayer /\ z.log = <<>> /\ z.boundary = a.boundary
      /\ z.emitted = a.emitted /\ z.out = a.out /\ z.tokens = 0 /\ z.turns = 0
  BY <1>1 DEF Reset, NewAccumulator, AccFields
<1>3. IsAcc(z) BY <1>2, NewReplayerFacts, EmptyIsSeq DEF IsAcc
<1> QED BY <1>1, <1>2, <1>3

\* A stream cut short.
LEMMA AgreesPrefix ==
    ASSUME NEW recs, IsStream(recs), Agrees(recs), NEW k \in 0..Len(recs)
    PROVE  Agrees(SubSeq(recs, 1, k)) /\ MetaAt(SubSeq(recs, 1, k), k) = MetaAt(recs, k)
<1>1. PICK s : s = SubSeq(recs, 1, k) OBVIOUS
<1>2. k \in Nat /\ Len(recs) \in Nat BY DEF IsStream, IsSeq
<1>3. IsSeq(s) /\ Len(s) = k /\ \A j \in 1..k : s[j] = recs[j] BY <1>1, <1>2, SubFirst
<1>4. ASSUME NEW j \in 0..k PROVE MetaAt(s, j) = MetaAt(recs, j)
  <2>1. j \in Nat /\ \A i \in 1..j : s[i] = recs[i] BY <1>2, <1>3
  <2> QED BY <2>1, MetaPrefix
<1>5. ASSUME NEW j \in 1..Len(s)
      PROVE  \/ s[j].checkpoint = {}
             \/ s[j].checkpoint = {PushDelta(MetaAt(s, j - 1), s[j])}
  <2>1. j \in 1..Len(recs) /\ j - 1 \in 0..k /\ s[j] = recs[j] BY <1>2, <1>3
  <2>2. MetaAt(s, j - 1) = MetaAt(recs, j - 1) BY <1>4, <2>1
  <2> QED BY <2>1, <2>2 DEF Agrees
<1>6. MetaAt(s, k) = MetaAt(recs, k) BY <1>2, <1>4
<1> QED BY <1>1, <1>5, <1>6 DEF Agrees

\* The totals of the first k records are totals.
LEMMA MetaIsMeta ==
    ASSUME NEW recs, IsStream(recs), NEW k \in 0..Len(recs)
    PROVE  IsMeta(MetaAt(recs, k))
<1>1. PICK n \in Nat : n = Len(recs) BY DEF IsStream, IsSeq
<1> DEFINE S == {i \in Nat : i <= n => IsMeta(MetaAt(recs, i))}
<1>2. 0 \in S
  <2>1. IsMeta(NoMeta) BY EmptyIsSeq DEF NoMeta, IsMeta
  <2> QED BY <2>1, MetaNone
<1>3. ASSUME NEW i \in Nat, i \in S PROVE i + 1 \in S
  <2> SUFFICES ASSUME i + 1 <= n PROVE IsMeta(MetaAt(recs, i + 1)) OBVIOUS
  <2>1. PICK mm, rec : mm = MetaAt(recs, i) /\ rec = recs[i + 1] OBVIOUS
  <2>2. MetaAt(recs, i + 1) = PushRecord(mm, rec) BY <2>1, MetaStep
  <2>3. IsMeta(mm) /\ IsRecord(rec)
    <3>1. i + 1 \in 1..Len(recs) BY <1>1
    <3> QED BY <1>3, <2>1, <3>1 DEF IsStream
  <2>4. IsMeta(PushDelta(mm, rec))
    <3>1. PICK x, y : x = mm.times /\ y = rec.times OBVIOUS
    <3>2. IsSeq(x) /\ IsSeq(y) BY <2>3, <3>1 DEF IsMeta, IsRecord
    <3>3. IsSeq(x \o y) /\ Len(x \o y) = Len(x) + Len(y) BY <3>2, SeqConcat
    <3>4. PICK d : d = PushDelta(mm, rec) OBVIOUS
    <3>5. /\ d = [turns |-> d.turns, times |-> d.times, inbox |-> d.inbox, tokens |-> d.tokens]
          /\ d.turns = mm.turns + rec.turns
          /\ d.times = x \o y /\ d.tokens = mm.tokens + rec.tokens
      BY <3>1, <3>4 DEF PushDelta
    <3>6. mm.turns \in Nat /\ rec.turns \in Nat /\ mm.tokens \in Nat /\ rec.tokens \in Nat
          /\ Len(x) = mm.turns /\ Len(y) = rec.turns
      BY <2>3, <3>1 DEF IsMeta, IsRecord
    <3>7. d.turns \in Nat /\ d.tokens \in Nat /\ IsSeq(d.times) /\ Len(d.times) = d.turns
      BY <3>3, <3>5, <3>6
    <3>8. IsMeta(d) BY <3>5, <3>7 DEF IsMeta
    <3> QED BY <3>4, <3>8
  <2>5. rec.checkpoint # {} => IsMeta(CHOOSE c \in rec.checkpoint : TRUE) BY <2>3 DEF IsRecord
  <2> QED BY <2>2, <2>4, <2>5 DEF PushRecord
<1> HIDE DEF S
<1>4. Nat \subseteq S BY <1>2, <1>3, R!SetInduction
<1> QED BY <1>1, <1>4 DEF S

LEMMA RestoreFacts ==
    ASSUME NEW mm, NEW resume, NEW log, IsMeta(mm), IsSeq(log), NEW z, z = Restore(mm, resume, log)
    PROVE  /\ IsAcc(z) /\ z.out = <<>> /\ z.log = log
           /\ Ordered(z) /\ Materialized(z) = mm
<1>1. PICK r : r = [NewReplayer EXCEPT !.inbox = mm.inbox, !.times = mm.times,
                                       !.pending = resume.pending]
  OBVIOUS
<1>2. /\ DOMAIN z = AccFields /\ z.r = r /\ z.log = log /\ z.boundary = <<>>
      /\ z.emitted = mm.tokens /\ z.out = <<>> /\ z.tokens = mm.tokens /\ z.turns = mm.turns
      /\ z.inbox = mm.inbox
  BY <1>1 DEF Restore, NewAccumulator, AccFields
<1>3. /\ DOMAIN r = Fields /\ r.out = <<>> /\ r.base = 0 /\ r.queue = <<>> /\ r.suppress = {}
      /\ r.times = mm.times /\ r.stamped = 0 /\ r.gone = {}
  BY <1>1 DEF NewReplayer, Fields
<1>4. Len(r.out) = 0 /\ IsSeq(r.out) /\ IsSeq(r.queue) /\ Len(r.queue) = 0
  BY <1>3, EmptyIsSeq
<1>5. IsReplayer(r) BY <1>3, <1>4 DEF IsReplayer, IsMeta
<1>6. Bounded(r)
  <2>1. Openers(r.out) = 0 BY <1>3, OpenersEmpty
  <2> QED BY <2>1, PinAssumption DEF Bounded
<1>7. Timed(r, mm.turns)
  <2>1. Openers(SubSeq(r.out, 1, r.stamped - r.base)) = 0
    <3>1. r.stamped - r.base = 0 BY <1>3
    <3> QED BY <3>1, SubNone, OpenersEmpty
  <2> QED BY <1>3, <2>1 DEF Timed, IsMeta
<1>8. IsSeq(z.boundary) /\ Len(z.boundary) = 0 BY <1>2, EmptyIsSeq
<1>9. IsAcc(z) BY <1>2, <1>5, <1>6, <1>7, <1>8, EmptyStream DEF IsAcc, IsMeta
<1>10. Ordered(z) BY <1>2, <1>8 DEF Ordered, Sorted, IsMeta
<1>11. Materialized(z) = mm
  <2>1. PICK times : times = mm.times OBVIOUS
  <2>2. SubSeq(times, 1, Len(times)) = times BY <2>1, SubAll DEF IsMeta
  <2>3. mm = [turns |-> mm.turns, times |-> mm.times, inbox |-> mm.inbox, tokens |-> mm.tokens]
    BY DEF IsMeta
  <2> QED BY <1>2, <1>3, <2>1, <2>2, <2>3 DEF Materialized, IsMeta
<1> QED BY <1>2, <1>9, <1>10, <1>11

\* What recovery takes for vouched for is a prefix of the stream.
LEMMA CorroboratedIn ==
    ASSUME NEW recs, IsSeq(recs), NEW n
    PROVE  Corroborated(recs, n) \in 0..Len(recs)
<1>1. PICK len \in Nat : len = Len(recs) BY DEF IsSeq
<1> DEFINE I == {i \in 1..Len(recs) : recs[i].resume.id # Nil /\ recs[i].resume.id > n}
<1>2. I \in SUBSET Nat /\ I \subseteq 1..len BY <1>1
<1>3. Corroborated(recs, n) = IF (IF I # {} THEN Min(I) ELSE 0) = 0 THEN len
                             ELSE (IF I # {} THEN Min(I) ELSE 0) - 1
  BY <1>1 DEF Corroborated, SelectInSeq
<1> HIDE DEF I
<1>4. CASE I = {}
  <2>1. Corroborated(recs, n) = len BY <1>3, <1>4
  <2> QED BY <1>1, <2>1
<1>5. CASE I # {}
  <2>1. PICK m : m = Min(I) OBVIOUS
  <2>2. m \in I BY <1>2, <1>5, <2>1, MinIn
  <2>3. m \in 1..len BY <1>2, <2>2
  <2>4. Corroborated(recs, n) = m - 1 BY <1>3, <1>5, <2>1, <2>3
  <2> QED BY <1>1, <2>3, <2>4
<1> QED BY <1>4, <1>5

\* The record recovery resumes from is one of the stream, with a resume point.
LEMMA AlignIn ==
    ASSUME NEW recs, IsStream(recs), NEW n, Align(recs, n) # 0
    PROVE  /\ Align(recs, n) \in 1..Len(recs)
           /\ recs[Align(recs, n)].resume.id \in Nat \ {0}
           /\ recs[Align(recs, n)].resume.from \in Nat
<1>1. PICK c : c = Corroborated(recs, n) OBVIOUS
<1>2. Len(recs) \in Nat /\ c \in 0..Len(recs) BY <1>1, CorroboratedIn DEF IsStream, IsSeq
<1> DEFINE I == {i \in 1..c : recs[i].resume.id # Nil}
<1>3. Align(recs, n) = IF I # {} THEN Max(I) ELSE 0 BY <1>1 DEF Align, SelectLastInSubSeq
<1>4. I \in SUBSET (1..Len(recs)) /\ \A i \in I : recs[i].resume.id # Nil BY <1>2
<1> HIDE DEF I
<1>5. I # {} /\ Align(recs, n) = Max(I) BY <1>3
<1>6. Max(I) \in I BY <1>2, <1>4, <1>5, MaxIn
<1>7. PICK k : k = Align(recs, n) OBVIOUS
<1>8. k \in 1..Len(recs) /\ recs[k].resume.id # Nil BY <1>4, <1>5, <1>6, <1>7
<1>9. IsRecord(recs[k]) BY <1>8 DEF IsStream
<1>10. recs[k].resume.id \in Nat \ {0} /\ recs[k].resume.from \in Nat
  BY <1>8, <1>9 DEF IsRecord
<1> QED BY <1>7, <1>8, <1>10

\* Where every checkpoint says what the deltas before it add up to, none is refused.
LEMMA AgreesNoMismatch ==
    ASSUME NEW recs, IsStream(recs), Agrees(recs), NEW n
    PROVE  ~Mismatch(recs, n)
<1>1. Len(recs) \in Nat /\ Corroborated(recs, n) \in 0..Len(recs)
  BY CorroboratedIn DEF IsStream, IsSeq
<1> SUFFICES ASSUME NEW k \in 2..Corroborated(recs, n), recs[k].checkpoint # {},
                    PushDelta(MetaAt(recs, k - 1), recs[k]) \notin recs[k].checkpoint
             PROVE  FALSE
  BY DEF Mismatch
<1>2. k \in 1..Len(recs) BY <1>1
<1>3. recs[k].checkpoint = {PushDelta(MetaAt(recs, k - 1), recs[k])} BY <1>2 DEF Agrees
<1> QED BY <1>3

LEMMA InitEntry == Init => EntryInv
<1> SUFFICES ASSUME Init PROVE EntryInv OBVIOUS
<1>1. source \in Seq(Lines) /\ Len(source) = 0 BY DEF Init
<1>2. Agrees(meta) BY EmptyIsSeq DEF Init, Agrees
<1>3. IsAcc(acc) /\ acc.out = <<>> BY NewAccFacts DEF Init
<1>4. IsSeq(content) /\ IsStream(meta) BY EmptyIsSeq, EmptyStream DEF Init
<1>5. ~dirty => Tied BY <1>2 DEF Init, Tied
<1>6. /\ up = FALSE /\ exact = TRUE /\ dirty = FALSE
      /\ crashes \in Nat /\ shrinks = 0 /\ cursor \in 0..MaxLines
  BY EntryAssumption DEF Init
<1>7. Len(source) + shrinks <= MaxLines BY <1>1, <1>6, EntryAssumption
<1> QED BY <1>1, <1>3, <1>4, <1>5, <1>6, <1>7 DEF EntryInv

LEMMA WriteEntry ==
    ASSUME EntryInv, NEW line \in Lines, Write(line)
    PROVE  EntryInv'
<1>1. /\ source' = Append(source, line) /\ Len(source) + shrinks < MaxLines
      /\ up' = up /\ acc' = acc /\ cursor' = cursor /\ content' = content /\ meta' = meta
      /\ exact' = exact /\ dirty' = dirty /\ crashes' = crashes /\ shrinks' = shrinks
  BY DEF Write, memory, disk
<1>2. source' \in Seq(Lines) /\ Len(source') = Len(source) + 1 BY <1>1 DEF EntryInv
<1>3. Len(source') + shrinks' <= MaxLines
  BY <1>1, <1>2, EntryAssumption, LenProperties DEF EntryInv
<1>4. dirty' \/ Tied' BY <1>1 DEF EntryInv, Tied
<1> QED BY <1>1, <1>2, <1>3, <1>4 DEF EntryInv

LEMMA ShrinkEntry ==
    ASSUME EntryInv, NEW n \in 1..(Len(source) - 1), Shrink(n)
    PROVE  EntryInv'
<1>1. /\ source' = SubSeq(source, 1, n) /\ Len(source) + shrinks < MaxLines
      /\ shrinks' = shrinks + 1
      /\ up' = up /\ acc' = acc /\ cursor' = cursor /\ content' = content /\ meta' = meta
      /\ crashes' = crashes
      /\ exact' \in BOOLEAN /\ dirty' \in BOOLEAN /\ (dirty => dirty')
  BY DEF Shrink, memory, disk
<1>2. source \in Seq(Lines) /\ Len(source) \in Nat /\ shrinks \in Nat
  BY LenProperties DEF EntryInv
<1>3. source' \in Seq(Lines) /\ Len(source') = n
  <2>1. n \in Nat /\ n <= Len(source) BY <1>2
  <2>2. \A i \in 1..n : source[i] \in Lines BY <1>2, <2>1
  <2> QED BY <1>1, <2>1, <2>2, SubSeqProperties
<1>4. Len(source') + shrinks' <= MaxLines /\ shrinks' \in Nat
  BY <1>1, <1>2, <1>3, EntryAssumption
<1>5. dirty' \/ Tied' BY <1>1 DEF EntryInv, Tied
<1> QED BY <1>1, <1>3, <1>4, <1>5 DEF EntryInv

LEMMA TickEntry ==
    ASSUME EntryInv, Tick
    PROVE  EntryInv'
<1>2. PICK from : from = IF Len(source) < cursor THEN 0 ELSE cursor OBVIOUS
<1>3. PICK b : b = IF Len(source) < cursor THEN Reset(acc) ELSE acc OBVIOUS
<1>4. PICK a : a = AdvanceOver(b, source, from) OBVIOUS
<1>5. /\ up /\ acc' = [a EXCEPT !.out = <<>>] /\ content' = a.log /\ meta' = meta \o a.out
      /\ exact' \in BOOLEAN /\ dirty' = (dirty \/ Len(source) < cursor)
      /\ cursor' = Len(source) /\ source' = source /\ up' = up
      /\ crashes' = crashes /\ shrinks' = shrinks
  BY <1>2, <1>3, <1>4 DEF Tick
<1>6. source \in Seq(Lines) /\ Len(source) \in Nat /\ IsStream(meta) /\ shrinks \in Nat
  BY LenProperties DEF EntryInv
<1>7. from \in 0..Len(source)
  <2>1. cursor \in Nat BY EntryAssumption DEF EntryInv
  <2> QED BY <1>2, <1>6, <2>1
<1>8. IsAcc(b) BY <1>3, ResetFacts DEF EntryInv
<1>9. IsAcc(a) /\ \A m : IsStream(m) /\ Ties(b, m) => Ties(a, m)
  BY <1>4, <1>6, <1>7, <1>8, AdvanceOverFacts
<1>10. PICK z : z = [a EXCEPT !.out = <<>>] OBVIOUS
<1>11. /\ DOMAIN z = AccFields /\ z.out = <<>> /\ z.r = a.r /\ z.log = a.log
       /\ z.boundary = a.boundary /\ z.emitted = a.emitted /\ z.tokens = a.tokens
       /\ z.turns = a.turns /\ z.inbox = a.inbox
  BY <1>9, <1>10 DEF IsAcc, AccFields
<1>12. IsAcc(z) BY <1>9, <1>11, EmptyStream DEF IsAcc
<1>13. IsStream(meta') BY <1>5, <1>6, <1>9, StreamConcat DEF IsAcc
<1>14. IsSeq(content') /\ acc'.log = content' /\ acc'.out = <<>> /\ IsAcc(acc')
  BY <1>5, <1>9, <1>10, <1>11, <1>12 DEF IsAcc
<1>15. dirty' \/ Tied'
  <2> SUFFICES ASSUME ~dirty, ~(Len(source) < cursor) PROVE Tied' BY <1>5
  <2>1. Tied BY DEF EntryInv
  <2>2. b = acc /\ acc.out = <<>> BY <1>3 DEF EntryInv
  <2>3. meta \o acc.out = meta
    <3>1. PICK s : s = meta OBVIOUS
    <3>2. s \in Seq({s[i] : i \in 1..Len(s)}) BY <1>6, <3>1, SeqTyped DEF IsStream
    <3>3. s \o <<>> = s BY <3>2, ConcatEmptySeq
    <3> QED BY <2>2, <3>1, <3>3
  <2>4. Ties(acc, meta) BY <1>5, <2>1, <2>3 DEF Tied, Ties
  <2>5. Ties(a, meta) BY <1>6, <1>9, <2>2, <2>4
  <2>6. Agrees(meta') /\ MetaAt(meta', Len(meta')) = Materialized(a) /\ Ordered(a)
    BY <1>5, <2>5 DEF Ties
  <2>7. Materialized(z) = Materialized(a) BY <1>11 DEF Materialized
  <2>8. Ordered(z) BY <1>11, <2>6 DEF Ordered
  <2> QED BY <1>5, <1>10, <2>6, <2>7, <2>8 DEF Tied
<1>16. cursor' \in 0..MaxLines /\ Len(source') + shrinks' <= MaxLines
  BY <1>5, <1>6, EntryAssumption DEF EntryInv
<1> QED BY <1>5, <1>6, <1>13, <1>14, <1>15, <1>16 DEF EntryInv

LEMMA CrashEntry ==
    ASSUME EntryInv, Crash
    PROVE  EntryInv'
<1>1. PICK i \in 0..Len(content), j \in 0..Len(meta) :
         content' = SubSeq(content, 1, i) /\ meta' = SubSeq(meta, 1, j)
  BY DEF Crash
<1>2. /\ crashes' = crashes + 1 /\ up' = FALSE /\ acc' = NewAccumulator /\ cursor' = 0
      /\ source' = source /\ exact' = exact /\ dirty' = dirty /\ shrinks' = shrinks
  BY DEF Crash
<1>3. i \in Nat BY DEF EntryInv, IsSeq
<1>4. IsSeq(content') BY <1>1, <1>3, SubFirst
<1>5. IsStream(meta') BY <1>1, StreamPrefix DEF EntryInv
<1>6. dirty' \/ Tied'
  <2> SUFFICES ASSUME ~dirty PROVE Tied' BY <1>2
  <2>1. IsStream(meta) /\ Agrees(meta) BY DEF EntryInv, Tied
  <2>2. Agrees(meta') BY <1>1, <2>1, AgreesPrefix
  <2> QED BY <1>2, <2>2 DEF Tied
<1>7. IsAcc(acc') /\ acc'.out = <<>> BY <1>2, NewAccFacts
<1>8. cursor' \in 0..MaxLines /\ crashes' \in Nat BY <1>2, EntryAssumption DEF EntryInv
<1>9. /\ source' \in Seq(Lines) /\ Len(source') + shrinks' <= MaxLines /\ up' = FALSE
      /\ exact' \in BOOLEAN /\ dirty' \in BOOLEAN /\ shrinks' \in Nat
  BY <1>2 DEF EntryInv
<1> QED BY <1>4, <1>5, <1>6, <1>7, <1>8, <1>9 DEF EntryInv

LEMMA ResumedEntry ==
    ASSUME EntryInv, AdmitResumed
    PROVE  EntryInv'
<1>1. PICK k : k = Align(meta, Len(content)) OBVIOUS
<1>2. PICK resume : resume = meta[k].resume OBVIOUS
<1>3. PICK log : log = SubSeq(content, 1, resume.id) OBVIOUS
<1>4. PICK mm : mm = MetaAt(meta, k) OBVIOUS
<1>5. /\ acc' = Restore(mm, resume, log) /\ cursor' = resume.from /\ content' = log
      /\ meta' = SubSeq(meta, 1, k) /\ exact' \in BOOLEAN /\ up' = TRUE
      /\ source' = source /\ dirty' = dirty /\ crashes' = crashes /\ shrinks' = shrinks
  BY <1>1, <1>2, <1>3, <1>4 DEF AdmitResumed
<1>6. k # 0 /\ Len(source) >= resume.from BY <1>1, <1>2 DEF AdmitResumed, Resumable
<1>7. IsStream(meta) /\ Len(meta) \in Nat BY DEF EntryInv, IsStream, IsSeq
<1>8. k \in 1..Len(meta) /\ resume.id \in Nat \ {0} /\ resume.from \in Nat
  BY <1>1, <1>2, <1>6, <1>7, AlignIn
<1>9. k \in 0..Len(meta) BY <1>7, <1>8
<1>10. IsMeta(mm) BY <1>4, <1>7, <1>9, MetaIsMeta
<1>11. IsSeq(log) BY <1>3, <1>8, SubFirst
<1>12. /\ IsAcc(acc') /\ acc'.out = <<>> /\ acc'.log = log
       /\ Ordered(acc') /\ Materialized(acc') = mm
  BY <1>5, <1>10, <1>11, RestoreFacts
<1>13. IsStream(meta') /\ Len(meta') = k BY <1>5, <1>7, <1>9, StreamPrefix
<1>14. dirty' \/ Tied'
  <2> SUFFICES ASSUME ~dirty PROVE Tied' BY <1>5
  <2>1. Agrees(meta) BY DEF EntryInv, Tied
  <2>2. Agrees(meta') /\ MetaAt(meta', k) = mm BY <1>4, <1>5, <1>7, <1>9, <2>1, AgreesPrefix
  <2> QED BY <1>12, <1>13, <2>2 DEF Tied
<1>15. cursor' \in 0..MaxLines
  <2>1. Len(source) \in Nat BY LenProperties DEF EntryInv
  <2> QED BY <1>5, <1>6, <1>8, <2>1, EntryAssumption DEF EntryInv
<1> QED BY <1>5, <1>11, <1>12, <1>13, <1>14, <1>15 DEF EntryInv

LEMMA ColdEntry ==
    ASSUME EntryInv, AdmitCold
    PROVE  EntryInv'
<1>1. /\ acc' = NewAccumulator /\ cursor' = 0 /\ content' = <<>> /\ meta' = <<>>
      /\ exact' = TRUE /\ dirty' = FALSE /\ up' = TRUE
      /\ source' = source /\ crashes' = crashes /\ shrinks' = shrinks
  BY DEF AdmitCold
<1>2. /\ IsAcc(acc') /\ acc'.out = <<>> /\ acc'.log = <<>>
      /\ Ordered(acc') /\ Materialized(acc') = NoMeta
  BY <1>1, NewAccFacts
<1>3. IsSeq(content') /\ IsStream(meta') /\ Len(meta') = 0 BY <1>1, EmptyIsSeq, EmptyStream
<1>4. MetaAt(meta', Len(meta')) = NoMeta BY <1>3, MetaNone
<1>5. Agrees(meta') BY <1>3 DEF Agrees
<1>6. Tied' BY <1>2, <1>4, <1>5 DEF Tied
<1>7. cursor' \in 0..MaxLines /\ acc'.log = content' BY <1>1, <1>2, EntryAssumption
<1>8. /\ source' \in Seq(Lines) /\ Len(source') + shrinks' <= MaxLines
      /\ up' \in BOOLEAN /\ exact' \in BOOLEAN /\ dirty' \in BOOLEAN
      /\ crashes' \in Nat /\ shrinks' \in Nat
  BY <1>1 DEF EntryInv
<1> QED BY <1>2, <1>3, <1>6, <1>7, <1>8 DEF EntryInv

\* Every step of the entry keeps the invariant.
LEMMA NextEntry == EntryInv /\ [Next]_vars => EntryInv'
<1> SUFFICES ASSUME EntryInv, [Next]_vars PROVE EntryInv' OBVIOUS
<1>1. CASE \E line \in Lines : Write(line) BY <1>1, WriteEntry
<1>2. CASE \E n \in 1..(Len(source) - 1) : Shrink(n) BY <1>2, ShrinkEntry
<1>3. CASE Tick BY <1>3, TickEntry
<1>4. CASE Crash BY <1>4, CrashEntry
<1>5. CASE AdmitResumed BY <1>5, ResumedEntry
<1>6. CASE AdmitCold BY <1>6, ColdEntry
<1>7. CASE UNCHANGED vars
  <2>1. /\ source' = source /\ up' = up /\ acc' = acc /\ cursor' = cursor
        /\ content' = content /\ meta' = meta /\ exact' = exact /\ dirty' = dirty
        /\ crashes' = crashes /\ shrinks' = shrinks
    BY <1>7 DEF vars
  <2>2. dirty' \/ Tied' BY <2>1 DEF EntryInv, Tied
  <2> QED BY <2>1, <2>2 DEF EntryInv
<1> QED BY <1>1, <1>2, <1>3, <1>4, <1>5, <1>6, <1>7 DEF Next

LEMMA EntryInvariant == Spec => []EntryInv
BY InitEntry, NextEntry, PTL DEF Spec

-----------------------------------------------------------------------------
(* Turn by turn or at once.                                                *)

LEMMA WiderSeq ==
    ASSUME NEW few, NEW many, few \subseteq many, NEW s \in Seq(few)
    PROVE  s \in Seq(many)
<1>1. Len(s) \in Nat /\ s \in [1..Len(s) -> few] BY LenProperties
<1>2. s \in [1..Len(s) -> many] BY <1>1
<1> QED BY <1>1, <1>2, SeqDef

LEMMA ConcatThree ==
    ASSUME NEW s, NEW t, NEW u, IsSeq(s), IsSeq(t), IsSeq(u)
    PROVE  s \o (t \o u) = (s \o t) \o u
<1> DEFINE S == ({s[i] : i \in 1..Len(s)} \cup {t[i] : i \in 1..Len(t)})
                   \cup {u[i] : i \in 1..Len(u)}
<1>1. s \in Seq(S) /\ t \in Seq(S) /\ u \in Seq(S)
  <2>1. /\ s \in Seq({s[i] : i \in 1..Len(s)}) /\ t \in Seq({t[i] : i \in 1..Len(t)})
        /\ u \in Seq({u[i] : i \in 1..Len(u)})
    BY SeqTyped
  <2>2. /\ {s[i] : i \in 1..Len(s)} \subseteq S /\ {t[i] : i \in 1..Len(t)} \subseteq S
        /\ {u[i] : i \in 1..Len(u)} \subseteq S
    OBVIOUS
  <2> HIDE DEF S
  <2>3. s \in Seq(S) BY <2>1, <2>2, WiderSeq
  <2>4. t \in Seq(S) BY <2>1, <2>2, WiderSeq
  <2>5. u \in Seq(S) BY <2>1, <2>2, WiderSeq
  <2> QED BY <2>3, <2>4, <2>5
<1> HIDE DEF S
<1> QED BY <1>1, ConcatAssociative

LEMMA ConcatNone ==
    ASSUME NEW s, IsSeq(s)
    PROVE  s \o <<>> = s /\ <<>> \o s = s
<1>1. s \in Seq({s[i] : i \in 1..Len(s)}) BY SeqTyped
<1> QED BY <1>1, ConcatEmptySeq

\* A shaping that began after the blocks of F.
Shift(F, s) == [out |-> F \o s.out, run |-> s.run, held |-> s.held]

LEMMA FlushShift ==
    ASSUME NEW F, NEW s, IsSeq(F), IsShaping(s)
    PROVE  Flush(Shift(F, s)) = Shift(F, Flush(s)) /\ Flush(Shift(F, s)).out = F \o Flush(s).out
<1> DEFINE span == [kind |-> "Span", name |-> Nil,
                    joined |-> Len(SelectSeq(s.run, LAMBDA b : b.kind = "Thinking")),
                    parts |-> SelectSeq(s.run, LAMBDA b : b.kind # "Thinking")]
           edits == \A i \in DOMAIN s.run : s.run[i].kind = "Edit"
<1>1. PICK o, u, h, mid, t : /\ o = s.out /\ u = s.run /\ h = s.held /\ t = Shift(F, s)
                             /\ mid = (IF edits THEN s.run ELSE <<span>>)
  OBVIOUS
<1>2. t.out = F \o o /\ t.run = s.run /\ t.held = s.held BY <1>1 DEF Shift
<1>3. Flush(s) = [out |-> (o \o mid) \o h, run |-> <<>>, held |-> <<>>] BY <1>1 DEF Flush
<1>4. Flush(t) = [out |-> ((F \o o) \o mid) \o h, run |-> <<>>, held |-> <<>>]
  BY <1>1, <1>2 DEF Flush
<1>5. IsSeq(o) /\ IsSeq(h) BY <1>1 DEF IsShaping
<1>6. IsSeq(mid)
  <2>1. CASE edits
    <3> HIDE DEF edits
    <3> QED BY <1>1, <2>1 DEF IsShaping
  <2>2. CASE ~edits
    <3>1. mid = <<span>> BY <1>1, <2>2
    <3> HIDE DEF span, edits
    <3>2. <<span>> \in Seq({span}) OBVIOUS
    <3> QED BY <3>1, <3>2, TypedSeq
  <2> QED BY <2>1, <2>2
<1> HIDE DEF span, edits
<1>7. PICK om : om = o \o mid OBVIOUS
<1>8. IsSeq(om) BY <1>5, <1>6, <1>7, SeqConcat
<1>9. (F \o o) \o mid = F \o om BY <1>5, <1>6, <1>7, ConcatThree
<1>10. (F \o om) \o h = F \o (om \o h) BY <1>5, <1>8, ConcatThree
<1>11. Flush(t) = [out |-> F \o (om \o h), run |-> <<>>, held |-> <<>>] BY <1>4, <1>9, <1>10
<1>12. Shift(F, Flush(s)) = [out |-> F \o (om \o h), run |-> <<>>, held |-> <<>>]
  BY <1>3, <1>7 DEF Shift
<1>13. Flush(s).out = om \o h BY <1>3, <1>7
<1> QED BY <1>1, <1>11, <1>12, <1>13

LEMMA ShapeShift ==
    ASSUME NEW F, NEW s, NEW b, IsSeq(F), IsShaping(s)
    PROVE  Shape(Shift(F, s), b) = Shift(F, Shape(s, b))
<1>1. PICK o, u, h, t : o = s.out /\ u = s.run /\ h = s.held /\ t = Shift(F, s) OBVIOUS
<1>2. t = [out |-> F \o o, run |-> u, held |-> h] BY <1>1 DEF Shift
<1>3. t.run = u /\ DOMAIN s = {"out", "run", "held"} BY <1>2 DEF IsShaping
<1>4. IsSeq(o) /\ IsSeq(u) /\ IsSeq(h) BY <1>1 DEF IsShaping
<1>5. PICK z : z = Shape(s, b) OBVIOUS
<1>6. CASE InRun(b)
  <2>1. Shape(t, b) = [t EXCEPT !.run = Append(@, b)] BY <1>6 DEF Shape
  <2>2. Shape(t, b) = [out |-> F \o o, run |-> Append(u, b), held |-> h] BY <1>2, <2>1
  <2>3. z = [s EXCEPT !.run = Append(@, b)] BY <1>5, <1>6 DEF Shape
  <2>4. z.out = o /\ z.run = Append(u, b) /\ z.held = h BY <1>1, <1>3, <2>3
  <2> QED BY <1>1, <1>5, <2>2, <2>4 DEF Shift
<1>7. CASE ~InRun(b) /\ b.kind = "Attachment" /\ u # <<>>
  <2>1. Shape(t, b) = [t EXCEPT !.held = Append(@, b)] BY <1>3, <1>7 DEF Shape
  <2>2. Shape(t, b) = [out |-> F \o o, run |-> u, held |-> Append(h, b)] BY <1>2, <2>1
  <2>3. z = [s EXCEPT !.held = Append(@, b)] BY <1>1, <1>5, <1>7 DEF Shape
  <2>4. z.out = o /\ z.run = u /\ z.held = Append(h, b) BY <1>1, <1>3, <2>3
  <2> QED BY <1>1, <1>5, <2>2, <2>4 DEF Shift
<1>8. CASE ~InRun(b) /\ b.kind = "Attachment" /\ u = <<>>
  <2>1. Shape(t, b) = [t EXCEPT !.out = Append(@, b)] BY <1>3, <1>8 DEF Shape
  <2>2. Shape(t, b) = [out |-> Append(F \o o, b), run |-> u, held |-> h] BY <1>2, <2>1
  <2>3. z = [s EXCEPT !.out = Append(@, b)] BY <1>1, <1>5, <1>8 DEF Shape
  <2>4. z.out = Append(o, b) /\ z.run = u /\ z.held = h BY <1>1, <1>3, <2>3
  <2>5. F \o Append(o, b) = Append(F \o o, b) BY <1>4, ConcatAppend
  <2> QED BY <1>1, <1>5, <2>2, <2>4, <2>5 DEF Shift
<1>9. CASE ~InRun(b) /\ b.kind # "Attachment"
  <2>1. PICK f, g : f = Flush(s) /\ g = Flush(t) OBVIOUS
  <2>2. g = Shift(F, f) BY <1>1, <2>1, FlushShift
  <2>3. IsShaping(f) BY <2>1, FlushFacts
  <2>4. PICK fo : fo = f.out OBVIOUS
  <2>5. IsSeq(fo) /\ DOMAIN f = {"out", "run", "held"} BY <2>3, <2>4 DEF IsShaping
  <2>6. Shape(t, b) = [g EXCEPT !.out = Append(@, b)] BY <1>9, <2>1 DEF Shape
  <2>7. g = [out |-> F \o fo, run |-> f.run, held |-> f.held] BY <2>2, <2>4 DEF Shift
  <2>8. Shape(t, b) = [out |-> Append(F \o fo, b), run |-> f.run, held |-> f.held]
    BY <2>6, <2>7
  <2>9. z = [f EXCEPT !.out = Append(@, b)] BY <1>5, <1>9, <2>1 DEF Shape
  <2>10. z.out = Append(fo, b) /\ z.run = f.run /\ z.held = f.held BY <2>4, <2>5, <2>9
  <2>11. F \o Append(fo, b) = Append(F \o fo, b) BY <2>5, ConcatAppend
  <2> QED BY <1>1, <1>5, <2>8, <2>10, <2>11 DEF Shift
<1> QED BY <1>6, <1>7, <1>8, <1>9

\* The head of a turn ends whatever run came before it.
LEMMA ShapeRestart ==
    ASSUME NEW s, NEW b, IsShaping(s), OpensTurn(b)
    PROVE  Shape(s, b) = Shift(Flush(s).out, Shape(NoShaping, b))
<1>1. ~InRun(b) /\ b.kind # "Attachment" BY DEF OpensTurn, InRun
<1>2. ASSUME NEW t, IsShaping(t)
      PROVE  Shape(t, b) = [out |-> Append(Flush(t).out, b), run |-> <<>>, held |-> <<>>]
  <2>1. PICK f, fo : f = Flush(t) /\ fo = f.out OBVIOUS
  <2>2. f = [out |-> fo, run |-> <<>>, held |-> <<>>] BY <2>1 DEF Flush
  <2>3. Shape(t, b) = [f EXCEPT !.out = Append(@, b)] BY <1>1, <2>1 DEF Shape
  <2>4. [f EXCEPT !.out = Append(@, b)] = [out |-> Append(fo, b), run |-> <<>>, held |-> <<>>]
    BY <2>2
  <2> QED BY <2>1, <2>3, <2>4
<1>3. PICK o, n : o = Flush(s).out /\ n = Flush(NoShaping).out OBVIOUS
<1>4. IsSeq(o)
  <2>1. IsShaping(Flush(s)) BY FlushFacts
  <2> QED BY <1>3, <2>1 DEF IsShaping
<1>5. n = <<>>
  <2>1. /\ NoShaping.out = <<>> /\ NoShaping.run = <<>> /\ NoShaping.held = <<>>
    BY DEF NoShaping
  <2>2. \A i \in DOMAIN NoShaping.run : NoShaping.run[i].kind = "Edit"
    BY <2>1, EmptyIsSeq, SeqTyped
  <2>3. n = (NoShaping.out \o NoShaping.run) \o NoShaping.held BY <1>3, <2>2 DEF Flush
  <2>4. <<>> \o <<>> = <<>> BY EmptyIsSeq, ConcatNone
  <2> QED BY <2>1, <2>3, <2>4
<1>6. o \o Append(n, b) = Append(o, b)
  <2>1. o \o Append(<<>>, b) = Append(o \o <<>>, b) BY <1>4, EmptyIsSeq, ConcatAppend
  <2>2. o \o <<>> = o BY <1>4, ConcatNone
  <2> QED BY <1>5, <2>1, <2>2
<1>7. Shape(NoShaping, b) = [out |-> Append(n, b), run |-> <<>>, held |-> <<>>]
  BY <1>2, <1>3, NoShapingFacts
<1>8. Shape(s, b) = [out |-> Append(o, b), run |-> <<>>, held |-> <<>>] BY <1>2, <1>3
<1>9. PICK z : z = Shape(NoShaping, b) OBVIOUS
<1>10. z.out = Append(n, b) /\ z.run = <<>> /\ z.held = <<>> BY <1>7, <1>9
<1>11. Shift(o, z) = [out |-> Append(o, b), run |-> <<>>, held |-> <<>>] BY <1>6, <1>10 DEF Shift
<1> QED BY <1>3, <1>8, <1>9, <1>11

LEMMA FinishNone == FinishTurns(<<>>) = <<>>
<1>1. PICK s : s = <<>> OBVIOUS
<1>2. IsSeq(s) /\ Len(s) = 0 BY <1>1, EmptyIsSeq
<1>3. PICK g : g[0] = NoShaping /\ FinishTurns(s) = Flush(g[Len(s)]).out BY <1>2, ShapeCourse
<1>4. FinishTurns(s) = Flush(NoShaping).out BY <1>2, <1>3
<1>5. /\ NoShaping.out = <<>> /\ NoShaping.run = <<>> /\ NoShaping.held = <<>> BY DEF NoShaping
<1>6. \A i \in DOMAIN NoShaping.run : NoShaping.run[i].kind = "Edit"
  BY <1>5, EmptyIsSeq, SeqTyped
<1>7. FinishTurns(s) = (NoShaping.out \o NoShaping.run) \o NoShaping.held
  BY <1>4, <1>6 DEF Flush
<1>8. <<>> \o <<>> = <<>> BY EmptyIsSeq, ConcatNone
<1> QED BY <1>1, <1>5, <1>7, <1>8

\* Shaping at once is shaping what comes before the head of a turn and what comes
\* from it on.
LEMMA FinishSplit ==
    ASSUME NEW u, NEW v, IsSeq(u), IsSeq(v), u = <<>> \/ v = <<>> \/ OpensTurn(v[1])
    PROVE  FinishTurns(u \o v) = FinishTurns(u) \o FinishTurns(v)
<1>1. IsSeq(FinishTurns(u)) /\ IsSeq(FinishTurns(v)) BY FinishTurnsFacts
<1>2. CASE u = <<>>
  <2>1. u \o v = v /\ <<>> \o FinishTurns(v) = FinishTurns(v) BY <1>1, <1>2, ConcatNone
  <2> QED BY <1>2, <2>1, FinishNone
<1>3. CASE v = <<>>
  <2>1. u \o v = u /\ FinishTurns(u) \o <<>> = FinishTurns(u) BY <1>1, <1>3, ConcatNone
  <2> QED BY <1>3, <2>1, FinishNone
<1>4. CASE v # <<>> /\ OpensTurn(v[1])
  <2>1. PICK m \in Nat, n \in Nat : m = Len(u) /\ n = Len(v) BY DEF IsSeq
  <2>2. n # 0 BY <1>4, <2>1, LenZero
  <2>3. PICK w : w = u \o v OBVIOUS
  <2>4. /\ IsSeq(w) /\ Len(w) = m + n
        /\ \A i \in 1..m : w[i] = u[i]
        /\ \A i \in 1..n : w[m + i] = v[i]
    BY <2>1, <2>3, SeqConcat
  <2>5. PICK gu : /\ gu[0] = NoShaping
                  /\ \A i \in 1..m : gu[i] = Shape(gu[i - 1], u[i])
                  /\ FinishTurns(u) = Flush(gu[m]).out
                  /\ \A i \in 0..m : IsShaping(gu[i])
    BY <2>1, ShapeCourse
  <2>6. PICK gv : /\ gv[0] = NoShaping
                  /\ \A i \in 1..n : gv[i] = Shape(gv[i - 1], v[i])
                  /\ FinishTurns(v) = Flush(gv[n]).out
                  /\ \A i \in 0..n : IsShaping(gv[i])
    BY <2>1, ShapeCourse
  <2>7. PICK gw : /\ gw[0] = NoShaping
                  /\ \A i \in 1..(m + n) : gw[i] = Shape(gw[i - 1], w[i])
                  /\ FinishTurns(w) = Flush(gw[m + n]).out
    BY <2>4, ShapeCourse
  <2>8. gw[m] = gu[m]
    <3> DEFINE S == {i \in Nat : i <= m => gw[i] = gu[i]}
    <3>1. 0 \in S BY <2>5, <2>7
    <3>2. ASSUME NEW i \in Nat, i \in S PROVE i + 1 \in S
      <4> SUFFICES ASSUME i + 1 <= m PROVE gw[i + 1] = gu[i + 1] OBVIOUS
      <4>1. i + 1 \in 1..m /\ i + 1 \in 1..(m + n) /\ (i + 1) - 1 = i OBVIOUS
      <4>2. gw[i + 1] = Shape(gw[i], w[i + 1]) BY <2>7, <4>1
      <4>3. gu[i + 1] = Shape(gu[i], u[i + 1]) BY <2>5, <4>1
      <4>4. w[i + 1] = u[i + 1] BY <2>4, <4>1
      <4>5. gw[i] = gu[i] BY <3>2
      <4> QED BY <4>2, <4>3, <4>4, <4>5
    <3> HIDE DEF S
    <3>3. Nat \subseteq S BY <3>1, <3>2, H!SetInduction
    <3> QED BY <3>3 DEF S
  <2>9. PICK F : F = FinishTurns(u) OBVIOUS
  <2>10. IsSeq(F) /\ F = Flush(gu[m]).out BY <1>1, <2>5, <2>9
  <2>11. gw[m + n] = Shift(F, gv[n])
    <3> DEFINE S == {i \in Nat : i + 1 <= n => gw[m + (i + 1)] = Shift(F, gv[i + 1])}
    <3>1. 0 \in S
      <4>1. 1 \in 1..n /\ 1 - 1 = 0 /\ m + 1 \in 1..(m + n) /\ (m + 1) - 1 = m BY <2>2
      <4>2. gw[m + 1] = Shape(gw[m], w[m + 1]) BY <2>7, <4>1
      <4>3. w[m + 1] = v[1] BY <2>4, <4>1
      <4>4. gv[1] = Shape(gv[0], v[1]) BY <2>6, <4>1
      <4>5. IsShaping(gu[m]) BY <2>5
      <4>6. PICK s, b : s = gu[m] /\ b = v[1] OBVIOUS
      <4>7. Shape(s, b) = Shift(Flush(s).out, Shape(NoShaping, b))
        BY <1>4, <4>5, <4>6, ShapeRestart
      <4>8. gw[m + 1] = Shift(F, gv[1]) BY <2>6, <2>8, <2>10, <4>2, <4>3, <4>4, <4>6, <4>7
      <4> QED BY <4>8
    <3>2. ASSUME NEW i \in Nat, i \in S PROVE i + 1 \in S
      <4> SUFFICES ASSUME (i + 1) + 1 <= n PROVE gw[m + ((i + 1) + 1)] = Shift(F, gv[(i + 1) + 1])
        OBVIOUS
      <4>1. PICK j \in Nat : j = i + 1 OBVIOUS
      <4>2. /\ j + 1 \in 1..n /\ j \in 0..n /\ (j + 1) - 1 = j /\ m + (j + 1) \in 1..(m + n)
            /\ (m + (j + 1)) - 1 = m + j
        BY <4>1
      <4>3. gw[m + (j + 1)] = Shape(gw[m + j], w[m + (j + 1)]) BY <2>7, <4>2
      <4>4. w[m + (j + 1)] = v[j + 1] BY <2>4, <4>2
      <4>5. gv[j + 1] = Shape(gv[j], v[j + 1]) BY <2>6, <4>2
      <4>6. gw[m + j] = Shift(F, gv[j]) BY <3>2, <4>1, <4>2
      <4>7. PICK s, b : s = gv[j] /\ b = v[j + 1] OBVIOUS
      <4>8. IsShaping(s) BY <2>6, <4>2, <4>7
      <4>9. Shape(Shift(F, s), b) = Shift(F, Shape(s, b)) BY <2>10, <4>8, ShapeShift
      <4>10. gw[m + (j + 1)] = Shift(F, gv[j + 1]) BY <4>3, <4>4, <4>5, <4>6, <4>7, <4>9
      <4> QED BY <4>1, <4>10
    <3> HIDE DEF S
    <3>3. Nat \subseteq S BY <3>1, <3>2, H!SetInduction
    <3>4. n - 1 \in Nat /\ (n - 1) + 1 = n BY <2>2
    <3>5. n - 1 \in S BY <3>3, <3>4
    <3>6. (n - 1) + 1 <= n => gw[m + ((n - 1) + 1)] = Shift(F, gv[(n - 1) + 1])
      BY <3>5 DEF S
    <3> QED BY <3>4, <3>6
  <2>12. IsShaping(gv[n]) BY <2>6
  <2>13. PICK s : s = gv[n] OBVIOUS
  <2>14. Flush(Shift(F, s)).out = F \o Flush(s).out BY <2>10, <2>12, <2>13, FlushShift
  <2> QED BY <2>3, <2>6, <2>7, <2>9, <2>11, <2>13, <2>14
<1> QED BY <1>2, <1>3, <1>4

-----------------------------------------------------------------------------
(* What is shown of two sequences one after the other.                     *)

\* g is the course of the selection of the first n blocks.
Shows(g, blocks, lo, suppress, n) ==
    /\ g[0] = <<>>
    /\ \A i \in 1..n :
          g[i] = IF lo + i \in suppress THEN g[i - 1] ELSE Append(g[i - 1], blocks[i])
    /\ Shown(blocks, lo, suppress) = g[n]
    /\ \A i \in 0..n : IsSeq(g[i])

LEMMA ShownTrace ==
    ASSUME NEW blocks, NEW lo, NEW suppress, IsSeq(blocks), NEW n, n = Len(blocks)
    PROVE  \E g : Shows(g, blocks, lo, suppress, n)
<1>1. PICK g :
      /\ g[0] = <<>>
      /\ \A i \in 1..Len(blocks) :
            g[i] = IF lo + i \in suppress THEN g[i - 1] ELSE Append(g[i - 1], blocks[i])
      /\ Shown(blocks, lo, suppress) = g[Len(blocks)]
      /\ \A i \in 0..Len(blocks) : /\ IsSeq(g[i])
                                   /\ Openers(g[i]) <= Openers(SubSeq(blocks, 1, i))
  BY ShownCourse
<1>2. \A i \in 0..n : IsSeq(g[i]) BY <1>1
<1>3. Shows(g, blocks, lo, suppress, n) BY <1>1, <1>2 DEF Shows
<1> QED BY <1>3

\* Only the indices of the blocks themselves matter.
LEMMA ShownSame ==
    ASSUME NEW u, NEW lo, NEW S, NEW T, IsSeq(u),
           \A i \in 1..Len(u) : lo + i \in S <=> lo + i \in T
    PROVE  Shown(u, lo, S) = Shown(u, lo, T)
<1>1. PICK m \in Nat : m = Len(u) BY DEF IsSeq
<1>2. PICK g : Shows(g, u, lo, S, m) BY <1>1, ShownTrace
<1>2a. /\ g[0] = <<>>
       /\ \A i \in 1..m : g[i] = IF lo + i \in S THEN g[i - 1] ELSE Append(g[i - 1], u[i])
       /\ Shown(u, lo, S) = g[m]
  BY <1>2 DEF Shows
<1>3. PICK h : Shows(h, u, lo, T, m) BY <1>1, ShownTrace
<1>3a. /\ h[0] = <<>>
       /\ \A i \in 1..m : h[i] = IF lo + i \in T THEN h[i - 1] ELSE Append(h[i - 1], u[i])
       /\ Shown(u, lo, T) = h[m]
  BY <1>3 DEF Shows
<1> DEFINE I == {i \in Nat : i <= m => g[i] = h[i]}
<1>4. 0 \in I BY <1>2a, <1>3a
<1>5. ASSUME NEW i \in Nat, i \in I PROVE i + 1 \in I
  <2> SUFFICES ASSUME i + 1 <= m PROVE g[i + 1] = h[i + 1] OBVIOUS
  <2>1. PICK j : j = i + 1 OBVIOUS
  <2>2. j \in 1..m /\ j - 1 = i /\ g[i] = h[i] BY <1>5, <2>1
  <2>3. lo + j \in S <=> lo + j \in T BY <1>1, <2>2
  <2>4. g[j] = IF lo + j \in S THEN g[i] ELSE Append(g[i], u[j]) BY <1>2a, <2>2
  <2>5. h[j] = IF lo + j \in T THEN h[i] ELSE Append(h[i], u[j]) BY <1>3a, <2>2
  <2> QED BY <2>1, <2>2, <2>3, <2>4, <2>5
<1> HIDE DEF I
<1>6. Nat \subseteq I BY <1>4, <1>5, W!SetInduction
<1>7. g[m] = h[m] BY <1>6 DEF I
<1> QED BY <1>2a, <1>3a, <1>7

LEMMA ShownSplit ==
    ASSUME NEW u, NEW v, NEW lo \in Nat, NEW S, IsSeq(u), IsSeq(v)
    PROVE  Shown(u \o v, lo, S) = Shown(u, lo, S) \o Shown(v, lo + Len(u), S)
<1>1. PICK m \in Nat, n \in Nat : m = Len(u) /\ n = Len(v) BY DEF IsSeq
<1>2. PICK w : w = u \o v OBVIOUS
<1>3. /\ IsSeq(w) /\ Len(w) = m + n
      /\ \A i \in 1..m : w[i] = u[i]
      /\ \A i \in 1..n : w[m + i] = v[i]
  BY <1>1, <1>2, SeqConcat
<1>4. PICK at \in Nat : at = lo + m BY <1>1
<1>5. PICK gu : Shows(gu, u, lo, S, m) BY <1>1, ShownTrace
<1>5a. /\ gu[0] = <<>>
       /\ \A i \in 1..m :
             gu[i] = IF lo + i \in S THEN gu[i - 1] ELSE Append(gu[i - 1], u[i])
       /\ Shown(u, lo, S) = gu[m]
       /\ \A i \in 0..m : IsSeq(gu[i])
  BY <1>5 DEF Shows
<1>6. PICK gv : Shows(gv, v, at, S, n) BY <1>1, ShownTrace
<1>6a. /\ gv[0] = <<>>
       /\ \A i \in 1..n :
             gv[i] = IF at + i \in S THEN gv[i - 1] ELSE Append(gv[i - 1], v[i])
       /\ Shown(v, at, S) = gv[n]
       /\ \A i \in 0..n : IsSeq(gv[i])
  BY <1>6 DEF Shows
<1>7. PICK gw : Shows(gw, w, lo, S, m + n) BY <1>3, ShownTrace
<1>7a. /\ gw[0] = <<>>
       /\ \A i \in 1..(m + n) :
             gw[i] = IF lo + i \in S THEN gw[i - 1] ELSE Append(gw[i - 1], w[i])
       /\ Shown(w, lo, S) = gw[m + n]
  BY <1>7 DEF Shows
<1>8. gw[m] = gu[m]
  <2> DEFINE I == {i \in Nat : i <= m => gw[i] = gu[i]}
  <2>1. 0 \in I BY <1>5a, <1>7a
  <2>2. ASSUME NEW i \in Nat, i \in I PROVE i + 1 \in I
    <3> SUFFICES ASSUME i + 1 <= m PROVE gw[i + 1] = gu[i + 1] OBVIOUS
    <3>1. PICK j : j = i + 1 OBVIOUS
    <3>2. j \in 1..m /\ j \in 1..(m + n) /\ j - 1 = i /\ gw[i] = gu[i] BY <2>2, <3>1
    <3>3. gw[j] = IF lo + j \in S THEN gw[i] ELSE Append(gw[i], w[j]) BY <1>7a, <3>2
    <3>4. gu[j] = IF lo + j \in S THEN gu[i] ELSE Append(gu[i], u[j]) BY <1>5a, <3>2
    <3>5. w[j] = u[j] BY <1>3, <3>2
    <3> QED BY <3>1, <3>2, <3>3, <3>4, <3>5
  <2> HIDE DEF I
  <2>3. Nat \subseteq I BY <2>1, <2>2, W!SetInduction
  <2> QED BY <2>3 DEF I
<1>9. PICK F : F = gu[m] OBVIOUS
<1>10. IsSeq(F) BY <1>5a, <1>9
<1>11. gw[m + n] = F \o gv[n]
  <2> DEFINE I == {i \in Nat : i <= n => gw[m + i] = F \o gv[i]}
  <2>1. 0 \in I
    <3>1. F \o <<>> = F /\ m + 0 = m BY <1>10, ConcatNone
    <3> QED BY <1>6a, <1>8, <1>9, <3>1
  <2>2. ASSUME NEW i \in Nat, i \in I PROVE i + 1 \in I
    <3> SUFFICES ASSUME i + 1 <= n PROVE gw[m + (i + 1)] = F \o gv[i + 1] OBVIOUS
    <3>1. PICK j, k : j = i + 1 /\ k = m + j OBVIOUS
    <3>2. /\ j \in 1..n /\ k \in 1..(m + n) /\ j - 1 = i /\ k - 1 = m + i /\ lo + k = at + j
          /\ i \in 0..n
      BY <1>4, <3>1
    <3>3. gw[m + i] = F \o gv[i] BY <2>2
    <3>4. gw[k] = IF lo + k \in S THEN gw[m + i] ELSE Append(gw[m + i], w[k]) BY <1>7a, <3>2
    <3>5. gv[j] = IF at + j \in S THEN gv[i] ELSE Append(gv[i], v[j]) BY <1>6a, <3>2
    <3>6. w[k] = v[j] BY <1>3, <3>1, <3>2
    <3>7. PICK q, b : q = gv[i] /\ b = v[j] OBVIOUS
    <3>8. IsSeq(q) BY <1>6a, <3>2, <3>7
    <3>9. F \o Append(q, b) = Append(F \o q, b) BY <1>10, <3>8, ConcatAppend
    <3>10. gw[k] = F \o gv[j]
      <4>1. CASE at + j \in S BY <3>2, <3>3, <3>4, <3>5, <4>1
      <4>2. CASE at + j \notin S BY <3>2, <3>3, <3>4, <3>5, <3>6, <3>7, <3>9, <4>2
      <4> QED BY <4>1, <4>2
    <3> QED BY <3>1, <3>10
  <2> HIDE DEF I
  <2>3. Nat \subseteq I BY <2>1, <2>2, W!SetInduction
  <2> QED BY <2>3 DEF I
<1> QED BY <1>1, <1>2, <1>4, <1>5a, <1>6a, <1>7a, <1>9, <1>11

\* A first block that is not suppressed is the first that is shown.
LEMMA ShownHead ==
    ASSUME NEW v, NEW lo, NEW S, IsSeq(v), v # <<>>, lo + 1 \notin S
    PROVE  Shown(v, lo, S)[1] = v[1]
<1>1. PICK n \in Nat : n = Len(v) BY DEF IsSeq
<1>2. n # 0 BY <1>1, LenZero
<1>3. PICK g : Shows(g, v, lo, S, n) BY <1>1, ShownTrace
<1>3a. /\ g[0] = <<>>
       /\ \A i \in 1..n : g[i] = IF lo + i \in S THEN g[i - 1] ELSE Append(g[i - 1], v[i])
       /\ Shown(v, lo, S) = g[n]
       /\ \A i \in 0..n : IsSeq(g[i])
  BY <1>3 DEF Shows
<1>4. PICK b : b = v[1] OBVIOUS
<1> DEFINE I == {i \in Nat : i + 1 <= n => Len(g[i + 1]) > 0 /\ g[i + 1][1] = b}
<1>5. 0 \in I
  <2>1. 1 \in 1..n /\ 1 - 1 = 0 BY <1>2
  <2>2. g[1] = Append(<<>>, b) BY <1>3a, <1>4, <2>1
  <2>3. Append(<<>>, b) = <<b>> OBVIOUS
  <2>4. Len(<<b>>) = 1 /\ <<b>>[1] = b OBVIOUS
  <2>5. Len(g[1]) > 0 /\ g[1][1] = b BY <2>2, <2>3, <2>4
  <2> QED BY <2>5
<1>6. ASSUME NEW i \in Nat, i \in I PROVE i + 1 \in I
  <2> SUFFICES ASSUME (i + 1) + 1 <= n PROVE Len(g[(i + 1) + 1]) > 0 /\ g[(i + 1) + 1][1] = b
    OBVIOUS
  <2>1. PICK j \in Nat, k \in Nat : j = i + 1 /\ k = j + 1 OBVIOUS
  <2>2. k \in 1..n /\ k - 1 = j /\ j \in 0..n BY <2>1
  <2>3. PICK x, y : x = g[j] /\ y = v[k] OBVIOUS
  <2>4. IsSeq(x) BY <1>3a, <2>2, <2>3
  <2>5. Len(x) > 0 /\ x[1] = b BY <1>6, <2>1, <2>2, <2>3
  <2>6. g[k] = IF lo + k \in S THEN x ELSE Append(x, y) BY <1>3a, <2>2, <2>3
  <2>7. Len(Append(x, y)) = Len(x) + 1 /\ \A p \in 1..Len(x) : Append(x, y)[p] = x[p]
    BY <2>4, SeqAppend
  <2>8. Len(x) \in Nat /\ 1 \in 1..Len(x) BY <2>4, <2>5 DEF IsSeq
  <2>9. Len(g[k]) > 0 /\ g[k][1] = b
    <3>1. CASE lo + k \in S BY <2>5, <2>6, <3>1
    <3>2. CASE lo + k \notin S BY <2>5, <2>6, <2>7, <2>8, <3>2
    <3> QED BY <3>1, <3>2
  <2> QED BY <2>1, <2>9
<1> HIDE DEF I
<1>7. Nat \subseteq I BY <1>5, <1>6, W!SetInduction
<1>8. n - 1 \in I /\ (n - 1) + 1 = n BY <1>2, <1>7
<1>9. (n - 1) + 1 <= n => g[(n - 1) + 1][1] = b BY <1>8 DEF I
<1> QED BY <1>3a, <1>4, <1>8, <1>9

LEMMA ShownNone ==
    ASSUME NEW lo, NEW S
    PROVE  Shown(<<>>, lo, S) = <<>>
<1>1. PICK v : v = <<>> OBVIOUS
<1>2. IsSeq(v) /\ Len(v) = 0 BY <1>1, EmptyIsSeq
<1>3. PICK g : g[0] = <<>> /\ Shown(v, lo, S) = g[Len(v)] BY <1>2, ShownCourse
<1> QED BY <1>1, <1>2, <1>3

-----------------------------------------------------------------------------
(* What has left the window is the raw stream up to the frontier, and the  *)
(* frontier is the head of a turn.                                         *)

Kept(r) ==
    /\ IsSeq(r.past) /\ Len(r.past) = r.base
    /\ r.past = <<>> \/ (r.out # <<>> /\ OpensTurn(r.out[1]))

\* One shaping of what has left the window.
Shaped(r) == FinishTurns(Shown(r.past, 0, r.gone))

LEMMA AssembleNext ==
    ASSUME NEW r, IsReplayer(r), Kept(r), NEW k \in 0..Len(r.out), NEW x, x = SubSeq(r.out, 1, k)
    PROVE  /\ FinishTurns(Shown(r.past \o x, 0, r.gone))
                  = Shaped(r) \o FinishTurns(Shown(x, r.base, r.suppress))
           /\ IsSeq(Shaped(r))
<1>1. PICK o, past, base : o = r.out /\ past = r.past /\ base = r.base OBVIOUS
<1>2. IsSeq(o) /\ Len(o) \in Nat /\ k \in Nat /\ k <= Len(o) /\ base \in Nat
  BY <1>1 DEF IsReplayer, IsSeq
<1>3. IsSeq(x) /\ Len(x) = k /\ \A j \in 1..k : x[j] = o[j] BY <1>1, <1>2, SubFirst
<1>4. IsSeq(past) /\ Len(past) = base BY <1>1 DEF Kept
<1>5. Shown(past \o x, 0, r.gone) = Shown(past, 0, r.gone) \o Shown(x, base, r.gone)
  <2>1. 0 \in Nat /\ 0 + Len(past) = base BY <1>2, <1>4
  <2>2. PICK S, lo : S = r.gone /\ lo = 0 OBVIOUS
  <2>3. lo \in Nat /\ IsSeq(past) /\ IsSeq(x) BY <1>3, <1>4, <2>2
  <2>4. Shown(past \o x, lo, S) = Shown(past, lo, S) \o Shown(x, lo + Len(past), S)
    BY <2>3, ShownSplit
  <2> QED BY <2>1, <2>2, <2>4
<1>6. Shown(x, base, r.gone) = Shown(x, base, r.suppress)
  <2>1. ASSUME NEW i \in 1..Len(x) PROVE base + i \in r.gone <=> base + i \in r.suppress
    <3>1. base + i \in Nat /\ base + i > base BY <1>2, <1>3
    <3> QED BY <1>1, <3>1 DEF IsReplayer
  <2>2. PICK S, T : S = r.gone /\ T = r.suppress OBVIOUS
  <2> QED BY <1>3, <2>1, <2>2, ShownSame
<1>7. PICK u, v : u = Shown(past, 0, r.gone) /\ v = Shown(x, base, r.suppress) OBVIOUS
<1>8. IsSeq(u) /\ IsSeq(v) BY <1>3, <1>4, <1>7, ShownFacts
<1>9. u = <<>> \/ v = <<>> \/ OpensTurn(v[1])
  <2>1. CASE past = <<>> BY <1>7, <2>1, ShownNone
  <2>2. CASE x = <<>> BY <1>7, <2>2, ShownNone
  <2>3. CASE past # <<>> /\ x # <<>>
    <3>1. o # <<>> /\ OpensTurn(o[1]) BY <1>1, <2>3 DEF Kept
    <3>2. k # 0 BY <1>3, <2>3, LenZero
    <3>3. 1 \in 1..k /\ x[1] = o[1] BY <1>2, <1>3, <3>2
    <3>4. base + 1 \notin r.suppress
      <4> SUFFICES ASSUME base + 1 \in r.suppress PROVE FALSE OBVIOUS
      <4>1. base + 1 \in Nat /\ base + 1 > base /\ (base + 1) - base = 1 BY <1>2
      <4>2. base + 1 \in r.gone BY <1>1, <4>1 DEF IsReplayer
      <4>3. Marks(r, base + 1) BY <4>2 DEF IsReplayer
      <4>4. o[1].kind = "QueueEvent" BY <1>1, <4>1, <4>3 DEF Marks
      <4> QED BY <3>1, <4>4 DEF OpensTurn
    <3>5. PICK S : S = r.suppress OBVIOUS
    <3>6. IsSeq(x) /\ x # <<>> /\ base + 1 \notin S BY <1>3, <2>3, <3>4, <3>5
    <3>7. Shown(x, base, S)[1] = x[1] BY <3>6, ShownHead
    <3> QED BY <1>7, <3>1, <3>3, <3>5, <3>7
  <2> QED BY <2>1, <2>2, <2>3
<1>10. FinishTurns(u \o v) = FinishTurns(u) \o FinishTurns(v) BY <1>8, <1>9, FinishSplit
<1>11. Shaped(r) = FinishTurns(u) BY <1>1, <1>7 DEF Shaped
<1>12. IsSeq(FinishTurns(u)) BY <1>8, FinishTurnsFacts
<1> QED BY <1>1, <1>5, <1>6, <1>7, <1>10, <1>11, <1>12

LEMMA FinalizeKept ==
    ASSUME NEW r, IsReplayer(r), Kept(r), NEW z, z = FinalizeCompleted(r)
    PROVE  Kept(z) /\ Shaped(z) = Shaped(r) \o z.durable
<1>1. PICK o, n : o = r.out /\ n = Len(o) OBVIOUS
<1>2. IsSeq(o) /\ n \in Nat BY <1>1 DEF IsReplayer, IsSeq
<1>3. PICK h : h = SelectLastInSeq(o, OpensTurn) OBVIOUS
<1>4. h = SelectLastInSubSeq(o, 1, n, OpensTurn)
  BY <1>1, <1>3 DEF SelectLastInSeq, SelectLastInSubSeq
<1>5. \/ h = 0 /\ \A i \in 1..n : ~OpensTurn(o[i])
      \/ h \in 1..n /\ OpensTurn(o[h])
  BY <1>2, <1>4, LastOpener
<1>6. PICK p : p = IF h = 0 THEN 0 ELSE QueuePin(r, h - 1) OBVIOUS
<1>7. z = IF p = 0 THEN [r EXCEPT !.durable = <<>>] ELSE Drain(r, p)
  BY <1>1, <1>3, <1>6 DEF FinalizeCompleted
<1>8. p = 0 \/ (p \in 1..(n - 1) /\ OpensTurn(o[p + 1]))
  <2>1. CASE h = 0 BY <1>6, <2>1
  <2>2. CASE h # 0
    <3>1. PICK k \in Nat : k = h - 1 BY <1>5, <2>2
    <3>2. k \in 0..n /\ k + 1 = h /\ k <= n - 1 BY <1>2, <1>5, <2>2, <3>1
    <3>3. p = QueuePin(r, k) BY <1>6, <2>2, <3>1
    <3>4. p \in 0..k /\ (p = k \/ p = 0 \/ OpensTurn(o[p + 1]))
      BY <1>1, <3>2, <3>3, PinFacts
    <3>5. OpensTurn(o[k + 1]) BY <1>5, <2>2, <3>2
    <3> QED BY <1>2, <3>2, <3>4, <3>5
  <2> QED BY <2>1, <2>2
<1>9. IsSeq(Shaped(r))
  <2>1. IsSeq(Shown(r.past, 0, r.gone)) BY ShownFacts DEF Kept
  <2> QED BY <2>1, FinishTurnsFacts DEF Shaped
<1>10. CASE p = 0
  <2>1. z = [r EXCEPT !.durable = <<>>] BY <1>7, <1>10
  <2>2. /\ z.out = r.out /\ z.base = r.base /\ z.durable = <<>> /\ z.past = r.past
        /\ z.gone = r.gone
    BY <2>1 DEF IsReplayer, Fields
  <2>3. Kept(z) /\ Shaped(z) = Shaped(r) BY <2>2 DEF Kept, Shaped
  <2>4. Shaped(r) \o <<>> = Shaped(r) BY <1>9, ConcatNone
  <2> QED BY <2>2, <2>3, <2>4
<1>11. CASE p # 0
  <2>1. z = Drain(r, p) /\ p \in 0..Len(r.out) /\ p \in 1..(n - 1) BY <1>1, <1>7, <1>8, <1>11
  <2>2. PICK x : x = SubSeq(r.out, 1, p) OBVIOUS
  <2>3. /\ z.out = SubSeq(r.out, p + 1, Len(r.out))
        /\ z.base = r.base + p
        /\ z.durable = FinishTurns(Shown(x, r.base, r.suppress))
        /\ z.past = r.past \o x /\ z.gone = r.gone
    <3>1. z = Drain(r, p) /\ p \in 0..Len(r.out) BY <2>1
    <3>2. Drained(r, p, z) BY <3>1, DrainFacts
    <3> QED BY <2>2, <3>2 DEF Drained
  <2>4. FinishTurns(Shown(r.past \o x, 0, r.gone))
           = Shaped(r) \o FinishTurns(Shown(x, r.base, r.suppress))
    BY <2>1, <2>2, AssembleNext
  <2>5. Shaped(z) = Shaped(r) \o z.durable BY <2>3, <2>4 DEF Shaped
  <2>6. IsSeq(x) /\ Len(x) = p BY <2>1, <2>2, SubFirst
  <2>7. IsSeq(z.past) /\ Len(z.past) = z.base
    <3>1. PICK past : past = r.past OBVIOUS
    <3>2. IsSeq(past) /\ Len(past) = r.base BY <3>1 DEF Kept
    <3>3. IsSeq(past \o x) /\ Len(past \o x) = Len(past) + Len(x) BY <2>6, <3>2, SeqConcat
    <3> QED BY <2>3, <2>6, <3>1, <3>2, <3>3
  <2>8. z.out # <<>> /\ OpensTurn(z.out[1])
    <3>1. PICK y : y = SubSeq(o, p + 1, n) OBVIOUS
    <3>2. p \in Nat /\ p <= n BY <1>2, <2>1
    <3>3. IsSeq(y) /\ Len(y) = n - p /\ \A j \in 1..(n - p) : y[j] = o[p + j]
      BY <1>2, <3>1, <3>2, SubRest
    <3>4. 1 \in 1..(n - p) /\ n - p # 0 BY <1>2, <2>1
    <3>5. y # <<>> BY <3>3, <3>4, LenZero
    <3>6. y[1] = o[p + 1] BY <3>3, <3>4
    <3> QED BY <1>1, <1>8, <1>11, <2>3, <3>1, <3>5, <3>6
  <2> QED BY <2>5, <2>7, <2>8 DEF Kept
<1> QED BY <1>10, <1>11

LEMMA ApplyKept ==
    ASSUME NEW r, NEW ts, NEW line \in Lines, IsReplayer(r), Kept(r), NEW z, z = Apply(r, ts, line)
    PROVE  Kept(z) /\ Shaped(z) = Shaped(r) \o z.durable
<1>1. PICK s : s = LineStart(r, ts) OBVIOUS
<1>2. Stamps(r, s) /\ IsReplayer(s) BY <1>1, LineStartStamps DEF Stamps
<1>3. PICK f : f = FoldLeft(ApplyMessage, s, line) OBVIOUS
<1>4. Moves(s, f) /\ IsReplayer(f) BY <1>2, <1>3, LineMoves DEF Moves
<1>5. z = FinalizeCompleted(f) BY <1>1, <1>3 DEF Apply
<1>6. /\ f.base = r.base /\ f.past = r.past
      /\ Len(r.out) <= Len(f.out) /\ \A i \in 1..Len(r.out) : f.out[i].kind = r.out[i].kind
      /\ \A m \in Nat : m <= r.base => (m \in f.gone <=> m \in r.gone)
  BY <1>2, <1>4 DEF Stamps, Moves
<1>7. Kept(f)
  <2>1. CASE r.past = <<>> BY <1>6, <2>1 DEF Kept
  <2>2. CASE r.out # <<>> /\ OpensTurn(r.out[1])
    <3>1. IsSeq(r.out) /\ IsSeq(f.out) BY <1>4 DEF IsReplayer
    <3>2. Len(r.out) \in Nat /\ Len(r.out) # 0 /\ Len(f.out) \in Nat
      BY <2>2, <3>1, LenZero DEF IsSeq
    <3>3. 1 \in 1..Len(r.out) BY <3>2
    <3>4. f.out[1].kind = r.out[1].kind BY <1>6, <3>3
    <3>5. Len(f.out) # 0 BY <1>6, <3>2
    <3>6. f.out # <<>> BY <3>1, <3>5, LenZero
    <3>7. OpensTurn(f.out[1]) BY <2>2, <3>4 DEF OpensTurn
    <3> QED BY <1>6, <3>6, <3>7 DEF Kept
  <2> QED BY <2>1, <2>2 DEF Kept
<1>8. Shaped(f) = Shaped(r)
  <2>1. PICK past, lo, S, T : past = r.past /\ lo = 0 /\ S = f.gone /\ T = r.gone OBVIOUS
  <2>2. IsSeq(past) /\ Len(past) = r.base /\ r.base \in Nat BY <2>1 DEF Kept, IsReplayer
  <2>3. \A i \in 1..Len(past) : lo + i \in S <=> lo + i \in T
    <3>1. \A i \in 1..Len(past) : lo + i = i /\ i \in Nat /\ i <= r.base BY <2>1, <2>2
    <3> QED BY <1>6, <2>1, <3>1
  <2>4. Shown(past, lo, S) = Shown(past, lo, T) BY <2>2, <2>3, ShownSame
  <2> QED BY <1>6, <2>1, <2>4 DEF Shaped
<1>9. Kept(z) /\ Shaped(z) = Shaped(f) \o z.durable BY <1>4, <1>5, <1>7, FinalizeKept
<1> QED BY <1>8, <1>9

-----------------------------------------------------------------------------
(* The content log is whole.                                               *)

\* The blocks of a content log.
Blocks(log) == [i \in DOMAIN log |-> log[i].block]

\* What is committed is one shaping of what has left the window.
Whole(a) == IsAcc(a) /\ Kept(a.r) /\ Blocks(a.log) = Shaped(a.r)

LEMMA BlocksFacts ==
    ASSUME NEW log, IsSeq(log), NEW t, t = Blocks(log)
    PROVE  IsSeq(t) /\ Len(t) = Len(log) /\ \A i \in 1..Len(log) : t[i] = log[i].block
<1>1. DOMAIN log = 1..Len(log) BY SeqTyped
<1>2. t = [i \in DOMAIN log |-> log[i].block] BY DEF Blocks
<1>3. t = [i \in DOMAIN log |-> t[i]] BY <1>2
<1>4. IsSeq(t) /\ Len(t) = Len(log) BY <1>3, SeqLike
<1> QED BY <1>1, <1>2, <1>4

LEMMA BlocksJoin ==
    ASSUME NEW log, NEW new, NEW d, IsSeq(log), IsSeq(new), IsSeq(d),
           Len(new) = Len(log) + Len(d),
           \A i \in 1..Len(log) : new[i] = log[i],
           \A j \in 1..Len(d) : new[Len(log) + j].block = d[j]
    PROVE  Blocks(new) = Blocks(log) \o d
<1>1. PICK m \in Nat, n \in Nat : m = Len(log) /\ n = Len(d) BY DEF IsSeq
<1>2. PICK s, t : s = Blocks(log) /\ t = Blocks(new) OBVIOUS
<1>3. IsSeq(s) /\ Len(s) = m /\ \A i \in 1..m : s[i] = log[i].block
  BY <1>1, <1>2, BlocksFacts
<1>4. IsSeq(t) /\ Len(t) = m + n /\ \A i \in 1..(m + n) : t[i] = new[i].block
  BY <1>1, <1>2, BlocksFacts
<1>5. PICK u : u = s \o d OBVIOUS
<1>6. /\ IsSeq(u) /\ Len(u) = m + n
      /\ \A i \in 1..m : u[i] = s[i]
      /\ \A i \in 1..n : u[m + i] = d[i]
  <2>1. IsSeq(s) /\ IsSeq(d) BY <1>3
  <2>2. /\ IsSeq(u) /\ Len(u) = Len(s) + Len(d)
        /\ \A i \in 1..Len(s) : u[i] = s[i]
        /\ \A i \in 1..Len(d) : u[Len(s) + i] = d[i]
    BY <1>5, <2>1, SeqConcat
  <2>3. Len(s) = m /\ Len(d) = n BY <1>1, <1>3
  <2> QED BY <2>2, <2>3
<1>7. ASSUME NEW i \in 1..Len(t) PROVE t[i] = u[i]
  <2>1. CASE i \in 1..m
    <3>1. i \in 1..(m + n) BY <2>1
    <3> QED BY <1>1, <1>3, <1>4, <1>6, <2>1, <3>1
  <2>2. CASE i \notin 1..m
    <3>1. PICK j : j = i - m OBVIOUS
    <3>2. j \in 1..n /\ m + j = i /\ i \in 1..(m + n) BY <1>4, <2>2, <3>1
    <3>3. new[m + j].block = d[j] BY <1>1, <3>2
    <3>4. u[m + j] = d[j] BY <1>6, <3>2
    <3> QED BY <1>4, <3>2, <3>3, <3>4
  <2> QED BY <2>1, <2>2
<1>8. t = u BY <1>4, <1>6, <1>7, SameSeq
<1> QED BY <1>2, <1>5, <1>8

\* One line more leaves the log whole (`advance_from_source`).
LEMMA AdvanceWhole ==
    ASSUME NEW a, Whole(a), NEW n \in Nat \ {0}, NEW line \in Lines,
           NEW z, z = AdvanceAt(a, n, line)
    PROVE  Whole(z)
<1>1. PICK r : r = Apply(a.r, n, line) OBVIOUS
<1>2. IsReplayer(r) /\ IsSeq(r.durable)
  <2>1. IsReplayer(a.r) /\ Bounded(a.r) /\ Timed(a.r, a.turns) BY DEF Whole, IsAcc
  <2> QED BY <1>1, <2>1, ApplyFacts
<1>3. PICK here : here = [logical |-> RawLen(a.r), offset |-> n - 1, tokens |-> a.tokens,
                          pending |-> a.r.pending]
  OBVIOUS
<1>4. PICK b : b = [a EXCEPT !.r = r,
                             !.boundary = IF Candidate(a.r, r, line) THEN Append(@, here) ELSE @]
  OBVIOUS
<1>5. PICK c : c = IF r.durable = <<>> THEN b ELSE Commit(b) OBVIOUS
<1>6. z = [c EXCEPT !.tokens = @ + 1] BY <1>1, <1>3, <1>4, <1>5 DEF AdvanceAt
<1>7. /\ DOMAIN b = AccFields /\ b.r = r
      /\ b.boundary = a.boundary \/ b.boundary = Append(a.boundary, here)
      /\ b.log = a.log /\ b.emitted = a.emitted /\ b.out = a.out /\ b.tokens = a.tokens
      /\ b.turns = a.turns
  BY <1>4 DEF Whole, IsAcc, AccFields
<1>8. IsAcc(z)
  <2>1. IsAcc(a) BY DEF Whole
  <2> QED BY <2>1, AdvanceFacts
<1>9. IsReplayer(a.r) /\ Kept(a.r) /\ IsSeq(a.log) /\ Blocks(a.log) = Shaped(a.r)
  BY DEF Whole, IsAcc
<1>10. Kept(r) /\ Shaped(r) = Shaped(a.r) \o r.durable
  <2>1. PICK q : q = a.r OBVIOUS
  <2> QED BY <1>1, <1>9, <2>1, ApplyKept
<1>11. DOMAIN c = AccFields /\ c.r = r /\ Blocks(c.log) = Blocks(a.log) \o r.durable
  <2>1. CASE r.durable = <<>>
    <3>1. PICK t : t = Blocks(a.log) OBVIOUS
    <3>2. IsSeq(t) BY <1>9, <3>1, BlocksFacts
    <3>3. t \o <<>> = t BY <3>2, ConcatNone
    <3> QED BY <1>5, <1>7, <2>1, <3>1, <3>3
  <2>2. CASE r.durable # <<>>
    <3>1. c = Commit(b) BY <1>5, <2>2
    <3>2. IsBoundary(b.boundary)
      <4>1. IsBoundary(a.boundary) /\ a.tokens \in Nat /\ a.emitted \in Nat
        BY DEF Whole, IsAcc, IsBoundary
      <4>2. here.offset \in Nat /\ here.tokens = a.tokens BY <1>3
      <4> QED BY <1>7, <4>1, <4>2, BoundaryNext
    <3>3. /\ IsStream(b.out) /\ b.emitted \in Nat /\ IsSeq(b.log) /\ b.turns \in Nat
          /\ IsSeq(b.r.durable) /\ b.r.durable # <<>>
      BY <1>2, <1>7, <2>2 DEF Whole, IsAcc, Timed
    <3>4. PICK full : Committed(b, c, full) BY <1>7, <3>1, <3>2, <3>3, CommitFacts
    <3>5. PICK log, new, d : log = a.log /\ new = c.log /\ d = r.durable OBVIOUS
    <3>6. /\ IsSeq(new) /\ Len(new) = Len(log) + Len(d)
          /\ \A i \in 1..Len(log) : new[i] = log[i]
          /\ \A j \in 1..Len(d) : new[Len(log) + j].block = d[j]
      BY <1>7, <3>4, <3>5 DEF Committed
    <3>7. IsSeq(log) /\ IsSeq(d) BY <1>2, <1>9, <3>5
    <3>8. Blocks(new) = Blocks(log) \o d BY <3>6, <3>7, BlocksJoin
    <3>9. DOMAIN c = AccFields /\ c.r = r BY <1>7, <3>4 DEF Committed
    <3> QED BY <3>5, <3>8, <3>9
  <2> QED BY <2>1, <2>2
<1>12. z.r = r /\ z.log = c.log BY <1>6, <1>11 DEF AccFields
<1> QED BY <1>8, <1>9, <1>10, <1>11, <1>12 DEF Whole

LEMMA NewWhole == Whole(NewAccumulator)
<1>1. PICK a : a = NewAccumulator OBVIOUS
<1>2. IsAcc(a) /\ a.log = <<>> /\ a.r = NewReplayer BY <1>1, NewAccFacts DEF NewAccumulator
<1>3. PICK r : r = NewReplayer OBVIOUS
<1>4. r.past = <<>> /\ r.base = 0 /\ r.gone = {} BY <1>3 DEF NewReplayer
<1>5. Kept(r) BY <1>4, EmptyIsSeq DEF Kept
<1>6. Shaped(r) = <<>> BY <1>4, ShownNone, FinishNone DEF Shaped
<1>7. PICK t : t = Blocks(a.log) OBVIOUS
<1>8. IsSeq(t) /\ Len(t) = 0 BY <1>2, <1>7, EmptyIsSeq, BlocksFacts
<1>9. t = <<>> BY <1>8, LenZero
<1> QED BY <1>1, <1>2, <1>3, <1>5, <1>6, <1>7, <1>9 DEF Whole

\* A fold from the start, line by line.
LEMMA ColdWhole ==
    ASSUME NEW lines \in Seq(Lines)
    PROVE  Whole(Cold(lines))
<1>1. PICK a, from : a = NewAccumulator /\ from = 0 OBVIOUS
<1> DEFINE at == [i \in 1..(Len(lines) - from) |-> from + i]
<1>2. Cold(lines) = A!Fold(lines, a, at)
  <2>1. AdvanceOver(a, lines, from) = A!Fold(lines, a, at)
    BY Zenon DEF A!Fold, FoldLeft, A!MapThenFoldSet, MapThenFoldSet,
                 A!Max, Max, AdvanceOver, LineStep
  <2> HIDE DEF at
  <2> QED BY <1>1, <2>1 DEF Cold
<1>3. PICK n \in Nat : n = Len(lines) - from
  <2>1. Len(lines) \in Nat OBVIOUS
  <2>2. Len(lines) - from \in Nat BY <1>1, <2>1
  <2> HIDE DEF at
  <2> QED BY <2>2
<1>4. DOMAIN at = 1..n /\ \A i \in 1..n : at[i] = from + i BY <1>3
<1> HIDE DEF at
<1>5. PICK g : A!Course(g, lines, a, at, n) /\ A!Fold(lines, a, at) = g[n]
  BY <1>4, A!FoldCourse
<1>6. g[0] = a /\ \A i \in 1..n : g[i] = AdvanceAt(g[i - 1], from + i, lines[from + i])
  BY <1>4, <1>5 DEF A!Course, LineStep
<1> DEFINE S == {i \in Nat : i <= n => Whole(g[i])}
<1>7. 0 \in S BY <1>1, <1>6, NewWhole
<1>8. ASSUME NEW i \in Nat, i \in S PROVE i + 1 \in S
  <2> SUFFICES ASSUME i + 1 <= n PROVE Whole(g[i + 1]) OBVIOUS
  <2>1. i + 1 \in 1..n /\ (i + 1) - 1 = i OBVIOUS
  <2>2. PICK x, y, k, line : /\ x = g[i] /\ y = g[i + 1]
                             /\ k = from + (i + 1) /\ line = lines[from + (i + 1)]
    OBVIOUS
  <2>3. y = AdvanceAt(x, k, line) BY <1>6, <2>1, <2>2
  <2>4. k \in Nat \ {0} /\ line \in Lines BY <1>1, <1>3, <2>1, <2>2
  <2>5. Whole(x) BY <1>8, <2>2
  <2>6. Whole(y) BY <2>3, <2>4, <2>5, AdvanceWhole
  <2> QED BY <2>2, <2>6
<1> HIDE DEF S
<1>9. Nat \subseteq S BY <1>7, <1>8, A!SetInduction
<1> QED BY <1>2, <1>5, <1>9 DEF S

-----------------------------------------------------------------------------
(* What holds in every state of a followed session and its entry, for      *)
(* every transcript, every bound and every place a crash can cut the files.*)

\* The state has its types: the store's image is the content log, nothing
\* authored is left unwritten after a tick, the time stamps never fall behind
\* the frontier and a resume point names at least one block of the log
\* (engine/builder.rs, engine/meta_stream.rs).
THEOREM EntryTypes == Spec => []TypeOK
<1>1. EntryInv => TypeOK
  <2> SUFFICES ASSUME EntryInv PROVE TypeOK OBVIOUS
  <2>1. source \in Seq(Lines) /\ Len(source) <= MaxLines
    BY LenProperties, EntryAssumption DEF EntryInv
  <2>2. acc.r.stamped >= acc.r.base
    <3>1. PICK r : r = acc.r OBVIOUS
    <3>2. r.base \in Nat /\ Len(r.out) \in Nat /\ r.stamped \in r.base..(r.base + Len(r.out))
      BY <3>1 DEF EntryInv, IsAcc, IsReplayer, IsSeq
    <3>3. r.stamped >= r.base BY <3>2
    <3> QED BY <3>1, <3>3
  <2>3. ASSUME NEW rec \in ToSet(meta), rec.resume.id # Nil PROVE rec.resume.id \in Nat \ {0}
    <3>1. IsStream(meta) BY DEF EntryInv
    <3>2. DOMAIN meta = 1..Len(meta) BY <3>1, SeqTyped DEF IsStream
    <3>3. PICK i \in DOMAIN meta : rec = meta[i] BY DEF ToSet
    <3>4. IsRecord(rec) BY <3>1, <3>2, <3>3 DEF IsStream
    <3> QED BY <2>3, <3>4 DEF IsRecord
  <2> QED BY <2>1, <2>2, <2>3 DEF TypeOK, EntryInv
<1> QED BY <1>1, EntryInvariant, PTL

\* However long a prompt stays queued, the open zone never holds more turns
\* than the pin allows and the one being written: the frontier of
\* `finalize_completed` cannot freeze.
THEOREM FrontierNeverFreezes == Spec => []FrontierMoves
<1>1. EntryInv => FrontierMoves BY DEF EntryInv, IsAcc, Bounded, FrontierMoves
<1> QED BY <1>1, EntryInvariant, PTL

\* Recovery never throws away an entry for a checkpoint that disagrees with
\* the records before it, so long as the transcript was only appended to:
\* what `author_resume` writes from the maintained totals is what
\* `MaterializedMeta::push` folds from the deltas, across every crash and resume.
THEOREM CheckpointsAlwaysAgree == Spec => []CheckpointsAgree
<1>1. EntryInv => CheckpointsAgree
  <2> SUFFICES ASSUME EntryInv, ~dirty PROVE ~Mismatch(meta, Len(content))
    BY DEF CheckpointsAgree
  <2>1. IsStream(meta) /\ Agrees(meta) BY DEF EntryInv, Tied
  <2> QED BY <2>1, AgreesNoMismatch
<1> QED BY <1>1, EntryInvariant, PTL

\* What a reader is shown by a fold of the whole transcript, the content log
\* committed turn by turn and the open zone after it, is what one final shaping
\* of the whole raw stream shows: `finalize_completed` never cuts a span in two,
\* and never commits the marker of a prompt that is delivered later
\* (`Replayer::assemble`), whatever the transcript and however long a prompt
\* holds the frontier back.
THEOREM AssembledAlways == Spec => []Assembled
<1>1. EntryInv => Assembled
  <2> SUFFICES ASSUME EntryInv PROVE Assembled OBVIOUS
  <2>1. PICK a : a = Cold(source) OBVIOUS
  <2>2. Whole(a) BY <2>1, ColdWhole DEF EntryInv
  <2>3. PICK r, x : r = a.r /\ x = a.r.out OBVIOUS
  <2>4. IsReplayer(r) /\ Kept(r) /\ Blocks(a.log) = Shaped(r) BY <2>2, <2>3 DEF Whole, IsAcc
  <2>5. IsSeq(x) /\ x = r.out BY <2>3, <2>4 DEF IsReplayer
  <2>6. SubSeq(r.out, 1, Len(r.out)) = x /\ Len(r.out) \in 0..Len(r.out)
    BY <2>5, SubAll DEF IsSeq
  <2>7. FinishTurns(Shown(r.past \o x, 0, r.gone))
           = Shaped(r) \o FinishTurns(Shown(x, r.base, r.suppress))
    BY <2>4, <2>6, AssembleNext
  <2>8. OpenSnapshot(r) = FinishTurns(Shown(x, r.base, r.suppress))
    BY <2>5 DEF OpenSnapshot
  <2>9. Blocks(a.log) \o OpenSnapshot(a.r) = FinishTurns(Shown(a.r.past \o a.r.out, 0, a.r.gone))
    BY <2>3, <2>4, <2>7, <2>8
  <2> QED BY <2>1, <2>9 DEF Assembled, Blocks
<1> QED BY <1>1, EntryInvariant, PTL
=============================================================================
