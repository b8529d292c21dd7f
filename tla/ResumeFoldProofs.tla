---------------------------- MODULE ResumeFoldProofs ---------------------------
(***************************************************************************)
(* Two folds that differ only in what came before.  A session resumed at a *)
(* boundary folds the lines after it from an empty window whose base is    *)
(* the number of blocks already stored; the fold that read the transcript  *)
(* from the start reaches the same line with those blocks behind it.  This *)
(* module says in what sense the two are alike (Alike), that a line takes  *)
(* alike folds to alike folds (LineShifts), and that what they then        *)
(* publish is the same: the frontier, the records that leave the window,   *)
(* the snapshot (FrontierAlike, DurableAlike, SnapshotAlike).  It          *)
(* closes with what leaves a window for good (ApplyGood).                  *)
(*                                                                         *)
(* The simulation is one of indices: every block index the resumed fold    *)
(* holds is the other's, except those before the resumed line, which it    *)
(* has lost and which no later line names.                                 *)
(***************************************************************************)
EXTENDS DurableEntryProofs

-----------------------------------------------------------------------------
(* The relayed messages among some blocks.                                 *)

\* A relayed message is among blocks if one of them is its block.
LEMMA InboxIn ==
    ASSUME NEW s, IsSeq(s), NEW x
    PROVE  x \in InboxOf(s) <=> \E i \in 1..Len(s) : s[i].kind = "UserInbox" /\ x = s[i].name
<1>1. DOMAIN s = 1..Len(s) BY SeqTyped
<1>2. ToSet(s) = {s[i] : i \in 1..Len(s)} BY <1>1 DEF ToSet
<1> QED BY <1>2 DEF InboxOf

LEMMA InboxNone == InboxOf(<<>>) = {}
<1>1. \A x : x \notin InboxOf(<<>>)
  <2>1. 1..0 = {} OBVIOUS
  <2> QED BY <2>1, EmptyIsSeq, InboxIn
<1> QED BY <1>1

LEMMA InboxSame ==
    ASSUME NEW s, NEW t, IsSeq(s), IsSeq(t), Len(s) = Len(t),
           \A i \in 1..Len(s) : s[i].kind = t[i].kind /\ s[i].name = t[i].name
    PROVE  InboxOf(s) = InboxOf(t)
<1>1. \A x : x \in InboxOf(s) <=> x \in InboxOf(t) BY InboxIn
<1> QED BY <1>1

LEMMA InboxAppend ==
    ASSUME NEW s, NEW b, IsSeq(s)
    PROVE  InboxOf(Append(s, b))
              = InboxOf(s) \cup (IF b.kind = "UserInbox" THEN {b.name} ELSE {})
<1>1. PICK t : t = Append(s, b) OBVIOUS
<1>2. /\ IsSeq(t) /\ Len(t) = Len(s) + 1 /\ t[Len(s) + 1] = b
      /\ \A i \in 1..Len(s) : t[i] = s[i]
  BY <1>1, SeqAppend
<1>3. Len(s) \in Nat BY DEF IsSeq
<1>4. \A i \in 1..Len(t) : i \in 1..Len(s) \/ i = Len(s) + 1 BY <1>2, <1>3
<1>5. \A i \in 1..Len(s) : i \in 1..Len(t) BY <1>2, <1>3
<1>6. Len(s) + 1 \in 1..Len(t) BY <1>2, <1>3
<1>7. \A x : x \in InboxOf(t) <=> x \in InboxOf(s) \/ (b.kind = "UserInbox" /\ x = b.name)
  BY <1>2, <1>4, <1>5, <1>6, InboxIn
<1> QED BY <1>1, <1>7

\* Two sequences show the relayed messages of both.
LEMMA InboxConcat ==
    ASSUME NEW s, NEW t, IsSeq(s), IsSeq(t)
    PROVE  InboxOf(s \o t) = InboxOf(s) \cup InboxOf(t)
<1>1. PICK u : u = s \o t OBVIOUS
<1>2. /\ IsSeq(u) /\ Len(u) = Len(s) + Len(t)
      /\ \A i \in 1..Len(s) : u[i] = s[i]
      /\ \A i \in 1..Len(t) : u[Len(s) + i] = t[i]
  BY <1>1, SeqConcat
<1>3. Len(s) \in Nat /\ Len(t) \in Nat BY DEF IsSeq
<1>4. ASSUME NEW x \in InboxOf(u) PROVE x \in InboxOf(s) \/ x \in InboxOf(t)
  <2>1. PICK i \in 1..Len(u) : u[i].kind = "UserInbox" /\ x = u[i].name BY <1>2, InboxIn
  <2>2. CASE i <= Len(s)
    <3>1. i \in 1..Len(s) BY <1>3, <2>2
    <3> QED BY <1>2, <2>1, <3>1, InboxIn
  <2>3. CASE i > Len(s)
    <3>1. i - Len(s) \in 1..Len(t) /\ Len(s) + (i - Len(s)) = i BY <1>2, <1>3, <2>3
    <3>2. u[i] = t[i - Len(s)] BY <1>2, <3>1
    <3> QED BY <2>1, <3>1, <3>2, InboxIn
  <2> QED BY <1>3, <2>2, <2>3
<1>5. ASSUME NEW x \in InboxOf(s) PROVE x \in InboxOf(u)
  <2>1. PICK i \in 1..Len(s) : s[i].kind = "UserInbox" /\ x = s[i].name BY InboxIn
  <2>2. i \in 1..Len(u) /\ u[i] = s[i] BY <1>2, <1>3
  <2> QED BY <1>2, <2>1, <2>2, InboxIn
<1>6. ASSUME NEW x \in InboxOf(t) PROVE x \in InboxOf(u)
  <2>1. PICK i \in 1..Len(t) : t[i].kind = "UserInbox" /\ x = t[i].name BY InboxIn
  <2>2. PICK j : j = Len(s) + i OBVIOUS
  <2>3. j \in 1..Len(u) /\ u[j] = t[i] BY <1>2, <1>3, <2>2
  <2>4. u[j].kind = "UserInbox" /\ x = u[j].name BY <2>1, <2>3
  <2> QED BY <1>2, <2>3, <2>4, InboxIn
<1> QED BY <1>1, <1>4, <1>5, <1>6

-----------------------------------------------------------------------------
(* The fields a message writes.                                            *)

\* What each operation on the window writes, field by field: `push`,
\* joining a result, and taking prompts off the queue.
LEMMA PushFields ==
    ASSUME NEW r, NEW b, IsReplayer(r), NEW z, z = Push(r, b)
    PROVE  /\ z.out = Append(r.out, b) /\ z.queue = r.queue /\ z.suppress = r.suppress
           /\ z.slot = r.slot /\ z.skill = r.skill /\ z.inbox = r.inbox
           /\ IsSeq(z.out) /\ Len(z.out) = Len(r.out) + 1
           /\ \A i \in 1..Len(r.out) : z.out[i] = r.out[i]
           /\ z.out[Len(r.out) + 1] = b
<1>1. /\ z.out = Append(r.out, b) /\ z.queue = r.queue /\ z.suppress = r.suppress
      /\ z.slot = r.slot /\ z.skill = r.skill /\ z.inbox = r.inbox
  BY DEF Push, IsReplayer, Fields
<1>2. IsSeq(r.out) BY DEF IsReplayer
<1> QED BY <1>1, <1>2, SeqAppend

\* A block with one more patch in it.
Patched(b) == [b EXCEPT !.joined = @ + 1]

\* z is r with a patch in block i of its window.
Joined(r, i, z) ==
    /\ z.queue = r.queue /\ z.suppress = r.suppress
    /\ z.slot = r.slot /\ z.skill = r.skill /\ z.inbox = r.inbox
    /\ IsSeq(z.out) /\ Len(z.out) = Len(r.out)
    /\ \A j \in 1..Len(r.out) : j # i => z.out[j] = r.out[j]
    /\ z.out[i] = Patched(r.out[i])
    /\ z.out[i].joined = r.out[i].joined + 1
    /\ z.out[i].kind = r.out[i].kind /\ z.out[i].name = r.out[i].name

LEMMA JoinFields ==
    ASSUME NEW r, NEW i, IsReplayer(r), i \in 1..Len(r.out), NEW z, z = Join(r, i)
    PROVE  Joined(r, i, z)
<1>1. /\ z.out = [r.out EXCEPT ![i] = [r.out[i] EXCEPT !.joined = @ + 1]]
      /\ z.queue = r.queue /\ z.suppress = r.suppress
      /\ z.slot = r.slot /\ z.skill = r.skill /\ z.inbox = r.inbox
  BY DEF Join, IsReplayer, Fields
<1>2. Moves(r, z) /\ Len(z.out) = Len(r.out) BY JoinMoves
<1>3. IsSeq(z.out) BY <1>2 DEF Moves, IsReplayer
<1>4. IsSeq(r.out) /\ DOMAIN r.out = 1..Len(r.out) /\ IsBlock(r.out[i])
  BY SeqTyped DEF IsReplayer
<1>5. z.out[i] = [r.out[i] EXCEPT !.joined = @ + 1] BY <1>1, <1>4
<1>6. \A j \in 1..Len(r.out) : j # i => z.out[j] = r.out[j] BY <1>1, <1>4
<1>7. PICK b : b = r.out[i] OBVIOUS
<1>8. PICK e : e = [b EXCEPT !.joined = @ + 1] OBVIOUS
<1>9. e.joined = b.joined + 1 /\ e.kind = b.kind /\ e.name = b.name
  BY <1>4, <1>7, <1>8 DEF IsBlock
<1>10. z.out[i] = e BY <1>5, <1>7, <1>8
<1>11. z.out[i] = Patched(r.out[i]) BY <1>5 DEF Patched
<1> QED BY <1>1, <1>2, <1>3, <1>6, <1>7, <1>9, <1>10, <1>11 DEF Joined

\* Which item of a sequence is where once one is taken away.
LEMMA RemoveIs ==
    ASSUME NEW s, IsSeq(s), NEW i \in 1..Len(s), NEW z, z = RemoveAt(s, i)
    PROVE  /\ IsSeq(z) /\ Len(z) = Len(s) - 1
           /\ \A j \in 1..Len(z) : z[j] = IF j < i THEN s[j] ELSE s[j + 1]
<1>1. PICK x, y : x = SubSeq(s, 1, i - 1) /\ y = SubSeq(s, i + 1, Len(s)) OBVIOUS
<1>2. Len(s) \in Nat /\ i - 1 \in Nat /\ i \in Nat /\ i <= Len(s) BY DEF IsSeq
<1>3. IsSeq(x) /\ Len(x) = i - 1 /\ \A j \in 1..(i - 1) : x[j] = s[j]
  BY <1>1, <1>2, SubFirst
<1>4. IsSeq(y) /\ Len(y) = Len(s) - i /\ \A j \in 1..(Len(s) - i) : y[j] = s[i + j]
  BY <1>1, <1>2, SubRest
<1>5. z = x \o y BY <1>1 DEF RemoveAt
<1>6. /\ IsSeq(z) /\ Len(z) = Len(x) + Len(y)
      /\ \A j \in 1..Len(x) : z[j] = x[j]
      /\ \A j \in 1..Len(y) : z[Len(x) + j] = y[j]
  <2>1. IsSeq(x) /\ IsSeq(y) BY <1>3, <1>4
  <2> QED BY <1>5, <2>1, SeqConcat
<1>7. Len(z) = Len(s) - 1 BY <1>2, <1>3, <1>4, <1>6
<1>8. ASSUME NEW j \in 1..Len(z) PROVE z[j] = IF j < i THEN s[j] ELSE s[j + 1]
  <2>1. CASE j < i
    <3>1. j \in 1..(i - 1) BY <1>2, <2>1
    <3> QED BY <1>3, <1>6, <2>1, <3>1
  <2>2. CASE ~(j < i)
    <3>1. j - (i - 1) \in 1..Len(y) /\ (i - 1) + (j - (i - 1)) = j
          /\ i + (j - (i - 1)) = j + 1
      BY <1>2, <1>4, <1>7, <2>2
    <3>2. z[(i - 1) + (j - (i - 1))] = y[j - (i - 1)] BY <1>3, <1>6, <3>1
    <3>3. y[j - (i - 1)] = s[i + (j - (i - 1))] BY <1>4, <3>1
    <3> QED BY <2>2, <3>1, <3>2, <3>3
  <2> QED BY <2>1, <2>2
<1> QED BY <1>6, <1>7, <1>8

\* z is r without item i of its queue.
Popped(r, i, z) ==
    /\ z.out = r.out /\ z.slot = r.slot /\ z.skill = r.skill /\ z.inbox = r.inbox
    /\ z.suppress = IF r.queue[i].marker = 0 THEN r.suppress
                    ELSE r.suppress \cup {r.queue[i].marker}
    /\ IsSeq(z.queue) /\ Len(z.queue) = Len(r.queue) - 1
    /\ \A j \in 1..Len(z.queue) :
          z.queue[j] = IF j < i THEN r.queue[j] ELSE r.queue[j + 1]

LEMMA PopFields ==
    ASSUME NEW r, IsReplayer(r), NEW i \in 1..Len(r.queue), NEW z, z = Pop(r, i)
    PROVE  Popped(r, i, z)
<1>1. /\ z.out = r.out /\ z.slot = r.slot /\ z.skill = r.skill /\ z.inbox = r.inbox
      /\ z.queue = RemoveAt(r.queue, i)
      /\ z.suppress = IF r.queue[i].marker = 0 THEN r.suppress
                      ELSE r.suppress \cup {r.queue[i].marker}
  BY DEF Pop, IsReplayer, Fields
<1>2. PICK q : q = r.queue OBVIOUS
<1>3. IsSeq(q) /\ i \in 1..Len(q) BY <1>2 DEF IsReplayer
<1>4. PICK y : y = RemoveAt(q, i) OBVIOUS
<1>5. /\ IsSeq(y) /\ Len(y) = Len(q) - 1
      /\ \A j \in 1..Len(y) : y[j] = IF j < i THEN q[j] ELSE q[j + 1]
  BY <1>3, <1>4, RemoveIs
<1> QED BY <1>1, <1>2, <1>4, <1>5 DEF Popped

\* The queued item a prompt takes along, 0 when there is none.
Found(queue, text) == SelectInSeq(queue, LAMBDA q : q.text = text)

\* A search of the queue finds a waiting prompt, or none.
LEMMA FoundIs ==
    ASSUME NEW r, NEW text
    PROVE  /\ Deliver(r, text) = IF Found(r.queue, text) = 0 THEN r
                                 ELSE Pop(r, Found(r.queue, text))
           /\ Found(r.queue, text) # 0 => Found(r.queue, text) \in 1..Len(r.queue)
<1> DEFINE I == {j \in 1..Len(r.queue) : r.queue[j].text = text}
<1>1. Found(r.queue, text) = IF I # {} THEN Min(I) ELSE 0 BY DEF Found, SelectInSeq
<1>2. ASSUME I # {} PROVE Min(I) \in 1..Len(r.queue)
  <2>1. I \in SUBSET Nat OBVIOUS
  <2>2. I \subseteq 1..Len(r.queue) OBVIOUS
  <2> HIDE DEF I
  <2> QED BY <1>2, <2>1, <2>2, MinIn
<1>3. Deliver(r, text) = IF Found(r.queue, text) = 0 THEN r ELSE Pop(r, Found(r.queue, text))
  BY DEF Deliver, Found
<1> HIDE DEF I
<1> QED BY <1>1, <1>2, <1>3

LEMMA FoundSame ==
    ASSUME NEW p, NEW q, NEW text, Len(p) = Len(q),
           \A i \in 1..Len(q) : p[i].text = q[i].text
    PROVE  Found(p, text) = Found(q, text)
<1>1. {j \in 1..Len(p) : p[j].text = text} = {j \in 1..Len(q) : q[j].text = text} OBVIOUS
<1> QED BY <1>1 DEF Found, SelectInSeq

-----------------------------------------------------------------------------
(* The window is tidy, and only grows within a line.                       *)

\* A logical index of the window.
Resident(r) == (r.base + 1)..(r.base + Len(r.out))

\* What the replayer remembers of its window is in the window, and the relayed
\* messages it has seen are those of the transcript.
Tidy(r) ==
    /\ \A i \in 1..Len(r.out) : r.out[i].joined \in Nat
    /\ \A x \in DOMAIN r.slot : r.slot[x] \in Resident(r)
    /\ r.skill = 0 \/ r.skill \in Resident(r)
    /\ r.inbox = InboxOf(r.past) \cup InboxOf(r.out)

\* A block of the window stays as it is, or more is patched into it.
Grows(r, z) ==
    /\ Moves(r, z) /\ Tidy(z)
    /\ \A i \in 1..Len(r.out) : /\ z.out[i].name = r.out[i].name
                                /\ z.out[i] = r.out[i] \/ r.out[i].joined < z.out[i].joined

LEMMA GrowsNot ==
    ASSUME NEW r, IsReplayer(r), Tidy(r)
    PROVE  Grows(r, r)
BY MovesNot DEF Grows

\* Growing, and then growing again, is growing.
LEMMA GrowsTwice ==
    ASSUME NEW r, NEW s, NEW t, IsReplayer(r), Tidy(r), Grows(r, s), Grows(s, t)
    PROVE  Grows(r, t)
<1>1. Moves(r, t) BY MovesTwice DEF Grows
<1>2. Len(r.out) \in Nat /\ Len(s.out) \in Nat /\ Len(t.out) \in Nat
      /\ Len(r.out) <= Len(s.out) /\ Len(s.out) <= Len(t.out)
  BY DEF IsReplayer, IsSeq, Moves, Grows
<1>3. ASSUME NEW i \in 1..Len(r.out)
      PROVE  /\ t.out[i].name = r.out[i].name
             /\ t.out[i] = r.out[i] \/ r.out[i].joined < t.out[i].joined
  <2>1. i \in 1..Len(s.out) /\ i \in 1..Len(t.out) BY <1>2
  <2>2. r.out[i].joined \in Nat /\ s.out[i].joined \in Nat /\ t.out[i].joined \in Nat
    BY <2>1 DEF Tidy, Grows
  <2>3. s.out[i].name = r.out[i].name /\ t.out[i].name = s.out[i].name BY <2>1 DEF Grows
  <2>4. s.out[i] = r.out[i] \/ r.out[i].joined < s.out[i].joined BY DEF Grows
  <2>5. t.out[i] = s.out[i] \/ s.out[i].joined < t.out[i].joined BY <2>1 DEF Grows
  <2>6. s.out[i] = r.out[i] => s.out[i].joined = r.out[i].joined OBVIOUS
  <2>7. t.out[i] = s.out[i] => t.out[i].joined = s.out[i].joined OBVIOUS
  <2>8. t.out[i] = r.out[i] \/ r.out[i].joined < t.out[i].joined
    BY <2>2, <2>4, <2>5, <2>6, <2>7
  <2> QED BY <2>3, <2>8
<1> QED BY <1>1, <1>3 DEF Grows

LEMMA PushGrows ==
    ASSUME NEW r, NEW kind, NEW name, IsReplayer(r), Tidy(r), kind # "UserInbox",
           NEW z, z = Push(r, NewBlock(kind, name))
    PROVE  Grows(r, z)
<1>1. PICK b : b = NewBlock(kind, name) OBVIOUS
<1>2. IsBlock(b) /\ b.kind = kind /\ b.joined = 0 BY <1>1, NewBlockIsBlock DEF NewBlock
<1>3. Moves(r, z) /\ z.base = r.base /\ z.past = r.past BY <1>1, <1>2, PushMoves DEF Moves
<1>4. /\ z.out = Append(r.out, b)
      /\ z.slot = r.slot /\ z.skill = r.skill /\ z.inbox = r.inbox
      /\ Len(z.out) = Len(r.out) + 1
      /\ \A i \in 1..Len(r.out) : z.out[i] = r.out[i]
      /\ z.out[Len(r.out) + 1] = b
  BY <1>1, PushFields
<1>5. Len(r.out) \in Nat /\ IsSeq(r.out) /\ r.base \in Nat BY DEF IsReplayer, IsSeq
<1>6. Resident(r) \subseteq Resident(z)
  <2>1. PICK d, n : d = r.base /\ n = Len(r.out) OBVIOUS
  <2>2. z.base = d /\ Len(z.out) = n + 1 BY <1>3, <1>4, <2>1
  <2>3. d \in Nat /\ n \in Nat BY <1>5, <2>1
  <2>4. (d + 1)..(d + n) \subseteq (d + 1)..(d + (n + 1)) BY <2>3
  <2> QED BY <2>1, <2>2, <2>4 DEF Resident
<1>7. InboxOf(z.out) = InboxOf(r.out)
  <2>1. PICK o : o = r.out OBVIOUS
  <2>2. InboxOf(Append(o, b)) = InboxOf(o) \cup (IF b.kind = "UserInbox" THEN {b.name} ELSE {})
    BY <1>5, <2>1, InboxAppend
  <2>3. b.kind # "UserInbox" BY <1>2
  <2> QED BY <1>4, <2>1, <2>2, <2>3
<1>8. \A i \in 1..Len(z.out) : i \in 1..Len(r.out) \/ i = Len(r.out) + 1 BY <1>4, <1>5
<1>9. \A i \in 1..Len(z.out) : z.out[i].joined \in Nat BY <1>2, <1>4, <1>8 DEF Tidy
<1>10. Tidy(z) BY <1>3, <1>4, <1>6, <1>7, <1>9 DEF Tidy
<1> QED BY <1>3, <1>4, <1>10 DEF Grows

\* A relayed message that was not seen before.
Relayed(r, name, b, z) ==
    /\ Moves(r, z) /\ z.slot = r.slot /\ z.skill = r.skill /\ z.queue = r.queue
    /\ z.suppress = r.suppress /\ z.inbox = r.inbox \cup {name}
    /\ z.out = Append(r.out, b) /\ Len(z.out) = Len(r.out) + 1
    /\ \A i \in 1..Len(r.out) : z.out[i] = r.out[i]
    /\ z.out[Len(r.out) + 1] = b

\* A relayed message is shown once, however often it is delivered.
LEMMA RelayFields ==
    ASSUME NEW r, NEW name, IsReplayer(r), NEW b, b = NewBlock("UserInbox", name), NEW z,
           z = [Push(r, b) EXCEPT !.inbox = @ \cup {name}]
    PROVE  Relayed(r, name, b, z)
<1>1. IsBlock(b) BY NewBlockIsBlock
<1>2. PICK p : p = Push(r, b) OBVIOUS
<1>3. Moves(r, p) /\ IsReplayer(p) BY <1>1, <1>2, PushMoves DEF Moves
<1>4. /\ p.out = Append(r.out, b) /\ p.queue = r.queue /\ p.suppress = r.suppress
      /\ p.slot = r.slot /\ p.skill = r.skill /\ p.inbox = r.inbox
      /\ Len(p.out) = Len(r.out) + 1
      /\ \A i \in 1..Len(r.out) : p.out[i] = r.out[i]
      /\ p.out[Len(r.out) + 1] = b
  BY <1>2, PushFields
<1>5. z = [p EXCEPT !.inbox = @ \cup {name}] BY <1>2
<1>6. /\ DOMAIN z = Fields
      /\ z.out = p.out /\ z.base = p.base /\ z.durable = p.durable /\ z.queue = p.queue
      /\ z.suppress = p.suppress /\ z.times = p.times /\ z.stamped = p.stamped
      /\ z.pending = p.pending /\ z.past = p.past /\ z.gone = p.gone
      /\ z.slot = p.slot /\ z.skill = p.skill /\ z.inbox = p.inbox \cup {name}
  BY <1>3, <1>5 DEF IsReplayer, Fields
<1>7. Moves(p, z) BY <1>3, <1>6, MovesAside
<1>8. Moves(r, z) BY <1>3, <1>7, MovesTwice
<1> QED BY <1>4, <1>6, <1>8 DEF Relayed

LEMMA RelayGrows ==
    ASSUME NEW r, NEW name, IsReplayer(r), Tidy(r), NEW z,
           z = [Push(r, NewBlock("UserInbox", name)) EXCEPT !.inbox = @ \cup {name}]
    PROVE  Grows(r, z)
<1>1. PICK b : b = NewBlock("UserInbox", name) OBVIOUS
<1>2. b.kind = "UserInbox" /\ b.joined = 0 /\ b.name = name BY <1>1 DEF NewBlock
<1>3. /\ Moves(r, z) /\ z.slot = r.slot /\ z.skill = r.skill
      /\ z.inbox = r.inbox \cup {name}
      /\ z.out = Append(r.out, b) /\ Len(z.out) = Len(r.out) + 1
      /\ \A i \in 1..Len(r.out) : z.out[i] = r.out[i]
      /\ z.out[Len(r.out) + 1] = b
  <2>1. Relayed(r, name, b, z) BY <1>1, RelayFields
  <2> QED BY <2>1 DEF Relayed
<1>4. z.base = r.base /\ z.past = r.past BY <1>3 DEF Moves
<1>5. Len(r.out) \in Nat /\ IsSeq(r.out) /\ r.base \in Nat BY DEF IsReplayer, IsSeq
<1>6. Resident(r) \subseteq Resident(z)
  <2>1. PICK d, n : d = r.base /\ n = Len(r.out) OBVIOUS
  <2>2. z.base = d /\ Len(z.out) = n + 1 BY <1>3, <1>4, <2>1
  <2>3. d \in Nat /\ n \in Nat BY <1>5, <2>1
  <2>4. (d + 1)..(d + n) \subseteq (d + 1)..(d + (n + 1)) BY <2>3
  <2> QED BY <2>1, <2>2, <2>4 DEF Resident
<1>7. InboxOf(z.out) = InboxOf(r.out) \cup {name}
  <2>1. PICK o : o = r.out OBVIOUS
  <2>2. InboxOf(Append(o, b)) = InboxOf(o) \cup (IF b.kind = "UserInbox" THEN {b.name} ELSE {})
    BY <1>5, <2>1, InboxAppend
  <2> QED BY <1>2, <1>3, <2>1, <2>2
<1>8. \A i \in 1..Len(z.out) : i \in 1..Len(r.out) \/ i = Len(r.out) + 1 BY <1>3, <1>5
<1>9. \A i \in 1..Len(z.out) : z.out[i].joined \in Nat BY <1>2, <1>3, <1>8 DEF Tidy
<1>10. z.inbox = InboxOf(z.past) \cup InboxOf(z.out) BY <1>3, <1>4, <1>7 DEF Tidy
<1>11. Tidy(z) BY <1>3, <1>6, <1>9, <1>10 DEF Tidy
<1> QED BY <1>3, <1>11 DEF Grows

LEMMA JoinGrows ==
    ASSUME NEW r, IsReplayer(r), Tidy(r), NEW i, i \in 1..Len(r.out), NEW z, z = Join(r, i)
    PROVE  Grows(r, z) /\ z.out[i] # r.out[i]
<1>1. Moves(r, z) /\ z.base = r.base /\ z.past = r.past BY JoinMoves DEF Moves
<1>2. /\ z.slot = r.slot /\ z.skill = r.skill /\ z.inbox = r.inbox
      /\ IsSeq(z.out) /\ Len(z.out) = Len(r.out)
      /\ \A j \in 1..Len(r.out) : j # i => z.out[j] = r.out[j]
      /\ z.out[i].joined = r.out[i].joined + 1
      /\ z.out[i].kind = r.out[i].kind /\ z.out[i].name = r.out[i].name
  BY JoinFields DEF Joined
<1>3. IsSeq(r.out) /\ r.out[i].joined \in Nat BY DEF IsReplayer, Tidy
<1>4. r.out[i].joined < z.out[i].joined /\ z.out[i].joined \in Nat BY <1>2, <1>3
<1>5. \A j \in 1..Len(r.out) : z.out[j].kind = r.out[j].kind /\ z.out[j].name = r.out[j].name
  BY <1>2
<1>6. InboxOf(z.out) = InboxOf(r.out) BY <1>2, <1>3, <1>5, InboxSame
<1>7. \A j \in 1..Len(z.out) : z.out[j].joined \in Nat BY <1>2, <1>4 DEF Tidy
<1>8. Tidy(z) BY <1>1, <1>2, <1>6, <1>7 DEF Tidy, Resident
<1>9. z.out[i] # r.out[i]
  <2>1. z.out[i] = r.out[i] => z.out[i].joined = r.out[i].joined OBVIOUS
  <2> QED BY <1>2, <1>3, <2>1
<1> QED BY <1>1, <1>2, <1>4, <1>5, <1>8, <1>9 DEF Grows

\* What leaves the window, the slots and the relayed messages alone.
LEMMA QueueGrows ==
    ASSUME NEW r, IsReplayer(r), Tidy(r), NEW z, Moves(r, z), z.out = r.out,
           z.slot = r.slot, z.skill = r.skill, z.inbox = r.inbox
    PROVE  Grows(r, z)
<1>1. z.base = r.base /\ z.past = r.past BY DEF Moves
<1>2. Tidy(z) BY <1>1 DEF Tidy, Resident
<1> QED BY <1>2 DEF Grows

LEMMA PopGrows ==
    ASSUME NEW r, IsReplayer(r), Tidy(r), NEW i \in 1..Len(r.queue), NEW z, z = Pop(r, i)
    PROVE  Grows(r, z)
<1>1. Moves(r, z) BY PopMoves
<1>2. z.out = r.out /\ z.slot = r.slot /\ z.skill = r.skill /\ z.inbox = r.inbox BY PopFields DEF Popped
<1> QED BY <1>1, <1>2, QueueGrows

LEMMA DeliverGrows ==
    ASSUME NEW r, IsReplayer(r), Tidy(r), NEW text, NEW z, z = Deliver(r, text)
    PROVE  Grows(r, z)
<1>1. PICK i : i = Found(r.queue, text) OBVIOUS
<1>2. z = IF i = 0 THEN r ELSE Pop(r, i) BY <1>1, FoundIs
<1>3. i # 0 => i \in 1..Len(r.queue) BY <1>1, FoundIs
<1> QED BY <1>2, <1>3, GrowsNot, PopGrows

\* The slots once a call by this name stands at this index.
SlotWith(slot, name, at) ==
    [x \in DOMAIN slot \cup {name} |-> IF x = name THEN at ELSE slot[x]]

\* A call appends its block and remembers where it stands.
LEMMA ToolUseFields ==
    ASSUME NEW r, NEW m, IsReplayer(r), NEW z, z = ToolUse(r, m), NEW at, at = RawLen(r) + 1
    PROVE  /\ z.out = Append(r.out, NewBlock(m.kind, m.name))
           /\ z.queue = r.queue /\ z.suppress = r.suppress /\ z.inbox = r.inbox
           /\ z.skill = IF m.kind = "Skill" THEN at ELSE r.skill
           /\ z.slot = SlotWith(r.slot, m.name, at)
           /\ Moves(r, z)
<1>1. PICK b : b = NewBlock(m.kind, m.name) OBVIOUS
<1>2. PICK p : p = Push(r, b) OBVIOUS
<1>3. IsBlock(b) BY <1>1, NewBlockIsBlock
<1>4. Moves(r, p) /\ IsReplayer(p) /\ p.base = r.base BY <1>2, <1>3, PushMoves DEF Moves
<1>5. /\ p.out = Append(r.out, b) /\ p.queue = r.queue /\ p.suppress = r.suppress
      /\ p.slot = r.slot /\ p.skill = r.skill /\ p.inbox = r.inbox
      /\ Len(p.out) = Len(r.out) + 1
  BY <1>2, PushFields
<1>6. Len(r.out) \in Nat /\ r.base \in Nat BY DEF IsReplayer, IsSeq
<1>7. RawLen(p) = at BY <1>4, <1>5, <1>6 DEF RawLen
<1>8. z = [p EXCEPT !.skill = IF m.kind = "Skill" THEN at ELSE @,
                    !.slot = [x \in DOMAIN @ \cup {m.name} |->
                                 IF x = m.name THEN at ELSE @[x]]]
  BY <1>1, <1>2, <1>7 DEF ToolUse
<1>9. DOMAIN p = Fields BY <1>4 DEF IsReplayer
<1>10. /\ DOMAIN z = Fields
       /\ z.out = p.out /\ z.base = p.base /\ z.durable = p.durable /\ z.queue = p.queue
       /\ z.suppress = p.suppress /\ z.times = p.times /\ z.stamped = p.stamped
       /\ z.pending = p.pending /\ z.past = p.past /\ z.gone = p.gone /\ z.inbox = p.inbox
  BY <1>8, <1>9 DEF Fields
<1>11. /\ z.skill = IF m.kind = "Skill" THEN at ELSE p.skill
       /\ z.slot = SlotWith(p.slot, m.name, at)
  BY <1>8, <1>9 DEF Fields, SlotWith
<1>12. Moves(p, z) BY <1>4, <1>10, MovesAside
<1>13. Moves(r, z) BY <1>4, <1>12, MovesTwice
<1> QED BY <1>1, <1>5, <1>10, <1>11, <1>13

LEMMA ToolUseGrows ==
    ASSUME NEW r, NEW m, IsReplayer(r), Tidy(r), m.kind # "UserInbox", NEW z, z = ToolUse(r, m)
    PROVE  Grows(r, z)
<1>1. PICK at : at = RawLen(r) + 1 OBVIOUS
<1>2. PICK p : p = Push(r, NewBlock(m.kind, m.name)) OBVIOUS
<1>3. Grows(r, p) BY <1>2, PushGrows
<1>4. /\ p.out = Append(r.out, NewBlock(m.kind, m.name)) /\ p.slot = r.slot
      /\ p.skill = r.skill /\ p.inbox = r.inbox
      /\ Len(p.out) = Len(r.out) + 1
  BY <1>2, PushFields
<1>5. /\ z.out = Append(r.out, NewBlock(m.kind, m.name)) /\ z.inbox = r.inbox
      /\ z.skill = IF m.kind = "Skill" THEN at ELSE r.skill
      /\ z.slot = SlotWith(r.slot, m.name, at)
      /\ Moves(r, z)
  BY <1>1, ToolUseFields
<1>6. z.base = r.base /\ z.past = r.past /\ p.base = r.base /\ p.past = r.past
  BY <1>3, <1>5 DEF Moves, Grows
<1>7. z.out = p.out BY <1>4, <1>5
<1>8. Len(r.out) \in Nat /\ r.base \in Nat BY DEF IsReplayer, IsSeq
<1>9. at \in Resident(z) BY <1>1, <1>4, <1>6, <1>7, <1>8 DEF Resident, RawLen
<1>10. Resident(z) = Resident(p) BY <1>6, <1>7 DEF Resident
<1>11. Tidy(p) BY <1>3 DEF Grows
<1>12. \A x \in DOMAIN z.slot : z.slot[x] \in Resident(z)
  <2>1. \A x \in DOMAIN z.slot : z.slot[x] = at \/ (x \in DOMAIN p.slot /\ z.slot[x] = p.slot[x])
    BY <1>4, <1>5 DEF SlotWith
  <2> QED BY <1>9, <1>10, <1>11, <2>1 DEF Tidy
<1>13. z.skill = 0 \/ z.skill \in Resident(z) BY <1>4, <1>5, <1>9, <1>10, <1>11 DEF Tidy
<1>14. Tidy(z) BY <1>4, <1>5, <1>6, <1>7, <1>11, <1>12, <1>13 DEF Tidy
<1> QED BY <1>3, <1>5, <1>7, <1>14 DEF Grows

\* A typed-ahead prompt appends its marker and waits.
LEMMA EnqueueFields ==
    ASSUME NEW r, NEW m, NEW prose \in BOOLEAN, IsReplayer(r), NEW z, z = Enqueue(r, m, prose),
           NEW p, p = IF prose THEN Push(r, NewBlock("QueueEvent", m.name)) ELSE r,
           NEW item, item = [text |-> m.name, marker |-> IF prose THEN RawLen(p) ELSE 0]
    PROVE  /\ z.out = p.out /\ z.suppress = p.suppress /\ z.slot = p.slot
           /\ z.skill = p.skill /\ z.inbox = p.inbox
           /\ IsSeq(z.queue) /\ Len(z.queue) = Len(p.queue) + 1
           /\ \A i \in 1..Len(p.queue) : z.queue[i] = p.queue[i]
           /\ z.queue[Len(p.queue) + 1] = item
<1>1. Moves(r, p) BY PushMoves, MovesNot, NewBlockIsBlock
<1>2. z = [p EXCEPT !.queue = Append(@, item)] BY DEF Enqueue
<1>3. IsReplayer(p) BY <1>1 DEF Moves
<1>4. /\ z.out = p.out /\ z.suppress = p.suppress /\ z.slot = p.slot
      /\ z.skill = p.skill /\ z.inbox = p.inbox /\ z.queue = Append(p.queue, item)
  BY <1>2, <1>3 DEF IsReplayer, Fields
<1>5. PICK q : q = p.queue OBVIOUS
<1>6. IsSeq(q) BY <1>3, <1>5 DEF IsReplayer
<1> QED BY <1>4, <1>5, <1>6, SeqAppend

LEMMA EnqueueGrows ==
    ASSUME NEW r, NEW m, NEW prose \in BOOLEAN, IsReplayer(r), Tidy(r),
           NEW z, z = Enqueue(r, m, prose)
    PROVE  Grows(r, z)
<1>1. PICK p : p = IF prose THEN Push(r, NewBlock("QueueEvent", m.name)) ELSE r OBVIOUS
<1>2. PICK item : item = [text |-> m.name, marker |-> IF prose THEN RawLen(p) ELSE 0] OBVIOUS
<1>3. Grows(r, p) BY <1>1, PushGrows, GrowsNot
<1>4. /\ z.out = p.out /\ z.slot = p.slot /\ z.skill = p.skill /\ z.inbox = p.inbox
  BY <1>1, <1>2, EnqueueFields
<1>5. Moves(r, z) BY EnqueueMoves
<1>6. z.base = p.base /\ z.past = p.past BY <1>3, <1>5 DEF Moves, Grows
<1>7. Tidy(z) BY <1>3, <1>4, <1>6 DEF Grows, Tidy, Resident
<1> QED BY <1>3, <1>4, <1>5, <1>7 DEF Grows

-----------------------------------------------------------------------------
\* The course of a PopAll: the queue is emptied from its head.
Pops(g, r, n) ==
    /\ g[0] = r /\ n = Len(r.queue) /\ PopAll(r) = g[n]
    /\ \A i \in 1..n : g[i] = Pop(g[i - 1], 1)
    /\ \A i \in 0..n : Moves(r, g[i]) /\ Len(g[i].queue) = n - i

\* The prompts delivered at once are taken off one after the other.
LEMMA PopAllCourse ==
    ASSUME NEW r, IsReplayer(r)
    PROVE  \E g, n : n \in Nat /\ Pops(g, r, n)
<1>1. PICK q : q = r.queue OBVIOUS
<1>2. PopAll(r) = P!Fold(0, r, q)
  BY <1>1, Zenon DEF P!Fold, FoldLeft, P!MapThenFoldSet, MapThenFoldSet,
                     P!Max, Max, PopAll, PopOne
<1>3. PICK n \in Nat : n = Len(q) /\ DOMAIN q = 1..n
  BY <1>1, SeqTyped DEF IsReplayer, IsSeq
<1>4. PICK g : P!Course(g, 0, r, q, n) /\ P!Fold(0, r, q) = g[n]
  BY <1>3, P!FoldCourse
<1>5. g[0] = r /\ \A i \in 1..n : g[i] = Pop(g[i - 1], 1)
  BY <1>4 DEF P!Course, PopOne
<1> DEFINE S == {i \in Nat : i <= n => (Moves(r, g[i]) /\ Len(g[i].queue) = n - i)}
<1>6. 0 \in S BY <1>1, <1>3, <1>5, MovesNot
<1>7. ASSUME NEW i \in Nat, i \in S PROVE i + 1 \in S
  <2> SUFFICES ASSUME i + 1 <= n
               PROVE  Moves(r, g[i + 1]) /\ Len(g[i + 1].queue) = n - (i + 1)
    OBVIOUS
  <2>1. PICK a : a = g[i] OBVIOUS
  <2>2. g[i + 1] = Pop(a, 1)
    <3>1. i + 1 \in 1..n /\ (i + 1) - 1 = i OBVIOUS
    <3> QED BY <1>5, <2>1, <3>1
  <2>3. Moves(r, a) /\ Len(a.queue) = n - i BY <1>7, <2>1
  <2>4. IsReplayer(a) /\ 1 \in 1..Len(a.queue) BY <2>3 DEF Moves
  <2>5. Moves(a, Pop(a, 1)) /\ Len(Pop(a, 1).queue) = Len(a.queue) - 1 BY <2>4, PopMoves
  <2>6. Moves(r, Pop(a, 1)) BY <2>3, <2>5, MovesTwice
  <2> QED BY <2>2, <2>3, <2>5, <2>6
<1> HIDE DEF S
<1>8. Nat \subseteq S BY <1>6, <1>7, P!SetInduction
<1>9. \A i \in 0..n : Moves(r, g[i]) /\ Len(g[i].queue) = n - i BY <1>8 DEF S
<1>10. PopAll(r) = g[n] /\ n = Len(r.queue) BY <1>1, <1>2, <1>3, <1>4
<1>11. Pops(g, r, n) BY <1>5, <1>9, <1>10 DEF Pops
<1> QED BY <1>3, <1>11

LEMMA PopAllGrows ==
    ASSUME NEW r, IsReplayer(r), Tidy(r), NEW z, z = PopAll(r)
    PROVE  Grows(r, z)
<1>1. PICK g, n : n \in Nat /\ Pops(g, r, n) BY PopAllCourse
<1>2. /\ g[0] = r /\ z = g[n]
      /\ \A i \in 1..n : g[i] = Pop(g[i - 1], 1)
      /\ \A i \in 0..n : Moves(r, g[i]) /\ Len(g[i].queue) = n - i
  BY <1>1 DEF Pops
<1> DEFINE S == {i \in Nat : i <= n => Grows(r, g[i])}
<1>3. 0 \in S BY <1>2, GrowsNot
<1>4. ASSUME NEW i \in Nat, i \in S PROVE i + 1 \in S
  <2> SUFFICES ASSUME i + 1 <= n PROVE Grows(r, g[i + 1]) OBVIOUS
  <2>1. PICK a : a = g[i] OBVIOUS
  <2>2. g[i + 1] = Pop(a, 1)
    <3>1. i + 1 \in 1..n /\ (i + 1) - 1 = i BY <1>1
    <3> QED BY <1>2, <2>1, <3>1
  <2>3. Grows(r, a) /\ IsReplayer(a) /\ Tidy(a) BY <1>1, <1>4, <2>1 DEF Grows, Moves
  <2>4. 1 \in 1..Len(a.queue)
    <3>1. i \in 0..n BY <1>1
    <3> QED BY <1>1, <1>2, <2>1, <3>1
  <2>5. Grows(a, Pop(a, 1)) BY <2>3, <2>4, PopGrows
  <2> QED BY <2>2, <2>3, <2>5, GrowsTwice
<1> HIDE DEF S
<1>5. Nat \subseteq S BY <1>3, <1>4, P!SetInduction
<1> QED BY <1>1, <1>2, <1>5 DEF S

\* The last block of the window, by its kind.
LEMMA LastIsIn ==
    ASSUME NEW r, IsReplayer(r), NEW kind
    PROVE  LastIs(r, kind) <=> Len(r.out) > 0 /\ r.out[Len(r.out)].kind = kind
<1>1. IsSeq(r.out) /\ Len(r.out) \in Nat BY DEF IsReplayer, IsSeq
<1>2. r.out # <<>> <=> Len(r.out) > 0 BY <1>1, LenZero
<1> QED BY <1>1, <1>2 DEF LastIs, Last

\* Whatever message comes: the window stays tidy, and nothing of what left
\* it is touched (Replayer::apply).
LEMMA MessageGrows ==
    ASSUME NEW r, NEW m, IsReplayer(r), Tidy(r), NEW z, z = ApplyMessage(r, m)
    PROVE  Grows(r, z)
<1>1. \A k, n : k # "UserInbox" => Grows(r, Push(r, NewBlock(k, n))) BY PushGrows
<1>2. CASE m.kind \in {"UserText", "UserInbox"}
  <2>1. PICK d : d = Deliver(r, m.name) OBVIOUS
  <2>2. Grows(r, d) /\ IsReplayer(d) /\ Tidy(d) BY <2>1, DeliverGrows DEF Grows, Moves
  <2>3. \/ z = Push(d, NewBlock("UserText", m.name))
        \/ z = [Push(d, NewBlock("UserInbox", m.name)) EXCEPT !.inbox = @ \cup {m.name}]
    BY <1>2, <2>1 DEF ApplyMessage, UserInbox
  <2>4. Grows(d, z) BY <2>2, <2>3, PushGrows, RelayGrows
  <2> QED BY <2>2, <2>4, GrowsTwice
<1>4. CASE m.kind \in {"ToolUse", "Edit", "Skill"}
  <2>1. z = ToolUse(r, m) BY <1>4 DEF ApplyMessage
  <2> QED BY <1>4, <2>1, ToolUseGrows
<1>5. CASE m.kind = "ToolResult"
  <2>1. CASE m.name \in DOMAIN r.slot
    <3>1. r.slot[m.name] \in Resident(r) BY <2>1 DEF Tidy
    <3>2. r.base \in Nat /\ Len(r.out) \in Nat BY DEF IsReplayer, IsSeq
    <3>3. PICK i : i = r.slot[m.name] - r.base OBVIOUS
    <3>4. i \in 1..Len(r.out) BY <3>1, <3>2, <3>3 DEF Resident
    <3>5. z = Join(r, i) BY <1>5, <2>1, <3>3 DEF ApplyMessage, ToolResult
    <3> QED BY <3>4, <3>5, JoinGrows
  <2>2. CASE m.name \notin DOMAIN r.slot
    <3>1. z = Push(r, NewBlock("ToolResult", Nil)) BY <1>5, <2>2 DEF ApplyMessage, ToolResult
    <3> QED BY <1>1, <3>1
  <2> QED BY <2>1, <2>2
<1>6. CASE m.kind = "SkillBody"
  <2>1. CASE z = Push(r, NewBlock("ToolResult", Nil)) BY <1>1, <2>1
  <2>2. CASE z # Push(r, NewBlock("ToolResult", Nil))
    <3>1. z = Join(r, r.skill - r.base) /\ r.skill > r.base
      BY <1>6, <2>2 DEF ApplyMessage, SkillBody
    <3>2. r.base \in Nat /\ Len(r.out) \in Nat BY DEF IsReplayer, IsSeq
    <3>3. r.skill \in Resident(r) BY <3>1, <3>2 DEF Tidy
    <3>4. PICK i : i = r.skill - r.base OBVIOUS
    <3>5. i \in 1..Len(r.out) BY <3>2, <3>3, <3>4 DEF Resident
    <3> QED BY <3>1, <3>4, <3>5, JoinGrows
  <2> QED BY <2>1, <2>2
<1>7. CASE m.kind = "CommandStdout"
  <2>1. CASE LastIs(r, "Command")
    <3>1. z = Join(r, Len(r.out)) BY <1>7, <2>1 DEF ApplyMessage
    <3>2. Len(r.out) \in 1..Len(r.out)
      <4>1. Len(r.out) \in Nat BY DEF IsReplayer, IsSeq
      <4> QED BY <2>1, <4>1, LastIsIn
    <3> QED BY <3>1, <3>2, JoinGrows
  <2>2. CASE ~LastIs(r, "Command")
    <3>1. PICK p : p = Push(r, NewBlock("Command", Nil)) OBVIOUS
    <3>2. Grows(r, p) /\ IsReplayer(p) /\ Tidy(p) BY <1>1, <3>1 DEF Grows, Moves
    <3>3. z = Join(p, Len(r.out) + 1) BY <1>7, <2>2, <3>1 DEF ApplyMessage
    <3>4. Len(p.out) = Len(r.out) + 1 BY <3>1, PushFields
    <3>5. Len(r.out) + 1 \in 1..Len(p.out)
      <4>1. Len(r.out) \in Nat BY DEF IsReplayer, IsSeq
      <4> QED BY <3>4, <4>1
    <3>6. Grows(p, z) BY <3>2, <3>3, <3>5, JoinGrows
    <3> QED BY <3>2, <3>6, GrowsTwice
  <2> QED BY <2>1, <2>2
<1>8. CASE m.kind = "CompactSummary"
  <2>1. CASE LastIs(r, "Compaction") /\ Last(r.out).joined = 0
    <3>1. z = Join(r, Len(r.out)) BY <1>8, <2>1 DEF ApplyMessage
    <3>2. Len(r.out) \in 1..Len(r.out)
      <4>1. Len(r.out) \in Nat BY DEF IsReplayer, IsSeq
      <4> QED BY <2>1, <4>1, LastIsIn
    <3> QED BY <3>1, <3>2, JoinGrows
  <2>2. CASE ~(LastIs(r, "Compaction") /\ Last(r.out).joined = 0)
    <3>1. z = Push(r, NewBlock("ToolResult", Nil)) BY <1>8, <2>2 DEF ApplyMessage
    <3> QED BY <1>1, <3>1
  <2> QED BY <2>1, <2>2
<1>9. CASE m.kind \in {"Enqueue", "EnqueueQuiet"}
  <2>1. z = Enqueue(r, m, TRUE) \/ z = Enqueue(r, m, FALSE) BY <1>9 DEF ApplyMessage
  <2> QED BY <2>1, EnqueueGrows
<1>10. CASE m.kind = "Dequeue"
  <2>1. r.queue # <<>> => 1 \in 1..Len(r.queue)
    <3>1. PICK q : q = r.queue OBVIOUS
    <3>2. IsSeq(q) /\ Len(q) \in Nat BY <3>1 DEF IsReplayer, IsSeq
    <3> QED BY <3>1, <3>2, LenZero
  <2>2. \/ z = Deliver(r, m.name)
        \/ z = r
        \/ (r.queue # <<>> /\ z = Pop(r, 1))
    BY <1>10 DEF ApplyMessage, Dequeue
  <2> QED BY <2>1, <2>2, DeliverGrows, GrowsNot, PopGrows
<1>11. CASE m.kind = "PopAll"
  <2>1. z = PopAll(r) BY <1>11 DEF ApplyMessage
  <2> QED BY <2>1, PopAllGrows
<1>12. CASE m.kind \notin {"UserText", "UserInbox", "ToolUse", "Edit", "Skill", "ToolResult",
                          "SkillBody", "CommandStdout", "CompactSummary", "Enqueue",
                          "EnqueueQuiet", "Dequeue", "PopAll"}
  <2>1. z = Push(r, NewBlock(m.kind, m.name)) BY <1>12 DEF ApplyMessage
  <2> QED BY <1>1, <1>12, <2>1
<1> QED BY <1>2, <1>4, <1>5, <1>6, <1>7, <1>8, <1>9, <1>10, <1>11, <1>12

\* The course of the messages of a line.
Says(g, r, line, n) ==
    /\ g[0] = r /\ n \in Nat /\ FoldLeft(ApplyMessage, r, line) = g[n]
    /\ DOMAIN line = 1..n
    /\ \A i \in 1..n : g[i] = ApplyMessage(g[i - 1], line[i])

\* A line, message by message.
LEMMA LineCourse ==
    ASSUME NEW r, NEW line \in Lines
    PROVE  \E g, n : Says(g, r, line, n)
<1>2. FoldLeft(ApplyMessage, r, line) = L!Fold(0, r, line)
  BY Zenon DEF L!Fold, FoldLeft, L!MapThenFoldSet, MapThenFoldSet,
               L!Max, Max, MessageStep
<1>3. PICK n \in Nat : DOMAIN line = 1..n BY LinesAssumption
<1>4. PICK g : L!Course(g, 0, r, line, n) /\ L!Fold(0, r, line) = g[n]
  BY <1>3, L!FoldCourse
<1>5. g[0] = r /\ \A i \in 1..n : g[i] = ApplyMessage(g[i - 1], line[i])
  BY <1>4 DEF L!Course, MessageStep
<1> QED BY <1>2, <1>3, <1>4, <1>5 DEF Says

\* Whatever a message of a line leaves, the messages after it only add to.
LEMMA LineGrows ==
    ASSUME NEW r, IsReplayer(r), Tidy(r), NEW line, NEW g, NEW n, Says(g, r, line, n)
    PROVE  \A j \in 0..n : /\ IsReplayer(g[j]) /\ Tidy(g[j])
                           /\ \A i \in 0..j : Grows(g[i], g[j])
<1>1. n \in Nat /\ g[0] = r /\ \A i \in 1..n : g[i] = ApplyMessage(g[i - 1], line[i])
  BY DEF Says
<1> DEFINE S == {j \in Nat : j <= n => \A i \in 0..j : /\ IsReplayer(g[i]) /\ Tidy(g[i])
                                                      /\ Grows(g[i], g[j])}
<1>2. 0 \in S
  <2>1. \A i \in 0..0 : i = 0 OBVIOUS
  <2> QED BY <1>1, <2>1, GrowsNot
<1>3. ASSUME NEW j \in Nat, j \in S PROVE j + 1 \in S
  <2> SUFFICES ASSUME j + 1 <= n, NEW i \in 0..(j + 1)
               PROVE  IsReplayer(g[i]) /\ Tidy(g[i]) /\ Grows(g[i], g[j + 1])
    OBVIOUS
  <2>1. PICK a : a = g[j] OBVIOUS
  <2>2. g[j + 1] = ApplyMessage(a, line[j + 1])
    <3>1. j + 1 \in 1..n /\ (j + 1) - 1 = j BY <1>1
    <3> QED BY <1>1, <2>1, <3>1
  <2>3. \A k \in 0..j : IsReplayer(g[k]) /\ Tidy(g[k]) /\ Grows(g[k], a) BY <1>1, <1>3, <2>1
  <2>5. IsReplayer(a) /\ Tidy(a)
    <3>1. j \in 0..j OBVIOUS
    <3> QED BY <2>1, <2>3, <3>1
  <2>6. PICK b : b = g[j + 1] OBVIOUS
  <2>7. Grows(a, b) BY <2>2, <2>5, <2>6, MessageGrows
  <2>8. IsReplayer(b) /\ Tidy(b) BY <2>7 DEF Grows, Moves
  <2>9. CASE i = j + 1 BY <2>6, <2>8, <2>9, GrowsNot
  <2>10. CASE i \in 0..j
    <3>1. Grows(g[i], b) BY <2>3, <2>7, <2>10, GrowsTwice
    <3> QED BY <2>3, <2>6, <2>10, <3>1
  <2> QED BY <2>9, <2>10
<1> HIDE DEF S
<1>4. Nat \subseteq S BY <1>2, <1>3, P!SetInduction
<1>5. ASSUME NEW j \in 0..n
      PROVE  \A i \in 0..j : IsReplayer(g[i]) /\ Tidy(g[i]) /\ Grows(g[i], g[j])
  <2>1. j \in S /\ j <= n BY <1>1, <1>4
  <2> QED BY <2>1 DEF S
<1>6. \A j \in 0..n : j \in 0..j BY <1>1
<1> QED BY <1>5, <1>6

-----------------------------------------------------------------------------
(* Two folds of the same lines, one of which began later.  s is the later  *)
(* fold, r the fold from the start; s began where r had folded F blocks,   *)
(* the last of them p still in the window of r.                            *)

\* An index of the later fold in the earlier one; 0 stays None.
Up(F, m) == IF m = 0 THEN 0 ELSE m + F

\* The window of r is p and then that of s; nothing of s has left before p has.
Outs(F, p, s, r) ==
    /\ F \in Nat /\ IsSeq(p)
    /\ r.out = p \o s.out
    /\ r.base + Len(p) = s.base + F
    /\ p = <<>> \/ s.base = 0

\* The same prompts wait, with markers F apart.
Queues(F, s, r) ==
    /\ Len(r.queue) = Len(s.queue)
    /\ \A i \in 1..Len(s.queue) : /\ r.queue[i].text = s.queue[i].text
                                  /\ r.queue[i].marker = Up(F, s.queue[i].marker)

\* The same markers are hidden, of those that s still shows.
Suppressed(F, s, r) == \A i \in Nat : i > s.base => (i \in s.suppress <=> i + F \in r.suppress)

\* The indices of the blocks of p.
Before(p, r) == (r.base + 1)..(r.base + Len(p))

\* Each call s remembers r remembers F further on; what r remembers besides
\* are calls of p.
Slots(F, p, s, r) ==
    /\ \A x \in DOMAIN s.slot : /\ s.slot[x] \in Resident(s)
                                /\ x \in DOMAIN r.slot /\ r.slot[x] = s.slot[x] + F
    /\ \A x \in DOMAIN r.slot : x \in DOMAIN s.slot \/ r.slot[x] \in Before(p, r)

\* So for the skill whose body may still come; s has forgotten one of p.
Skills(F, p, s, r) ==
    \/ s.skill = 0 /\ r.skill = 0
    \/ s.skill = 0 /\ r.skill \in Before(p, r)
    \/ s.skill \in Resident(s) /\ r.skill = s.skill + F

\* The two folds, in the course of a line.
Shifts(F, p, s, r) ==
    /\ Outs(F, p, s, r) /\ Queues(F, s, r) /\ Suppressed(F, s, r)
    /\ Slots(F, p, s, r) /\ Skills(F, p, s, r)
    /\ s.inbox = r.inbox /\ s.pending = r.pending

\* How the two windows lie.
LEMMA OutsFacts ==
    ASSUME NEW F, NEW p, NEW s, NEW r, IsReplayer(s), Outs(F, p, s, r)
    PROVE  /\ Len(r.out) = Len(p) + Len(s.out)
           /\ Len(p) \in Nat /\ Len(s.out) \in Nat /\ IsSeq(s.out) /\ IsSeq(p)
           /\ s.base \in Nat /\ F \in Nat
           /\ \A i \in 1..Len(p) : r.out[i] = p[i]
           /\ \A i \in 1..Len(s.out) : r.out[Len(p) + i] = s.out[i]
<1>1. IsSeq(p) /\ IsSeq(s.out) /\ s.base \in Nat BY DEF Outs, IsReplayer
<1>2. Len(p) \in Nat /\ Len(s.out) \in Nat BY <1>1 DEF IsSeq
<1>3. PICK o : o = s.out OBVIOUS
<1>4. /\ Len(p \o o) = Len(p) + Len(o)
      /\ \A i \in 1..Len(p) : (p \o o)[i] = p[i]
      /\ \A i \in 1..Len(o) : (p \o o)[Len(p) + i] = o[i]
  BY <1>1, <1>3, SeqConcat
<1> QED BY <1>1, <1>2, <1>3, <1>4 DEF Outs

\* The windows may grow; the indices of what is in them stay.
LEMMA MovesResident ==
    ASSUME NEW s, NEW y, IsReplayer(s), Moves(s, y)
    PROVE  Resident(s) \subseteq Resident(y) /\ \A p : Before(p, y) = Before(p, s)
<1>1. PICK d, n, k : d = s.base /\ n = Len(s.out) /\ k = Len(y.out) OBVIOUS
<1>2. d \in Nat /\ n \in Nat /\ k \in Nat /\ n <= k /\ y.base = d
  BY <1>1 DEF IsReplayer, IsSeq, Moves
<1>3. (d + 1)..(d + n) \subseteq (d + 1)..(d + k) BY <1>2
<1> QED BY <1>1, <1>2, <1>3 DEF Resident, Before

\* A message that only changes what both know alike.
LEMMA AsideShifts ==
    ASSUME NEW F, NEW p, NEW s, NEW r, NEW y, NEW z, IsReplayer(s), IsReplayer(r),
           Shifts(F, p, s, r), Moves(s, y), Moves(r, z), z.out = p \o y.out,
           Queues(F, y, z), Suppressed(F, y, z),
           y.slot = s.slot, z.slot = r.slot, y.skill = s.skill, z.skill = r.skill,
           y.inbox = z.inbox
    PROVE  Shifts(F, p, y, z)
<1>1. Resident(s) \subseteq Resident(y) /\ Before(p, z) = Before(p, r) BY MovesResident
<1>2. y.base = s.base /\ z.base = r.base /\ y.pending = s.pending /\ z.pending = r.pending
  BY DEF Moves
<1>3. Outs(F, p, y, z) BY <1>2 DEF Shifts, Outs
<1>4. Slots(F, p, y, z) BY <1>1 DEF Shifts, Slots
<1>5. Skills(F, p, y, z) BY <1>1 DEF Shifts, Skills
<1> QED BY <1>2, <1>3, <1>4, <1>5 DEF Shifts

\* Both append the same block.
LEMMA PushShifts ==
    ASSUME NEW F, NEW p, NEW s, NEW r, NEW b, IsReplayer(s), IsReplayer(r), IsBlock(b),
           Shifts(F, p, s, r)
    PROVE  Shifts(F, p, Push(s, b), Push(r, b))
<1>1. PICK y, z : y = Push(s, b) /\ z = Push(r, b) OBVIOUS
<1>2. Moves(s, y) /\ Moves(r, z) BY <1>1, PushMoves
<1>3. /\ y.out = Append(s.out, b) /\ y.queue = s.queue /\ y.suppress = s.suppress
      /\ y.slot = s.slot /\ y.skill = s.skill /\ y.inbox = s.inbox
  BY <1>1, PushFields
<1>4. /\ z.out = Append(r.out, b) /\ z.queue = r.queue /\ z.suppress = r.suppress
      /\ z.slot = r.slot /\ z.skill = r.skill /\ z.inbox = r.inbox
  BY <1>1, PushFields
<1>5. z.out = p \o y.out
  <2>1. PICK o : o = s.out OBVIOUS
  <2>2. IsSeq(p) /\ IsSeq(o) /\ r.out = p \o o BY <2>1 DEF Shifts, Outs, IsReplayer
  <2>3. p \o Append(o, b) = Append(p \o o, b) BY <2>2, ConcatAppend
  <2> QED BY <1>3, <1>4, <2>1, <2>2, <2>3
<1>6. Queues(F, y, z) BY <1>3, <1>4 DEF Shifts, Queues
<1>7. Suppressed(F, y, z) BY <1>2, <1>3, <1>4 DEF Shifts, Suppressed, Moves
<1>8. y.inbox = z.inbox BY <1>3, <1>4 DEF Shifts
<1>9. y.slot = s.slot /\ z.slot = r.slot /\ y.skill = s.skill /\ z.skill = r.skill
  BY <1>3, <1>4
<1> QED BY <1>1, <1>2, <1>5, <1>6, <1>7, <1>8, <1>9, AsideShifts

\* Both join a result to the block it belongs to.
LEMMA JoinShifts ==
    ASSUME NEW F, NEW p, NEW s, NEW r, IsReplayer(s), IsReplayer(r), Shifts(F, p, s, r),
           NEW i \in 1..Len(s.out), NEW j, j = Len(p) + i
    PROVE  Shifts(F, p, Join(s, i), Join(r, j))
<1>1. PICK y, z : y = Join(s, i) /\ z = Join(r, j) OBVIOUS
<1>2. /\ Len(r.out) = Len(p) + Len(s.out)
      /\ Len(p) \in Nat /\ Len(s.out) \in Nat /\ IsSeq(s.out) /\ IsSeq(p)
      /\ \A k \in 1..Len(p) : r.out[k] = p[k]
      /\ \A k \in 1..Len(s.out) : r.out[Len(p) + k] = s.out[k]
  <2>1. Outs(F, p, s, r) BY DEF Shifts
  <2> QED BY <2>1, OutsFacts
<1>3. j \in 1..Len(r.out) BY <1>2
<1>4. Moves(s, y) /\ Moves(r, z) BY <1>1, JoinMoves
<1>5. /\ y.queue = s.queue /\ y.suppress = s.suppress
      /\ y.slot = s.slot /\ y.skill = s.skill /\ y.inbox = s.inbox
      /\ IsSeq(y.out) /\ Len(y.out) = Len(s.out)
      /\ \A k \in 1..Len(s.out) : k # i => y.out[k] = s.out[k]
      /\ y.out[i] = Patched(s.out[i])
  <2>1. Joined(s, i, y) BY <1>1, JoinFields
  <2> QED BY <2>1 DEF Joined
<1>6. /\ z.queue = r.queue /\ z.suppress = r.suppress
      /\ z.slot = r.slot /\ z.skill = r.skill /\ z.inbox = r.inbox
      /\ IsSeq(z.out) /\ Len(z.out) = Len(r.out)
      /\ \A k \in 1..Len(r.out) : k # j => z.out[k] = r.out[k]
      /\ z.out[j] = Patched(r.out[j])
  <2>1. Joined(r, j, z) BY <1>1, <1>3, JoinFields
  <2> QED BY <2>1 DEF Joined
<1>7. z.out = p \o y.out
  <2>1. PICK o : o = y.out OBVIOUS
  <2>2. PICK u : u = p \o o OBVIOUS
  <2>3. /\ IsSeq(u) /\ Len(u) = Len(p) + Len(o)
        /\ \A k \in 1..Len(p) : u[k] = p[k]
        /\ \A k \in 1..Len(o) : u[Len(p) + k] = o[k]
    BY <1>2, <1>5, <2>1, <2>2, SeqConcat
  <2>4. Len(u) = Len(z.out) BY <1>2, <1>5, <1>6, <2>1, <2>3
  <2>5. ASSUME NEW k \in 1..Len(u) PROVE u[k] = z.out[k]
    <3>1. CASE k <= Len(p)
      <4>1. k \in 1..Len(p) /\ k \in 1..Len(r.out) /\ k # j BY <1>2, <3>1
      <4> QED BY <1>2, <1>6, <2>3, <4>1
    <3>2. CASE k > Len(p)
      <4>1. PICK l : l = k - Len(p) OBVIOUS
      <4>2. l \in 1..Len(s.out) /\ k = Len(p) + l /\ k \in 1..Len(r.out) /\ (k = j <=> l = i)
        BY <1>2, <1>5, <2>1, <2>3, <3>2, <4>1
      <4>3. u[k] = y.out[l] /\ r.out[k] = s.out[l] BY <1>2, <1>5, <2>1, <2>3, <4>2
      <4>4. CASE l = i BY <1>5, <1>6, <4>2, <4>3, <4>4
      <4>5. CASE l # i BY <1>5, <1>6, <4>2, <4>3, <4>5
      <4> QED BY <4>4, <4>5
    <3> QED BY <1>2, <2>3, <3>1, <3>2
  <2>6. u = z.out BY <1>6, <2>3, <2>4, <2>5, SameSeq
  <2> QED BY <2>1, <2>2, <2>6
<1>8. Queues(F, y, z) BY <1>5, <1>6 DEF Shifts, Queues
<1>9. Suppressed(F, y, z) BY <1>4, <1>5, <1>6 DEF Shifts, Suppressed, Moves
<1>10. y.inbox = z.inbox BY <1>5, <1>6 DEF Shifts
<1>11. y.slot = s.slot /\ z.slot = r.slot /\ y.skill = s.skill /\ z.skill = r.skill
  BY <1>5, <1>6
<1> QED BY <1>1, <1>4, <1>7, <1>8, <1>9, <1>10, <1>11, AsideShifts

\* Both take the same prompt off the queue.
LEMMA PopShifts ==
    ASSUME NEW F, NEW p, NEW s, NEW r, IsReplayer(s), IsReplayer(r), Shifts(F, p, s, r),
           NEW i \in 1..Len(s.queue)
    PROVE  Shifts(F, p, Pop(s, i), Pop(r, i))
<1>1. PICK y, z : y = Pop(s, i) /\ z = Pop(r, i) OBVIOUS
<1>2. Len(r.queue) = Len(s.queue) /\ i \in 1..Len(r.queue) BY DEF Shifts, Queues
<1>3. Moves(s, y) /\ Moves(r, z) BY <1>1, <1>2, PopMoves
<1>4. PICK v, w : v = s.queue[i].marker /\ w = r.queue[i].marker OBVIOUS
<1>5. /\ y.out = s.out /\ y.slot = s.slot /\ y.skill = s.skill /\ y.inbox = s.inbox
      /\ y.suppress = (IF v = 0 THEN s.suppress ELSE s.suppress \cup {v})
      /\ Len(y.queue) = Len(s.queue) - 1
      /\ \A j \in 1..Len(y.queue) :
            y.queue[j] = IF j < i THEN s.queue[j] ELSE s.queue[j + 1]
  <2>1. Popped(s, i, y) BY <1>1, PopFields
  <2> QED BY <1>4, <2>1 DEF Popped
<1>6. /\ z.out = r.out /\ z.slot = r.slot /\ z.skill = r.skill /\ z.inbox = r.inbox
      /\ z.suppress = (IF w = 0 THEN r.suppress ELSE r.suppress \cup {w})
      /\ Len(z.queue) = Len(r.queue) - 1
      /\ \A j \in 1..Len(z.queue) :
            z.queue[j] = IF j < i THEN r.queue[j] ELSE r.queue[j + 1]
  <2>1. Popped(r, i, z) BY <1>1, <1>2, PopFields
  <2> QED BY <1>4, <2>1 DEF Popped
<1>7. w = Up(F, v) /\ v \in Nat /\ F \in Nat
  BY <1>4 DEF Shifts, Queues, Outs, IsReplayer, Marks
<1>8. Queues(F, y, z)
  <2>1. Len(s.queue) \in Nat BY DEF IsReplayer, IsSeq
  <2>2. ASSUME NEW j \in 1..Len(y.queue)
        PROVE  z.queue[j].text = y.queue[j].text /\ z.queue[j].marker = Up(F, y.queue[j].marker)
    <3>1. j \in 1..Len(s.queue) /\ j + 1 \in 1..Len(s.queue) /\ j \in 1..Len(z.queue)
      BY <1>2, <1>5, <1>6, <2>1
    <3>2. CASE j < i
      <4>1. y.queue[j] = s.queue[j] /\ z.queue[j] = r.queue[j] BY <1>5, <1>6, <3>1, <3>2
      <4> QED BY <3>1, <4>1 DEF Shifts, Queues
    <3>3. CASE ~(j < i)
      <4>1. y.queue[j] = s.queue[j + 1] /\ z.queue[j] = r.queue[j + 1]
        BY <1>5, <1>6, <3>1, <3>3
      <4> QED BY <3>1, <4>1 DEF Shifts, Queues
    <3> QED BY <3>2, <3>3
  <2> QED BY <1>2, <1>5, <1>6, <2>2 DEF Queues
<1>9. Suppressed(F, y, z)
  <2>1. y.base = s.base BY <1>3 DEF Moves
  <2> SUFFICES ASSUME NEW k \in Nat, k > s.base PROVE k \in y.suppress <=> k + F \in z.suppress
    BY <2>1 DEF Suppressed
  <2>2. k \in s.suppress <=> k + F \in r.suppress BY DEF Shifts, Suppressed
  <2>3. CASE v = 0
    <3>1. w = 0 BY <1>7, <2>3 DEF Up
    <3> QED BY <1>5, <1>6, <2>2, <2>3, <3>1
  <2>4. CASE v # 0
    <3>1. w = v + F /\ w # 0 BY <1>7, <2>4 DEF Up
    <3>2. k = v <=> k + F = w BY <1>7, <3>1
    <3> QED BY <1>5, <1>6, <2>2, <2>4, <3>1, <3>2
  <2> QED BY <2>3, <2>4
<1>10. z.out = p \o y.out BY <1>5, <1>6 DEF Shifts, Outs
<1>11. y.inbox = z.inbox BY <1>5, <1>6 DEF Shifts
<1>12. y.slot = s.slot /\ z.slot = r.slot /\ y.skill = s.skill /\ z.skill = r.skill
  BY <1>5, <1>6
<1> QED BY <1>1, <1>3, <1>8, <1>9, <1>10, <1>11, <1>12, AsideShifts

\* Both deliver the prompt, or show it again, as they find it waiting.
LEMMA DeliverShifts ==
    ASSUME NEW F, NEW p, NEW s, NEW r, IsReplayer(s), IsReplayer(r), Shifts(F, p, s, r), NEW text
    PROVE  Shifts(F, p, Deliver(s, text), Deliver(r, text))
<1>1. PICK i : i = Found(s.queue, text) OBVIOUS
<1>2. Found(r.queue, text) = i BY <1>1, FoundSame DEF Shifts, Queues
<1>3. Deliver(s, text) = (IF i = 0 THEN s ELSE Pop(s, i)) /\ (i # 0 => i \in 1..Len(s.queue))
  BY <1>1, FoundIs
<1>4. Deliver(r, text) = (IF i = 0 THEN r ELSE Pop(r, i)) BY <1>2, FoundIs
<1> QED BY <1>3, <1>4, PopShifts

-----------------------------------------------------------------------------
\* Both show a relayed message, or neither does.
LEMMA RelayShifts ==
    ASSUME NEW F, NEW p, NEW s, NEW r, IsReplayer(s), IsReplayer(r), Shifts(F, p, s, r), NEW name,
           NEW b, b = NewBlock("UserInbox", name),
           NEW y, y = [Push(s, b) EXCEPT !.inbox = @ \cup {name}],
           NEW z, z = [Push(r, b) EXCEPT !.inbox = @ \cup {name}]
    PROVE  Shifts(F, p, y, z)
<1>1. Relayed(s, name, b, y) /\ Relayed(r, name, b, z) BY RelayFields
<1>2. /\ Moves(s, y) /\ y.out = Append(s.out, b) /\ y.queue = s.queue /\ y.suppress = s.suppress
      /\ y.slot = s.slot /\ y.skill = s.skill /\ y.inbox = s.inbox \cup {name}
  BY <1>1 DEF Relayed
<1>3. /\ Moves(r, z) /\ z.out = Append(r.out, b) /\ z.queue = r.queue /\ z.suppress = r.suppress
      /\ z.slot = r.slot /\ z.skill = r.skill /\ z.inbox = r.inbox \cup {name}
  BY <1>1 DEF Relayed
<1>4. z.out = p \o y.out
  <2>1. PICK o : o = s.out OBVIOUS
  <2>2. IsSeq(p) /\ IsSeq(o) /\ r.out = p \o o BY <2>1 DEF Shifts, Outs, IsReplayer
  <2>3. p \o Append(o, b) = Append(p \o o, b) BY <2>2, ConcatAppend
  <2> QED BY <1>2, <1>3, <2>1, <2>2, <2>3
<1>5. Queues(F, y, z) BY <1>2, <1>3 DEF Shifts, Queues
<1>6. Suppressed(F, y, z) BY <1>2, <1>3 DEF Shifts, Suppressed, Moves
<1>7. y.inbox = z.inbox BY <1>2, <1>3 DEF Shifts
<1> QED BY <1>2, <1>3, <1>4, <1>5, <1>6, <1>7, AsideShifts

\* Both show a call and remember it F apart.
LEMMA ToolUseShifts ==
    ASSUME NEW F, NEW p, NEW s, NEW r, IsReplayer(s), IsReplayer(r), Shifts(F, p, s, r), NEW m
    PROVE  Shifts(F, p, ToolUse(s, m), ToolUse(r, m))
<1>1. PICK y, z, b, k, l : /\ y = ToolUse(s, m) /\ z = ToolUse(r, m) /\ b = NewBlock(m.kind, m.name)
                           /\ k = RawLen(s) + 1 /\ l = RawLen(r) + 1
  OBVIOUS
<1>2. /\ y.out = Append(s.out, b) /\ y.queue = s.queue /\ y.suppress = s.suppress
      /\ y.inbox = s.inbox /\ y.skill = (IF m.kind = "Skill" THEN k ELSE s.skill)
      /\ y.slot = SlotWith(s.slot, m.name, k) /\ Moves(s, y)
  BY <1>1, ToolUseFields
<1>3. /\ z.out = Append(r.out, b) /\ z.queue = r.queue /\ z.suppress = r.suppress
      /\ z.inbox = r.inbox /\ z.skill = (IF m.kind = "Skill" THEN l ELSE r.skill)
      /\ z.slot = SlotWith(r.slot, m.name, l) /\ Moves(r, z)
  BY <1>1, ToolUseFields
<1>4. /\ Outs(F, p, s, r) /\ Slots(F, p, s, r) /\ Skills(F, p, s, r) BY DEF Shifts
<1>5. /\ Len(r.out) = Len(p) + Len(s.out) /\ Len(p) \in Nat /\ Len(s.out) \in Nat
      /\ s.base \in Nat /\ F \in Nat
  BY <1>4, OutsFacts
<1>6. r.base \in Nat BY DEF IsReplayer
<1>7. l = k + F /\ k \in Nat
  <2>1. r.base + Len(p) = s.base + F BY <1>4 DEF Outs
  <2>2. k = (s.base + Len(s.out)) + 1 /\ l = (r.base + Len(r.out)) + 1 BY <1>1 DEF RawLen
  <2>3. PICK a, c, d, n, e : a = s.base /\ c = r.base /\ d = Len(p) /\ n = Len(s.out) /\ e = Len(r.out)
    OBVIOUS
  <2>4. a \in Nat /\ c \in Nat /\ d \in Nat /\ n \in Nat /\ e = d + n /\ c + d = a + F
    BY <1>5, <1>6, <2>1, <2>3
  <2>5. k = (a + n) + 1 /\ l = (c + e) + 1 BY <2>2, <2>3
  <2> QED BY <1>5, <2>4, <2>5
<1>8. Len(y.out) = Len(s.out) + 1
  <2>1. IsSeq(s.out) BY DEF IsReplayer
  <2> QED BY <1>2, <2>1, SeqAppend
<1>9. y.base = s.base /\ y.pending = s.pending /\ z.base = r.base /\ z.pending = r.pending
  BY <1>2, <1>3 DEF Moves
<1>10. k \in Resident(y)
  <2>1. k = (s.base + Len(s.out)) + 1 BY <1>1 DEF RawLen
  <2>2. PICK a, n : a = s.base /\ n = Len(s.out) OBVIOUS
  <2>3. a \in Nat /\ n \in Nat /\ k = (a + n) + 1 BY <1>5, <2>1, <2>2
  <2>4. k \in (a + 1)..(a + (n + 1)) BY <2>3
  <2> QED BY <1>8, <1>9, <2>2, <2>4 DEF Resident
<1>11. Resident(s) \subseteq Resident(y) /\ Before(p, z) = Before(p, r)
  BY <1>2, <1>3, MovesResident
<1>12. z.out = p \o y.out
  <2>1. PICK o : o = s.out OBVIOUS
  <2>2. IsSeq(p) /\ IsSeq(o) /\ r.out = p \o o BY <2>1 DEF Shifts, Outs, IsReplayer
  <2>3. p \o Append(o, b) = Append(p \o o, b) BY <2>2, ConcatAppend
  <2> QED BY <1>2, <1>3, <2>1, <2>2, <2>3
<1>13. Outs(F, p, y, z) BY <1>4, <1>9, <1>12 DEF Outs
<1>14. Queues(F, y, z) BY <1>2, <1>3 DEF Shifts, Queues
<1>15. Suppressed(F, y, z) BY <1>2, <1>3, <1>9 DEF Shifts, Suppressed
<1>16. Slots(F, p, y, z)
  <2>1. DOMAIN y.slot = DOMAIN s.slot \cup {m.name} /\ DOMAIN z.slot = DOMAIN r.slot \cup {m.name}
    BY <1>2, <1>3 DEF SlotWith
  <2>2. \A x \in DOMAIN y.slot : y.slot[x] = IF x = m.name THEN k ELSE s.slot[x]
    BY <1>2, <2>1 DEF SlotWith
  <2>3. \A x \in DOMAIN z.slot : z.slot[x] = IF x = m.name THEN l ELSE r.slot[x]
    BY <1>3, <2>1 DEF SlotWith
  <2>4. ASSUME NEW x \in DOMAIN y.slot
        PROVE  y.slot[x] \in Resident(y) /\ x \in DOMAIN z.slot /\ z.slot[x] = y.slot[x] + F
    <3>1. CASE x = m.name BY <1>7, <1>10, <2>1, <2>2, <2>3, <3>1
    <3>2. CASE x # m.name
      <4>1. x \in DOMAIN s.slot BY <2>1, <3>2
      <4>2. s.slot[x] \in Resident(s) /\ x \in DOMAIN r.slot /\ r.slot[x] = s.slot[x] + F
        BY <1>4, <4>1 DEF Slots
      <4> QED BY <1>11, <2>1, <2>2, <2>3, <3>2, <4>2
    <3> QED BY <3>1, <3>2
  <2>5. ASSUME NEW x \in DOMAIN z.slot
        PROVE  x \in DOMAIN y.slot \/ z.slot[x] \in Before(p, z)
    <3>1. CASE x = m.name BY <2>1, <3>1
    <3>2. CASE x # m.name
      <4>1. x \in DOMAIN r.slot BY <2>1, <3>2
      <4>2. x \in DOMAIN s.slot \/ r.slot[x] \in Before(p, r) BY <1>4, <4>1 DEF Slots
      <4> QED BY <1>11, <2>1, <2>3, <3>2, <4>2
    <3> QED BY <3>1, <3>2
  <2> QED BY <2>4, <2>5 DEF Slots
<1>17. Skills(F, p, y, z)
  <2>1. CASE m.kind = "Skill" BY <1>2, <1>3, <1>7, <1>10, <2>1 DEF Skills
  <2>2. CASE m.kind # "Skill" BY <1>2, <1>3, <1>4, <1>11, <2>2 DEF Skills
  <2> QED BY <2>1, <2>2
<1>18. y.inbox = z.inbox /\ y.pending = z.pending BY <1>2, <1>3, <1>9 DEF Shifts
<1> QED BY <1>1, <1>13, <1>14, <1>15, <1>16, <1>17, <1>18 DEF Shifts

\* Both show a marker and let the prompt wait.
LEMMA EnqueueShifts ==
    ASSUME NEW F, NEW p, NEW s, NEW r, IsReplayer(s), IsReplayer(r), Shifts(F, p, s, r), NEW m,
           NEW prose \in BOOLEAN
    PROVE  Shifts(F, p, Enqueue(s, m, prose), Enqueue(r, m, prose))
<1>1. PICK b : b = NewBlock("QueueEvent", m.name) OBVIOUS
<1>2. IsBlock(b) BY <1>1, NewBlockIsBlock
<1>3. PICK u, v : u = (IF prose THEN Push(s, b) ELSE s) /\ v = (IF prose THEN Push(r, b) ELSE r)
  OBVIOUS
<1>4. Shifts(F, p, u, v) BY <1>2, <1>3, PushShifts
<1>5. Moves(s, u) /\ Moves(r, v) BY <1>2, <1>3, PushMoves, MovesNot
<1>6. IsReplayer(u) /\ IsReplayer(v) BY <1>5 DEF Moves
<1>7. PICK k, l : k = (IF prose THEN RawLen(u) ELSE 0) /\ l = (IF prose THEN RawLen(v) ELSE 0)
  OBVIOUS
<1>8. PICK i, j : i = [text |-> m.name, marker |-> k] /\ j = [text |-> m.name, marker |-> l]
  OBVIOUS
<1>9. PICK y, z : y = Enqueue(s, m, prose) /\ z = Enqueue(r, m, prose) OBVIOUS
<1>10. /\ y.out = u.out /\ y.suppress = u.suppress /\ y.slot = u.slot
       /\ y.skill = u.skill /\ y.inbox = u.inbox
       /\ Len(y.queue) = Len(u.queue) + 1
       /\ \A n \in 1..Len(u.queue) : y.queue[n] = u.queue[n]
       /\ y.queue[Len(u.queue) + 1] = i
  BY <1>1, <1>3, <1>7, <1>8, <1>9, EnqueueFields
<1>11. /\ z.out = v.out /\ z.suppress = v.suppress /\ z.slot = v.slot
       /\ z.skill = v.skill /\ z.inbox = v.inbox
       /\ Len(z.queue) = Len(v.queue) + 1
       /\ \A n \in 1..Len(v.queue) : z.queue[n] = v.queue[n]
       /\ z.queue[Len(v.queue) + 1] = j
  BY <1>1, <1>3, <1>7, <1>8, <1>9, EnqueueFields
<1>12. Moves(s, y) /\ Moves(r, z) BY <1>9, EnqueueMoves
<1>13. Moves(u, y) /\ Moves(v, z)
  <2>1. IsReplayer(y) /\ IsReplayer(z) BY <1>12 DEF Moves
  <2>2. y.base = u.base /\ y.stamped = u.stamped /\ y.times = u.times /\ y.pending = u.pending
        /\ y.past = u.past /\ y.durable = u.durable
    BY <1>5, <1>12 DEF Moves
  <2>3. z.base = v.base /\ z.stamped = v.stamped /\ z.times = v.times /\ z.pending = v.pending
        /\ z.past = v.past /\ z.durable = v.durable
    BY <1>5, <1>12 DEF Moves
  <2>4. Len(u.out) \in Nat /\ Len(v.out) \in Nat BY <1>6 DEF IsReplayer, IsSeq
  <2>5. \A n \in Nat : n <= u.base => (n \in y.gone <=> n \in u.gone)
    BY <1>5, <1>12 DEF Moves
  <2>6. \A n \in Nat : n <= v.base => (n \in z.gone <=> n \in v.gone)
    BY <1>5, <1>12 DEF Moves
  <2>7. Moves(u, y) BY <1>10, <2>1, <2>2, <2>4, <2>5 DEF Moves
  <2>8. Moves(v, z) BY <1>11, <2>1, <2>3, <2>4, <2>6 DEF Moves
  <2> QED BY <2>7, <2>8
<1>14. l = Up(F, k)
  <2>1. CASE ~prose BY <1>7, <2>1 DEF Up
  <2>2. CASE prose
    <3>1. Outs(F, p, u, v) BY <1>4 DEF Shifts
    <3>2. /\ Len(v.out) = Len(p) + Len(u.out) /\ Len(p) \in Nat /\ Len(u.out) \in Nat
          /\ u.base \in Nat /\ F \in Nat
      BY <1>6, <3>1, OutsFacts
    <3>3. v.base \in Nat BY <1>6 DEF IsReplayer
    <3>4. v.base + Len(p) = u.base + F BY <3>1 DEF Outs
    <3>5. Len(u.out) = Len(s.out) + 1 /\ Len(s.out) \in Nat
      <4>1. Len(s.out) \in Nat BY DEF IsReplayer, IsSeq
      <4>2. u = Push(s, b) BY <1>3, <2>2
      <4> QED BY <4>1, <4>2, PushFields
    <3>6. k = u.base + Len(u.out) /\ l = v.base + Len(v.out) BY <1>7, <2>2 DEF RawLen
    <3>7. PICK a, c, d, n, e :
             a = u.base /\ c = v.base /\ d = Len(p) /\ n = Len(u.out) /\ e = Len(v.out)
      OBVIOUS
    <3>8. a \in Nat /\ c \in Nat /\ d \in Nat /\ n \in Nat /\ e = d + n /\ c + d = a + F /\ n # 0
      BY <3>2, <3>3, <3>4, <3>5, <3>7
    <3>9. k = a + n /\ l = c + e BY <3>6, <3>7
    <3>10. k # 0 /\ l = k + F BY <3>2, <3>8, <3>9
    <3> QED BY <3>10 DEF Up
  <2> QED BY <2>1, <2>2
<1>15. Queues(F, y, z)
  <2>1. Len(u.queue) \in Nat /\ Len(v.queue) = Len(u.queue)
    BY <1>4, <1>6 DEF IsReplayer, IsSeq, Shifts, Queues
  <2>2. ASSUME NEW n \in 1..Len(y.queue)
        PROVE  z.queue[n].text = y.queue[n].text /\ z.queue[n].marker = Up(F, y.queue[n].marker)
    <3>1. n \in 1..Len(u.queue) \/ n = Len(u.queue) + 1 BY <1>10, <2>1
    <3>2. CASE n \in 1..Len(u.queue) BY <1>4, <1>10, <1>11, <2>1, <3>2 DEF Shifts, Queues
    <3>3. CASE n = Len(u.queue) + 1
      <4>1. y.queue[n] = i /\ z.queue[n] = j BY <1>10, <1>11, <2>1, <3>3
      <4>2. i.text = j.text /\ i.marker = k /\ j.marker = l BY <1>8
      <4> QED BY <1>14, <4>1, <4>2
    <3> QED BY <3>1, <3>2, <3>3
  <2> QED BY <1>10, <1>11, <2>1, <2>2 DEF Queues
<1>16. y.base = u.base BY <1>13 DEF Moves
<1>17. Suppressed(F, y, z) BY <1>4, <1>10, <1>11, <1>16 DEF Shifts, Suppressed
<1>18. z.out = p \o y.out BY <1>4, <1>10, <1>11 DEF Shifts, Outs
<1>19. y.inbox = z.inbox BY <1>4, <1>10, <1>11 DEF Shifts
<1>20. y.slot = u.slot /\ z.slot = v.slot /\ y.skill = u.skill /\ z.skill = v.skill
  BY <1>10, <1>11
<1> QED BY <1>4, <1>6, <1>9, <1>13, <1>15, <1>17, <1>18, <1>19, <1>20, AsideShifts

\* Both deliver all that waits.
LEMMA PopAllShifts ==
    ASSUME NEW F, NEW p, NEW s, NEW r, IsReplayer(s), IsReplayer(r), Shifts(F, p, s, r)
    PROVE  Shifts(F, p, PopAll(s), PopAll(r))
<1>1. PICK g, n : n \in Nat /\ Pops(g, s, n) BY PopAllCourse
<1>2. PICK h, k : k \in Nat /\ Pops(h, r, k) BY PopAllCourse
<1>3. /\ g[0] = s /\ PopAll(s) = g[n] /\ n = Len(s.queue)
      /\ \A i \in 1..n : g[i] = Pop(g[i - 1], 1)
      /\ \A i \in 0..n : Moves(s, g[i]) /\ Len(g[i].queue) = n - i
  BY <1>1 DEF Pops
<1>4. /\ h[0] = r /\ PopAll(r) = h[k] /\ k = Len(r.queue)
      /\ \A i \in 1..k : h[i] = Pop(h[i - 1], 1)
      /\ \A i \in 0..k : Moves(r, h[i])
  BY <1>2 DEF Pops
<1>5. n = k BY <1>3, <1>4 DEF Shifts, Queues
<1> DEFINE S == {i \in Nat : i <= n => Shifts(F, p, g[i], h[i])}
<1>6. 0 \in S BY <1>3, <1>4
<1>7. ASSUME NEW i \in Nat, i \in S PROVE i + 1 \in S
  <2> SUFFICES ASSUME i + 1 <= n PROVE Shifts(F, p, g[i + 1], h[i + 1]) OBVIOUS
  <2>1. PICK a, b : a = g[i] /\ b = h[i] OBVIOUS
  <2>2. i + 1 \in 1..n /\ (i + 1) - 1 = i /\ i \in 0..n BY <1>1
  <2>3. g[i + 1] = Pop(a, 1) /\ h[i + 1] = Pop(b, 1) BY <1>3, <1>4, <1>5, <2>1, <2>2
  <2>4. IsReplayer(a) /\ IsReplayer(b) /\ Len(a.queue) = n - i
    BY <1>3, <1>4, <1>5, <2>1, <2>2 DEF Moves
  <2>5. 1 \in 1..Len(a.queue) BY <1>1, <2>2, <2>4
  <2>6. Shifts(F, p, a, b) BY <1>1, <1>7, <2>1, <2>2
  <2> QED BY <2>3, <2>4, <2>5, <2>6, PopShifts
<1> HIDE DEF S
<1>8. Nat \subseteq S BY <1>6, <1>7, P!SetInduction
<1> QED BY <1>1, <1>3, <1>4, <1>5, <1>8 DEF S

-----------------------------------------------------------------------------
\* The last opener of a sequence.
LEMMA LastHead ==
    ASSUME NEW s, IsSeq(s), NEW h, h = SelectLastInSeq(s, OpensTurn)
    PROVE  \/ h = 0 /\ \A i \in 1..Len(s) : ~OpensTurn(s[i])
           \/ h \in 1..Len(s) /\ OpensTurn(s[h]) /\ \A i \in 1..Len(s) : OpensTurn(s[i]) => i <= h
<1>1. h = SelectLastInSubSeq(s, 1, Len(s), OpensTurn)
  BY DEF SelectLastInSeq, SelectLastInSubSeq
<1>2. Len(s) \in Nat BY DEF IsSeq
<1> QED BY <1>1, <1>2, LastOpener

\* Behind p, the last opener is at the same block.
LEMMA HeadShift ==
    ASSUME NEW F, NEW p, NEW s, NEW r, IsReplayer(s), IsReplayer(r), Outs(F, p, s, r),
           NEW h, h = SelectLastInSeq(s.out, OpensTurn),
           NEW k, k = SelectLastInSeq(r.out, OpensTurn)
    PROVE  \/ h \in 1..Len(s.out) /\ k = Len(p) + h
           \/ h = 0 /\ k \in 0..Len(p)
<1>1. /\ Len(r.out) = Len(p) + Len(s.out) /\ Len(p) \in Nat /\ Len(s.out) \in Nat
      /\ \A i \in 1..Len(s.out) : r.out[Len(p) + i] = s.out[i]
  BY OutsFacts
<1>2. IsSeq(s.out) /\ IsSeq(r.out) BY DEF IsReplayer
<1>3. \/ h = 0 /\ \A i \in 1..Len(s.out) : ~OpensTurn(s.out[i])
      \/ /\ h \in 1..Len(s.out) /\ OpensTurn(s.out[h])
         /\ \A i \in 1..Len(s.out) : OpensTurn(s.out[i]) => i <= h
  BY <1>2, LastHead
<1>4. \/ k = 0 /\ \A i \in 1..Len(r.out) : ~OpensTurn(r.out[i])
      \/ /\ k \in 1..Len(r.out) /\ OpensTurn(r.out[k])
         /\ \A i \in 1..Len(r.out) : OpensTurn(r.out[i]) => i <= k
  BY <1>2, LastHead
<1>5. CASE h = 0
  <2>1. \A i \in 1..Len(s.out) : ~OpensTurn(s.out[i]) BY <1>1, <1>3, <1>5
  <2>2. ASSUME k > Len(p), k \in 1..Len(r.out), OpensTurn(r.out[k]) PROVE FALSE
    <3>1. PICK i : i = k - Len(p) OBVIOUS
    <3>2. i \in 1..Len(s.out) /\ Len(p) + i = k BY <1>1, <2>2, <3>1
    <3> QED BY <1>1, <2>1, <2>2, <3>2
  <2>3. CASE k = 0 BY <1>1, <1>5, <2>3
  <2>4. CASE k \in 1..Len(r.out) /\ OpensTurn(r.out[k])
    <3>1. ~(k > Len(p)) BY <2>2, <2>4
    <3>2. k \in 0..Len(p) BY <1>1, <2>4, <3>1
    <3> QED BY <1>5, <3>2
  <2> QED BY <1>4, <2>3, <2>4
<1>6. CASE h \in 1..Len(s.out)
  <2>0. h # 0 BY <1>1, <1>6
  <2>1. OpensTurn(s.out[h]) /\ \A i \in 1..Len(s.out) : OpensTurn(s.out[i]) => i <= h
    BY <1>3, <2>0
  <2>2. Len(p) + h \in 1..Len(r.out) BY <1>1, <1>6
  <2>3. OpensTurn(r.out[Len(p) + h]) BY <1>1, <1>6, <2>1
  <2>4. /\ k \in 1..Len(r.out) /\ OpensTurn(r.out[k]) /\ Len(p) + h <= k BY <1>4, <2>2, <2>3
  <2>5. PICK i : i = k - Len(p) OBVIOUS
  <2>6. i \in 1..Len(s.out) /\ Len(p) + i = k BY <1>1, <1>6, <2>4, <2>5
  <2>7. i <= h BY <1>1, <2>1, <2>4, <2>6
  <2> QED BY <1>1, <1>6, <2>4, <2>6, <2>7
<1> QED BY <1>3, <1>5, <1>6

\* The first blocks of the window are p.
Prefixed(p, r) == \A i \in 1..Len(p) : r.out[i] = p[i]

\* Nothing is patched into p where p is to stay.
LEMMA NoJoinBefore ==
    ASSUME NEW F, NEW p, NEW s, NEW r, IsReplayer(s), IsReplayer(r), Tidy(r), Outs(F, p, s, r),
           NEW i \in 1..Len(p), Prefixed(p, Join(r, i))
    PROVE  FALSE
<1>1. /\ Len(r.out) = Len(p) + Len(s.out) /\ Len(p) \in Nat /\ Len(s.out) \in Nat
      /\ \A j \in 1..Len(p) : r.out[j] = p[j]
  BY OutsFacts
<1>2. i \in 1..Len(r.out) BY <1>1
<1>3. Join(r, i).out[i] # r.out[i] BY <1>2, JoinGrows
<1> QED BY <1>1, <1>3 DEF Prefixed

\* A remembered block is the same block in both windows.
LEMMA ShiftIndex ==
    ASSUME NEW F \in Nat, NEW a \in Nat, NEW c \in Nat, NEW d \in Nat, NEW n \in Nat, c + d = a + F,
           NEW x \in (a + 1)..(a + n)
    PROVE  /\ x - a \in 1..n /\ (x + F) - c = d + (x - a)
           /\ x > a /\ x + F > c
OBVIOUS

\* A result goes to the same call in both, or to none.
LEMMA ResultShifts ==
    ASSUME NEW F, NEW p, NEW s, NEW r, IsReplayer(s), IsReplayer(r), Tidy(r), Shifts(F, p, s, r),
           NEW m, Prefixed(p, ToolResult(r, m))
    PROVE  Shifts(F, p, ToolResult(s, m), ToolResult(r, m))
<1>1. PICK b : b = NewBlock("ToolResult", Nil) OBVIOUS
<1>2. IsBlock(b) BY <1>1, NewBlockIsBlock
<1>3. Outs(F, p, s, r) /\ Slots(F, p, s, r) BY DEF Shifts
<1>4. /\ Len(p) \in Nat /\ Len(s.out) \in Nat /\ s.base \in Nat /\ F \in Nat BY <1>3, OutsFacts
<1>5. r.base \in Nat /\ r.base + Len(p) = s.base + F BY <1>3 DEF Outs, IsReplayer
<1>6. CASE m.name \in DOMAIN s.slot
  <2>1. /\ s.slot[m.name] \in Resident(s) /\ m.name \in DOMAIN r.slot
        /\ r.slot[m.name] = s.slot[m.name] + F
    BY <1>3, <1>6 DEF Slots
  <2>2. PICK i, j : i = s.slot[m.name] - s.base /\ j = r.slot[m.name] - r.base OBVIOUS
  <2>3. i \in 1..Len(s.out) /\ j = Len(p) + i
    <3>1. PICK x : x = s.slot[m.name] OBVIOUS
    <3>2. x \in (s.base + 1)..(s.base + Len(s.out)) BY <2>1, <3>1 DEF Resident
    <3>3. x - s.base \in 1..Len(s.out) /\ (x + F) - r.base = Len(p) + (x - s.base)
      <4>1. PICK a, c, d, n : a = s.base /\ c = r.base /\ d = Len(p) /\ n = Len(s.out) OBVIOUS
      <4>2. /\ a \in Nat /\ c \in Nat /\ d \in Nat /\ n \in Nat /\ F \in Nat /\ c + d = a + F
            /\ x \in (a + 1)..(a + n)
        BY <1>4, <1>5, <3>2, <4>1
      <4>3. /\ x - a \in 1..n /\ (x + F) - c = d + (x - a)
            /\ x > a /\ x + F > c
        BY <4>2, ShiftIndex
      <4> QED BY <4>1, <4>3
    <3> QED BY <2>1, <2>2, <3>1, <3>3
  <2>4. ToolResult(s, m) = Join(s, i) /\ ToolResult(r, m) = Join(r, j)
    BY <1>6, <2>1, <2>2 DEF ToolResult
  <2> QED BY <2>3, <2>4, JoinShifts
<1>7. CASE m.name \notin DOMAIN s.slot /\ m.name \in DOMAIN r.slot
  <2>1. r.slot[m.name] \in Before(p, r) BY <1>3, <1>7 DEF Slots
  <2>2. PICK j : j = r.slot[m.name] - r.base OBVIOUS
  <2>3. j \in 1..Len(p) BY <1>4, <1>5, <2>1, <2>2 DEF Before
  <2>4. ToolResult(r, m) = Join(r, j) BY <1>7, <2>2 DEF ToolResult
  <2> QED BY <1>3, <2>3, <2>4, NoJoinBefore
<1>8. CASE m.name \notin DOMAIN s.slot /\ m.name \notin DOMAIN r.slot
  <2>1. ToolResult(s, m) = Push(s, b) /\ ToolResult(r, m) = Push(r, b)
    BY <1>1, <1>8 DEF ToolResult
  <2> QED BY <1>2, <2>1, PushShifts
<1> QED BY <1>6, <1>7, <1>8

\* Does the text of a skill nest into the call at the index at?
Nests(r, h) == r.skill > r.base /\ r.skill - r.base >= h

\* The body of a skill goes to the same block in both, or to none.
LEMMA SkillBodyShifts ==
    ASSUME NEW F, NEW p, NEW s, NEW r, IsReplayer(s), IsReplayer(r), Tidy(r), Shifts(F, p, s, r),
           Prefixed(p, SkillBody(r))
    PROVE  Shifts(F, p, SkillBody(s), SkillBody(r))
<1>1. PICK b : b = NewBlock("ToolResult", Nil) OBVIOUS
<1>2. IsBlock(b) BY <1>1, NewBlockIsBlock
<1>3. Outs(F, p, s, r) /\ Skills(F, p, s, r) BY DEF Shifts
<1>4. /\ Len(p) \in Nat /\ Len(s.out) \in Nat /\ s.base \in Nat /\ F \in Nat BY <1>3, OutsFacts
<1>5. r.base \in Nat /\ r.base + Len(p) = s.base + F BY <1>3 DEF Outs, IsReplayer
<1>6. PICK h, k : h = SelectLastInSeq(s.out, OpensTurn) /\ k = SelectLastInSeq(r.out, OpensTurn)
  OBVIOUS
<1>7. \/ h \in 1..Len(s.out) /\ k = Len(p) + h
      \/ h = 0 /\ k \in 0..Len(p)
  BY <1>3, <1>6, HeadShift
<1>8. PICK i, j : i = s.skill - s.base /\ j = r.skill - r.base OBVIOUS
<1>9. SkillBody(s) = IF Nests(s, h) THEN Join(s, i) ELSE Push(s, b)
  BY <1>1, <1>6, <1>8 DEF SkillBody, Nests
<1>10. SkillBody(r) = IF Nests(r, k) THEN Join(r, j) ELSE Push(r, b)
  BY <1>1, <1>6, <1>8 DEF SkillBody, Nests
<1>11. CASE s.skill = 0
  <2>1. ~Nests(s, h) BY <1>4, <1>11 DEF Nests
  <2>2. CASE Nests(r, k)
    <3>1. r.skill # 0 BY <1>5, <2>2 DEF Nests
    <3>2. r.skill \in Before(p, r) \/ (s.skill \in Resident(s)) BY <1>3, <3>1 DEF Skills
    <3>3. r.skill \in Before(p, r) BY <1>4, <1>11, <3>2 DEF Resident
    <3>4. PICK m, c, n : m = r.skill /\ c = r.base /\ n = Len(p) OBVIOUS
    <3>5. m \in (c + 1)..(c + n) /\ c \in Nat /\ n \in Nat /\ j = m - c
      BY <1>4, <1>5, <1>8, <3>3, <3>4 DEF Before
    <3>6. j \in 1..n BY ONLY <3>5
    <3>7. j \in 1..Len(p) BY <3>4, <3>6
    <3> QED BY <1>3, <1>10, <2>2, <3>7, NoJoinBefore
  <2>3. CASE ~Nests(r, k) BY <1>2, <1>9, <1>10, <2>1, <2>3, PushShifts
  <2> QED BY <2>2, <2>3
<1>12. CASE s.skill # 0
  <2>1. s.skill \in Resident(s) /\ r.skill = s.skill + F BY <1>3, <1>12 DEF Skills
  <2>2. i \in 1..Len(s.out) /\ j = Len(p) + i /\ s.skill > s.base /\ r.skill > r.base
    <3>1. PICK x : x = s.skill OBVIOUS
    <3>2. x \in (s.base + 1)..(s.base + Len(s.out)) BY <2>1, <3>1 DEF Resident
    <3>3. /\ x - s.base \in 1..Len(s.out) /\ (x + F) - r.base = Len(p) + (x - s.base)
          /\ x > s.base /\ x + F > r.base
      <4>1. PICK a, c, d, n : a = s.base /\ c = r.base /\ d = Len(p) /\ n = Len(s.out) OBVIOUS
      <4>2. /\ a \in Nat /\ c \in Nat /\ d \in Nat /\ n \in Nat /\ F \in Nat /\ c + d = a + F
            /\ x \in (a + 1)..(a + n)
        BY <1>4, <1>5, <3>2, <4>1
      <4>3. /\ x - a \in 1..n /\ (x + F) - c = d + (x - a)
            /\ x > a /\ x + F > c
        BY <4>2, ShiftIndex
      <4> QED BY <4>1, <4>3
    <3> QED BY <1>8, <2>1, <3>1, <3>3
  <2>3. i >= h <=> j >= k BY <1>4, <1>7, <2>2
  <2>4. Nests(s, h) <=> Nests(r, k) BY <1>8, <2>2, <2>3 DEF Nests
  <2> QED BY <1>2, <1>9, <1>10, <2>2, <2>4, PushShifts, JoinShifts
<1> QED BY <1>11, <1>12

\* The last block, where there is one behind p.
LEMMA LastShifts ==
    ASSUME NEW F, NEW p, NEW s, NEW r, IsReplayer(s), IsReplayer(r), Outs(F, p, s, r)
    PROVE  /\ Len(s.out) > 0 => /\ \A kind : LastIs(s, kind) <=> LastIs(r, kind)
                                /\ Last(s.out) = Last(r.out)
           /\ Len(s.out) = 0 => /\ \A kind : ~LastIs(s, kind)
                                /\ \A kind : LastIs(r, kind) => Len(r.out) \in 1..Len(p)
<1>1. /\ Len(r.out) = Len(p) + Len(s.out) /\ Len(p) \in Nat /\ Len(s.out) \in Nat
      /\ \A i \in 1..Len(s.out) : r.out[Len(p) + i] = s.out[i]
  BY OutsFacts
<1>2. ASSUME Len(s.out) > 0
      PROVE  (\A kind : LastIs(s, kind) <=> LastIs(r, kind)) /\ Last(s.out) = Last(r.out)
  <2>1. Len(s.out) \in 1..Len(s.out) BY <1>1, <1>2
  <2>2. r.out[Len(r.out)] = s.out[Len(s.out)] BY <1>1, <2>1
  <2>3. Len(r.out) > 0 BY <1>1, <1>2
  <2>4. Last(s.out) = Last(r.out) BY <2>2 DEF Last
  <2> QED BY <1>2, <2>2, <2>3, <2>4, LastIsIn
<1>3. ASSUME Len(s.out) = 0
      PROVE  (\A kind : ~LastIs(s, kind)) /\ \A kind : LastIs(r, kind) => Len(r.out) \in 1..Len(p)
  <2>1. \A kind : ~LastIs(s, kind) BY <1>3, LastIsIn
  <2>2. \A kind : LastIs(r, kind) => Len(r.out) > 0 BY LastIsIn
  <2>3. Len(r.out) > 0 => Len(r.out) \in 1..Len(p) BY <1>1, <1>3
  <2> QED BY <2>1, <2>2, <2>3
<1> QED BY <1>2, <1>3

\* A message that patches the last block, or stands alone when the last block is not for it.
LEMMA LastJoinShifts ==
    ASSUME NEW F, NEW p, NEW s, NEW r, IsReplayer(s), IsReplayer(r), Tidy(r), Shifts(F, p, s, r)
    PROVE  /\ Len(s.out) > 0 => Shifts(F, p, Join(s, Len(s.out)), Join(r, Len(r.out)))
           /\ Len(s.out) = 0 /\ Len(r.out) \in 1..Len(p) => ~Prefixed(p, Join(r, Len(r.out)))
<1>1. Outs(F, p, s, r) BY DEF Shifts
<1>2. /\ Len(r.out) = Len(p) + Len(s.out) /\ Len(p) \in Nat /\ Len(s.out) \in Nat
  BY <1>1, OutsFacts
<1>3. ASSUME Len(s.out) > 0 PROVE Shifts(F, p, Join(s, Len(s.out)), Join(r, Len(r.out)))
  <2>1. PICK i, j : i = Len(s.out) /\ j = Len(r.out) OBVIOUS
  <2>2. i \in 1..Len(s.out) /\ j = Len(p) + i BY <1>2, <1>3, <2>1
  <2>3. Shifts(F, p, Join(s, i), Join(r, j)) BY <2>2, JoinShifts
  <2> QED BY <2>1, <2>3
<1> QED BY <1>1, <1>3, NoJoinBefore

\* Command output goes to the same block in both, or is a block of its own.
LEMMA StdoutShifts ==
    ASSUME NEW F, NEW p, NEW s, NEW r, IsReplayer(s), IsReplayer(r), Shifts(F, p, s, r)
    PROVE  Shifts(F, p, Join(Push(s, NewBlock("Command", Nil)), Len(s.out) + 1),
                        Join(Push(r, NewBlock("Command", Nil)), Len(r.out) + 1))
<1>1. PICK b : b = NewBlock("Command", Nil) OBVIOUS
<1>2. IsBlock(b) BY <1>1, NewBlockIsBlock
<1>3. PICK y, z : y = Push(s, b) /\ z = Push(r, b) OBVIOUS
<1>4. Shifts(F, p, y, z) BY <1>2, <1>3, PushShifts
<1>5. IsReplayer(y) /\ IsReplayer(z) BY <1>2, <1>3, PushMoves DEF Moves
<1>6. Len(y.out) = Len(s.out) + 1 BY <1>3, PushFields
<1>7. Outs(F, p, s, r) BY DEF Shifts
<1>8. Len(r.out) = Len(p) + Len(s.out) /\ Len(p) \in Nat /\ Len(s.out) \in Nat
  BY <1>7, OutsFacts
<1>9. PICK i, j : i = Len(s.out) + 1 /\ j = Len(r.out) + 1 OBVIOUS
<1>10. i \in 1..Len(y.out) /\ j = Len(p) + i BY <1>6, <1>8, <1>9
<1>11. Shifts(F, p, Join(y, i), Join(z, j)) BY <1>4, <1>5, <1>10, JoinShifts
<1> QED BY <1>1, <1>3, <1>9, <1>11

\* A message does the same to both folds, so long as it does not patch p.
LEMMA MessageShifts ==
    ASSUME NEW F, NEW p, NEW s, NEW r, IsReplayer(s), IsReplayer(r), Tidy(r), Shifts(F, p, s, r),
           NEW m, Prefixed(p, ApplyMessage(r, m))
    PROVE  Shifts(F, p, ApplyMessage(s, m), ApplyMessage(r, m))
<1>1. \A k, n : IsBlock(NewBlock(k, n)) BY NewBlockIsBlock
<1>2. \A k, n : Shifts(F, p, Push(s, NewBlock(k, n)), Push(r, NewBlock(k, n)))
  BY <1>1, PushShifts
<1>3. Outs(F, p, s, r) /\ Len(s.out) \in Nat BY DEF Shifts, IsReplayer, IsSeq
<1>4. CASE m.kind \in {"UserText", "UserInbox"}
  <2>1. PICK c, d : c = Deliver(s, m.name) /\ d = Deliver(r, m.name) OBVIOUS
  <2>2. Shifts(F, p, c, d) /\ IsReplayer(c) /\ IsReplayer(d)
    BY <2>1, DeliverShifts, DeliverMoves DEF Moves
  <2>3. \A k, n : Shifts(F, p, Push(c, NewBlock(k, n)), Push(d, NewBlock(k, n)))
    BY <1>1, <2>2, PushShifts
  <2>4. CASE m.kind = "UserText"
    <3>1. /\ ApplyMessage(s, m) = Push(c, NewBlock("UserText", m.name))
          /\ ApplyMessage(r, m) = Push(d, NewBlock("UserText", m.name))
      BY <2>1, <2>4 DEF ApplyMessage
    <3> QED BY <2>3, <3>1
  <2>5. CASE m.kind = "UserInbox"
    <3>1. ApplyMessage(s, m) = UserInbox(s, m) /\ ApplyMessage(r, m) = UserInbox(r, m)
      BY <2>5 DEF ApplyMessage
    <3>2. s.inbox = r.inbox BY DEF Shifts
    <3>3. CASE m.name \in r.inbox
      <4>1. UserInbox(s, m) = Push(c, NewBlock("UserText", m.name)) BY <2>1, <3>2, <3>3 DEF UserInbox
      <4>2. UserInbox(r, m) = Push(d, NewBlock("UserText", m.name)) BY <2>1, <3>3 DEF UserInbox
      <4> QED BY <2>3, <3>1, <4>1, <4>2
    <3>4. CASE m.name \notin r.inbox
      <4>1. PICK b : b = NewBlock("UserInbox", m.name) OBVIOUS
      <4>2. UserInbox(s, m) = [Push(c, b) EXCEPT !.inbox = @ \cup {m.name}]
        BY <2>1, <3>2, <3>4, <4>1 DEF UserInbox
      <4>3. UserInbox(r, m) = [Push(d, b) EXCEPT !.inbox = @ \cup {m.name}]
        BY <2>1, <3>4, <4>1 DEF UserInbox
      <4> QED BY <2>2, <3>1, <4>1, <4>2, <4>3, RelayShifts
    <3> QED BY <3>3, <3>4
  <2> QED BY <1>4, <2>4, <2>5
<1>5. CASE m.kind \in {"ToolUse", "Edit", "Skill"}
  <2>1. ApplyMessage(s, m) = ToolUse(s, m) /\ ApplyMessage(r, m) = ToolUse(r, m)
    BY <1>5 DEF ApplyMessage
  <2> QED BY <2>1, ToolUseShifts
<1>6. CASE m.kind = "ToolResult"
  <2>1. ApplyMessage(s, m) = ToolResult(s, m) /\ ApplyMessage(r, m) = ToolResult(r, m)
    BY <1>6 DEF ApplyMessage
  <2> QED BY <2>1, ResultShifts
<1>7. CASE m.kind = "SkillBody"
  <2>1. ApplyMessage(s, m) = SkillBody(s) /\ ApplyMessage(r, m) = SkillBody(r)
    BY <1>7 DEF ApplyMessage
  <2> QED BY <2>1, SkillBodyShifts
<1>8. CASE m.kind = "CommandStdout"
  <2>1. ApplyMessage(s, m) = IF LastIs(s, "Command") THEN Join(s, Len(s.out))
                             ELSE Join(Push(s, NewBlock("Command", Nil)), Len(s.out) + 1)
    BY <1>8 DEF ApplyMessage
  <2>2. ApplyMessage(r, m) = IF LastIs(r, "Command") THEN Join(r, Len(r.out))
                             ELSE Join(Push(r, NewBlock("Command", Nil)), Len(r.out) + 1)
    BY <1>8 DEF ApplyMessage
  <2>3. CASE Len(s.out) > 0
    <3>1. LastIs(s, "Command") <=> LastIs(r, "Command") BY <1>3, <2>3, LastShifts
    <3> QED BY <2>1, <2>2, <2>3, <3>1, LastJoinShifts, StdoutShifts
  <2>4. CASE Len(s.out) = 0
    <3>1. ~LastIs(s, "Command") /\ (LastIs(r, "Command") => Len(r.out) \in 1..Len(p))
      BY <1>3, <2>4, LastShifts
    <3>2. ~LastIs(r, "Command") BY <2>2, <2>4, <3>1, LastJoinShifts
    <3> QED BY <2>1, <2>2, <3>1, <3>2, StdoutShifts
  <2> QED BY <1>3, <2>3, <2>4
<1>9. CASE m.kind = "CompactSummary"
  <2>1. ApplyMessage(s, m) = IF LastIs(s, "Compaction") /\ Last(s.out).joined = 0
                             THEN Join(s, Len(s.out)) ELSE Push(s, NewBlock("ToolResult", Nil))
    BY <1>9 DEF ApplyMessage
  <2>2. ApplyMessage(r, m) = IF LastIs(r, "Compaction") /\ Last(r.out).joined = 0
                             THEN Join(r, Len(r.out)) ELSE Push(r, NewBlock("ToolResult", Nil))
    BY <1>9 DEF ApplyMessage
  <2>3. CASE Len(s.out) > 0
    <3>1. (LastIs(s, "Compaction") <=> LastIs(r, "Compaction")) /\ Last(s.out) = Last(r.out)
      BY <1>3, <2>3, LastShifts
    <3> QED BY <1>2, <2>1, <2>2, <2>3, <3>1, LastJoinShifts
  <2>4. CASE Len(s.out) = 0
    <3>1. ~LastIs(s, "Compaction") /\ (LastIs(r, "Compaction") => Len(r.out) \in 1..Len(p))
      BY <1>3, <2>4, LastShifts
    <3>2. ~(LastIs(r, "Compaction") /\ Last(r.out).joined = 0) BY <2>2, <2>4, <3>1, LastJoinShifts
    <3> QED BY <1>2, <2>1, <2>2, <3>1, <3>2
  <2> QED BY <1>3, <2>3, <2>4
<1>10. CASE m.kind \in {"Enqueue", "EnqueueQuiet"}
  <2>1. PICK prose \in BOOLEAN : prose = (m.kind = "Enqueue") OBVIOUS
  <2>2. ApplyMessage(s, m) = Enqueue(s, m, prose) /\ ApplyMessage(r, m) = Enqueue(r, m, prose)
    <3>1. CASE m.kind = "Enqueue"
      <4>1. prose = TRUE BY <2>1, <3>1
      <4>2. ApplyMessage(s, m) = Enqueue(s, m, TRUE) /\ ApplyMessage(r, m) = Enqueue(r, m, TRUE)
        BY <3>1 DEF ApplyMessage
      <4> QED BY <4>1, <4>2
    <3>2. CASE m.kind = "EnqueueQuiet"
      <4>1. prose = FALSE BY <2>1, <3>2
      <4>2. ApplyMessage(s, m) = Enqueue(s, m, FALSE) /\ ApplyMessage(r, m) = Enqueue(r, m, FALSE)
        BY <3>2 DEF ApplyMessage
      <4> QED BY <4>1, <4>2
    <3> QED BY <1>10, <3>1, <3>2
  <2> QED BY <2>2, EnqueueShifts
<1>11. CASE m.kind = "Dequeue"
  <2>1. ApplyMessage(s, m) = Dequeue(s, m) /\ ApplyMessage(r, m) = Dequeue(r, m)
    BY <1>11 DEF ApplyMessage
  <2>2. CASE m.name # Nil
    <3>1. Dequeue(s, m) = Deliver(s, m.name) /\ Dequeue(r, m) = Deliver(r, m.name)
      BY <2>2 DEF Dequeue
    <3> QED BY <2>1, <3>1, DeliverShifts
  <2>3. CASE m.name = Nil
    <3>1. Len(r.queue) = Len(s.queue) BY DEF Shifts, Queues
    <3>2. IsSeq(s.queue) /\ IsSeq(r.queue) /\ Len(s.queue) \in Nat BY DEF IsReplayer, IsSeq
    <3>3. (s.queue = <<>> <=> Len(s.queue) = 0) /\ (r.queue = <<>> <=> Len(r.queue) = 0)
      BY <3>2, LenZero
    <3>4. Dequeue(s, m) = (IF s.queue = <<>> THEN s ELSE Pop(s, 1)) BY <2>3 DEF Dequeue
    <3>5. Dequeue(r, m) = (IF r.queue = <<>> THEN r ELSE Pop(r, 1)) BY <2>3 DEF Dequeue
    <3>6. s.queue # <<>> => 1 \in 1..Len(s.queue) BY <3>2, <3>3
    <3> QED BY <2>1, <3>1, <3>3, <3>4, <3>5, <3>6, PopShifts
  <2> QED BY <2>2, <2>3
<1>12. CASE m.kind = "PopAll"
  <2>1. ApplyMessage(s, m) = PopAll(s) /\ ApplyMessage(r, m) = PopAll(r)
    BY <1>12 DEF ApplyMessage
  <2> QED BY <2>1, PopAllShifts
<1>13. CASE m.kind \notin {"UserText", "UserInbox", "ToolUse", "Edit", "Skill", "ToolResult",
                          "SkillBody", "CommandStdout", "CompactSummary", "Enqueue",
                          "EnqueueQuiet", "Dequeue", "PopAll"}
  <2>1. /\ ApplyMessage(s, m) = Push(s, NewBlock(m.kind, m.name))
        /\ ApplyMessage(r, m) = Push(r, NewBlock(m.kind, m.name))
    BY <1>13 DEF ApplyMessage
  <2> QED BY <1>2, <2>1
<1> QED BY <1>4, <1>5, <1>6, <1>7, <1>8, <1>9, <1>10, <1>11, <1>12, <1>13

\* Hence a line takes two folds that are shifted to two that are, provided
\* r has p still, unchanged, at its end.
LEMMA LineShifts ==
    ASSUME NEW F, NEW p, NEW s, NEW r, IsReplayer(s), IsReplayer(r), Tidy(r), Shifts(F, p, s, r),
           NEW line \in Lines, NEW y, y = FoldLeft(ApplyMessage, s, line),
           NEW z, z = FoldLeft(ApplyMessage, r, line), Prefixed(p, z)
    PROVE  Shifts(F, p, y, z)
<1>1. PICK g, n : Says(g, s, line, n) BY LineCourse
<1>2. PICK h, k : Says(h, r, line, k) BY LineCourse
<1>3. /\ g[0] = s /\ n \in Nat /\ y = g[n] /\ DOMAIN line = 1..n
      /\ \A i \in 1..n : g[i] = ApplyMessage(g[i - 1], line[i])
  BY <1>1 DEF Says
<1>4. /\ h[0] = r /\ k \in Nat /\ z = h[k] /\ DOMAIN line = 1..k
      /\ \A i \in 1..k : h[i] = ApplyMessage(h[i - 1], line[i])
  BY <1>2 DEF Says
<1>5. n = k
  <2>1. 1..n = 1..k /\ n \in Nat /\ k \in Nat BY <1>3, <1>4
  <2>2. n \in 0..k /\ k \in 0..n BY <2>1
  <2> QED BY <2>2
<1>6. \A j \in 0..n : /\ IsReplayer(h[j]) /\ Tidy(h[j])
                      /\ \A i \in 0..j : Grows(h[i], h[j])
  BY <1>2, <1>5, LineGrows
<1>7. Outs(F, p, s, r) BY DEF Shifts
<1>8. /\ Len(r.out) = Len(p) + Len(s.out) /\ Len(p) \in Nat /\ Len(s.out) \in Nat
      /\ \A i \in 1..Len(p) : r.out[i] = p[i]
  BY <1>7, OutsFacts
\* A patch of p would show at the end of the line.
<1>9. ASSUME NEW j \in 0..n PROVE Prefixed(p, h[j])
  <2>1. PICK a : a = h[j] OBVIOUS
  <2>2. 0 \in 0..j /\ j \in 0..n /\ n \in 0..n BY <1>3
  <2>3. Grows(r, a) /\ Grows(a, z) /\ Tidy(a) /\ Tidy(z) /\ IsReplayer(a) /\ IsReplayer(z)
    BY <1>4, <1>5, <1>6, <2>1, <2>2
  <2> SUFFICES ASSUME NEW i \in 1..Len(p) PROVE a.out[i] = p[i] BY <2>1 DEF Prefixed
  <2>4. Len(a.out) \in Nat /\ Len(z.out) \in Nat /\ Len(r.out) <= Len(a.out) /\ Len(a.out) <= Len(z.out)
    BY <2>3 DEF Grows, Moves, IsReplayer, IsSeq
  <2>5. i \in 1..Len(r.out) /\ i \in 1..Len(a.out) /\ i \in 1..Len(z.out) BY <1>8, <2>4
  <2>6. r.out[i] = p[i] /\ z.out[i] = p[i] BY <1>8 DEF Prefixed
  <2>7. a.out[i] = r.out[i] \/ r.out[i].joined < a.out[i].joined BY <2>3, <2>5 DEF Grows
  <2>8. z.out[i] = a.out[i] \/ a.out[i].joined < z.out[i].joined BY <2>3, <2>5 DEF Grows
  <2>9. r.out[i].joined \in Nat /\ a.out[i].joined \in Nat BY <2>3, <2>5 DEF Tidy
  <2>10. z.out[i].joined = r.out[i].joined BY <2>6
  <2> QED BY <2>6, <2>7, <2>8, <2>9, <2>10
<1> DEFINE S == {i \in Nat : i <= n => IsReplayer(g[i]) /\ Shifts(F, p, g[i], h[i])}
<1>10. 0 \in S BY <1>3, <1>4
<1>11. ASSUME NEW i \in Nat, i \in S PROVE i + 1 \in S
  <2> SUFFICES ASSUME i + 1 <= n
               PROVE  IsReplayer(g[i + 1]) /\ Shifts(F, p, g[i + 1], h[i + 1])
    OBVIOUS
  <2>1. PICK a, b, m : a = g[i] /\ b = h[i] /\ m = line[i + 1] OBVIOUS
  <2>2. i + 1 \in 1..n /\ (i + 1) - 1 = i /\ i \in 0..n /\ i + 1 \in 0..n BY <1>3
  <2>3. g[i + 1] = ApplyMessage(a, m) /\ h[i + 1] = ApplyMessage(b, m)
    BY <1>3, <1>4, <1>5, <2>1, <2>2
  <2>4. IsReplayer(a) /\ Shifts(F, p, a, b) BY <1>3, <1>11, <2>1
  <2>5. IsReplayer(b) /\ Tidy(b) BY <1>6, <2>1, <2>2
  <2>6. Prefixed(p, ApplyMessage(b, m)) BY <1>9, <2>2, <2>3
  <2>7. Shifts(F, p, ApplyMessage(a, m), ApplyMessage(b, m)) BY <2>4, <2>5, <2>6, MessageShifts
  <2>8. IsReplayer(ApplyMessage(a, m)) BY <2>4, MessageMoves DEF Moves
  <2> QED BY <2>3, <2>7, <2>8
<1> HIDE DEF S
<1>12. Nat \subseteq S BY <1>10, <1>11, P!SetInduction
<1> QED BY <1>3, <1>4, <1>5, <1>12 DEF S

-----------------------------------------------------------------------------
(* The time stamps.                                                        *)

\* A part of what is behind p.
LEMMA SubBehind ==
    ASSUME NEW p, NEW o, IsSeq(p), IsSeq(o), NEW i \in Nat, NEW n \in Nat, i <= n, n <= Len(o),
           NEW j, j = Len(p) + i, NEW k, k = Len(p) + n
    PROVE  SubSeq(p \o o, j + 1, k) = SubSeq(o, i + 1, n)
<1>1. PICK d, u, x, y : /\ d = Len(p) /\ u = p \o o
                        /\ x = SubSeq(u, j + 1, k) /\ y = SubSeq(o, i + 1, n)
  OBVIOUS
<1>2. d \in Nat /\ Len(o) \in Nat BY <1>1 DEF IsSeq
<1>3. \A l \in 1..Len(o) : u[d + l] = o[l] BY <1>1, SeqConcat
<1>4. j \in Nat /\ k \in Nat /\ j <= k /\ k - j = n - i BY <1>1, <1>2
<1>5. IsSeq(x) /\ Len(x) = k - j /\ \A l \in 1..(k - j) : x[l] = u[j + l]
  <2>1. PICK a \in Nat, b \in Nat : a = j /\ b = k BY <1>4
  <2>2. a <= b /\ x = SubSeq(u, a + 1, b) BY <1>1, <1>4, <2>1
  <2>3. IsSeq(x) /\ Len(x) = b - a /\ \A l \in 1..(b - a) : x[l] = u[a + l] BY <2>2, SubRest
  <2> QED BY <2>1, <2>3
<1>6. IsSeq(y) /\ Len(y) = n - i /\ \A l \in 1..(n - i) : y[l] = o[i + l] BY <1>1, SubRest
<1>7. ASSUME NEW l \in 1..Len(x) PROVE x[l] = y[l]
  <2>1. l \in 1..(n - i) /\ j + l = d + (i + l) /\ i + l \in 1..Len(o)
    BY <1>1, <1>2, <1>4, <1>5, <1>7
  <2> QED BY <1>3, <1>4, <1>5, <1>6, <2>1
<1>8. x = y BY <1>4, <1>5, <1>6, <1>7, SameSeq
<1> QED BY <1>1, <1>8

\* How many turns of the window have no time yet.
Untimed(r) == Openers(SubSeq(r.out, r.stamped - r.base + 1, Len(r.out)))

\* The times `stamp` gives to the turns that have none.
Alloted(r) == [i \in 1..Untimed(r) |-> r.pending]

\* z is r with a time for every turn of its window.
Stamped(r, z) ==
    /\ z.out = r.out /\ z.base = r.base /\ z.durable = r.durable /\ z.queue = r.queue
    /\ z.suppress = r.suppress /\ z.past = r.past /\ z.gone = r.gone
    /\ z.slot = r.slot /\ z.skill = r.skill /\ z.inbox = r.inbox
    /\ z.times = OpenTimes(r) /\ z.stamped = RawLen(r)
    /\ IsReplayer(z)

\* `stamp` gives the untimed turns the pending time.
LEMMA StampFields ==
    ASSUME NEW r, IsReplayer(r), NEW z, z = StampUserTurns(r)
    PROVE  /\ Stamped(r, z) /\ z.pending = r.pending
           /\ OpenTimes(r) = r.times \o Alloted(r)
<1>1. PICK new, ts : new = Untimed(r) /\ ts = r.times \o Alloted(r) OBVIOUS
<1>2. z = [r EXCEPT !.times = ts, !.stamped = RawLen(r)]
  BY <1>1 DEF StampUserTurns, Alloted, Untimed
<1>3. /\ z.out = r.out /\ z.base = r.base /\ z.durable = r.durable /\ z.queue = r.queue
      /\ z.suppress = r.suppress /\ z.past = r.past /\ z.gone = r.gone
      /\ z.slot = r.slot /\ z.skill = r.skill /\ z.inbox = r.inbox /\ z.pending = r.pending
      /\ z.times = ts /\ z.stamped = RawLen(r)
  BY <1>2 DEF IsReplayer, Fields
<1>4. IsReplayer(z) BY StampStamps DEF Stamps
<1>5. OpenTimes(r) = z.times BY DEF OpenTimes
<1> QED BY <1>1, <1>3, <1>4, <1>5 DEF Stamped

LEMMA StartFields ==
    ASSUME NEW r, IsReplayer(r), NEW ts, NEW z, z = LineStart(r, ts)
    PROVE  Stamped(r, z) /\ z.pending = ts
<1>1. PICK y : y = StampUserTurns(r) OBVIOUS
<1>2. Stamped(r, y) BY <1>1, StampFields
<1>3. z = [y EXCEPT !.pending = ts] BY <1>1 DEF LineStart
<1>4. DOMAIN y = Fields BY <1>2 DEF Stamped, IsReplayer
<1>5. /\ z.out = y.out /\ z.base = y.base /\ z.durable = y.durable /\ z.queue = y.queue
      /\ z.suppress = y.suppress /\ z.past = y.past /\ z.gone = y.gone
      /\ z.slot = y.slot /\ z.skill = y.skill /\ z.inbox = y.inbox /\ z.pending = ts
      /\ z.times = y.times /\ z.stamped = y.stamped
  BY <1>3, <1>4 DEF Fields
<1>6. IsReplayer(z) BY LineStartStamps DEF Stamps
<1> QED BY <1>2, <1>5, <1>6 DEF Stamped

\* Where every turn has its time, no time is added.
LEMMA StampedTimes ==
    ASSUME NEW r, IsReplayer(r), r.stamped = RawLen(r)
    PROVE  OpenTimes(r) = r.times
<1>1. PICK n, d : n = Len(r.out) /\ d = r.base OBVIOUS
<1>2. n \in Nat /\ d \in Nat BY <1>1 DEF IsReplayer, IsSeq
<1>3. r.stamped - r.base + 1 = n + 1 BY <1>1, <1>2 DEF RawLen
<1>4. SubSeq(r.out, n + 1, n) = <<>> BY <1>2, SubSeqEmpty
<1>5. Untimed(r) = 0 BY <1>1, <1>3, <1>4, OpenersEmpty DEF Untimed
<1>6. Alloted(r) = <<>> BY <1>5 DEF Alloted
<1>7. r.times \o <<>> = r.times
  <2>1. PICK t : t = r.times OBVIOUS
  <2>2. IsSeq(t) BY <2>1 DEF IsReplayer
  <2> QED BY <2>1, <2>2, ConcatNone
<1>8. OpenTimes(r) = r.times \o Alloted(r) BY StampFields
<1> QED BY <1>6, <1>7, <1>8

\* The clocks of two folds that follow each other agree.
Clock(F, s, r) == s.times = r.times /\ s.pending = r.pending /\ r.stamped = s.stamped + F

\* Agreeing clocks give the open turns the same times.
LEMMA SameTimes ==
    ASSUME NEW F, NEW p, NEW s, NEW r, IsReplayer(s), IsReplayer(r), Outs(F, p, s, r),
           Clock(F, s, r)
    PROVE  OpenTimes(s) = OpenTimes(r)
<1>1. PICK o, d, n : o = s.out /\ d = Len(p) /\ n = Len(o) OBVIOUS
<1>2. /\ Len(r.out) = d + n /\ d \in Nat /\ n \in Nat /\ IsSeq(o) /\ IsSeq(p)
      /\ s.base \in Nat /\ F \in Nat
  BY <1>1, OutsFacts
<1>3. r.out = p \o o /\ r.base + d = s.base + F BY <1>1 DEF Outs
<1>4. PICK i \in Nat : i = s.stamped - s.base /\ i <= n BY <1>1, <1>2 DEF IsReplayer
<1>5. PICK j : j = r.stamped - r.base OBVIOUS
<1>6. r.base \in Nat /\ r.stamped \in Nat /\ s.stamped \in Nat
  <2>1. r.base \in Nat /\ r.stamped \in r.base..(r.base + Len(r.out)) BY DEF IsReplayer
  <2>2. s.stamped \in s.base..(s.base + n) BY <1>1 DEF IsReplayer
  <2> QED BY <1>2, <2>1, <2>2
<1>7. j = d + i
  <2>1. r.stamped = s.stamped + F BY DEF Clock
  <2>2. PICK a \in Nat, b \in Nat, c \in Nat, e \in Nat :
            a = r.base /\ b = s.base /\ c = r.stamped /\ e = s.stamped
    BY <1>2, <1>6
  <2>3. c = e + F /\ a + d = b + F /\ i = e - b /\ j = c - a BY <1>3, <1>4, <1>5, <2>1, <2>2
  <2> QED BY <1>2, <2>3
<1>8. SubSeq(p \o o, j + 1, d + n) = SubSeq(o, i + 1, n)
  <2>1. PICK k : k = d + n OBVIOUS
  <2>2. j = Len(p) + i /\ k = Len(p) + n /\ n = Len(o) BY <1>1, <1>7, <2>1
  <2>3. i <= n /\ n <= Len(o) BY <1>2, <1>4, <2>2
  <2>4. IsSeq(p) /\ IsSeq(o) /\ i \in Nat /\ n \in Nat BY <1>2, <1>4
  <2>5. SubSeq(p \o o, j + 1, k) = SubSeq(o, i + 1, n) BY <2>2, <2>3, <2>4, SubBehind
  <2> QED BY <2>1, <2>5
<1>9. Untimed(r) = Untimed(s) BY <1>1, <1>2, <1>3, <1>4, <1>5, <1>8 DEF Untimed
<1>10. Alloted(r) = Alloted(s) BY <1>9 DEF Alloted, Clock
<1> QED BY <1>10, StampFields DEF Clock

-----------------------------------------------------------------------------
(* A line, and what it leaves.                                             *)

\* What a fold shows of its window, and what it will do with the next line,
\* but for the line's own time.
Alike(F, p, s, r) ==
    /\ Outs(F, p, s, r) /\ Queues(F, s, r) /\ Suppressed(F, s, r)
    /\ Slots(F, p, s, r) /\ Skills(F, p, s, r)
    /\ s.inbox = r.inbox /\ OpenTimes(s) = OpenTimes(r)

\* The start of a line: the same stamps in both.
LEMMA StartShifts ==
    ASSUME NEW F, NEW p, NEW s, NEW r, IsReplayer(s), IsReplayer(r), Alike(F, p, s, r), NEW ts,
           NEW y, y = LineStart(s, ts), NEW z, z = LineStart(r, ts)
    PROVE  Shifts(F, p, y, z) /\ Clock(F, y, z) /\ IsReplayer(y) /\ IsReplayer(z)
<1>1. Stamped(s, y) /\ y.pending = ts BY StartFields
<1>2. Stamped(r, z) /\ z.pending = ts BY StartFields
<1>3. Outs(F, p, s, r) BY DEF Alike
<1>4. /\ Len(r.out) = Len(p) + Len(s.out) /\ Len(p) \in Nat /\ Len(s.out) \in Nat
      /\ s.base \in Nat /\ F \in Nat
  BY <1>3, OutsFacts
<1>5. r.base \in Nat /\ r.base + Len(p) = s.base + F BY <1>3 DEF Outs, IsReplayer
<1>6. RawLen(r) = RawLen(s) + F
  <2>1. PICK c, d, e, g : c = r.base /\ d = Len(p) /\ e = Len(s.out) /\ g = s.base OBVIOUS
  <2>2. c \in Nat /\ d \in Nat /\ e \in Nat /\ g \in Nat /\ c + d = g + F
    BY <1>4, <1>5, <2>1
  <2>3. c + (d + e) = (g + e) + F BY <1>4, <2>2
  <2> QED BY <1>4, <2>1, <2>3 DEF RawLen
<1>7. Clock(F, y, z) BY <1>1, <1>2, <1>6 DEF Clock, Stamped, Alike
<1>8. Outs(F, p, y, z) BY <1>1, <1>2, <1>3 DEF Outs, Stamped
<1>9. Queues(F, y, z) /\ Suppressed(F, y, z) BY <1>1, <1>2 DEF Queues, Suppressed, Stamped, Alike
<1>10. Resident(y) = Resident(s) /\ Before(p, z) = Before(p, r)
  BY <1>1, <1>2 DEF Resident, Before, Stamped
<1>11. Slots(F, p, y, z) BY <1>1, <1>2, <1>10 DEF Slots, Stamped, Alike
<1>12. Skills(F, p, y, z) BY <1>1, <1>2, <1>10 DEF Skills, Stamped, Alike
<1>13. y.inbox = z.inbox /\ y.pending = z.pending BY <1>1, <1>2 DEF Stamped, Alike
<1>14. IsReplayer(y) /\ IsReplayer(z) BY <1>1, <1>2 DEF Stamped
<1> QED BY <1>7, <1>8, <1>9, <1>11, <1>12, <1>13, <1>14 DEF Shifts

\* It leaves the window as it was.
LEMMA StartTidy ==
    ASSUME NEW r, IsReplayer(r), Tidy(r), NEW ts, NEW z, z = LineStart(r, ts)
    PROVE  Tidy(z)
<1>1. Stamped(r, z) BY StartFields
<1> QED BY <1>1 DEF Tidy, Stamped, Resident

\* The messages of a line, and what is behind them.
Told(r, ts, line) == FoldLeft(ApplyMessage, LineStart(r, ts), line)

\* A line as a whole: the window has grown and is tidy.
LEMMA ToldGrows ==
    ASSUME NEW r, IsReplayer(r), Tidy(r), NEW ts, NEW line \in Lines, NEW z, z = Told(r, ts, line)
    PROVE  /\ IsReplayer(z) /\ Tidy(z) /\ Grows(LineStart(r, ts), z)
           /\ Moves(LineStart(r, ts), z)
<1>1. PICK a : a = LineStart(r, ts) OBVIOUS
<1>2. IsReplayer(a)
  <2>1. Stamped(r, a) BY <1>1, StartFields
  <2> QED BY <2>1 DEF Stamped
<1>3. Tidy(a) BY <1>1, StartTidy
<1>4. PICK g, n : Says(g, a, line, n) BY LineCourse
<1>5. g[0] = a /\ n \in Nat /\ z = g[n] BY <1>1, <1>4 DEF Says, Told
<1>6. n \in 0..n /\ 0 \in 0..n BY <1>5
<1>7. IsReplayer(z) /\ Tidy(z) /\ Grows(a, z) BY <1>2, <1>3, <1>4, <1>5, <1>6, LineGrows
<1> QED BY <1>1, <1>7 DEF Grows

\* A line does the same to both folds, unless it patches p.
LEMMA ToldAlike ==
    ASSUME NEW F, NEW p, NEW s, NEW r, IsReplayer(s), IsReplayer(r), Tidy(r), Alike(F, p, s, r),
           NEW ts, NEW line \in Lines, NEW y, y = Told(s, ts, line), NEW z, z = Told(r, ts, line),
           Prefixed(p, z)
    PROVE  Alike(F, p, y, z) /\ IsReplayer(y) /\ IsReplayer(z) /\ Tidy(z)
<1>1. PICK a, b : a = LineStart(s, ts) /\ b = LineStart(r, ts) OBVIOUS
<1>2. Shifts(F, p, a, b) /\ Clock(F, a, b) /\ IsReplayer(a) /\ IsReplayer(b)
  BY <1>1, StartShifts
<1>3. Tidy(b) BY <1>1, StartTidy
<1>4. y = FoldLeft(ApplyMessage, a, line) /\ z = FoldLeft(ApplyMessage, b, line)
  BY <1>1 DEF Told
<1>5. Shifts(F, p, y, z) BY <1>2, <1>3, <1>4, LineShifts
<1>6. Moves(a, y) /\ Moves(b, z) BY <1>2, <1>4, LineMoves
<1>7. IsReplayer(y) /\ IsReplayer(z) /\ Clock(F, y, z) BY <1>2, <1>6 DEF Moves, Clock
<1>8. Outs(F, p, y, z) BY <1>5 DEF Shifts
<1>9. OpenTimes(y) = OpenTimes(z) BY <1>7, <1>8, SameTimes
<1>10. Tidy(z) BY ToldGrows
<1> QED BY <1>5, <1>7, <1>9, <1>10 DEF Shifts, Alike

-----------------------------------------------------------------------------
(* The frontier of two folds.                                              *)

\* The markers of the prompts that wait, but for those without one.
Waiting(r) == {r.queue[i].marker : i \in DOMAIN r.queue} \ {0}

LEMMA WaitingIs ==
    ASSUME NEW r, IsReplayer(r)
    PROVE  /\ Waiting(r) \in SUBSET Nat
           /\ \A m : m \in Waiting(r) <=>
                       m # 0 /\ \E i \in 1..Len(r.queue) : m = r.queue[i].marker
<1>1. DOMAIN r.queue = 1..Len(r.queue) BY SeqTyped DEF IsReplayer
<1>2. \A i \in 1..Len(r.queue) : r.queue[i].marker \in Nat BY DEF IsReplayer, Marks
<1> QED BY <1>1, <1>2 DEF Waiting

\* The least of a shifted set is the shifted least.
LEMMA MinShift ==
    ASSUME NEW F \in Nat, NEW S \in SUBSET Nat, NEW T \in SUBSET Nat, S # {},
           \A m \in S : m + F \in T, \A m \in T : m - F \in S
    PROVE  T # {} /\ Min(T) = Min(S) + F
<1>1. Min(S) \in S /\ \A y \in S : Min(S) <= y BY MinIn
<1>2. Min(S) + F \in T BY <1>1
<1>3. Min(T) \in T /\ \A y \in T : Min(T) <= y BY <1>2, MinIn
<1>4. PICK a \in Nat, b \in Nat : a = Min(S) /\ b = Min(T) BY <1>1, <1>3
<1>5. b <= a + F BY <1>2, <1>3, <1>4
<1>6. b - F \in S BY <1>3, <1>4
<1>7. a <= b - F BY <1>1, <1>4, <1>6
<1>8. b = a + F BY <1>5, <1>7
<1> QED BY <1>2, <1>4, <1>8

\* The oldest marker that waits is the same marker.
LEMMA OldestShift ==
    ASSUME NEW F \in Nat, NEW s, NEW r, IsReplayer(s), IsReplayer(r), Queues(F, s, r)
    PROVE  /\ Waiting(s) = {} <=> Waiting(r) = {}
           /\ Waiting(s) # {} => Min(Waiting(s)) \in Nat \ {0} /\ Min(Waiting(r)) = Min(Waiting(s)) + F
<1>1. PICK S, T : S = Waiting(s) /\ T = Waiting(r) OBVIOUS
<1>2. /\ S \in SUBSET Nat
      /\ \A m : m \in S <=> m # 0 /\ \E i \in 1..Len(s.queue) : m = s.queue[i].marker
  BY <1>1, WaitingIs
<1>3. /\ T \in SUBSET Nat
      /\ \A m : m \in T <=> m # 0 /\ \E i \in 1..Len(r.queue) : m = r.queue[i].marker
  BY <1>1, WaitingIs
<1>4. \A i \in 1..Len(s.queue) : s.queue[i].marker \in Nat BY DEF IsReplayer, Marks
<1>5. /\ Len(r.queue) = Len(s.queue)
      /\ \A i \in 1..Len(s.queue) :
            r.queue[i].marker = IF s.queue[i].marker = 0 THEN 0 ELSE s.queue[i].marker + F
  BY DEF Queues, Up
<1>6. ASSUME NEW m \in S PROVE m + F \in T
  <2>1. PICK i \in 1..Len(s.queue) : m = s.queue[i].marker BY <1>2, <1>6
  <2>2. m \in Nat /\ m # 0 BY <1>2, <1>6
  <2>3. r.queue[i].marker = m + F /\ i \in 1..Len(r.queue) BY <1>5, <2>1, <2>2
  <2> QED BY <1>3, <2>2, <2>3
<1>7. ASSUME NEW m \in T PROVE m - F \in S
  <2>1. PICK i \in 1..Len(s.queue) : m = r.queue[i].marker BY <1>3, <1>5, <1>7
  <2>2. m # 0 BY <1>3, <1>7
  <2>3. s.queue[i].marker # 0 /\ m = s.queue[i].marker + F BY <1>5, <2>1, <2>2
  <2>4. s.queue[i].marker \in S BY <1>2, <2>3
  <2> QED BY <1>4, <2>3, <2>4
<1>8. S # {} => T # {} /\ Min(T) = Min(S) + F BY <1>2, <1>3, <1>6, <1>7, MinShift
<1>9. S # {} => Min(S) \in S BY <1>2, MinIn
<1>10. S # {} => Min(S) \in Nat \ {0} BY <1>2, <1>9
<1>11. T # {} => S # {} BY <1>7
<1> QED BY <1>1, <1>8, <1>10, <1>11

\* The pin, in pieces.
Turn(r, n) == SelectLastInSubSeq(r.out, 1, n, OpensTurn)

\* The blocks before the turn that holds block n.
Pinned(r, n) == IF Turn(r, n) = 0 THEN 0 ELSE Turn(r, n) - 1

LEMMA PinIs ==
    ASSUME NEW r, NEW k, NEW m, m = Min(Waiting(r)), NEW i, i = m - r.base
    PROVE  QueuePin(r, k) = IF Waiting(r) = {} THEN k
                            ELSE IF m <= r.base \/ i > k THEN k
                            ELSE IF Openers(SubSeq(r.out, Pinned(r, i) + 1, k)) <= MaxPinnedTurns
                                 THEN Pinned(r, i) ELSE k
BY DEF QueuePin, Waiting, Pinned, Turn

\* The window of the later fold is behind the first d blocks of the other.
Behind(F, d, s, r) ==
    /\ F \in Nat /\ d \in Nat
    /\ r.base + d = s.base + F
    /\ d = 0 \/ s.base = 0
    /\ Len(r.out) = d + Len(s.out)
    /\ \A l \in 1..Len(s.out) : r.out[d + l] = s.out[l]

\* The window of s begins as many blocks into that of r as p is long.
LEMMA OutsBehind ==
    ASSUME NEW F, NEW p, NEW s, NEW r, IsReplayer(s), Outs(F, p, s, r)
    PROVE  Behind(F, Len(p), s, r)
<1>1. /\ Len(r.out) = Len(p) + Len(s.out) /\ Len(p) \in Nat /\ F \in Nat
      /\ \A i \in 1..Len(s.out) : r.out[Len(p) + i] = s.out[i]
  BY OutsFacts
<1>2. r.base + Len(p) = s.base + F /\ (p = <<>> \/ s.base = 0) BY DEF Outs
<1>3. p = <<>> => Len(p) = 0 BY EmptyIsSeq
<1> QED BY <1>1, <1>2, <1>3 DEF Behind

\* The later fold begins at its own window, or with the head of a turn.
Joint(d, s) == d = 0 \/ (s.base = 0 /\ Len(s.out) > 0 /\ OpensTurn(s.out[1]))

\* j is i behind d.
Off(d, i, j) == d \in Nat /\ i \in Nat /\ j \in Nat /\ j = d + i

\* A block of s opens its turn at the same block of r.
LEMMA TurnShift ==
    ASSUME NEW F, NEW d, NEW s, NEW r, IsReplayer(s), IsReplayer(r), Behind(F, d, s, r),
           Joint(d, s), NEW i, i \in 1..Len(s.out), NEW j, Off(d, i, j), NEW v, v = Pinned(s, i)
    PROVE  Off(d, v, Pinned(r, j)) /\ v < i
<1>0. d \in Nat /\ j \in Nat /\ i \in Nat /\ j = d + i BY DEF Off
<1>1. \A l \in 1..Len(s.out) : r.out[d + l] = s.out[l] BY DEF Behind
<1>2. PICK n \in Nat : n = Len(s.out) BY DEF IsReplayer, IsSeq
<1>3. i <= n /\ 1 <= i BY <1>0, <1>2
<1>4. PICK h, k : h = Turn(s, i) /\ k = Turn(r, j) OBVIOUS
<1>5. \/ h = 0 /\ \A l \in 1..i : ~OpensTurn(s.out[l])
      \/ h \in 1..i /\ OpensTurn(s.out[h]) /\ \A l \in 1..i : OpensTurn(s.out[l]) => l <= h
  BY <1>0, <1>4, LastOpener DEF Turn
<1>6. \/ k = 0 /\ \A l \in 1..j : ~OpensTurn(r.out[l])
      \/ k \in 1..j /\ OpensTurn(r.out[k]) /\ \A l \in 1..j : OpensTurn(r.out[l]) => l <= k
  BY <1>0, <1>4, LastOpener DEF Turn
<1>7. CASE h \in 1..i /\ OpensTurn(s.out[h]) /\ \A l \in 1..i : OpensTurn(s.out[l]) => l <= h
  <2>1. h \in 1..n /\ d + h \in 1..j BY <1>0, <1>3, <1>7
  <2>2. OpensTurn(r.out[d + h]) BY <1>1, <1>2, <1>7, <2>1
  <2>3. k \in 1..j /\ OpensTurn(r.out[k]) /\ d + h <= k BY <1>6, <2>1, <2>2
  <2>4. PICK l \in Int : l = k - d BY <1>0, <2>3
  <2>5. l \in 1..i /\ l \in 1..n /\ k = d + l BY <1>0, <1>3, <2>1, <2>3, <2>4
  <2>6. OpensTurn(s.out[l]) BY <1>1, <1>2, <2>3, <2>5
  <2>7. l <= h BY <1>7, <2>5, <2>6
  <2>8. k = d + h BY <1>0, <2>1, <2>3, <2>5, <2>7
  <2>9. h # 0 /\ k # 0 /\ k - 1 = d + (h - 1) /\ h - 1 < i /\ h - 1 \in Nat /\ k - 1 \in Nat
    BY <1>0, <1>3, <1>7, <2>1, <2>8
  <2>10. v = h - 1 /\ Pinned(r, j) = k - 1 BY <1>4, <2>9 DEF Pinned
  <2> QED BY <1>0, <2>9, <2>10 DEF Off
<1>8. CASE h = 0 /\ \A l \in 1..i : ~OpensTurn(s.out[l])
  <2>1. 1 \in 1..i BY <1>0, <1>3
  <2>2. d = 0 BY <1>8, <2>1 DEF Joint
  <2>4. j = i BY <1>0, <2>2
  <2>5. \A l \in 1..i : r.out[l] = s.out[l]
    <3>1. \A l \in 1..i : l \in 1..n /\ d + l = l BY <1>0, <1>3, <2>2
    <3> QED BY <1>1, <1>2, <3>1
  <2>6. k = 0 BY <1>6, <1>8, <2>4, <2>5
  <2>7. 0 < i BY <1>0, <1>3
  <2>8. v = 0 /\ Pinned(r, j) = 0 BY <1>4, <1>8, <2>6 DEF Pinned
  <2> QED BY <2>2, <2>7, <2>8 DEF Off
<1> QED BY <1>5, <1>7, <1>8

\* What comes after the first v of the first k.
Between(t, v, k) == SubSeq(t, v + 1, k)

LEMMA SubShift ==
    ASSUME NEW F, NEW d, NEW s, NEW r, IsReplayer(s), Behind(F, d, s, r),
           NEW v, NEW k, v <= k, k <= Len(s.out), NEW w, Off(d, v, w), NEW e, Off(d, k, e)
    PROVE  Between(r.out, w, e) = Between(s.out, v, k)
<1>1. PICK n \in Nat : n = Len(s.out) BY DEF IsReplayer, IsSeq
<1>2. v \in Nat /\ k \in Nat /\ w \in Nat /\ e \in Nat BY DEF Off
<1>3. w <= e /\ e - w = k - v BY DEF Off
<1>4. PICK x, y : x = SubSeq(r.out, w + 1, e) /\ y = SubSeq(s.out, v + 1, k) OBVIOUS
<1>5. IsSeq(x) /\ Len(x) = e - w /\ \A l \in 1..(e - w) : x[l] = r.out[w + l]
  BY <1>2, <1>3, <1>4, SubRest
<1>6. IsSeq(y) /\ Len(y) = k - v /\ \A l \in 1..(k - v) : y[l] = s.out[v + l]
  BY <1>2, <1>4, SubRest
<1>7. ASSUME NEW l \in 1..(k - v) PROVE x[l] = y[l]
  <2>1. v + l \in 1..n /\ w + l = d + (v + l) BY <1>1, <1>7 DEF Off
  <2>2. r.out[d + (v + l)] = s.out[v + l] BY <1>1, <2>1 DEF Behind
  <2> QED BY <1>3, <1>5, <1>6, <2>1, <2>2
<1>8. Len(x) = Len(y) /\ Len(x) = k - v BY <1>2, <1>3, <1>5, <1>6
<1>9. x = y BY <1>5, <1>6, <1>7, <1>8, SameSeq
<1> QED BY <1>4, <1>9 DEF Between

\* `queue_pin` holds both frontiers back to the same block.
LEMMA PinShift ==
    ASSUME NEW F, NEW d, NEW s, NEW r, IsReplayer(s), IsReplayer(r), Behind(F, d, s, r),
           Joint(d, s), Queues(F, s, r), NEW k, k \in 0..Len(s.out), NEW e, Off(d, k, e)
    PROVE  Off(d, QueuePin(s, k), QueuePin(r, e))
<1>1. F \in Nat BY DEF Behind
<1>0. d \in Nat /\ k \in Nat /\ e \in Nat /\ e = d + k BY DEF Off
<1>2. PICK b \in Nat, c \in Nat, n \in Nat : b = s.base /\ c = r.base /\ n = Len(s.out)
  BY DEF IsReplayer, IsSeq
<1>3. c + d = b + F /\ (d = 0 \/ b = 0) BY <1>2 DEF Behind
<1>4. k <= n BY <1>0, <1>2
<1>5. /\ Waiting(s) = {} <=> Waiting(r) = {}
      /\ Waiting(s) # {} => /\ Min(Waiting(s)) \in Nat \ {0}
                            /\ Min(Waiting(r)) = Min(Waiting(s)) + F
  BY <1>1, OldestShift
<1>6. CASE Waiting(s) = {}
  <2>1. QueuePin(s, k) = k /\ QueuePin(r, e) = e BY <1>5, <1>6, PinIs
  <2> QED BY <2>1
<1>7. CASE Waiting(s) # {}
  <2>1. PICK m \in Nat : m # 0 /\ m = Min(Waiting(s)) /\ m + F = Min(Waiting(r)) BY <1>5, <1>7
  <2>2. PICK i \in Int, j \in Int : i = m - b /\ j = (m + F) - c BY <1>1
  <2>4. j = d + i BY <1>0, <1>1, <1>3, <2>2
  <2>5. m <= b <=> m + F <= c BY <1>0, <1>1, <1>3, <2>1
  <2>6. j > e <=> i > k BY <1>0, <2>2, <2>4
  <2>7. Waiting(r) # {} BY <1>5, <1>7
  <2>8. QueuePin(s, k) = IF m <= b \/ i > k THEN k
                         ELSE IF Openers(SubSeq(s.out, Pinned(s, i) + 1, k)) <= MaxPinnedTurns
                              THEN Pinned(s, i) ELSE k
    BY <1>2, <1>7, <2>1, <2>2, PinIs
  <2>9. QueuePin(r, e) = IF m + F <= c \/ j > e THEN e
                         ELSE IF Openers(SubSeq(r.out, Pinned(r, j) + 1, e)) <= MaxPinnedTurns
                              THEN Pinned(r, j) ELSE e
    <3>1. PICK w : w = m + F OBVIOUS
    <3>2. w = Min(Waiting(r)) /\ j = w - r.base BY <1>2, <2>1, <2>2, <3>1
    <3>3. QueuePin(r, e) = IF Waiting(r) = {} THEN e
                           ELSE IF w <= r.base \/ j > e THEN e
                           ELSE IF Openers(SubSeq(r.out, Pinned(r, j) + 1, e)) <= MaxPinnedTurns
                                THEN Pinned(r, j) ELSE e
      BY <3>2, PinIs
    <3> QED BY <1>2, <2>7, <3>1, <3>3
  <2>10. CASE m <= b \/ i > k
    <3>1. QueuePin(s, k) = k BY <2>8, <2>10
    <3>2. QueuePin(r, e) = e BY <2>5, <2>6, <2>9, <2>10
    <3> QED BY <3>1, <3>2
  <2>11. CASE ~(m <= b \/ i > k)
    <3>1. i \in 1..n /\ i <= k BY <1>0, <1>4, <2>1, <2>2, <2>11
    <3>2. PICK v : v = Pinned(s, i) OBVIOUS
    <3>3. i \in 1..Len(s.out) /\ Off(d, i, j) BY <1>0, <1>2, <2>4, <3>1 DEF Off
    <3>4. PICK w : w = Pinned(r, j) OBVIOUS
    <3>5. Off(d, v, w) /\ v < i BY <3>2, <3>3, <3>4, TurnShift
    <3>6. v <= k BY <1>0, <3>1, <3>5 DEF Off
    <3>7. Between(r.out, w, e) = Between(s.out, v, k)
      <4>1. k <= Len(s.out) BY <1>2, <1>4
      <4> QED BY <3>5, <3>6, <4>1, SubShift
    <3>8. QueuePin(s, k) = IF Openers(SubSeq(s.out, v + 1, k)) <= MaxPinnedTurns THEN v ELSE k
      BY <2>8, <2>11, <3>2
    <3>9. QueuePin(r, e) = IF Openers(SubSeq(r.out, w + 1, e)) <= MaxPinnedTurns THEN w ELSE e
      BY <2>5, <2>6, <2>9, <2>11, <3>4
    <3>10. \/ QueuePin(s, k) = v /\ QueuePin(r, e) = w
           \/ QueuePin(s, k) = k /\ QueuePin(r, e) = e
      BY <3>7, <3>8, <3>9 DEF Between
    <3> QED BY <3>5, <3>10
  <2> QED BY <2>10, <2>11
<1> QED BY <1>6, <1>7

\* How many blocks leave the window at the end of a line.
Frontier(r) ==
    LET head == SelectLastInSeq(r.out, OpensTurn)
    IN  IF head = 0 THEN 0 ELSE QueuePin(r, head - 1)

\* The frontier is a position of the window.
LEMMA FrontierIn ==
    ASSUME NEW r, IsReplayer(r)
    PROVE  /\ Frontier(r) \in 0..Len(r.out)
           /\ FinalizeCompleted(r) = IF Frontier(r) = 0 THEN [r EXCEPT !.durable = <<>>]
                                     ELSE Drain(r, Frontier(r))
<1>1. PICK h, n : h = SelectLastInSeq(r.out, OpensTurn) /\ n = Len(r.out) OBVIOUS
<1>2. IsSeq(r.out) /\ n \in Nat BY <1>1 DEF IsReplayer, IsSeq
<1>3. h = 0 \/ h \in 1..n BY <1>1, <1>2, LastHead
<1>4. Frontier(r) = IF h = 0 THEN 0 ELSE QueuePin(r, h - 1) BY <1>1 DEF Frontier
<1>5. ASSUME h \in 1..n PROVE QueuePin(r, h - 1) \in 0..n
  <2>1. PICK k : k = h - 1 OBVIOUS
  <2>2. k \in 0..n /\ k \in Nat BY <1>2, <1>5, <2>1
  <2>3. QueuePin(r, k) \in 0..k BY <1>1, <2>2, PinFacts
  <2> QED BY <1>2, <2>1, <2>2, <2>3
<1>6. Frontier(r) \in 0..n BY <1>2, <1>3, <1>4, <1>5
<1> QED BY <1>1, <1>6 DEF Frontier, FinalizeCompleted

\* Hence the frontier stands at the same block in both.
LEMMA FrontierShift ==
    ASSUME NEW F, NEW p, NEW s, NEW r, IsReplayer(s), IsReplayer(r), Outs(F, p, s, r),
           Joint(Len(p), s), Queues(F, s, r)
    PROVE  Frontier(r) = Len(p) + Frontier(s)
<1>1. PICK d \in Nat : d = Len(p)
  <2>1. Len(p) \in Nat BY OutsFacts
  <2> QED BY <2>1
<1>2. Behind(F, d, s, r) /\ Joint(d, s) BY <1>1, OutsBehind
<1>30. PICK n \in Nat : n = Len(s.out) BY DEF IsReplayer, IsSeq
<1>3. PICK h, k : h = SelectLastInSeq(s.out, OpensTurn) /\ k = SelectLastInSeq(r.out, OpensTurn)
  OBVIOUS
<1>4. \/ h \in 1..n /\ k = d + h
      \/ h = 0 /\ k \in 0..d
  BY <1>1, <1>30, <1>3, HeadShift
<1>5. /\ Frontier(s) = IF h = 0 THEN 0 ELSE QueuePin(s, h - 1)
      /\ Frontier(r) = IF k = 0 THEN 0 ELSE QueuePin(r, k - 1)
  BY <1>3 DEF Frontier
<1>6. CASE h \in 1..n /\ k = d + h
  <2>1. PICK i \in Nat : i = h - 1 BY <1>6
  <2>2. i \in 0..n /\ k - 1 = d + i /\ h # 0 /\ k # 0 BY <1>6, <2>1
  <2>21. i \in 0..Len(s.out) BY <1>30, <2>2
  <2>22. PICK j \in Nat : j = d + i OBVIOUS
  <2>23. Off(d, i, j) BY <2>22 DEF Off
  <2>24. Off(d, QueuePin(s, i), QueuePin(r, j)) BY <1>2, <2>21, <2>23, PinShift
  <2>25. QueuePin(r, j) = d + QueuePin(s, i) BY <2>24 DEF Off
  <2> QED BY <1>1, <1>5, <2>1, <2>2, <2>22, <2>25
<1>7. CASE h = 0 /\ k \in 0..d
  <2>1. d = 0
    <3>1. SUFFICES ASSUME d # 0 PROVE FALSE OBVIOUS
    <3>2. PICK o : o = s.out OBVIOUS
    <3>3. IsSeq(o) /\ Len(o) = n BY <1>30, <3>2 DEF IsReplayer
    <3>4. n > 0 /\ OpensTurn(o[1]) BY <1>2, <1>30, <3>1, <3>2 DEF Joint
    <3>5. \/ h = 0 /\ \A i \in 1..Len(o) : ~OpensTurn(o[i])
          \/ h \in 1..Len(o) /\ OpensTurn(o[h]) /\ \A i \in 1..Len(o) : OpensTurn(o[i]) => i <= h
      BY <1>3, <3>2, <3>3, LastHead
    <3>6. 1 \in 1..n /\ h \notin 1..n BY <1>7, <3>4
    <3> QED BY <3>3, <3>4, <3>5, <3>6
  <2>2. k = 0 BY <1>7, <2>1
  <2> QED BY <1>1, <1>5, <1>7, <2>1, <2>2
<1> QED BY <1>4, <1>6, <1>7

-----------------------------------------------------------------------------
(* What the end of a line leaves.                                          *)

\* What the replayer remembers of its window is in the window.
Windowed(r) ==
    /\ \A x \in DOMAIN r.slot : r.slot[x] \in Resident(r)
    /\ r.skill = 0 \/ r.skill \in Resident(r)

\* z is r without the first k blocks of its window.
Cut(r, k, z) ==
    /\ IsReplayer(z) /\ k \in Nat /\ k <= Len(r.out)
    /\ z.out = Between(r.out, k, Len(r.out)) /\ z.base = r.base + k
    /\ z.queue = r.queue /\ z.inbox = r.inbox
    /\ \A i \in Nat : i > z.base => (i \in z.suppress <=> i \in r.suppress)
    /\ \A x : x \in DOMAIN z.slot <=> x \in DOMAIN r.slot /\ r.slot[x] > z.base
    /\ \A x \in DOMAIN z.slot : z.slot[x] = r.slot[x]
    /\ z.skill = IF r.skill > z.base THEN r.skill ELSE 0
    /\ OpenTimes(z) = OpenTimes(r)
    /\ z.durable = FinishTurns(Shown(SubSeq(r.out, 1, k), r.base, r.suppress))
    /\ IsSeq(r.past) => z.past = r.past \o SubSeq(r.out, 1, k)
    /\ \/ k = 0 /\ z.times = r.times /\ z.stamped = r.stamped
       \/ k # 0 /\ z.times = OpenTimes(r) /\ z.stamped = RawLen(r)

\* An index of the window is above the base.
LEMMA AboveBase ==
    ASSUME NEW r, IsReplayer(r), NEW x, x \in Resident(r)
    PROVE  x \in Nat /\ x > r.base /\ x <= r.base + Len(r.out)
<1>1. r.base \in Nat /\ Len(r.out) \in Nat BY DEF IsReplayer, IsSeq
<1> QED BY <1>1 DEF Resident

\* `drain` cuts the window, and finalizing is one cut, at the frontier.
LEMMA DrainCut ==
    ASSUME NEW r, IsReplayer(r), Windowed(r), NEW k, k \in 1..Len(r.out), NEW z, z = Drain(r, k)
    PROVE  Cut(r, k, z)
<1>1. PICK s : s = StampUserTurns(r) OBVIOUS
<1>2. Stamped(r, s) /\ IsReplayer(s) BY <1>1, StampFields DEF Stamped
<1>3. PICK n \in Nat : n = Len(r.out) BY DEF IsReplayer, IsSeq
<1>4. k \in Nat /\ k # 0 /\ k <= n /\ k \in 0..Len(r.out) BY <1>3
<1>5. Drained(r, k, z) BY <1>4, DrainFacts
<1>6. PICK b : b = r.base + k OBVIOUS
<1>7. z = [s EXCEPT !.out = SubSeq(r.out, k + 1, Len(r.out)), !.base = b,
                    !.durable = FinishTurns(Shown(SubSeq(r.out, 1, k), r.base, r.suppress)),
                    !.suppress = {i \in @ : i > b},
                    !.slot = [x \in {y \in DOMAIN @ : @[y] > b} |-> @[x]],
                    !.skill = IF @ <= b THEN 0 ELSE @,
                    !.past = @ \o SubSeq(r.out, 1, k)]
  BY <1>1, <1>6 DEF Drain
<1>8. PICK slot, skill, sup : slot = s.slot /\ skill = s.skill /\ sup = s.suppress OBVIOUS
<1>9. /\ z.queue = s.queue /\ z.inbox = s.inbox /\ z.suppress = {i \in sup : i > b}
      /\ z.slot = [x \in {y \in DOMAIN slot : slot[y] > b} |-> slot[x]]
      /\ z.skill = (IF skill <= b THEN 0 ELSE skill)
      /\ z.times = s.times /\ z.stamped = s.stamped
  BY <1>2, <1>7, <1>8 DEF IsReplayer, Fields
<1>10. /\ slot = r.slot /\ skill = r.skill /\ sup = r.suppress /\ s.queue = r.queue
       /\ s.inbox = r.inbox /\ s.times = OpenTimes(r) /\ s.stamped = RawLen(r)
  BY <1>2, <1>8 DEF Stamped
<1>11. /\ IsReplayer(z) /\ z.out = SubSeq(r.out, k + 1, Len(r.out)) /\ z.base = b
       /\ z.durable = FinishTurns(Shown(SubSeq(r.out, 1, k), r.base, r.suppress))
       /\ z.past = r.past \o SubSeq(r.out, 1, k)
  BY <1>5, <1>6 DEF Drained
<1>12. r.base \in Nat /\ b \in Nat BY <1>4, <1>6 DEF IsReplayer
<1>13. z.skill = IF r.skill > b THEN r.skill ELSE 0
  <2>1. CASE r.skill = 0 BY <1>9, <1>10, <1>12, <2>1
  <2>2. CASE r.skill \in Resident(r)
    <3>1. r.skill \in Nat BY <2>2, AboveBase
    <3>2. r.skill <= b <=> ~(r.skill > b) BY <1>12, <3>1
    <3> QED BY <1>9, <1>10, <3>2
  <2> QED BY <2>1, <2>2 DEF Windowed
<1>14. /\ \A x : x \in DOMAIN z.slot <=> x \in DOMAIN r.slot /\ r.slot[x] > b
       /\ \A x \in DOMAIN z.slot : z.slot[x] = r.slot[x]
  BY <1>9, <1>10
<1>15. OpenTimes(z) = OpenTimes(r)
  <2>1. RawLen(z) = RawLen(r)
    <3>1. Len(z.out) = n - k
      <4>1. PICK o : o = r.out OBVIOUS
      <4>2. Len(SubSeq(o, k + 1, n)) = n - k BY <1>4, SubRest
      <4> QED BY <1>3, <1>11, <4>1, <4>2
    <3>2. PICK c \in Nat : c = r.base BY <1>12
    <3>3. b = c + k BY <1>6, <3>2
    <3>4. b + (n - k) = c + n BY <1>4, <3>3
    <3> QED BY <1>3, <1>11, <3>1, <3>2, <3>4 DEF RawLen
  <2>2. z.stamped = RawLen(z) BY <1>9, <1>10, <2>1
  <2>3. OpenTimes(z) = z.times BY <1>11, <2>2, StampedTimes
  <2> QED BY <1>9, <1>10, <2>3
<1>16. \A i \in Nat : i > z.base => (i \in z.suppress <=> i \in r.suppress)
  BY <1>9, <1>10, <1>11
<1>17. z.out = Between(r.out, k, Len(r.out)) BY <1>11 DEF Between
<1>18. z.base = r.base + k /\ z.queue = r.queue /\ z.inbox = r.inbox
       /\ z.times = OpenTimes(r) /\ z.stamped = RawLen(r)
  BY <1>6, <1>9, <1>10, <1>11
<1>19. z.skill = (IF r.skill > z.base THEN r.skill ELSE 0)
       /\ \A x : x \in DOMAIN z.slot <=> x \in DOMAIN r.slot /\ r.slot[x] > z.base
  BY <1>11, <1>13, <1>14
<1>20. k <= Len(r.out) BY <1>3, <1>4
<1> QED BY <1>4, <1>11, <1>14, <1>15, <1>16, <1>17, <1>18, <1>19, <1>20 DEF Cut

LEMMA StayCut ==
    ASSUME NEW r, IsReplayer(r), Windowed(r), NEW z, z = [r EXCEPT !.durable = <<>>]
    PROVE  Cut(r, 0, z)
<1>1. /\ DOMAIN z = Fields /\ z.out = r.out /\ z.base = r.base /\ z.durable = <<>>
      /\ z.queue = r.queue /\ z.suppress = r.suppress /\ z.gone = r.gone
      /\ z.times = r.times /\ z.stamped = r.stamped /\ z.slot = r.slot /\ z.skill = r.skill
      /\ z.inbox = r.inbox /\ z.pending = r.pending /\ z.past = r.past
  BY DEF IsReplayer, Fields
<1>2. IsReplayer(z)
  <2>1. \A m : Marks(r, m) => Marks(z, m) BY <1>1 DEF Marks
  <2> QED BY <1>1, <2>1 DEF IsReplayer
<1>3. PICK n \in Nat, c \in Nat : n = Len(r.out) /\ c = r.base BY DEF IsReplayer, IsSeq
<1>4. PICK o : o = r.out OBVIOUS
<1>5. IsSeq(o) BY <1>4 DEF IsReplayer
<1>6. z.out = Between(r.out, 0, Len(r.out))
  <2>1. SubSeq(o, 1, Len(o)) = o BY <1>5, SubAll
  <2>2. SubSeq(o, 0 + 1, Len(o)) = SubSeq(o, 1, Len(o)) OBVIOUS
  <2> QED BY <1>1, <1>4, <2>1, <2>2 DEF Between
<1>7. z.base = r.base + 0 /\ 0 <= Len(r.out) BY <1>1, <1>3
<1>8. SubSeq(o, 1, 0) = <<>> BY SubNone
<1>9. z.durable = FinishTurns(Shown(SubSeq(r.out, 1, 0), r.base, r.suppress))
  BY <1>1, <1>4, <1>8, ShownNone, FinishNone
<1>10. IsSeq(r.past) => z.past = r.past \o SubSeq(r.out, 1, 0)
  <2>1. PICK t : t = r.past OBVIOUS
  <2>2. IsSeq(t) => t \o <<>> = t BY ConcatNone
  <2> QED BY <1>1, <1>4, <1>8, <2>1, <2>2
<1>11. OpenTimes(z) = OpenTimes(r)
  <2>1. Alloted(z) = Alloted(r) BY <1>1 DEF Alloted, Untimed
  <2> QED BY <1>1, <1>2, <2>1, StampFields
<1>12. \A x \in DOMAIN r.slot : r.slot[x] > z.base BY <1>1, AboveBase DEF Windowed
<1>13. z.skill = IF r.skill > z.base THEN r.skill ELSE 0
  <2>1. CASE r.skill = 0 BY <1>1, <1>3, <2>1
  <2>2. CASE r.skill \in Resident(r) BY <1>1, <2>2, AboveBase
  <2> QED BY <2>1, <2>2 DEF Windowed
<1> QED BY <1>1, <1>2, <1>6, <1>7, <1>9, <1>10, <1>11, <1>12, <1>13 DEF Cut

LEMMA FinalizeCut ==
    ASSUME NEW r, IsReplayer(r), Windowed(r), NEW z, z = FinalizeCompleted(r)
    PROVE  Cut(r, Frontier(r), z)
<1>1. PICK k : k = Frontier(r) OBVIOUS
<1>2. k \in 0..Len(r.out) /\ z = IF k = 0 THEN [r EXCEPT !.durable = <<>>] ELSE Drain(r, k)
  BY <1>1, FrontierIn
<1>3. CASE k = 0 BY <1>1, <1>2, <1>3, StayCut
<1>4. CASE k # 0
  <2>1. PICK n \in Nat : n = Len(r.out) BY DEF IsReplayer, IsSeq
  <2>2. k \in 1..Len(r.out) BY <1>2, <1>4, <2>1
  <2> QED BY <1>1, <1>2, <1>4, <2>2, DrainCut
<1> QED BY <1>3, <1>4

\* What two folds cut at the same block leave is alike.
LEMMA CutAlike ==
    ASSUME NEW F, NEW p, NEW s, NEW r, IsReplayer(s), IsReplayer(r), Alike(F, p, s, r),
           NEW k, NEW e, Off(Len(p), k, e), NEW y, NEW z, Cut(s, k, y), Cut(r, e, z)
    PROVE  Alike(F, <<>>, y, z)
<1>1. Behind(F, Len(p), s, r)
  <2>1. Outs(F, p, s, r) BY DEF Alike
  <2> QED BY <2>1, OutsBehind
<1>2. PICK d, n, m : d = Len(p) /\ n = Len(s.out) /\ m = Len(r.out) OBVIOUS
<1>3. n \in Nat /\ m \in Nat /\ m = d + n /\ d \in Nat BY <1>1, <1>2 DEF Behind, IsReplayer, IsSeq
<1>4. Off(d, n, m) BY <1>3 DEF Off
<1>5. k <= n BY <1>2 DEF Cut
<1>6. y.out = z.out
  <2>1. Between(r.out, e, m) = Between(s.out, k, n)
    <3>1. n <= Len(s.out) BY <1>2, <1>3
    <3> QED BY <1>1, <1>2, <1>4, <1>5, <3>1, SubShift
  <2> QED BY <1>2, <2>1 DEF Cut
<1>7. IsReplayer(y) /\ IsReplayer(z) BY DEF Cut
<1>8. PICK b \in Nat, c \in Nat : b = y.base /\ c = z.base BY <1>7 DEF IsReplayer
<1>9. F \in Nat BY <1>1 DEF Behind
<1>10. c = b + F
  <2>1. PICK g \in Nat, h \in Nat : g = s.base /\ h = r.base BY DEF IsReplayer
  <2>2. h + d = g + F BY <1>1, <1>2, <2>1 DEF Behind
  <2>3. b = g + k /\ c = h + e BY <1>8, <2>1 DEF Cut
  <2>4. k \in Nat /\ e \in Nat /\ e = d + k BY <1>2 DEF Off
  <2> QED BY <1>3, <1>9, <2>2, <2>3, <2>4
<1>11. b >= s.base /\ c >= r.base + d
  <2>1. PICK g \in Nat, h \in Nat : g = s.base /\ h = r.base BY DEF IsReplayer
  <2>2. b = g + k /\ c = h + e BY <1>8, <2>1 DEF Cut
  <2>3. k \in Nat /\ e \in Nat /\ e = d + k BY <1>2 DEF Off
  <2> QED BY <1>3, <2>1, <2>2, <2>3
<1>12. Outs(F, <<>>, y, z)
  <2>1. PICK o : o = y.out OBVIOUS
  <2>2. IsSeq(o) BY <1>7, <2>1 DEF IsReplayer
  <2>3. <<>> \o o = o BY <2>2, ConcatNone
  <2>4. z.base + Len(<<>>) = y.base + F BY <1>8, <1>9, <1>10, EmptyIsSeq
  <2> QED BY <1>6, <1>9, <2>1, <2>3, <2>4, EmptyIsSeq DEF Outs
<1>13. Queues(F, y, z) BY DEF Alike, Queues, Cut
<1>14. Suppressed(F, y, z)
  <2> SUFFICES ASSUME NEW i \in Nat, i > b PROVE i \in y.suppress <=> i + F \in z.suppress
    BY <1>8 DEF Suppressed
  <2>1. PICK j \in Nat : j = i + F BY <1>9
  <2>2. j > c BY <1>9, <1>10, <2>1
  <2>3. i \in y.suppress <=> i \in s.suppress BY <1>8 DEF Cut
  <2>4. j \in z.suppress <=> j \in r.suppress BY <1>8, <2>2 DEF Cut
  <2>5. i > s.base
    <3>1. s.base \in Nat BY DEF IsReplayer
    <3> QED BY <1>11, <3>1
  <2>6. i \in s.suppress <=> i + F \in r.suppress BY <2>5 DEF Alike, Suppressed
  <2> QED BY <2>1, <2>3, <2>4, <2>6
<1>15. ASSUME NEW x, x \in Resident(s), x > b PROVE x \in Resident(y)
  <2>1. PICK g \in Nat : g = s.base BY DEF IsReplayer
  <2>2. x \in Nat /\ x <= g + n BY <1>2, <1>15, <2>1, AboveBase
  <2>3. b = g + k /\ k \in Nat BY <1>8, <2>1 DEF Cut
  <2>4. Len(y.out) = n - k
    <3>1. PICK o : o = s.out OBVIOUS
    <3>2. Len(SubSeq(o, k + 1, n)) = n - k BY <1>3, <1>5, <2>3, SubRest
    <3> QED BY <1>2, <3>1, <3>2 DEF Cut, Between
  <2>5. x \in (b + 1)..(b + (n - k)) BY <1>3, <1>5, <1>15, <2>2, <2>3
  <2> QED BY <1>8, <2>4, <2>5 DEF Resident
<1>16. ASSUME NEW x, x \in Resident(s) PROVE x + F > c <=> x > b
  <2>1. x \in Nat BY <1>16, AboveBase
  <2> QED BY <1>9, <1>10, <2>1
<1>17. ASSUME NEW x, x \in Before(p, r) PROVE ~(x > c)
  <2>1. PICK h \in Nat : h = r.base BY DEF IsReplayer
  <2>2. x \in (h + 1)..(h + d) BY <1>2, <1>17, <2>1 DEF Before
  <2> QED BY <1>3, <1>11, <2>1, <2>2
<1>18. Slots(F, <<>>, y, z)
  <2>1. ASSUME NEW x \in DOMAIN y.slot
        PROVE  y.slot[x] \in Resident(y) /\ x \in DOMAIN z.slot /\ z.slot[x] = y.slot[x] + F
    <3>1. x \in DOMAIN s.slot /\ s.slot[x] > b /\ y.slot[x] = s.slot[x] BY <1>8, <2>1 DEF Cut
    <3>2. s.slot[x] \in Resident(s) /\ x \in DOMAIN r.slot /\ r.slot[x] = s.slot[x] + F
      BY <3>1 DEF Alike, Slots
    <3>3. r.slot[x] > c BY <1>16, <3>1, <3>2
    <3>4. x \in DOMAIN z.slot /\ z.slot[x] = r.slot[x] BY <1>8, <3>2, <3>3 DEF Cut
    <3> QED BY <1>15, <3>1, <3>2, <3>4
  <2>2. ASSUME NEW x \in DOMAIN z.slot PROVE x \in DOMAIN y.slot
    <3>1. x \in DOMAIN r.slot /\ r.slot[x] > c BY <1>8, <2>2 DEF Cut
    <3>2. x \in DOMAIN s.slot \/ r.slot[x] \in Before(p, r) BY <3>1 DEF Alike, Slots
    <3>3. x \in DOMAIN s.slot BY <1>17, <3>1, <3>2
    <3>4. s.slot[x] \in Resident(s) /\ r.slot[x] = s.slot[x] + F BY <3>3 DEF Alike, Slots
    <3>5. s.slot[x] > b BY <1>16, <3>1, <3>4
    <3> QED BY <1>8, <3>3, <3>5 DEF Cut
  <2> QED BY <2>1, <2>2 DEF Slots
<1>19. Skills(F, <<>>, y, z)
  <2>1. /\ y.skill = IF s.skill > b THEN s.skill ELSE 0
        /\ z.skill = IF r.skill > c THEN r.skill ELSE 0
    BY <1>8 DEF Cut
  <2>2. CASE s.skill = 0 /\ (r.skill = 0 \/ r.skill \in Before(p, r))
    <3>1. y.skill = 0 BY <2>1, <2>2
    <3>2. z.skill = 0 BY <1>17, <2>1, <2>2
    <3> QED BY <3>1, <3>2 DEF Skills
  <2>3. CASE s.skill \in Resident(s) /\ r.skill = s.skill + F
    <3>1. r.skill > c <=> s.skill > b BY <1>16, <2>3
    <3>2. CASE s.skill > b
      <4>1. y.skill = s.skill /\ z.skill = r.skill BY <2>1, <3>1, <3>2
      <4>2. y.skill \in Resident(y) BY <1>15, <2>3, <3>2, <4>1
      <4> QED BY <2>3, <4>1, <4>2 DEF Skills
    <3>3. CASE ~(s.skill > b)
      <4>1. y.skill = 0 /\ z.skill = 0 BY <2>1, <3>1, <3>3
      <4> QED BY <4>1 DEF Skills
    <3> QED BY <3>2, <3>3
  <2> QED BY <2>2, <2>3 DEF Alike, Skills
<1>20. y.inbox = z.inbox /\ OpenTimes(y) = OpenTimes(z) BY DEF Alike, Cut
<1> QED BY <1>12, <1>13, <1>14, <1>18, <1>19, <1>20 DEF Alike

-----------------------------------------------------------------------------
(* What is shown of two folds, and what they commit.                       *)

\* What is hidden depends on the markers only by where they lie in the window.
LEMMA ShownMoves ==
    ASSUME NEW u, NEW lo, NEW hi, NEW S, NEW T, IsSeq(u),
           \A i \in 1..Len(u) : lo + i \in S <=> hi + i \in T
    PROVE  Shown(u, lo, S) = Shown(u, hi, T)
<1>1. PICK m \in Nat : m = Len(u) BY DEF IsSeq
<1>2. PICK g : Shows(g, u, lo, S, m) BY <1>1, ShownTrace
<1>2a. /\ g[0] = <<>>
       /\ \A i \in 1..m : g[i] = IF lo + i \in S THEN g[i - 1] ELSE Append(g[i - 1], u[i])
       /\ Shown(u, lo, S) = g[m]
  BY <1>2 DEF Shows
<1>3. PICK h : Shows(h, u, hi, T, m) BY <1>1, ShownTrace
<1>3a. /\ h[0] = <<>>
       /\ \A i \in 1..m : h[i] = IF hi + i \in T THEN h[i - 1] ELSE Append(h[i - 1], u[i])
       /\ Shown(u, hi, T) = h[m]
  BY <1>3 DEF Shows
<1> DEFINE I == {i \in Nat : i <= m => g[i] = h[i]}
<1>4. 0 \in I BY <1>2a, <1>3a
<1>5. ASSUME NEW i \in Nat, i \in I PROVE i + 1 \in I
  <2> SUFFICES ASSUME i + 1 <= m PROVE g[i + 1] = h[i + 1] OBVIOUS
  <2>1. PICK j : j = i + 1 OBVIOUS
  <2>2. j \in 1..m /\ j - 1 = i /\ g[i] = h[i] BY <1>5, <2>1
  <2>3. lo + j \in S <=> hi + j \in T BY <1>1, <2>2
  <2>4. g[j] = IF lo + j \in S THEN g[i] ELSE Append(g[i], u[j]) BY <1>2a, <2>2
  <2>5. h[j] = IF hi + j \in T THEN h[i] ELSE Append(h[i], u[j]) BY <1>3a, <2>2
  <2> QED BY <2>1, <2>2, <2>3, <2>4, <2>5
<1> HIDE DEF I
<1>6. Nat \subseteq I BY <1>4, <1>5, W!SetInduction
<1>7. g[m] = h[m] BY <1>6 DEF I
<1> QED BY <1>2a, <1>3a, <1>7

\* Of what both folds hold, both show the same.
LEMMA ShownAlike ==
    ASSUME NEW F, NEW s, NEW r, IsReplayer(s), IsReplayer(r), Alike(F, <<>>, s, r),
           NEW x, IsSeq(x)
    PROVE  Shown(x, s.base, s.suppress) = Shown(x, r.base, r.suppress)
<1>1. PICK a \in Nat, b \in Nat, n \in Nat : a = s.base /\ b = r.base /\ n = Len(x)
  BY DEF IsReplayer, IsSeq
<1>2. F \in Nat /\ b + 0 = a + F
  BY <1>1, EmptyIsSeq DEF Alike, Outs
<1>3. PICK S, T : S = s.suppress /\ T = r.suppress OBVIOUS
<1>4. \A i \in Nat : i > a => (i \in S <=> i + F \in T)
  BY <1>1, <1>3 DEF Alike, Suppressed
<1>5. ASSUME NEW i, i \in 1..Len(x) PROVE a + i \in S <=> b + i \in T
  <2>1. i \in Nat /\ i >= 1 BY <1>1, <1>5
  <2>2. a + i \in Nat /\ a + i > a /\ (a + i) + F = b + i BY <1>2, <2>1
  <2> QED BY <1>4, <2>2
<1>6. Shown(x, a, S) = Shown(x, b, T) BY <1>5, ShownMoves
<1> QED BY <1>1, <1>3, <1>6

\* Alike folds show the same open turn.
LEMMA SnapshotAlike ==
    ASSUME NEW F, NEW s, NEW r, IsReplayer(s), IsReplayer(r), Alike(F, <<>>, s, r)
    PROVE  OpenSnapshot(s) = OpenSnapshot(r)
<1>1. IsSeq(s.out) BY DEF IsReplayer
<1>2. r.out = <<>> \o s.out BY DEF Alike, Outs
<1>3. r.out = s.out BY <1>1, <1>2, ConcatNone
<1>4. Shown(s.out, s.base, s.suppress) = Shown(s.out, r.base, r.suppress) BY <1>1, ShownAlike
<1> QED BY <1>3, <1>4 DEF OpenSnapshot

\* What is in the window, of a fold that began later.
LEMMA AlikeWindowed ==
    ASSUME NEW F, NEW p, NEW s, NEW r, Alike(F, p, s, r)
    PROVE  Windowed(s)
BY DEF Alike, Slots, Skills, Windowed

\* The end of a line does the same to both folds.
LEMMA FinalizeAlike ==
    ASSUME NEW F, NEW p, NEW s, NEW r, IsReplayer(s), IsReplayer(r), Tidy(r), Alike(F, p, s, r),
           Joint(Len(p), s), NEW y, y = FinalizeCompleted(s), NEW z, z = FinalizeCompleted(r)
    PROVE  /\ Alike(F, <<>>, y, z) /\ Cut(s, Frontier(s), y) /\ Cut(r, Frontier(r), z)
           /\ Off(Len(p), Frontier(s), Frontier(r))
<1>1. Cut(s, Frontier(s), y) BY AlikeWindowed, FinalizeCut
<1>2. Cut(r, Frontier(r), z)
  <2>1. Windowed(r) BY DEF Tidy, Windowed
  <2> QED BY <2>1, FinalizeCut
<1>3. Off(Len(p), Frontier(s), Frontier(r))
  <2>1. Outs(F, p, s, r) /\ Queues(F, s, r) BY DEF Alike
  <2>2. Frontier(r) = Len(p) + Frontier(s) BY <2>1, FrontierShift
  <2>3. Len(p) \in Nat BY <2>1 DEF Outs, IsSeq
  <2>4. Frontier(s) \in Nat BY <1>1 DEF Cut
  <2>5. Frontier(r) \in Nat BY <1>2 DEF Cut
  <2> QED BY <2>2, <2>3, <2>4, <2>5 DEF Off
<1>4. PICK k, e : k = Frontier(s) /\ e = Frontier(r) OBVIOUS
<1>5. Alike(F, <<>>, y, z) BY <1>1, <1>2, <1>3, <1>4, CutAlike
<1> QED BY <1>1, <1>2, <1>3, <1>5

\* Alike folds with the same window commit the same blocks, and stay alike.
LEMMA DurableAlike ==
    ASSUME NEW F, NEW s, NEW r, IsReplayer(s), IsReplayer(r), Tidy(r), Alike(F, <<>>, s, r),
           NEW y, y = FinalizeCompleted(s), NEW z, z = FinalizeCompleted(r)
    PROVE  Alike(F, <<>>, y, z) /\ y.durable = z.durable
<1>1. Joint(Len(<<>>), s) BY EmptyIsSeq DEF Joint
<1>2. /\ Alike(F, <<>>, y, z) /\ Cut(s, Frontier(s), y) /\ Cut(r, Frontier(r), z)
      /\ Off(Len(<<>>), Frontier(s), Frontier(r))
  BY <1>1, FinalizeAlike
<1>3. PICK k \in Nat, e \in Nat : k = Frontier(s) /\ e = Frontier(r) BY <1>2 DEF Off
<1>4. k = e BY <1>2, <1>3, EmptyIsSeq DEF Off
<1>5. y.durable = FinishTurns(Shown(SubSeq(s.out, 1, k), s.base, s.suppress))
  BY <1>2, <1>3 DEF Cut
<1>6. z.durable = FinishTurns(Shown(SubSeq(r.out, 1, k), r.base, r.suppress))
  BY <1>2, <1>3, <1>4 DEF Cut
<1>7. r.out = s.out
  <2>1. IsSeq(s.out) BY DEF IsReplayer
  <2>2. r.out = <<>> \o s.out BY DEF Alike, Outs
  <2> QED BY <2>1, <2>2, ConcatNone
<1>8. PICK x : x = SubSeq(s.out, 1, k) OBVIOUS
<1>9. IsSeq(x) BY <1>8, SubFirst
<1>10. Shown(x, s.base, s.suppress) = Shown(x, r.base, r.suppress) BY <1>9, ShownAlike
<1> QED BY <1>2, <1>5, <1>6, <1>7, <1>8, <1>10

-----------------------------------------------------------------------------
(* What leaves the window keeps its relayed messages.                      *)

LEMMA InboxFew ==
    ASSUME NEW s, IsSeq(s), \A i \in 1..Len(s) : ~OpensTurn(s[i])
    PROVE  InboxOf(s) = {}
<1>1. \A i \in 1..Len(s) : s[i].kind # "UserInbox" BY DEF OpensTurn
<1>2. \A x : x \notin InboxOf(s) BY <1>1, InboxIn
<1> QED BY <1>2

\* Only markers are hidden.
LEMMA ShownKeeps ==
    ASSUME NEW u, NEW lo, NEW S, IsSeq(u),
           \A i \in 1..Len(u) : lo + i \in S => u[i].kind = "QueueEvent"
    PROVE  /\ IsSeq(Shown(u, lo, S)) /\ Openers(Shown(u, lo, S)) = Openers(u)
           /\ InboxOf(Shown(u, lo, S)) = InboxOf(u)
<1>1. PICK m \in Nat : m = Len(u) BY DEF IsSeq
<1>2. PICK g : Shows(g, u, lo, S, m) BY <1>1, ShownTrace
<1>3. /\ g[0] = <<>>
      /\ \A i \in 1..m : g[i] = IF lo + i \in S THEN g[i - 1] ELSE Append(g[i - 1], u[i])
      /\ Shown(u, lo, S) = g[m] /\ \A i \in 0..m : IsSeq(g[i])
  BY <1>2 DEF Shows
<1> DEFINE same(x, y) == Openers(x) = Openers(y) /\ InboxOf(x) = InboxOf(y)
           I == {i \in Nat : i <= m => same(g[i], SubSeq(u, 1, i))}
<1>4. 0 \in I BY <1>3, SubNone
<1>5. ASSUME NEW i \in Nat, i \in I PROVE i + 1 \in I
  <2> SUFFICES ASSUME i + 1 <= m PROVE same(g[i + 1], SubSeq(u, 1, i + 1)) OBVIOUS
  <2>1. PICK j, x, b, h : j = i + 1 /\ x = SubSeq(u, 1, i) /\ b = u[i + 1] /\ h = g[i] OBVIOUS
  <2>2. j \in 1..m /\ j - 1 = i /\ same(h, x) BY <1>5, <2>1
  <2>3. g[j] = IF lo + j \in S THEN h ELSE Append(h, b) BY <1>3, <2>1, <2>2
  <2>4. SubSeq(u, 1, j) = Append(x, b) BY <2>1, SubNext
  <2>5. IsSeq(h) /\ IsSeq(x)
    <3>1. i \in 0..m OBVIOUS
    <3> QED BY <1>3, <2>1, <3>1, SubFirst
  <2>6. /\ Openers(Append(h, b)) = Openers(h) + (IF OpensTurn(b) THEN 1 ELSE 0)
        /\ Openers(Append(x, b)) = Openers(x) + (IF OpensTurn(b) THEN 1 ELSE 0)
    BY <2>5, OpenersAppend
  <2>7. /\ InboxOf(Append(h, b)) = InboxOf(h) \cup (IF b.kind = "UserInbox" THEN {b.name} ELSE {})
        /\ InboxOf(Append(x, b)) = InboxOf(x) \cup (IF b.kind = "UserInbox" THEN {b.name} ELSE {})
    BY <2>5, InboxAppend
  <2>8. same(Append(h, b), Append(x, b)) BY <2>2, <2>6, <2>7
  <2>9. CASE lo + j \in S
    <3>1. b.kind = "QueueEvent" BY <1>1, <2>1, <2>2, <2>9
    <3>2. ~OpensTurn(b) /\ b.kind # "UserInbox" BY <3>1 DEF OpensTurn
    <3>3. Openers(x) \in Nat BY <2>5, HeadsFinite
    <3>4. same(x, Append(x, b)) BY <2>6, <2>7, <3>2, <3>3
    <3> QED BY <2>1, <2>2, <2>3, <2>4, <2>9, <3>4
  <2>10. CASE lo + j \notin S BY <2>1, <2>3, <2>4, <2>8, <2>10
  <2> QED BY <2>9, <2>10
<1> HIDE DEF I, same
<1>6. Nat \subseteq I BY <1>4, <1>5, W!SetInduction
<1>7. same(g[m], SubSeq(u, 1, m)) BY <1>6 DEF I
<1>8. SubSeq(u, 1, m) = u BY <1>1, SubAll
<1>9. IsSeq(g[m]) BY <1>3
<1> QED BY <1>3, <1>7, <1>8, <1>9 DEF same

\* Shaping turns neither adds nor loses a relayed message.
LEMMA FlushInbox ==
    ASSUME NEW s, IsShaping(s)
    PROVE  InboxOf(Flush(s).out) = InboxOf(s.out)
<1> DEFINE span == [kind |-> "Span", name |-> Nil,
                    joined |-> Len(SelectSeq(s.run, LAMBDA b : b.kind = "Thinking")),
                    parts |-> SelectSeq(s.run, LAMBDA b : b.kind # "Thinking")]
           edits == \A i \in DOMAIN s.run : s.run[i].kind = "Edit"
           f == Flush(s)
<1>1. PICK mid : mid = (IF edits THEN s.run ELSE <<span>>) OBVIOUS
<1>2. f = [out |-> s.out \o mid \o s.held, run |-> <<>>, held |-> <<>>] BY <1>1 DEF Flush
<1>3. IsSeq(mid) /\ \A i \in 1..Len(mid) : ~OpensTurn(mid[i])
  <2>1. CASE edits
    <3>1. mid = s.run BY <1>1, <2>1
    <3> HIDE DEF edits
    <3> QED BY <3>1 DEF IsShaping
  <2>2. CASE ~edits
    <3>1. mid = <<span>> BY <1>1, <2>2
    <3>2. span.kind = "Span" OBVIOUS
    <3> HIDE DEF span, edits
    <3>3. <<span>> \in Seq({span}) /\ Len(<<span>>) = 1 /\ <<span>>[1] = span OBVIOUS
    <3>4. IsSeq(<<span>>) BY <3>3, TypedSeq
    <3> QED BY <3>1, <3>2, <3>3, <3>4 DEF OpensTurn
  <2> HIDE DEF edits
  <2> QED BY <2>1, <2>2
<1> HIDE DEF span, edits, f
<1>4. PICK o, h : o = s.out /\ h = s.held OBVIOUS
<1>5. IsSeq(o) /\ IsSeq(h) /\ \A i \in 1..Len(h) : ~OpensTurn(h[i]) BY <1>4 DEF IsShaping
<1>6. PICK om : om = o \o mid OBVIOUS
<1>7. IsSeq(om) BY <1>3, <1>5, <1>6, SeqConcat
<1>8. InboxOf(om) = InboxOf(o) \cup InboxOf(mid) BY <1>3, <1>5, <1>6, InboxConcat
<1>9. InboxOf(om \o h) = InboxOf(om) \cup InboxOf(h) BY <1>5, <1>7, InboxConcat
<1>10. InboxOf(mid) = {} /\ InboxOf(h) = {} BY <1>3, <1>5, InboxFew
<1>11. f.out = om \o h BY <1>2, <1>4, <1>6
<1> QED BY <1>4, <1>8, <1>9, <1>10, <1>11 DEF f

LEMMA ShapeInbox ==
    ASSUME NEW s, NEW b, IsShaping(s)
    PROVE  InboxOf(Shape(s, b).out)
              = InboxOf(s.out) \cup (IF b.kind = "UserInbox" THEN {b.name} ELSE {})
<1> DEFINE t == Shape(s, b)
<1>1. CASE InRun(b)
  <2>1. t = [s EXCEPT !.run = Append(@, b)] BY <1>1 DEF Shape
  <2>2. t.out = s.out BY <2>1 DEF IsShaping
  <2>3. b.kind # "UserInbox" BY <1>1 DEF InRun
  <2> QED BY <2>2, <2>3
<1>2. CASE ~InRun(b) /\ b.kind = "Attachment" /\ s.run # <<>>
  <2>1. t = [s EXCEPT !.held = Append(@, b)] BY <1>2 DEF Shape
  <2>2. t.out = s.out BY <2>1 DEF IsShaping
  <2> QED BY <1>2, <2>2
<1>3. CASE ~InRun(b) /\ b.kind = "Attachment" /\ s.run = <<>>
  <2>1. PICK o : o = s.out OBVIOUS
  <2>2. t = [s EXCEPT !.out = Append(@, b)] BY <1>3 DEF Shape
  <2>3. t.out = Append(o, b) BY <2>1, <2>2 DEF IsShaping
  <2>4. IsSeq(o) BY <2>1 DEF IsShaping
  <2> HIDE DEF t
  <2> QED BY <2>1, <2>3, <2>4, InboxAppend DEF t
<1>4. CASE ~InRun(b) /\ b.kind # "Attachment"
  <2>1. PICK f : f = Flush(s) OBVIOUS
  <2>2. IsShaping(f) /\ InboxOf(f.out) = InboxOf(s.out) BY <2>1, FlushFacts, FlushInbox
  <2>3. t = [f EXCEPT !.out = Append(@, b)] BY <1>4, <2>1 DEF Shape
  <2>4. PICK fo : fo = f.out OBVIOUS
  <2>5. t.out = Append(fo, b) BY <2>2, <2>3, <2>4 DEF IsShaping
  <2> HIDE DEF t
  <2>6. IsSeq(fo) BY <2>2, <2>4 DEF IsShaping
  <2> QED BY <2>2, <2>4, <2>5, <2>6, InboxAppend DEF t
<1> QED BY <1>1, <1>2, <1>3, <1>4

\* Hence what is committed shows the relayed messages of the raw blocks.
LEMMA FinishInbox ==
    ASSUME NEW u, IsSeq(u)
    PROVE  InboxOf(FinishTurns(u)) = InboxOf(u)
<1>1. PICK n \in Nat : n = Len(u) BY DEF IsSeq
<1>2. PICK g : /\ g[0] = NoShaping
               /\ \A i \in 1..Len(u) : g[i] = Shape(g[i - 1], u[i])
               /\ FinishTurns(u) = Flush(g[Len(u)]).out
               /\ \A i \in 0..Len(u) : /\ IsShaping(g[i])
                                       /\ Openers(g[i].out) = Openers(SubSeq(u, 1, i))
  BY ShapeCourse
<1> DEFINE I == {i \in Nat : i <= n => InboxOf(g[i].out) = InboxOf(SubSeq(u, 1, i))}
<1>3. 0 \in I
  <2>1. g[0].out = <<>> BY <1>2 DEF NoShaping
  <2> QED BY <2>1, SubNone
<1>4. ASSUME NEW i \in Nat, i \in I PROVE i + 1 \in I
  <2> SUFFICES ASSUME i + 1 <= n PROVE InboxOf(g[i + 1].out) = InboxOf(SubSeq(u, 1, i + 1)) OBVIOUS
  <2>1. PICK j, x, b, h : j = i + 1 /\ x = SubSeq(u, 1, i) /\ b = u[i + 1] /\ h = g[i] OBVIOUS
  <2>2. j \in 1..n /\ j - 1 = i /\ i \in 0..n /\ InboxOf(h.out) = InboxOf(x) BY <1>4, <2>1
  <2>3. g[j] = Shape(h, b) /\ IsShaping(h) BY <1>1, <1>2, <2>1, <2>2
  <2>4. SubSeq(u, 1, j) = Append(x, b) BY <2>1, SubNext
  <2>5. IsSeq(x) BY <2>1, SubFirst
  <2>6. InboxOf(Append(x, b)) = InboxOf(x) \cup (IF b.kind = "UserInbox" THEN {b.name} ELSE {})
    BY <2>5, InboxAppend
  <2>7. InboxOf(Shape(h, b).out)
           = InboxOf(h.out) \cup (IF b.kind = "UserInbox" THEN {b.name} ELSE {})
    BY <2>3, ShapeInbox
  <2> QED BY <2>1, <2>2, <2>3, <2>4, <2>6, <2>7
<1> HIDE DEF I
<1>5. Nat \subseteq I BY <1>3, <1>4, W!SetInduction
<1>6. InboxOf(g[n].out) = InboxOf(u)
  <2>1. n \in I BY <1>5
  <2>2. InboxOf(g[n].out) = InboxOf(SubSeq(u, 1, n)) BY <2>1 DEF I
  <2>3. SubSeq(u, 1, n) = u BY <1>1, SubAll
  <2> QED BY <2>2, <2>3
<1>7. n \in 0..n OBVIOUS
<1>8. PICK h : h = g[n] OBVIOUS
<1>9. IsShaping(h) /\ FinishTurns(u) = Flush(h).out BY <1>1, <1>2, <1>7, <1>8
<1> QED BY <1>6, <1>8, <1>9, FlushInbox

\* Of the k blocks x that are drained, d is committed: no turn and no relayed
\* message of theirs is missing.
Keeping(x, k, d) ==
    /\ IsSeq(x) /\ Len(x) = k /\ IsSeq(d)
    /\ Openers(d) = Openers(x) /\ InboxOf(d) = InboxOf(x)

\* The blocks committed are, by heads and relayed messages, the blocks that leave.
LEMMA CommittedKeeps ==
    ASSUME NEW r, IsReplayer(r), NEW k, k \in 0..Len(r.out), NEW x, x = SubSeq(r.out, 1, k),
           NEW d, d = FinishTurns(Shown(x, r.base, r.suppress))
    PROVE  Keeping(x, k, d)
<1>1. PICK n \in Nat, c \in Nat : n = Len(r.out) /\ c = r.base BY DEF IsReplayer, IsSeq
<1>2. k \in Nat /\ k <= n BY <1>1
<1>3. PICK o : o = r.out OBVIOUS
<1>4. IsSeq(x) /\ Len(x) = k /\ \A j \in 1..k : x[j] = o[j] BY <1>2, <1>3, SubFirst
<1>5. PICK S : S = r.suppress OBVIOUS
<1>6. ASSUME NEW i, i \in 1..Len(x), c + i \in S PROVE x[i].kind = "QueueEvent"
  <2>1. i \in 1..k /\ i \in 1..n BY <1>2, <1>4, <1>6
  <2>2. PICK m : m = c + i OBVIOUS
  <2>3. m \in Nat /\ m > c /\ m - c = i BY <1>1, <2>1, <2>2
  <2>4. m \in r.gone BY <1>1, <1>5, <1>6, <2>2, <2>3 DEF IsReplayer
  <2>5. Marks(r, m) BY <2>4 DEF IsReplayer
  <2>6. r.out[i].kind = "QueueEvent" BY <1>1, <2>3, <2>5 DEF Marks
  <2> QED BY <1>3, <1>4, <2>1, <2>6
<1>7. PICK v : v = Shown(x, c, S) OBVIOUS
<1>8. IsSeq(v) /\ Openers(v) = Openers(x) /\ InboxOf(v) = InboxOf(x)
  <2>1. \A i \in 1..Len(x) : c + i \in S => x[i].kind = "QueueEvent" BY <1>6
  <2>2. IsSeq(x) BY <1>4
  <2>3. /\ IsSeq(Shown(x, c, S)) /\ Openers(Shown(x, c, S)) = Openers(x)
        /\ InboxOf(Shown(x, c, S)) = InboxOf(x)
    BY <2>1, <2>2, ShownKeeps
  <2> QED BY <1>7, <2>3
<1>9. d = FinishTurns(v) BY <1>1, <1>5, <1>7
<1>10. IsSeq(d) /\ Openers(d) = Openers(v) /\ InboxOf(d) = InboxOf(v)
  BY <1>8, <1>9, FinishTurnsFacts, FinishInbox
<1> QED BY <1>4, <1>8, <1>10 DEF Keeping

-----------------------------------------------------------------------------
(* Every turn of the raw stream is counted, and has its time.              *)

\* Every turn has a time: those that left, and those of the window that are stamped.
Counted(r) == Len(r.times) = Openers(r.past) + Openers(SubSeq(r.out, 1, r.stamped - r.base))

\* What holds of a fold from the start.
Good(r) == IsReplayer(r) /\ Tidy(r) /\ Kept(r) /\ Counted(r)

\* Every turn so far will have its time.
LEMMA CountedTimes ==
    ASSUME NEW r, IsReplayer(r), Counted(r), IsSeq(r.past), NEW t, t = OpenTimes(r)
    PROVE  IsSeq(t) /\ Len(t) = Openers(r.past) + Openers(r.out)
<1>1. PICK o, past, times, al : o = r.out /\ past = r.past /\ times = r.times /\ al = Alloted(r)
  OBVIOUS
<1>2. PICK n \in Nat, j \in Nat : n = Len(o) /\ j = r.stamped - r.base /\ j <= n
  BY <1>1 DEF IsReplayer, IsSeq
<1>3. IsSeq(o) /\ IsSeq(past) /\ IsSeq(times) BY <1>1 DEF IsReplayer
<1>4. t = times \o al BY <1>1, StampFields
<1>5. PICK u : u = Untimed(r) OBVIOUS
<1>6. PICK x, y : x = SubSeq(o, 1, j) /\ y = SubSeq(o, j + 1, n) OBVIOUS
<1>7. IsSeq(x) /\ IsSeq(y) BY <1>2, <1>6, SubFirst, SubRest
<1>8. u = Openers(y) BY <1>1, <1>2, <1>5, <1>6 DEF Untimed
<1>9. u \in Nat /\ Openers(x) \in Nat /\ Openers(past) \in Nat BY <1>3, <1>7, <1>8, HeadsFinite
<1>10. IsSeq(al) /\ Len(al) = u
  <2>1. al = [i \in 1..u |-> r.pending] BY <1>1, <1>5 DEF Alloted
  <2>2. al = [i \in 1..u |-> al[i]] BY <2>1
  <2> QED BY <1>9, <2>2, SeqOfDomain
<1>11. IsSeq(t) /\ Len(t) = Len(times) + u BY <1>3, <1>4, <1>10, SeqConcat
<1>12. Openers(o) = Openers(x) + Openers(y)
  <2>1. j \in 0..Len(o) BY <1>2
  <2> QED BY <1>2, <1>3, <1>6, <2>1, OpenersSplit
<1>13. Len(times) = Openers(past) + Openers(x) BY <1>1, <1>2, <1>6 DEF Counted
<1> QED BY <1>1, <1>8, <1>9, <1>11, <1>12, <1>13

\* Stamping, and the messages of a line, keep the count.
LEMMA StartCounted ==
    ASSUME NEW r, IsReplayer(r), Counted(r), IsSeq(r.past), NEW ts, NEW z, z = LineStart(r, ts)
    PROVE  Counted(z) /\ z.past = r.past
<1>1. Stamped(r, z) BY StartFields
<1>2. PICK t : t = OpenTimes(r) OBVIOUS
<1>3. Len(t) = Openers(r.past) + Openers(r.out) BY <1>2, CountedTimes
<1>4. PICK o : o = r.out OBVIOUS
<1>5. IsSeq(o) BY <1>4 DEF IsReplayer
<1>6. SubSeq(o, 1, Len(o)) = o BY <1>5, SubAll
<1>7. z.stamped - z.base = Len(o)
  <2>1. PICK n \in Nat, c \in Nat : n = Len(o) /\ c = r.base BY <1>4 DEF IsReplayer, IsSeq
  <2>2. z.stamped = c + n /\ z.base = c BY <1>1, <1>4, <2>1 DEF Stamped, RawLen
  <2> QED BY <2>1, <2>2
<1> QED BY <1>1, <1>2, <1>3, <1>4, <1>6, <1>7 DEF Stamped, Counted

\* A message changes no count of what is stamped.
LEMMA MovesCounted ==
    ASSUME NEW r, NEW z, IsReplayer(r), Moves(r, z), Counted(r)
    PROVE  Counted(z)
<1>1. PICK o, w : o = r.out /\ w = z.out OBVIOUS
<1>2. PICK n \in Nat, j \in Nat, m \in Nat :
         n = Len(o) /\ j = r.stamped - r.base /\ j <= n /\ m = Len(w)
  BY <1>1 DEF IsReplayer, IsSeq, Moves
<1>3. PICK x, y : x = SubSeq(o, 1, j) /\ y = SubSeq(w, 1, j) OBVIOUS
<1>4. /\ IsSeq(x) /\ Len(x) = j /\ \A i \in 1..j : x[i] = o[i]
      /\ IsSeq(y) /\ Len(y) = j /\ \A i \in 1..j : y[i] = w[i]
  BY <1>2, <1>3, SubFirst
<1>5. \A i \in 1..n : w[i].kind = o[i].kind BY <1>1, <1>2 DEF Moves
<1>6. \A i \in 1..Len(x) : OpensTurn(x[i]) <=> OpensTurn(y[i])
  <2>1. \A i \in 1..j : i \in 1..n BY <1>2
  <2>2. \A i \in 1..j : x[i].kind = y[i].kind BY <1>4, <1>5, <2>1
  <2> QED BY <1>4, <2>2 DEF OpensTurn
<1>7. Openers(x) = Openers(y) BY <1>4, <1>6, OpenersSame
<1>8. z.stamped - z.base = j BY <1>2 DEF Moves
<1> QED BY <1>1, <1>2, <1>3, <1>7, <1>8 DEF Counted, Moves

\* What a line leaves in the window, before the frontier moves.
LEMMA ToldGood ==
    ASSUME NEW r, Good(r), NEW ts, NEW line \in Lines, NEW y, y = Told(r, ts, line)
    PROVE  IsReplayer(y) /\ Tidy(y) /\ Counted(y) /\ y.past = r.past
<1>1. PICK s : s = LineStart(r, ts) OBVIOUS
<1>2. IsReplayer(r) /\ Tidy(r) /\ Counted(r) /\ IsSeq(r.past) BY DEF Good, Kept
<1>3. Counted(s) /\ s.past = r.past BY <1>1, <1>2, StartCounted
<1>4. Stamped(r, s) BY <1>1, <1>2, StartFields
<1>5. IsReplayer(s) BY <1>4 DEF Stamped
<1>6. IsReplayer(y) /\ Tidy(y) /\ Moves(s, y) BY <1>1, <1>2, ToldGrows
<1>7. Counted(y) BY <1>3, <1>5, <1>6, MovesCounted
<1> QED BY <1>3, <1>6, <1>7 DEF Moves

\* z is what the end of a line leaves of y, of which x leaves the window.
Leaves(y, z, x) ==
    /\ IsSeq(x) /\ z.past = y.past \o x
    /\ IsSeq(z.durable) /\ Openers(z.durable) = Openers(x) /\ InboxOf(z.durable) = InboxOf(x)
    /\ z.base = y.base + Len(x)
    /\ z.durable # <<>> => z.times = OpenTimes(y)

\* A cut takes what it drains into the past, and leaves the rest good.
LEMMA CutLeaves ==
    ASSUME NEW y, IsReplayer(y), Tidy(y), Counted(y), IsSeq(y.past), NEW k, NEW z, Cut(y, k, z)
    PROVE  Tidy(z) /\ Counted(z) /\ \E x : Leaves(y, z, x)
<1>0. IsReplayer(y) OBVIOUS
<1>1. PICK o, past : o = y.out /\ past = y.past OBVIOUS
<1>2. PICK n \in Nat, c \in Nat : n = Len(o) /\ c = y.base BY <1>1 DEF IsReplayer, IsSeq
<1>3. IsSeq(o) /\ IsSeq(past) BY <1>1 DEF IsReplayer
<1>4. k \in Nat /\ k <= n BY <1>1, <1>2 DEF Cut
<1>5. PICK x, w, d : x = SubSeq(o, 1, k) /\ w = SubSeq(o, k + 1, n) /\ d = z.durable OBVIOUS
<1>6. IsSeq(x) /\ Len(x) = k /\ IsSeq(d) /\ Openers(d) = Openers(x) /\ InboxOf(d) = InboxOf(x)
  <2>1. k \in 0..Len(y.out) BY <1>1, <1>2, <1>4
  <2>2. d = FinishTurns(Shown(x, y.base, y.suppress)) BY <1>1, <1>5 DEF Cut
  <2>3. x = SubSeq(y.out, 1, k) BY <1>1, <1>5
  <2>4. Keeping(x, k, d) BY <1>0, <2>1, <2>2, <2>3, CommittedKeeps, Zenon
  <2> QED BY <2>4 DEF Keeping
<1>7. IsSeq(w) /\ Len(w) = n - k /\ \A i \in 1..(n - k) : w[i] = o[k + i]
  BY <1>2, <1>4, <1>5, SubRest
<1>8. z.out = w /\ z.base = c + k BY <1>1, <1>2, <1>5 DEF Cut, Between
<1>9. z.past = past \o x BY <1>1, <1>3, <1>5 DEF Cut
<1>10. d # <<>> => k # 0
  <2> SUFFICES ASSUME k = 0 PROVE d = <<>> OBVIOUS
  <2>1. x = <<>> BY <1>5, SubNone
  <2>2. d = FinishTurns(Shown(x, y.base, y.suppress)) BY <1>1, <1>5 DEF Cut
  <2> QED BY <2>1, <2>2, ShownNone, FinishNone
<1>11. Leaves(y, z, x)
  <2>1. d # <<>> => z.times = OpenTimes(y) BY <1>10 DEF Cut
  <2> QED BY <1>1, <1>2, <1>5, <1>6, <1>8, <1>9, <2>1 DEF Leaves
<1>12. o = x \o w
  <2>1. k \in 0..Len(o) BY <1>2, <1>4
  <2> QED BY <1>2, <1>3, <1>5, <2>1, SplitSeq
<1>13. Tidy(z)
  <2>1. ASSUME NEW i \in 1..Len(w) PROVE w[i].joined \in Nat
    <3>1. i \in 1..(n - k) /\ k + i \in 1..n BY <1>2, <1>4, <1>7, <2>1
    <3> QED BY <1>1, <1>2, <1>7, <3>1 DEF Tidy
  <2>2. ASSUME NEW a, a \in Resident(y), a > c + k PROVE a \in Resident(z)
    <3>1. a \in Nat /\ a <= c + n BY <1>1, <1>2, <2>2, AboveBase
    <3>2. a \in ((c + k) + 1)..((c + k) + (n - k)) BY <1>4, <2>2, <3>1
    <3> QED BY <1>7, <1>8, <3>2 DEF Resident
  <2>3. ASSUME NEW a \in DOMAIN z.slot PROVE z.slot[a] \in Resident(z)
    <3>1. a \in DOMAIN y.slot /\ y.slot[a] > c + k /\ z.slot[a] = y.slot[a]
      BY <1>8, <2>3 DEF Cut
    <3> QED BY <2>2, <3>1 DEF Tidy
  <2>4. z.skill = 0 \/ z.skill \in Resident(z)
    <3>1. z.skill = IF y.skill > c + k THEN y.skill ELSE 0 BY <1>8 DEF Cut
    <3>2. CASE y.skill = 0
      <4>1. z.skill = 0 BY <3>1, <3>2
      <4> QED BY <4>1
    <3>3. CASE y.skill \in Resident(y) BY <2>2, <3>1, <3>3
    <3> QED BY <3>2, <3>3 DEF Tidy
  <2>5. z.inbox = InboxOf(past \o x) \cup InboxOf(w)
    <3>1. InboxOf(o) = InboxOf(x) \cup InboxOf(w) BY <1>6, <1>7, <1>12, InboxConcat
    <3>2. InboxOf(past \o x) = InboxOf(past) \cup InboxOf(x) BY <1>3, <1>6, InboxConcat
    <3>3. z.inbox = InboxOf(past) \cup InboxOf(o) BY <1>1 DEF Cut, Tidy
    <3> QED BY <3>1, <3>2, <3>3
  <2> QED BY <1>8, <1>9, <2>1, <2>3, <2>4, <2>5 DEF Tidy
<1>14. Counted(z)
  <2>1. CASE k = 0
    <3>1. x = <<>> BY <1>5, <2>1, SubNone
    <3>2. z.past = past BY <1>3, <1>9, <3>1, ConcatNone
    <3>3. w = o
      <4>1. SubSeq(o, 1, Len(o)) = o BY <1>3, SubAll
      <4>2. k + 1 = 1 BY <2>1
      <4> QED BY <1>2, <1>5, <4>1, <4>2
    <3>4. z.base = c BY <1>2, <1>8, <2>1
    <3>5. z.times = y.times /\ z.stamped = y.stamped BY <2>1 DEF Cut
    <3> QED BY <1>1, <1>2, <1>8, <3>2, <3>3, <3>4, <3>5 DEF Counted
  <2>2. CASE k # 0
    <3>1. z.times = OpenTimes(y) /\ z.stamped = c + n BY <1>1, <1>2, <2>2 DEF Cut, RawLen
    <3>2. PICK t : t = OpenTimes(y) OBVIOUS
    <3>3. Len(t) = Openers(past) + Openers(o) BY <1>1, <3>2, CountedTimes
    <3>4. Openers(past \o x) = Openers(past) + Openers(x) BY <1>3, <1>6, OpenersConcat
    <3>5. Openers(o) = Openers(x) + Openers(w) BY <1>6, <1>7, <1>12, OpenersConcat
    <3>6. Openers(past) \in Nat /\ Openers(x) \in Nat /\ Openers(w) \in Nat
      BY <1>3, <1>6, <1>7, HeadsFinite
    <3>7. z.stamped - z.base = Len(w) BY <1>4, <1>7, <1>8, <3>1
    <3>8. SubSeq(w, 1, Len(w)) = w BY <1>7, SubAll
    <3>9. Len(t) = Openers(past \o x) + Openers(w) BY <3>3, <3>4, <3>5, <3>6
    <3> QED BY <1>8, <1>9, <3>1, <3>2, <3>7, <3>8, <3>9 DEF Counted
  <2> QED BY <2>1, <2>2
<1> QED BY <1>11, <1>13, <1>14

\* A line is what it is told, and the cut at its end.
LEMMA ApplyIs ==
    ASSUME NEW r, NEW ts, NEW line
    PROVE  Apply(r, ts, line) = FinalizeCompleted(Told(r, ts, line))
BY DEF Apply, Told

\* A line keeps the replayer good; y is what it had before the frontier moved.
LEMMA ApplyGood ==
    ASSUME NEW r, Good(r), NEW ts, NEW line \in Lines, NEW y, y = Told(r, ts, line),
           NEW z, z = Apply(r, ts, line)
    PROVE  Good(z) /\ y.past = r.past /\ y.base = r.base /\ \E x : Leaves(y, z, x)
<1>1. IsReplayer(y) /\ Tidy(y) /\ Counted(y) /\ y.past = r.past BY ToldGood
<1>2. IsReplayer(r) /\ Kept(r) BY DEF Good
<1>3. Kept(z) BY <1>2, ApplyKept
<1>4. Windowed(y) BY <1>1 DEF Tidy, Windowed
<1>5. z = FinalizeCompleted(y) BY ApplyIs
<1>6. Cut(y, Frontier(y), z) BY <1>1, <1>4, <1>5, FinalizeCut
<1>7. IsSeq(y.past) BY <1>1, <1>2 DEF Kept
<1>8. Tidy(z) /\ Counted(z) /\ \E x : Leaves(y, z, x) BY <1>1, <1>6, <1>7, CutLeaves
<1>9. IsReplayer(z) BY <1>6 DEF Cut
<1>10. y.base = r.base
  <2>1. PICK s : s = LineStart(r, ts) OBVIOUS
  <2>2. Stamped(r, s) BY <1>2, <2>1, StartFields
  <2>3. Moves(s, y) BY <1>2, <2>1, ToldGrows DEF Good
  <2> QED BY <2>2, <2>3 DEF Moves, Stamped
<1> QED BY <1>1, <1>3, <1>8, <1>9, <1>10 DEF Good

\* A fold that has read nothing is good.
LEMMA NewGood == Good(NewReplayer)
<1>1. /\ NewReplayer.out = <<>> /\ NewReplayer.base = 0 /\ NewReplayer.past = <<>>
      /\ NewReplayer.times = <<>> /\ NewReplayer.stamped = 0 /\ NewReplayer.slot = <<>>
      /\ NewReplayer.skill = 0 /\ NewReplayer.inbox = {}
  BY DEF NewReplayer
<1>2. Tidy(NewReplayer)
  <2>1. 1..0 = {} OBVIOUS
  <2>2. DOMAIN <<>> = {} OBVIOUS
  <2> QED BY <1>1, <2>1, <2>2, EmptyIsSeq, InboxNone DEF Tidy
<1>3. Kept(NewReplayer) BY <1>1, EmptyIsSeq DEF Kept
<1>4. Counted(NewReplayer)
  <2>1. 0 - 0 = 0 /\ 0 + 0 = 0 OBVIOUS
  <2>2. SubSeq(<<>>, 1, 0) = <<>> BY SubNone
  <2> QED BY <1>1, <2>1, <2>2, OpenersEmpty, EmptyIsSeq DEF Counted
<1> QED BY <1>2, <1>3, <1>4, NewReplayerFacts DEF Good
=============================================================================
