-------------------------- MODULE DurableResumeProofs --------------------------
(***************************************************************************)
(* A resumed session shows what a session that never stopped would show    *)
(* (ResumeExact), for any transcript, any crash, eviction or restart, and  *)
(* any number of them.                                                     *)
(*                                                                         *)
(* Upto(lines, n) is the fold of n lines from the start.  On disk, a       *)
(* record to be resumed from after f lines tells of the moment line f + 1  *)
(* moved the frontier of that fold up to its own first block (Point): the  *)
(* record was authored there, and carries what that fold carried (Sound,   *)
(* Holds).  Only that line brings the frontier there (ResumeLine), so this *)
(* is so whatever the session that wrote the record had itself been        *)
(* resumed at.  In memory, the session is alike to the fold from the start *)
(* (Following, by the simulation of ResumeFoldProofs), or was just resumed *)
(* and will be alike once it has folded its first line (Started): it then  *)
(* lacks blocks which that line moves out of the window of the other.      *)
(*                                                                         *)
(* ResumeInv is the conjunction; NextResume shows that every step keeps    *)
(* it.  The provisos are those of the property: `exact` and, with it,      *)
(* Repeats.                                                                *)
(***************************************************************************)
EXTENDS ResumeFoldProofs

-----------------------------------------------------------------------------
(* The fold from the start, line by line.                                  *)

\* The course of a fold of what lies between two positions of a transcript.
Reads(g, a, lines, from, n) ==
    /\ n \in Nat /\ n = Len(lines) - from /\ g[0] = a /\ AdvanceOver(a, lines, from) = g[n]
    /\ \A i \in 1..n : g[i] = AdvanceAt(g[i - 1], from + i, lines[from + i])

\* A fold of lines is a course.
LEMMA ReadCourse ==
    ASSUME NEW a, NEW lines \in Seq(Lines), NEW from \in 0..Len(lines)
    PROVE  \E g, n : Reads(g, a, lines, from, n)
<1> DEFINE at == [i \in 1..(Len(lines) - from) |-> from + i]
<1>1. AdvanceOver(a, lines, from) = A!Fold(lines, a, at)
  BY Zenon DEF A!Fold, FoldLeft, A!MapThenFoldSet, MapThenFoldSet,
               A!Max, Max, AdvanceOver, LineStep
<1>2. PICK n \in Nat : n = Len(lines) - from
  <2>1. Len(lines) \in Nat OBVIOUS
  <2>2. Len(lines) - from \in Nat BY <2>1
  <2> HIDE DEF at
  <2> QED BY <2>2
<1>3. DOMAIN at = 1..n /\ \A i \in 1..n : at[i] = from + i BY <1>2
<1> HIDE DEF at
<1>4. PICK g : A!Course(g, lines, a, at, n) /\ A!Fold(lines, a, at) = g[n]
  BY <1>3, A!FoldCourse
<1>5. g[0] = a /\ \A i \in 1..n : g[i] = AdvanceAt(g[i - 1], from + i, lines[from + i])
  BY <1>3, <1>4 DEF A!Course, LineStep
<1>6. Reads(g, a, lines, from, n) BY <1>1, <1>2, <1>4, <1>5 DEF Reads
<1> QED BY <1>6

\* The fold of the first n lines, from the start.
Upto(lines, n) == Cold(SubSeq(lines, 1, n))

\* g is a fold from the start of the first n lines.
Folds(g, lines, n) ==
    /\ g[0] = NewAccumulator
    /\ \A i \in 1..n : g[i] = AdvanceAt(g[i - 1], i, lines[i])

\* The lines up to the nth, and one more.
LEMMA PrefixLines ==
    ASSUME NEW lines \in Seq(Lines), NEW n \in Nat, n <= Len(lines)
    PROVE  SubSeq(lines, 1, n) \in Seq(Lines) /\ Len(SubSeq(lines, 1, n)) = n
OBVIOUS

\* The fold of a transcript runs through the folds of its prefixes.
LEMMA UptoCourse ==
    ASSUME NEW lines \in Seq(Lines), NEW n \in Nat, n <= Len(lines)
    PROVE  \E g : Folds(g, lines, n) /\ Upto(lines, n) = g[n]
<1>1. PICK s : s = SubSeq(lines, 1, n) OBVIOUS
<1>2. s \in Seq(Lines) /\ Len(s) = n BY <1>1, PrefixLines
<1>3. \A i \in 1..n : s[i] = lines[i] BY <1>1, SubFirst
<1>4. PICK a, from : a = NewAccumulator /\ from = 0 OBVIOUS
<1>5. from \in 0..Len(s) BY <1>2, <1>4
<1>6. PICK g, k : Reads(g, a, s, from, k) BY <1>2, <1>5, ReadCourse
<1>7. k = n BY <1>2, <1>4, <1>6 DEF Reads
<1>8. /\ g[0] = a /\ AdvanceOver(a, s, from) = g[n]
      /\ \A i \in 1..n : g[i] = AdvanceAt(g[i - 1], from + i, s[from + i])
  BY <1>6, <1>7 DEF Reads
<1>9. ASSUME NEW i \in 1..n PROVE g[i] = AdvanceAt(g[i - 1], i, lines[i])
  <2>1. from + i = i BY <1>4
  <2> QED BY <1>3, <1>8, <2>1
<1>10. Upto(lines, n) = g[n] BY <1>1, <1>4, <1>8 DEF Upto, Cold
<1>11. Folds(g, lines, n) BY <1>4, <1>8, <1>9 DEF Folds
<1> QED BY <1>10, <1>11

\* There is one fold of the first lines.
LEMMA FoldsOne ==
    ASSUME NEW lines, NEW n \in Nat, NEW m \in Nat, n <= m, NEW g, NEW h,
           Folds(g, lines, n), Folds(h, lines, m)
    PROVE  g[n] = h[n]
<1> DEFINE I == {i \in Nat : i <= n => g[i] = h[i]}
<1>1. 0 \in I BY DEF Folds
<1>2. ASSUME NEW i \in Nat, i \in I PROVE i + 1 \in I
  <2> SUFFICES ASSUME i + 1 <= n PROVE g[i + 1] = h[i + 1] OBVIOUS
  <2>1. PICK j : j = i + 1 OBVIOUS
  <2>2. j \in 1..n /\ j \in 1..m /\ j - 1 = i /\ g[i] = h[i] BY <1>2, <2>1
  <2>3. g[j] = AdvanceAt(g[i], j, lines[j]) BY <2>2 DEF Folds
  <2>4. h[j] = AdvanceAt(h[i], j, lines[j]) BY <2>2 DEF Folds
  <2> QED BY <2>1, <2>2, <2>3, <2>4
<1> HIDE DEF I
<1>3. Nat \subseteq I BY <1>1, <1>2, A!SetInduction
<1> QED BY <1>3 DEF I

LEMMA UptoNone ==
    ASSUME NEW lines \in Seq(Lines)
    PROVE  Upto(lines, 0) = NewAccumulator
<1>1. PICK n : n = 0 OBVIOUS
<1>2. n \in Nat /\ n <= Len(lines) BY <1>1
<1>3. PICK g : Folds(g, lines, n) /\ Upto(lines, n) = g[n] BY <1>2, UptoCourse
<1> QED BY <1>1, <1>3 DEF Folds

\* One line more.
LEMMA UptoNext ==
    ASSUME NEW lines \in Seq(Lines), NEW n \in Nat, NEW m \in Nat, m = n + 1, m <= Len(lines)
    PROVE  Upto(lines, m) = AdvanceAt(Upto(lines, n), m, lines[m])
<1>1. n <= Len(lines) /\ n <= m OBVIOUS
<1>2. PICK g : Folds(g, lines, n) /\ Upto(lines, n) = g[n] BY <1>1, UptoCourse
<1>3. PICK h : Folds(h, lines, m) /\ Upto(lines, m) = h[m] BY UptoCourse
<1>4. g[n] = h[n] BY <1>1, <1>2, <1>3, FoldsOne
<1>5. m \in 1..m /\ m - 1 = n OBVIOUS
<1>6. h[m] = AdvanceAt(h[n], m, lines[m]) BY <1>3, <1>5 DEF Folds
<1> QED BY <1>2, <1>3, <1>4, <1>6

\* Two transcripts that begin with the same n lines.
Shares(s, t, n) ==
    /\ s \in Seq(Lines) /\ t \in Seq(Lines) /\ n \in Nat /\ n <= Len(s) /\ n <= Len(t)
    /\ \A i \in 1..n : s[i] = t[i]

\* Transcripts that share n lines share their fold.
LEMMA UptoShares ==
    ASSUME NEW s, NEW t, NEW n, Shares(s, t, n), NEW m \in Nat, m <= n
    PROVE  Upto(s, m) = Upto(t, m)
<1>1. /\ s \in Seq(Lines) /\ t \in Seq(Lines) /\ n \in Nat
      /\ \A i \in 1..n : s[i] = t[i]
  BY DEF Shares
<1>2. PICK x, y : x = SubSeq(s, 1, m) /\ y = SubSeq(t, 1, m) OBVIOUS
<1>3. /\ IsSeq(x) /\ Len(x) = m /\ \A j \in 1..m : x[j] = s[j]
      /\ IsSeq(y) /\ Len(y) = m /\ \A j \in 1..m : y[j] = t[j]
  BY <1>2, SubFirst
<1>4. \A j \in 1..m : j \in 1..n BY <1>1
<1>5. x = y BY <1>1, <1>3, <1>4, SameSeq
<1> QED BY <1>2, <1>5 DEF Upto

\* Whether a resume at a line repeats the fold is decided by the lines up to it.
LEMMA RepeatsShares ==
    ASSUME NEW s, NEW t, NEW n, Shares(s, t, n), NEW f \in Nat, NEW m \in Nat, m = f + 1, m <= n
    PROVE  Repeats(s, f) <=> Repeats(t, f)
<1>1. n \in Nat /\ \A i \in 1..n : s[i] = t[i] BY DEF Shares
<1>2. f <= n /\ m \in 1..n BY <1>1
<1>3. Upto(s, f) = Upto(t, f) BY <1>2, UptoShares
<1>4. s[m] = t[m] BY <1>1, <1>2
<1> QED BY <1>3, <1>4 DEF Repeats, Upto

-----------------------------------------------------------------------------
(* A line, for the accumulator.                                            *)

\* The blocks of d, stored.
Stored(a, d) == FoldLeft(Put, a, d)

\* The time the store gives a block.
TimeOf(a, b) == IF OpensTurn(b) /\ a.seen < Len(a.r.times) THEN a.r.times[a.seen + 1] ELSE 0

\* z is a with one more block in the log.
Puts(a, b, z) ==
    /\ DOMAIN z = AccFields /\ z.r = a.r
    /\ IsSeq(z.log) /\ z.log = Append(a.log, [block |-> b, time |-> TimeOf(a, b)])
    /\ z.seen = IF OpensTurn(b) THEN a.seen + 1 ELSE a.seen

\* What `put` appends: one block, with the time of its turn.
LEMMA PutIs ==
    ASSUME NEW a, NEW b, DOMAIN a = AccFields, IsSeq(a.log), NEW z, z = Put(a, b)
    PROVE  Puts(a, b, z)
<1>1. PICK item : item = [block |-> b, time |-> TimeOf(a, b)] OBVIOUS
<1>2. z = [a EXCEPT !.log = Append(@, item), !.seen = IF OpensTurn(b) THEN @ + 1 ELSE @]
  BY <1>1 DEF Put, TimeOf
<1>3. /\ DOMAIN z = AccFields /\ z.log = Append(a.log, item) /\ z.r = a.r
      /\ z.seen = IF OpensTurn(b) THEN a.seen + 1 ELSE a.seen
  BY <1>2 DEF AccFields
<1>4. IsSeq(z.log) BY <1>3, SeqAppend
<1> QED BY <1>1, <1>3, <1>4 DEF Puts

\* The course of storing n blocks.
Storing(g, a, d, n) ==
    /\ n \in Nat /\ n = Len(d) /\ g[0] = a /\ Stored(a, d) = g[n]
    /\ \A i \in 1..n : Puts(g[i - 1], d[i], g[i])

\* Blocks are stored one after the other.
LEMMA StoredCourse ==
    ASSUME NEW a, NEW d, DOMAIN a = AccFields, IsSeq(a.log), IsSeq(d)
    PROVE  \E g, n : Storing(g, a, d, n)
<1>1. FoldLeft(Put, a, d) = Q!Fold(0, a, d)
  BY Zenon DEF Q!Fold, FoldLeft, Q!MapThenFoldSet, MapThenFoldSet,
               Q!Max, Max, PutStep
<1>2. PICK n \in Nat : n = Len(d) /\ DOMAIN d = 1..n BY SeqTyped DEF IsSeq
<1>3. PICK g : Q!Course(g, 0, a, d, n) /\ Q!Fold(0, a, d) = g[n]
  BY <1>2, Q!FoldCourse
<1>4. g[0] = a /\ \A i \in 1..n : g[i] = Put(g[i - 1], d[i])
  BY <1>3 DEF Q!Course, PutStep
<1> DEFINE typed(x) == DOMAIN x = AccFields /\ IsSeq(x.log)
           I == {i \in Nat : i <= n => typed(g[i])}
<1>5. 0 \in I BY <1>4
<1>6. ASSUME NEW i \in Nat, i \in I PROVE i + 1 \in I
  <2> SUFFICES ASSUME i + 1 <= n PROVE typed(g[i + 1]) OBVIOUS
  <2>1. PICK j, x, z, b : j = i + 1 /\ x = g[i] /\ z = g[i + 1] /\ b = d[i + 1] OBVIOUS
  <2>2. j \in 1..n /\ j - 1 = i /\ typed(x) BY <1>6, <2>1
  <2>3. z = Put(x, b) BY <1>4, <2>1, <2>2
  <2>4. Puts(x, b, z) BY <2>2, <2>3, PutIs
  <2> QED BY <2>1, <2>4 DEF Puts
<1> HIDE DEF I
<1>7. Nat \subseteq I BY <1>5, <1>6, Q!SetInduction
<1>8. ASSUME NEW i \in 1..n PROVE Puts(g[i - 1], d[i], g[i])
  <2>1. PICK k \in Nat : k = i - 1 BY <1>2
  <2>2. k <= n BY <1>2, <2>1
  <2>3. PICK x, z, b : x = g[k] /\ z = g[i] /\ b = d[i] OBVIOUS
  <2>4. typed(x) BY <1>7, <2>2, <2>3 DEF I
  <2>5. z = Put(x, b) BY <1>4, <2>1, <2>3
  <2> QED BY <2>1, <2>3, <2>4, <2>5, PutIs
<1>9. Storing(g, a, d, n) BY <1>1, <1>2, <1>3, <1>4, <1>8 DEF Storing, Stored
<1> QED BY <1>9

\* What the store makes of the blocks depends on the log, on the turns rendered
\* so far and on the times of the turns.
LEMMA StoredAlike ==
    ASSUME NEW a, NEW b, NEW d, DOMAIN a = AccFields, DOMAIN b = AccFields, IsSeq(d),
           IsSeq(a.log), a.log = b.log, a.seen = b.seen, a.r.times = b.r.times,
           NEW y, y = Stored(a, d), NEW z, z = Stored(b, d)
    PROVE  y.log = z.log /\ y.seen = z.seen
<1>1. PICK n \in Nat : n = Len(d) BY DEF IsSeq
<1>2. PICK g : Storing(g, a, d, n)
  <2>1. PICK g, m : Storing(g, a, d, m) BY StoredCourse
  <2>2. m = n BY <1>1, <2>1 DEF Storing
  <2> QED BY <2>1, <2>2
<1>3. PICK h : Storing(h, b, d, n)
  <2>0. IsSeq(b.log) OBVIOUS
  <2>1. PICK h, m : Storing(h, b, d, m) BY <2>0, StoredCourse
  <2>2. m = n BY <1>1, <2>1 DEF Storing
  <2> QED BY <2>1, <2>2
<1>4. g[0] = a /\ y = g[n] /\ \A i \in 1..n : Puts(g[i - 1], d[i], g[i]) BY <1>2 DEF Storing
<1>5. h[0] = b /\ z = h[n] /\ \A i \in 1..n : Puts(h[i - 1], d[i], h[i]) BY <1>3 DEF Storing
<1> DEFINE same(u, v) == u.log = v.log /\ u.seen = v.seen /\ u.r.times = v.r.times
           I == {i \in Nat : i <= n => same(g[i], h[i])}
<1>6. 0 \in I BY <1>4, <1>5
<1>7. ASSUME NEW i \in Nat, i \in I PROVE i + 1 \in I
  <2> SUFFICES ASSUME i + 1 <= n PROVE same(g[i + 1], h[i + 1]) OBVIOUS
  <2>1. PICK j : j = i + 1 OBVIOUS
  <2>2. j \in 1..n /\ j - 1 = i /\ same(g[i], h[i]) BY <1>7, <2>1
  <2>3. Puts(g[i], d[j], g[j]) BY <1>4, <2>2
  <2>4. Puts(h[i], d[j], h[j]) BY <1>5, <2>2
  <2>5. TimeOf(g[i], d[j]) = TimeOf(h[i], d[j]) BY <2>2 DEF TimeOf
  <2>6. g[j].log = h[j].log BY <2>2, <2>3, <2>4, <2>5 DEF Puts
  <2>7. g[j].seen = h[j].seen BY <2>2, <2>3, <2>4 DEF Puts
  <2>8. g[j].r.times = h[j].r.times BY <2>2, <2>3, <2>4 DEF Puts
  <2> QED BY <2>1, <2>6, <2>7, <2>8
<1> HIDE DEF I
<1>8. Nat \subseteq I BY <1>6, <1>7, Q!SetInduction
<1>9. same(g[n], h[n]) BY <1>8 DEF I
<1> QED BY <1>4, <1>5, <1>9

\* The store has seen as many turns as it was given.
LEMMA StoredSeen ==
    ASSUME NEW a, NEW d, DOMAIN a = AccFields, IsSeq(d), IsSeq(a.log), a.seen \in Nat,
           NEW y, y = Stored(a, d)
    PROVE  y.seen = a.seen + Openers(d)
<1>1. PICK g, n : Storing(g, a, d, n) BY StoredCourse
<1>2. /\ n \in Nat /\ n = Len(d) /\ g[0] = a /\ y = g[n]
      /\ \A i \in 1..n : Puts(g[i - 1], d[i], g[i])
  BY <1>1 DEF Storing
<1> DEFINE seen(i) == g[i].seen
           heads(i) == Openers(SubSeq(d, 1, i))
           I == {i \in Nat : i <= n => seen(i) = a.seen + heads(i)}
<1>3. 0 \in I
  <2>1. Openers(SubSeq(d, 1, 0)) = 0 BY SubNone, OpenersEmpty
  <2> QED BY <1>2, <2>1
<1>4. ASSUME NEW i \in Nat, i \in I PROVE i + 1 \in I
  <2> HIDE DEF seen, heads
  <2> SUFFICES ASSUME i + 1 <= n PROVE seen(i + 1) = a.seen + heads(i + 1)
    OBVIOUS
  <2>0. seen(i) = a.seen + heads(i)
    <3>1. n \in Nat BY <1>2
    <3> QED BY <1>4, <3>1
  <2> HIDE DEF I
  <2>1. PICK j, x, b : j = i + 1 /\ x = SubSeq(d, 1, i) /\ b = d[i + 1] OBVIOUS
  <2>2. j \in 1..n /\ j - 1 = i BY <2>1
  <2>3. Puts(g[i], b, g[j]) BY <1>2, <2>1, <2>2
  <2>4. seen(j) = IF OpensTurn(b) THEN seen(i) + 1 ELSE seen(i) BY <2>3 DEF Puts, seen
  <2>5. SubSeq(d, 1, j) = Append(x, b) BY <2>1, SubNext
  <2>6. IsSeq(x) BY <2>1, SubFirst
  <2>7. Openers(Append(x, b)) = Openers(x) + (IF OpensTurn(b) THEN 1 ELSE 0) BY <2>6, OpenersAppend
  <2>8. heads(i) \in Nat /\ heads(j) = heads(i) + (IF OpensTurn(b) THEN 1 ELSE 0)
    BY <2>1, <2>5, <2>6, <2>7, HeadsFinite DEF heads
  <2>9. PICK u \in Nat, v \in Nat : u = a.seen /\ v = heads(i) BY <2>8
  <2> QED BY <2>0, <2>1, <2>4, <2>8, <2>9
<1> HIDE DEF I
<1>5. Nat \subseteq I BY <1>3, <1>4, Q!SetInduction
<1>6. seen(n) = a.seen + heads(n)
  <2>1. n \in I BY <1>2, <1>5
  <2> HIDE DEF seen, heads
  <2> QED BY <2>1 DEF I
<1>7. SubSeq(d, 1, n) = d BY <1>2, SubAll
<1> QED BY <1>2, <1>6, <1>7

LEMMA StoredNone ==
    ASSUME NEW a, DOMAIN a = AccFields, IsSeq(a.log)
    PROVE  Stored(a, <<>>) = a
<1>1. PICK d : d = <<>> OBVIOUS
<1>2. IsSeq(d) /\ Len(d) = 0 BY <1>1, EmptyIsSeq
<1>3. PICK g, n : Storing(g, a, d, n) BY <1>2, StoredCourse
<1> QED BY <1>1, <1>2, <1>3 DEF Storing

\* The resume point of a record is the state before the line at its boundary.
Resumes(z, full) ==
    full.resume.id # Nil =>
        /\ z.boundary # <<>> /\ z.boundary[1].logical = z.r.base
        /\ full.resume.id = Len(z.log) /\ full.resume.from = z.boundary[1].offset
        /\ z.emitted = z.boundary[1].tokens

\* `author_resume` stamps the record with the last boundary that is behind
\* the frontier, or with none.
LEMMA AuthorResumes ==
    ASSUME NEW a, NEW rec, NEW z, z = AuthorResume(a, rec), DOMAIN a = AccFields,
           IsSeq(a.boundary), IsSeq(a.out), DOMAIN rec = RecordFields, rec.resume.id = Nil,
           NEW full, z.out = Append(a.out, full)
    PROVE  Resumes(z, full) /\ z.seen = a.seen
<1>0. \A x : Append(a.out, full) = Append(a.out, x) => full = x
  <2> SUFFICES ASSUME NEW x, Append(a.out, full) = Append(a.out, x) PROVE full = x OBVIOUS
  <2>1. PICK o, n : o = a.out /\ n = Len(o) + 1 OBVIOUS
  <2>2. IsSeq(o) BY <2>1
  <2>3. Append(o, full)[n] = full /\ Append(o, x)[n] = x BY <2>1, <2>2, SeqAppend
  <2> QED BY <2>1, <2>3
<1>1. CASE a.boundary = <<>> \/ Head(a.boundary).logical # a.r.base
  <2>1. z = [a EXCEPT !.out = Append(@, rec)] BY <1>1 DEF AuthorResume
  <2>2. z.out = Append(a.out, rec) /\ z.seen = a.seen BY <2>1 DEF AccFields
  <2>3. full = rec BY <1>0, <2>2
  <2> QED BY <2>2, <2>3 DEF Resumes
<1>2. CASE ~(a.boundary = <<>> \/ Head(a.boundary).logical # a.r.base)
  <2>1. PICK e : e = Head(a.boundary) OBVIOUS
  <2>2. PICK b : b = [a EXCEPT !.emitted = e.tokens, !.due = (a.due + 1) % CheckpointEvery] OBVIOUS
  <2>3. PICK own : own = [rec EXCEPT !.tokens = Since(a.emitted, e.tokens),
                                 !.resume = [id |-> Len(a.log), from |-> e.offset,
                                             pending |-> e.pending],
                                 !.checkpoint = IF b.due = 0 THEN {Materialized(b)} ELSE {}]
    OBVIOUS
  <2>4. z = [b EXCEPT !.out = Append(@, own)]
    BY <1>2, <2>1, <2>2, <2>3 DEF AuthorResume
  <2>5. /\ DOMAIN b = AccFields /\ b.out = a.out /\ b.seen = a.seen
        /\ b.r = a.r /\ b.log = a.log /\ b.boundary = a.boundary /\ b.emitted = e.tokens
    BY <2>2 DEF AccFields
  <2>6. /\ z.out = Append(a.out, own) /\ z.seen = a.seen
        /\ z.r = a.r /\ z.log = a.log /\ z.boundary = a.boundary /\ z.emitted = e.tokens
    BY <2>4, <2>5 DEF AccFields
  <2>7. full = own BY <1>0, <2>6
  <2>8. own.resume.id = Len(a.log) /\ own.resume.from = e.offset
    BY <2>3 DEF RecordFields
  <2>9. a.boundary # <<>> /\ e = a.boundary[1] /\ e.logical = a.r.base BY <1>2, <2>1, HeadIs
  <2> QED BY <2>6, <2>7, <2>8, <2>9 DEF Resumes
<1> QED BY <1>1, <1>2

-----------------------------------------------------------------------------
\* The state before line n as a boundary.
Here(a, n) == [logical |-> RawLen(a.r), offset |-> n - 1, tokens |-> a.tokens,
               pending |-> a.r.pending]

\* What a commit of the blocks of z.r does to the boundaries and the records of a.
Moved(a, n, z) ==
    /\ DOMAIN z = AccFields
    /\ z.tokens = a.tokens + 1
    /\ z.turns = a.turns + Openers(z.r.durable)
    /\ z.inbox = a.inbox \cup InboxOf(z.r.durable)
    /\ z.log = Stored([a EXCEPT !.r = z.r], z.r.durable).log
    /\ z.seen = Stored([a EXCEPT !.r = z.r], z.r.durable).seen
    /\ \A j \in 1..Len(z.boundary) :
          \/ \E i \in 1..Len(a.boundary) : z.boundary[j] = a.boundary[i]
          \/ z.boundary[j] = Here(a, n) /\ RawLen(z.r) > RawLen(a.r)

\* What a line leaves on the record stream: nothing, if nothing was
\* committed; else one record, authored by `author_resume`.
Unrecorded(a, z) == z.r.durable = <<>> /\ z.out = a.out
Recorded(a, z, full) == z.r.durable # <<>> /\ z.out = Append(a.out, full) /\ Resumes(z, full)

\* A commit stores what was drained and authors one record.
LEMMA CommitIs ==
    ASSUME NEW a, NEW z, z = Commit(a),
           DOMAIN a = AccFields, IsStream(a.out), IsBoundary(a.boundary), a.emitted \in Nat,
           IsSeq(a.log), a.turns \in Nat, IsSeq(a.r.durable), a.r.durable # <<>>
    PROVE  \E full : /\ Committed(a, z, full) /\ Resumes(z, full)
                     /\ z.log = Stored(a, a.r.durable).log /\ z.seen = Stored(a, a.r.durable).seen
<1>1. PICK full : Committed(a, z, full) BY CommitFacts
<1>2. PICK drained : drained = a.r.durable OBVIOUS
<1>3. PICK turns : turns = a.turns + Openers(drained) OBVIOUS
<1>4. PICK stored : stored = FoldLeft(Put, a, drained) OBVIOUS
<1>5. PICK rec : rec = [turns |-> Openers(drained), inbox |-> InboxOf(drained),
                        times |-> SubSeq(a.r.times, a.turns + 1, turns),
                        tokens |-> 0, resume |-> NoResume, checkpoint |-> {}]
  OBVIOUS
<1>6. PICK pruned : pruned = Pruned(a.boundary, a.r.base) OBVIOUS
<1>7. PICK c : c = [stored EXCEPT !.turns = turns, !.inbox = @ \cup InboxOf(drained),
                                  !.boundary = pruned]
  OBVIOUS
<1>8. z = AuthorResume(c, rec)
  BY <1>2, <1>3, <1>4, <1>5, <1>6, <1>7 DEF Commit, Pruned
<1>9. IsSeq(drained) BY <1>2
<1>10. Stores(a, stored, Len(drained)) BY <1>4, <1>9, PutAllFacts
<1>11. /\ DOMAIN c = AccFields /\ c.log = stored.log /\ c.seen = stored.seen
       /\ c.boundary = pruned /\ c.out = a.out
  BY <1>7, <1>10 DEF Stores, AccFields
<1>12. DOMAIN rec = RecordFields /\ rec.resume.id = Nil BY <1>5 DEF RecordFields, NoResume
<1>13. IsSeq(pruned) BY <1>6, PrunedFacts DEF IsBoundary
<1>14. z.out = Append(c.out, full) /\ z.log = stored.log
  <2>1. z.out = Append(a.out, full) BY <1>1 DEF Committed
  <2>2. z.log = c.log
    <3>1. CASE c.boundary = <<>> \/ Head(c.boundary).logical # c.r.base
      <4>1. z = [c EXCEPT !.out = Append(@, rec)] BY <1>8, <3>1 DEF AuthorResume
      <4> QED BY <1>11, <4>1 DEF AccFields
    <3>2. CASE ~(c.boundary = <<>> \/ Head(c.boundary).logical # c.r.base)
      <4>1. PICK e : e = Head(c.boundary) OBVIOUS
      <4>2. PICK b : b = [c EXCEPT !.emitted = e.tokens, !.due = (c.due + 1) % CheckpointEvery]
        OBVIOUS
      <4>3. PICK own : own = [rec EXCEPT !.tokens = Since(c.emitted, e.tokens),
                                   !.resume = [id |-> Len(c.log), from |-> e.offset,
                                               pending |-> e.pending],
                                   !.checkpoint = IF b.due = 0 THEN {Materialized(b)} ELSE {}]
        OBVIOUS
      <4>4. z = [b EXCEPT !.out = Append(@, own)]
        BY <1>8, <3>2, <4>1, <4>2, <4>3 DEF AuthorResume
      <4>5. DOMAIN b = AccFields /\ b.log = c.log BY <1>11, <4>2 DEF AccFields
      <4> QED BY <4>4, <4>5 DEF AccFields
    <3> QED BY <3>1, <3>2
  <2> QED BY <1>11, <2>1, <2>2
<1>15. IsSeq(c.out) BY <1>11 DEF IsStream
<1>16. Resumes(z, full) /\ z.seen = c.seen
  <2>1. IsSeq(c.boundary) BY <1>11, <1>13
  <2> QED BY <1>8, <1>11, <1>12, <1>14, <1>15, <2>1, AuthorResumes
<1> QED BY <1>1, <1>2, <1>4, <1>11, <1>14, <1>16 DEF Stored

\* A line, for the accumulator as a whole: the fold advances, its blocks are
\* stored, a boundary may be kept, a record may be authored (`advance_at`).
LEMMA AdvanceIs ==
    ASSUME NEW a, IsAcc(a), NEW n \in Nat \ {0}, NEW line \in Lines,
           NEW z, z = AdvanceAt(a, n, line)
    PROVE  /\ z.r = Apply(a.r, n, line) /\ Moved(a, n, z)
           /\ Unrecorded(a, z) \/ \E full : Recorded(a, z, full)
<1>1. PICK r : r = Apply(a.r, n, line) OBVIOUS
<1>2. IsReplayer(r) /\ IsSeq(r.durable)
  <2>1. IsReplayer(a.r) BY DEF IsAcc
  <2> QED BY <1>1, <2>1, ApplyFacts
<1>3. PICK here : here = Here(a, n) OBVIOUS
<1>4. PICK b : b = [a EXCEPT !.r = r,
                             !.boundary = IF Candidate(a.r, r, line) THEN Append(@, here) ELSE @]
  OBVIOUS
<1>5. PICK c : c = IF r.durable = <<>> THEN b ELSE Commit(b) OBVIOUS
<1>6. z = [c EXCEPT !.tokens = @ + 1] BY <1>1, <1>3, <1>4, <1>5 DEF AdvanceAt, Here
<1>7. /\ DOMAIN b = AccFields /\ b.r = r
      /\ b.boundary = IF Candidate(a.r, r, line) THEN Append(a.boundary, here) ELSE a.boundary
      /\ b.log = a.log /\ b.emitted = a.emitted /\ b.out = a.out /\ b.tokens = a.tokens
      /\ b.turns = a.turns /\ b.inbox = a.inbox /\ b.seen = a.seen
  BY <1>4 DEF IsAcc, AccFields
<1>8. PICK q : q = [a EXCEPT !.r = r] OBVIOUS
<1>9. DOMAIN q = AccFields /\ q.r = r /\ q.log = a.log /\ q.seen = a.seen
  BY <1>8 DEF IsAcc, AccFields
<1>10. IsSeq(a.log) /\ IsStream(a.out) /\ a.tokens \in Nat /\ a.emitted \in Nat /\ a.turns \in Nat
       /\ IsSeq(a.boundary) /\ IsBoundary(a.boundary)
  BY DEF IsAcc, Timed, IsBoundary
<1>11. \A j \in 1..Len(b.boundary) :
          \/ \E i \in 1..Len(a.boundary) : b.boundary[j] = a.boundary[i]
          \/ b.boundary[j] = here /\ RawLen(r) > RawLen(a.r)
  <2>1. CASE Candidate(a.r, r, line)
    <3>1. RawLen(r) > RawLen(a.r) BY <2>1 DEF Candidate
    <3>2. PICK s, t : s = a.boundary /\ t = Append(s, here) OBVIOUS
    <3>3. /\ IsSeq(t) /\ Len(t) = Len(s) + 1 /\ t[Len(s) + 1] = here
          /\ \A i \in 1..Len(s) : t[i] = s[i]
      BY <1>10, <3>2, SeqAppend
    <3>4. Len(s) \in Nat BY <1>10, <3>2 DEF IsSeq
    <3>5. \A j \in 1..Len(t) : j \in 1..Len(s) \/ j = Len(s) + 1 BY <3>3, <3>4
    <3>6. \A j \in 1..Len(t) : (\E i \in 1..Len(s) : t[j] = s[i]) \/ t[j] = here BY <3>3, <3>5
    <3> QED BY <1>7, <2>1, <3>1, <3>2, <3>6
  <2>2. CASE ~Candidate(a.r, r, line) BY <1>7, <2>2
  <2> QED BY <2>1, <2>2
<1>12. PICK d, st : d = r.durable /\ st = Stored(q, d) OBVIOUS
<1>13. /\ DOMAIN c = AccFields /\ c.r = r /\ c.tokens = a.tokens
       /\ c.turns = a.turns + Openers(d) /\ c.inbox = a.inbox \cup InboxOf(d)
       /\ c.log = st.log /\ c.seen = st.seen
       /\ \A j \in 1..Len(c.boundary) : \E i \in 1..Len(b.boundary) : c.boundary[j] = b.boundary[i]
       /\ \/ d = <<>> /\ c.out = a.out
          \/ \E full : d # <<>> /\ c.out = Append(a.out, full) /\ Resumes(c, full)
  <2>1. CASE d = <<>>
    <3>1. c = b BY <1>5, <1>12, <2>1
    <3>2. Openers(d) = 0 /\ InboxOf(d) = {} BY <2>1, OpenersEmpty, InboxNone
    <3>3. st = q BY <1>9, <1>10, <1>12, <2>1, StoredNone
    <3>4. \A j \in 1..Len(c.boundary) : \E i \in 1..Len(b.boundary) : c.boundary[j] = b.boundary[i]
      BY <3>1
    <3>5. a.turns = a.turns + 0 BY <1>10
    <3> QED BY <1>7, <1>9, <2>1, <3>1, <3>2, <3>3, <3>4, <3>5
  <2>2. CASE d # <<>>
    <3>1. c = Commit(b) BY <1>5, <1>12, <2>2
    <3>2. IsBoundary(b.boundary)
      <4>1. here.offset \in Nat /\ here.tokens = a.tokens BY <1>3 DEF Here
      <4> QED BY <1>7, <1>10, <4>1, BoundaryNext
    <3>3. /\ DOMAIN b = AccFields /\ IsStream(b.out) /\ b.emitted \in Nat /\ IsSeq(b.log)
          /\ b.turns \in Nat /\ IsSeq(b.r.durable) /\ b.r.durable # <<>>
      BY <1>2, <1>7, <1>10, <1>12, <2>2
    <3>4. PICK full : /\ Committed(b, c, full) /\ Resumes(c, full)
                      /\ c.log = Stored(b, b.r.durable).log /\ c.seen = Stored(b, b.r.durable).seen
      BY <3>1, <3>2, <3>3, CommitIs
    <3>5. /\ DOMAIN c = AccFields /\ c.r = r /\ c.tokens = a.tokens
          /\ c.turns = a.turns + Openers(d) /\ c.inbox = a.inbox \cup InboxOf(d)
          /\ \A j \in 1..Len(c.boundary) : \E i \in 1..Len(b.boundary) : c.boundary[j] = b.boundary[i]
          /\ c.out = Append(a.out, full)
      BY <1>7, <1>12, <3>4 DEF Committed
    <3>6. PICK sb : sb = Stored(b, d) OBVIOUS
    <3>7. sb.log = st.log /\ sb.seen = st.seen
      <4>1. IsSeq(d) BY <1>2, <1>12
      <4>2. b.log = q.log /\ b.seen = q.seen /\ b.r.times = q.r.times BY <1>7, <1>9
      <4> QED BY <1>9, <1>12, <3>3, <3>6, <4>1, <4>2, StoredAlike
    <3> QED BY <1>7, <1>12, <2>2, <3>4, <3>5, <3>6, <3>7
  <2> QED BY <2>1, <2>2
<1>14. /\ DOMAIN z = AccFields /\ z.r = c.r /\ z.turns = c.turns /\ z.log = c.log
       /\ z.out = c.out /\ z.boundary = c.boundary /\ z.emitted = c.emitted /\ z.inbox = c.inbox
       /\ z.seen = c.seen /\ z.tokens = a.tokens + 1
  BY <1>6, <1>13 DEF AccFields
<1>15. \A full : Resumes(c, full) => Resumes(z, full) BY <1>14 DEF Resumes
<1>16. \A j \in 1..Len(z.boundary) :
          \/ \E i \in 1..Len(a.boundary) : z.boundary[j] = a.boundary[i]
          \/ z.boundary[j] = here /\ RawLen(r) > RawLen(a.r)
  BY <1>11, <1>13, <1>14
<1>17. Moved(a, n, z)
  BY <1>3, <1>8, <1>12, <1>13, <1>14, <1>16 DEF Moved
<1>18. Unrecorded(a, z) \/ \E full : Recorded(a, z, full)
  BY <1>12, <1>13, <1>14, <1>15 DEF Unrecorded, Recorded
<1> QED BY <1>1, <1>13, <1>14, <1>17, <1>18

-----------------------------------------------------------------------------
(* A fold that counts every turn, and a fold that follows it.              *)

\* The totals are those of what has left the window.
Honest(a) ==
    /\ IsAcc(a) /\ Good(a.r)
    /\ a.turns = Openers(a.r.past) /\ a.seen = a.turns /\ a.inbox = InboxOf(a.r.past)

\* A fold from the start stays honest.
LEMMA AdvanceHonest ==
    ASSUME NEW a, Honest(a), NEW n \in Nat \ {0}, NEW line \in Lines,
           NEW z, z = AdvanceAt(a, n, line)
    PROVE  Honest(z) /\ z.tokens = a.tokens + 1
<1>1. IsAcc(a) /\ Good(a.r) BY DEF Honest
<1>2. z.r = Apply(a.r, n, line) /\ Moved(a, n, z) BY <1>1, AdvanceIs
<1>3. IsAcc(z) BY <1>1, AdvanceFacts
<1>4. PICK q, y, r : q = a.r /\ y = Told(a.r, n, line) /\ r = z.r OBVIOUS
<1>5. Good(r) /\ y.past = q.past /\ \E x : Leaves(y, r, x)
  <2>1. Good(q) /\ y = Told(q, n, line) /\ r = Apply(q, n, line) BY <1>1, <1>2, <1>4
  <2> QED BY <2>1, ApplyGood
<1>6. PICK x : Leaves(y, r, x) BY <1>5
<1>7. PICK past, d : past = q.past /\ d = r.durable OBVIOUS
<1>8. IsSeq(past) /\ IsSeq(x) /\ IsSeq(d) /\ r.past = past \o x
      /\ Openers(d) = Openers(x) /\ InboxOf(d) = InboxOf(x)
  BY <1>1, <1>4, <1>5, <1>6, <1>7 DEF Leaves, Good, Kept
<1>9. Openers(past \o x) = Openers(past) + Openers(x) /\ InboxOf(past \o x) = InboxOf(past) \cup InboxOf(x)
  BY <1>8, OpenersConcat, InboxConcat
<1>10. a.turns = Openers(past) /\ a.seen = a.turns /\ a.inbox = InboxOf(past)
  BY <1>4, <1>7 DEF Honest
<1>11. z.turns = a.turns + Openers(d) /\ z.inbox = a.inbox \cup InboxOf(d) /\ z.tokens = a.tokens + 1
  BY <1>2, <1>4, <1>7 DEF Moved
<1>12. PICK s, st : s = [a EXCEPT !.r = r] /\ st = Stored(s, d) OBVIOUS
<1>13. z.seen = st.seen BY <1>2, <1>4, <1>7, <1>12 DEF Moved
<1>14. DOMAIN s = AccFields /\ s.log = a.log /\ s.seen = a.seen
  BY <1>1, <1>12 DEF IsAcc, AccFields
<1>15. IsSeq(s.log) BY <1>1, <1>14 DEF IsAcc
<1>16. Openers(past) \in Nat BY <1>8, HeadsFinite
<1>17. s.seen \in Nat BY <1>10, <1>14, <1>16
<1>18. st.seen = s.seen + Openers(d) BY <1>8, <1>12, <1>14, <1>15, <1>17, StoredSeen
<1>19. z.turns = Openers(r.past) /\ z.seen = z.turns /\ z.inbox = InboxOf(r.past)
  BY <1>8, <1>9, <1>10, <1>11, <1>13, <1>14, <1>18
<1> QED BY <1>3, <1>4, <1>5, <1>11, <1>19 DEF Honest

LEMMA NewHonest == Honest(NewAccumulator) /\ NewAccumulator.tokens = 0
<1>1. /\ NewAccumulator.r = NewReplayer /\ NewAccumulator.turns = 0 /\ NewAccumulator.seen = 0
      /\ NewAccumulator.inbox = {} /\ NewAccumulator.tokens = 0
  BY DEF NewAccumulator
<1>2. NewReplayer.past = <<>> BY DEF NewReplayer
<1> QED BY <1>1, <1>2, NewAccFacts, NewGood, OpenersEmpty, InboxNone DEF Honest

LEMMA UptoHonest ==
    ASSUME NEW lines \in Seq(Lines), NEW n \in Nat, n <= Len(lines)
    PROVE  Honest(Upto(lines, n)) /\ Upto(lines, n).tokens = n
<1>1. PICK l \in Nat : l = Len(lines) OBVIOUS
<1> DEFINE told(i) == Honest(Upto(lines, i)) /\ Upto(lines, i).tokens = i
           I == {i \in Nat : i <= l => told(i)}
<1>2. 0 \in I BY UptoNone, NewHonest
<1>3. ASSUME NEW i \in Nat, i \in I PROVE i + 1 \in I
  <2> SUFFICES ASSUME i + 1 <= l PROVE told(i + 1) OBVIOUS
  <2>1. PICK j, a, z, line : j = i + 1 /\ a = Upto(lines, i) /\ z = Upto(lines, i + 1)
                             /\ line = lines[i + 1]
    OBVIOUS
  <2>2. j \in Nat \ {0} /\ j <= Len(lines) /\ line \in Lines BY <1>1, <2>1
  <2>3. z = AdvanceAt(a, j, line) BY <2>1, <2>2, UptoNext
  <2>4. Honest(a) /\ a.tokens = i BY <1>3, <2>1
  <2>5. Honest(z) /\ z.tokens = a.tokens + 1 BY <2>2, <2>3, <2>4, AdvanceHonest
  <2> QED BY <2>1, <2>4, <2>5
<1> HIDE DEF I
<1>4. Nat \subseteq I BY <1>2, <1>3, A!SetInduction
<1>5. told(n) BY <1>1, <1>4 DEF I
<1> QED BY <1>5

\* a shows, counts and will do what b does; its replayer began F blocks later.
Follows(F, a, b) ==
    /\ Alike(F, <<>>, a.r, b.r)
    /\ a.log = b.log /\ a.tokens = b.tokens /\ a.turns = b.turns /\ a.inbox = b.inbox
    /\ a.seen = b.seen

\* At a commit every open turn has its time.
LEMMA CutTimes ==
    ASSUME NEW y, NEW k, NEW z, Cut(y, k, z), z.durable # <<>>
    PROVE  z.times = OpenTimes(y)
<1>1. CASE k = 0
  <2>1. SubSeq(y.out, 1, 0) = <<>> BY SubNone
  <2>2. z.durable = FinishTurns(Shown(SubSeq(y.out, 1, 0), y.base, y.suppress))
    BY <1>1 DEF Cut
  <2>3. z.durable = <<>> BY <2>1, <2>2, ShownNone, FinishNone
  <2> QED BY <2>3
<1>2. CASE k # 0 BY <1>2 DEF Cut
<1> QED BY <1>1, <1>2

\* A line does the same to two replayers that are alike, and commits the same.
LEMMA ApplyAlike ==
    ASSUME NEW F, NEW s, NEW r, IsReplayer(s), IsReplayer(r), Tidy(r), Alike(F, <<>>, s, r),
           NEW n, NEW line \in Lines, NEW y, y = Apply(s, n, line), NEW z, z = Apply(r, n, line)
    PROVE  /\ Alike(F, <<>>, y, z) /\ y.durable = z.durable
           /\ y.durable # <<>> => y.times = z.times
<1>1. PICK u, v : u = Told(s, n, line) /\ v = Told(r, n, line) OBVIOUS
<1>2. Prefixed(<<>>, v)
  <2>1. 1..0 = {} OBVIOUS
  <2> QED BY <2>1, EmptyIsSeq DEF Prefixed
<1>3. Alike(F, <<>>, u, v) /\ IsReplayer(u) /\ IsReplayer(v) /\ Tidy(v)
  BY <1>1, <1>2, ToldAlike
<1>4. y = FinalizeCompleted(u) /\ z = FinalizeCompleted(v) BY <1>1, ApplyIs
<1>5. Alike(F, <<>>, y, z) /\ y.durable = z.durable BY <1>3, <1>4, DurableAlike
<1>6. Cut(u, Frontier(u), y) BY <1>3, <1>4, AlikeWindowed, FinalizeCut
<1>7. Cut(v, Frontier(v), z)
  <2>1. Windowed(v) BY <1>3 DEF Tidy, Windowed
  <2> QED BY <1>3, <1>4, <2>1, FinalizeCut
<1>8. ASSUME y.durable # <<>> PROVE y.times = z.times
  <2>1. y.times = OpenTimes(u) BY <1>6, <1>8, CutTimes
  <2>2. z.times = OpenTimes(v) BY <1>5, <1>7, <1>8, CutTimes
  <2> QED BY <1>3, <2>1, <2>2 DEF Alike
<1> QED BY <1>5, <1>8

\* A line takes a fold that follows to one that follows, and both commit
\* the same blocks under the same times.
LEMMA AdvanceFollows ==
    ASSUME NEW F, NEW a, NEW b, IsAcc(a), Honest(b), Follows(F, a, b),
           NEW n \in Nat \ {0}, NEW line \in Lines,
           NEW y, y = AdvanceAt(a, n, line), NEW z, z = AdvanceAt(b, n, line)
    PROVE  /\ Follows(F, y, z) /\ y.r.durable = z.r.durable
           /\ y.r.durable # <<>> => y.r.times = z.r.times
<1>1. IsAcc(b) /\ Tidy(b.r) BY DEF Honest, Good
<1>2. y.r = Apply(a.r, n, line) /\ Moved(a, n, y) BY AdvanceIs
<1>3. z.r = Apply(b.r, n, line) /\ Moved(b, n, z) BY <1>1, AdvanceIs
<1>4. PICK s, r, u, v : s = a.r /\ r = b.r /\ u = y.r /\ v = z.r OBVIOUS
<1>5. /\ Alike(F, <<>>, u, v) /\ u.durable = v.durable
      /\ u.durable # <<>> => u.times = v.times
  <2>1. IsReplayer(s) /\ IsReplayer(r) /\ Tidy(r) /\ Alike(F, <<>>, s, r)
    BY <1>1, <1>4 DEF IsAcc, Follows
  <2>2. u = Apply(s, n, line) /\ v = Apply(r, n, line) BY <1>2, <1>3, <1>4
  <2> QED BY <2>1, <2>2, ApplyAlike
<1>6. PICK d : d = u.durable OBVIOUS
<1>7. PICK p, q, sp, sq : /\ p = [a EXCEPT !.r = u] /\ q = [b EXCEPT !.r = v]
                          /\ sp = Stored(p, d) /\ sq = Stored(q, d)
  OBVIOUS
<1>8. /\ DOMAIN p = AccFields /\ p.log = a.log /\ p.seen = a.seen /\ p.r = u
      /\ DOMAIN q = AccFields /\ q.log = b.log /\ q.seen = b.seen /\ q.r = v
  BY <1>1, <1>7 DEF IsAcc, AccFields
<1>9. IsSeq(a.log) /\ a.log = b.log /\ a.seen = b.seen BY DEF IsAcc, Follows
<1>10. sp.log = sq.log /\ sp.seen = sq.seen
  <2>1. CASE d = <<>>
    <3>1. sp = p /\ sq = q BY <1>7, <1>8, <1>9, <2>1, StoredNone
    <3> QED BY <1>8, <1>9, <3>1
  <2>2. CASE d # <<>>
    <3>1. p.r.times = q.r.times BY <1>5, <1>6, <1>8, <2>2
    <3>2. IsSeq(d)
      <4>1. IsReplayer(a.r) BY DEF IsAcc
      <4> QED BY <1>2, <1>4, <1>6, <4>1, ApplyFacts
    <3>3. IsSeq(p.log) /\ p.log = q.log /\ p.seen = q.seen BY <1>8, <1>9
    <3>4. DOMAIN p = AccFields /\ DOMAIN q = AccFields BY <1>8
    <3>5. sp = Stored(p, d) /\ sq = Stored(q, d) BY <1>7
    <3> QED BY <3>1, <3>2, <3>3, <3>4, <3>5, StoredAlike
  <2> QED BY <2>1, <2>2
<1>11. /\ y.log = sp.log /\ y.seen = sp.seen /\ y.tokens = a.tokens + 1
       /\ y.turns = a.turns + Openers(d) /\ y.inbox = a.inbox \cup InboxOf(d)
  BY <1>2, <1>4, <1>6, <1>7 DEF Moved
<1>12. /\ z.log = sq.log /\ z.seen = sq.seen /\ z.tokens = b.tokens + 1
       /\ z.turns = b.turns + Openers(d) /\ z.inbox = b.inbox \cup InboxOf(d)
  BY <1>3, <1>4, <1>5, <1>6, <1>7 DEF Moved
<1>13. a.tokens = b.tokens /\ a.turns = b.turns /\ a.inbox = b.inbox BY DEF Follows
<1>14. Follows(F, y, z) BY <1>4, <1>5, <1>10, <1>11, <1>12, <1>13 DEF Follows
<1> QED BY <1>4, <1>5, <1>14

\* A reader cannot tell them apart.
LEMMA FollowsView ==
    ASSUME NEW F, NEW a, NEW b, IsAcc(a), IsAcc(b), Follows(F, a, b)
    PROVE  View(a) = View(b)
<1>1. PICK s, r : s = a.r /\ r = b.r OBVIOUS
<1>2. IsReplayer(s) /\ IsReplayer(r) /\ Alike(F, <<>>, s, r) BY <1>1 DEF IsAcc, Follows
<1>3. OpenSnapshot(s) = OpenSnapshot(r) BY <1>2, SnapshotAlike
<1>4. OpenTimes(s) = OpenTimes(r) /\ s.inbox = r.inbox BY <1>2 DEF Alike
<1> QED BY <1>1, <1>3, <1>4 DEF View, Follows

-----------------------------------------------------------------------------
(* The raw stream, line by line.                                           *)

\* What is cut off, and what is left.
LEMMA CutShape ==
    ASSUME NEW y, IsReplayer(y), NEW k, NEW z, Cut(y, k, z)
    PROVE  /\ z.base = y.base + k /\ Len(z.out) = Len(y.out) - k /\ k <= Len(y.out)
           /\ z.base \in Nat /\ y.base \in Nat /\ k \in Nat /\ Len(z.out) \in Nat /\ Len(y.out) \in Nat
           /\ \A i \in 1..Len(z.out) : z.out[i] = y.out[k + i]
<1>1. PICK o, w : o = y.out /\ w = z.out OBVIOUS
<1>2. PICK n \in Nat : n = Len(o) BY <1>1 DEF IsReplayer, IsSeq
<1>3. k \in Nat /\ k <= n BY <1>1, <1>2 DEF Cut
<1>4. w = SubSeq(o, k + 1, n) BY <1>1, <1>2 DEF Cut, Between
<1>5. Len(w) = n - k /\ \A i \in 1..(n - k) : w[i] = o[k + i] BY <1>2, <1>3, <1>4, SubRest
<1>6. n - k \in Nat BY <1>2, <1>3
<1>7. IsReplayer(z) /\ z.base = y.base + k BY DEF Cut
<1>8. z.base \in Nat /\ y.base \in Nat BY <1>7 DEF IsReplayer
<1> QED BY <1>1, <1>2, <1>3, <1>5, <1>6, <1>7, <1>8

\* The j-th raw block is in the window, and opens a turn.
OpensAt(r, j) == j \in Nat /\ j > r.base /\ j <= RawLen(r) /\ OpensTurn(r.out[j - r.base])

\* A turn opens where it did before the cut.
LEMMA CutOpens ==
    ASSUME NEW y, IsReplayer(y), NEW k, NEW z, Cut(y, k, z), NEW j, OpensAt(z, j)
    PROVE  OpensAt(y, j)
<1>1. PICK a, b, n, m : a = y.base /\ b = z.base /\ n = Len(y.out) /\ m = Len(z.out) OBVIOUS
<1>2. /\ b = a + k /\ m = n - k /\ k <= n
      /\ b \in Nat /\ a \in Nat /\ k \in Nat /\ m \in Nat /\ n \in Nat
      /\ \A i \in 1..m : z.out[i] = y.out[k + i]
  BY <1>1, CutShape
<1>3. j \in Nat /\ j > b /\ j <= b + m /\ OpensTurn(z.out[j - b]) BY <1>1 DEF OpensAt, RawLen
<1>4. PICK i : i = j - b OBVIOUS
<1>5. i \in 1..m /\ k + i = j - a /\ j > a /\ j <= a + n BY <1>2, <1>3, <1>4
<1>6. OpensTurn(y.out[j - a]) BY <1>2, <1>3, <1>4, <1>5
<1> QED BY <1>1, <1>3, <1>5, <1>6 DEF OpensAt, RawLen

\* A line: what it leaves in the window, and what the frontier takes.
LEMMA ApplyCut ==
    ASSUME NEW r, Good(r), NEW ts, NEW line \in Lines, NEW y, y = Told(r, ts, line),
           NEW z, z = Apply(r, ts, line)
    PROVE  /\ IsReplayer(y) /\ Tidy(y) /\ Cut(y, Frontier(y), z)
           /\ y.base = r.base /\ Len(r.out) <= Len(y.out)
           /\ \A i \in 1..Len(r.out) : y.out[i].kind = r.out[i].kind
<1>1. IsReplayer(y) /\ Tidy(y) BY ToldGood
<1>2. Windowed(y) BY <1>1 DEF Tidy, Windowed
<1>3. Cut(y, Frontier(y), z) BY <1>1, <1>2, ApplyIs, FinalizeCut
<1>4. PICK s : s = LineStart(r, ts) OBVIOUS
<1>5. IsReplayer(r) /\ Tidy(r) BY DEF Good
<1>6. s.base = r.base /\ s.out = r.out BY <1>4, <1>5, StartFields DEF Stamped
<1>7. Moves(s, y) BY <1>4, <1>5, ToldGrows
<1> QED BY <1>1, <1>3, <1>6, <1>7 DEF Moves

\* The raw stream and its frontier only grow.
Further(r, z) ==
    /\ r.base \in Nat /\ z.base \in Nat /\ RawLen(r) \in Nat /\ RawLen(z) \in Nat
    /\ r.base <= z.base /\ RawLen(r) <= RawLen(z)

\* What is behind the frontier of both opens turns in both.
Leads(r, z) ==
    /\ Further(r, z) /\ (z.durable # <<>> => r.base < z.base)
    /\ \A j : z.base < j /\ j <= RawLen(r) /\ OpensAt(z, j) => OpensAt(r, j)

\* A line only leads further: nothing that left comes back, and a turn that
\* has opened stays where it opened.
LEMMA ApplyFurther ==
    ASSUME NEW r, Good(r), NEW ts, NEW line \in Lines, NEW z, z = Apply(r, ts, line)
    PROVE  Leads(r, z)
<1>1. PICK y : y = Told(r, ts, line) OBVIOUS
<1>2. /\ IsReplayer(y) /\ Cut(y, Frontier(y), z) /\ y.base = r.base /\ Len(r.out) <= Len(y.out)
      /\ \A i \in 1..Len(r.out) : y.out[i].kind = r.out[i].kind
  BY <1>1, ApplyCut
<1>3. PICK k, a, b, n, m : /\ k = Frontier(y) /\ a = y.base /\ b = z.base
                           /\ n = Len(y.out) /\ m = Len(z.out)
  OBVIOUS
<1>4. b = a + k /\ m = n - k /\ k <= n /\ b \in Nat /\ a \in Nat /\ k \in Nat /\ m \in Nat /\ n \in Nat
  BY <1>2, <1>3, CutShape
<1>5. PICK l \in Nat : l = Len(r.out) BY DEF Good, IsReplayer, IsSeq
<1>6. l <= n /\ r.base = a BY <1>2, <1>3, <1>5
<1>7. RawLen(r) = a + l /\ RawLen(z) = b + m BY <1>3, <1>5, <1>6 DEF RawLen
<1>8. a <= b /\ a + l <= b + m /\ a + l \in Nat /\ b + m \in Nat BY <1>4, <1>5, <1>6
<1>9. Further(r, z) BY <1>3, <1>4, <1>6, <1>7, <1>8 DEF Further
<1>10. ASSUME z.durable # <<>> PROVE a < b
  <2>1. k # 0
    <3> SUFFICES ASSUME k = 0 PROVE z.durable = <<>> BY <1>10
    <3>1. SubSeq(y.out, 1, 0) = <<>> BY SubNone
    <3>2. z.durable = FinishTurns(Shown(SubSeq(y.out, 1, 0), y.base, y.suppress))
      BY <1>2, <1>3 DEF Cut
    <3> QED BY <3>1, <3>2, ShownNone, FinishNone
  <2> QED BY <1>4, <2>1
<1>11. ASSUME NEW j, b < j, j <= RawLen(r), OpensAt(z, j) PROVE OpensAt(r, j)
  <2>1. OpensAt(y, j) BY <1>2, <1>11, CutOpens
  <2>2. j \in Nat /\ j > a /\ OpensTurn(y.out[j - a]) BY <1>3, <2>1 DEF OpensAt
  <2>3. PICK i : i = j - a OBVIOUS
  <2>4. i \in 1..l BY <1>4, <1>5, <1>7, <1>11, <2>2, <2>3
  <2>5. y.out[i].kind = r.out[i].kind BY <1>2, <1>5, <2>4
  <2>6. OpensTurn(r.out[i]) BY <2>2, <2>3, <2>5 DEF OpensTurn
  <2> QED BY <1>6, <1>11, <2>2, <2>3, <2>6 DEF OpensAt
<1> QED BY <1>3, <1>6, <1>9, <1>10, <1>11 DEF Leads

\* s begins as t does.
Begins(s, t) == IsSeq(s) /\ IsSeq(t) /\ Len(s) <= Len(t) /\ \A i \in 1..Len(s) : t[i] = s[i]

\* Between two lines of a transcript.
Later(a, b) ==
    /\ Further(a.r, b.r) /\ Begins(a.log, b.log)
    /\ \A j : b.r.base < j /\ j <= RawLen(a.r) /\ OpensAt(b.r, j) => OpensAt(a.r, j)

\* So for the accumulator; a commit moves the window.
LEMMA AdvanceFurther ==
    ASSUME NEW a, Honest(a), NEW n, NEW line, n \in Nat \ {0}, line \in Lines,
           NEW z, z = AdvanceAt(a, n, line)
    PROVE  Later(a, z) /\ (z.r.durable # <<>> => a.r.base < z.r.base)
<1>1. IsAcc(a) /\ Good(a.r) BY DEF Honest
<1>2. z.r = Apply(a.r, n, line) /\ Moved(a, n, z) BY <1>1, AdvanceIs
<1>3. PICK q, r : q = a.r /\ r = z.r OBVIOUS
<1>4. Leads(q, r)
  <2>1. Good(q) /\ r = Apply(q, n, line) BY <1>1, <1>2, <1>3
  <2> QED BY <2>1, ApplyFurther
<1>5. PICK d, s, st : d = r.durable /\ s = [a EXCEPT !.r = r] /\ st = FoldLeft(Put, s, d) OBVIOUS
<1>6. DOMAIN s = AccFields /\ s.log = a.log BY <1>1, <1>5 DEF IsAcc, AccFields
<1>7. IsSeq(a.log) BY <1>1 DEF IsAcc
<1>8. IsSeq(d)
  <2>1. IsReplayer(a.r) BY <1>1 DEF IsAcc
  <2> QED BY <1>2, <1>3, <1>5, <2>1, ApplyFacts
<1>9. Stores(s, st, Len(d))
  <2>1. IsSeq(s.log) BY <1>6, <1>7
  <2> QED BY <1>5, <1>6, <1>8, <2>1, PutAllFacts
<1>10. z.log = st.log BY <1>2, <1>3, <1>5 DEF Moved, Stored
<1>11. PICK l \in Nat, e \in Nat : l = Len(a.log) /\ e = Len(d) BY <1>7, <1>8 DEF IsSeq
<1>12. l <= l + e BY <1>11
<1>13. Begins(a.log, z.log) BY <1>6, <1>7, <1>9, <1>10, <1>11, <1>12 DEF Stores, Begins
<1>14. Leads(a.r, z.r) BY <1>3, <1>4
<1>15. Later(a, z) BY <1>13, <1>14, Zenon DEF Later, Leads
<1>16. z.r.durable # <<>> => a.r.base < z.r.base BY <1>14 DEF Leads
<1> QED BY <1>15, <1>16

\* The fold of one line more.
LEMMA UptoStep ==
    ASSUME NEW lines \in Seq(Lines), NEW n \in Nat, NEW m, m = n + 1, m <= Len(lines)
    PROVE  /\ m \in Nat \ {0} /\ n <= Len(lines) /\ lines[m] \in Lines
           /\ Honest(Upto(lines, n)) /\ Upto(lines, m) = AdvanceAt(Upto(lines, n), m, lines[m])
<1>1. PICK l \in Nat : l = Len(lines) OBVIOUS
<1>2. m \in Nat \ {0} /\ n <= l /\ m \in 1..l BY <1>1
<1>3. lines[m] \in Lines BY <1>1, <1>2
<1>4. Honest(Upto(lines, n)) BY <1>1, <1>2, UptoHonest
<1>5. Upto(lines, m) = AdvanceAt(Upto(lines, n), m, lines[m]) BY <1>2, UptoNext
<1> QED BY <1>1, <1>2, <1>3, <1>4, <1>5

\* Being later is reflexive and transitive.
LEMMA LaterNot ==
    ASSUME NEW a, Honest(a)
    PROVE  Later(a, a)
<1>1. PICK r : r = a.r OBVIOUS
<1>2. PICK c \in Nat, n \in Nat : c = r.base /\ n = Len(r.out)
  BY <1>1 DEF Honest, Good, IsReplayer, IsSeq
<1>3. Further(r, r) BY <1>2 DEF Further, RawLen
<1>4. IsSeq(a.log) BY DEF Honest, IsAcc
<1>5. PICK l \in Nat : l = Len(a.log) BY <1>4 DEF IsSeq
<1>6. Begins(a.log, a.log) BY <1>4, <1>5 DEF Begins
<1> QED BY <1>1, <1>3, <1>6 DEF Later

LEMMA BeginsTwice ==
    ASSUME NEW s, NEW t, NEW u, Begins(s, t), Begins(t, u)
    PROVE  Begins(s, u)
<1>1. PICK l \in Nat, m \in Nat, n \in Nat : l = Len(s) /\ m = Len(t) /\ n = Len(u)
  BY DEF Begins, IsSeq
<1>2. l <= m /\ m <= n BY <1>1 DEF Begins
<1>3. \A i \in 1..l : i \in 1..m BY <1>2
<1>4. \A i \in 1..l : u[i] = s[i] BY <1>1, <1>3 DEF Begins
<1> QED BY <1>1, <1>2, <1>4 DEF Begins

LEMMA LaterTwice ==
    ASSUME NEW a, NEW b, NEW c, Later(a, b), Later(b, c)
    PROVE  Later(a, c)
<1>1. PICK x, y, z, p, q, r : /\ x = a.r.base /\ y = b.r.base /\ z = c.r.base
                              /\ p = RawLen(a.r) /\ q = RawLen(b.r) /\ r = RawLen(c.r)
  OBVIOUS
<1>2. /\ x \in Nat /\ y \in Nat /\ z \in Nat /\ p \in Nat /\ q \in Nat /\ r \in Nat
      /\ x <= y /\ y <= z /\ p <= q /\ q <= r
  BY <1>1 DEF Later, Further
<1>3. Further(a.r, c.r) BY <1>1, <1>2 DEF Further
<1>4. Begins(a.log, c.log) BY BeginsTwice DEF Later
<1>5. ASSUME NEW j, z < j, j <= p, OpensAt(c.r, j) PROVE OpensAt(a.r, j)
  <2>1. j \in Nat BY <1>5 DEF OpensAt
  <2>2. j <= q /\ y < j BY <1>2, <1>5, <2>1
  <2>3. OpensAt(b.r, j) BY <1>1, <1>5, <2>2 DEF Later
  <2> QED BY <1>1, <1>5, <2>2, <2>3 DEF Later
<1> QED BY <1>1, <1>3, <1>4, <1>5 DEF Later

\* A longer prefix is later.
LEMMA UptoLater ==
    ASSUME NEW lines \in Seq(Lines), NEW m \in Nat, NEW n \in Nat, m <= n, n <= Len(lines)
    PROVE  Later(Upto(lines, m), Upto(lines, n))
<1>1. PICK l \in Nat : l = Len(lines) OBVIOUS
<1> DEFINE later(i) == Later(Upto(lines, m), Upto(lines, m + i))
           I == {i \in Nat : m + i <= l => later(i)}
<1>2. 0 \in I
  <2>1. m + 0 = m /\ m <= l BY <1>1
  <2>2. Honest(Upto(lines, m)) BY <1>1, <2>1, UptoHonest
  <2> QED BY <2>1, <2>2, LaterNot
<1>3. ASSUME NEW i \in Nat, i \in I PROVE i + 1 \in I
  <2> SUFFICES ASSUME m + (i + 1) <= l PROVE later(i + 1) OBVIOUS
  <2>1. PICK j, k : j = m + i /\ k = m + (i + 1) OBVIOUS
  <2>2. j \in Nat /\ k = j + 1 /\ k <= Len(lines) BY <1>1, <2>1
  <2>3. Later(Upto(lines, m), Upto(lines, j)) BY <1>1, <1>3, <2>1, <2>2
  <2>4. PICK a, z, line : a = Upto(lines, j) /\ z = Upto(lines, k) /\ line = lines[k] OBVIOUS
  <2>5. k \in Nat \ {0} /\ line \in Lines /\ Honest(a) /\ z = AdvanceAt(a, k, line)
    <3>1. j \in Nat /\ k = j + 1 /\ k <= Len(lines) BY <2>2
    <3>2. lines \in Seq(Lines) OBVIOUS
    <3> HIDE DEF I, later
    <3>3. /\ k \in Nat \ {0} /\ j <= Len(lines) /\ lines[k] \in Lines
          /\ Honest(Upto(lines, j)) /\ Upto(lines, k) = AdvanceAt(Upto(lines, j), k, lines[k])
      BY ONLY <3>1, <3>2, UptoStep
    <3> QED BY <2>4, <3>3
  <2>6. Later(a, z) BY ONLY <2>5, AdvanceFurther
  <2>7. Later(Upto(lines, m), z) BY <2>3, <2>4, <2>6, LaterTwice
  <2> QED BY <2>1, <2>4, <2>7
<1> HIDE DEF I
<1>4. Nat \subseteq I BY <1>2, <1>3, A!SetInduction
<1>5. PICK i \in Nat : i = n - m OBVIOUS
<1>6. m + i = n BY <1>5
<1>7. later(i) BY <1>1, <1>4, <1>6 DEF I
<1> QED BY <1>6, <1>7

-----------------------------------------------------------------------------
(* A fold that begins at a line, and the fold that has come to it.         *)

\* s is an empty window with the totals of r, and what it has seen.
Fresh(s, r) ==
    /\ IsReplayer(s) /\ s.out = <<>> /\ s.base = 0 /\ s.queue = <<>> /\ s.suppress = {}
    /\ DOMAIN s.slot = {} /\ s.skill = 0
    /\ s.inbox = r.inbox /\ OpenTimes(s) = OpenTimes(r)

\* Nothing ahead of the raw stream is hidden.
LEMMA NoneAhead ==
    ASSUME NEW r, IsReplayer(r), NEW i \in Nat, i > RawLen(r)
    PROVE  i \notin r.suppress
<1>1. PICK c \in Nat, n \in Nat : c = r.base /\ n = Len(r.out) BY DEF IsReplayer, IsSeq
<1>2. i > c + n BY <1>1 DEF RawLen
<1>3. i > c /\ ~(i - c <= n) BY <1>1, <1>2
<1>4. i \notin r.gone
  <2> SUFFICES ASSUME i \in r.gone PROVE FALSE OBVIOUS
  <2>1. Marks(r, i) BY DEF IsReplayer
  <2> QED BY <1>1, <1>3, <2>1 DEF Marks
<1> QED BY <1>1, <1>3, <1>4 DEF IsReplayer

\* A session that begins with an empty window, before a line at which no
\* prompt waits, is alike to the fold from the start.
LEMMA FreshAlike ==
    ASSUME NEW r, Good(r), r.queue = <<>>, NEW s, Fresh(s, r), NEW F, F = RawLen(r), NEW p, p = r.out
    PROVE  Alike(F, p, s, r)
<1>1. IsReplayer(r) /\ Tidy(r) BY DEF Good
<1>2. PICK c \in Nat, n \in Nat : c = r.base /\ n = Len(p) BY <1>1 DEF IsReplayer, IsSeq
<1>3. IsSeq(p) BY <1>1 DEF IsReplayer
<1>4. F = c + n /\ F \in Nat BY <1>2 DEF RawLen
<1>5. Outs(F, p, s, r)
  <2>1. s.out = <<>> /\ s.base = 0 BY DEF Fresh
  <2>2. p \o s.out = p BY <1>3, <2>1, ConcatNone
  <2>3. r.base + Len(p) = s.base + F BY <1>2, <1>4, <2>1
  <2> QED BY <1>3, <1>4, <2>1, <2>2, <2>3 DEF Outs
<1>6. Queues(F, s, r)
  <2>1. s.queue = <<>> BY DEF Fresh
  <2>2. Len(s.queue) = 0 /\ 1..0 = {} BY <2>1, EmptyIsSeq
  <2> QED BY <2>1, <2>2 DEF Queues
<1>7. Suppressed(F, s, r)
  <2> SUFFICES ASSUME NEW i \in Nat, i > s.base PROVE i \in s.suppress <=> i + F \in r.suppress
    BY DEF Suppressed
  <2>1. s.suppress = {} /\ s.base = 0 BY DEF Fresh
  <2>2. PICK k \in Nat : k = i + F BY <1>4
  <2>3. k > F BY <1>4, <2>1, <2>2
  <2>4. k \notin r.suppress BY <1>1, <2>3, NoneAhead
  <2> QED BY <2>1, <2>2, <2>4
<1>8. Before(p, r) = Resident(r) BY DEF Before, Resident
<1>9. Slots(F, p, s, r) BY <1>1, <1>8 DEF Slots, Tidy, Fresh
<1>10. Skills(F, p, s, r) BY <1>1, <1>8 DEF Skills, Tidy, Fresh
<1> QED BY <1>5, <1>6, <1>7, <1>9, <1>10 DEF Alike, Fresh

\* Behind the committed blocks, the window opens with the head of a turn.
LEMMA KeptOpens ==
    ASSUME NEW r, Good(r), r.base > 0, NEW j, j = r.base + 1
    PROVE  OpensAt(r, j)
<1>1. IsReplayer(r) /\ Kept(r) BY DEF Good
<1>2. PICK c \in Nat, n \in Nat : c = r.base /\ n = Len(r.out) BY <1>1 DEF IsReplayer, IsSeq
<1>3. r.past # <<>>
  <2> SUFFICES ASSUME r.past = <<>> PROVE FALSE OBVIOUS
  <2>1. Len(r.past) = 0 BY EmptyIsSeq
  <2> QED BY <1>1, <1>2, <2>1 DEF Kept
<1>4. r.out # <<>> /\ OpensTurn(r.out[1]) BY <1>1, <1>3 DEF Kept
<1>5. n # 0 BY <1>1, <1>2, <1>4, LenZero DEF IsReplayer
<1>6. j - c = 1 /\ j \in Nat /\ j > c /\ j <= c + n BY <1>2, <1>5
<1> QED BY <1>2, <1>4, <1>6 DEF OpensAt, RawLen

\* Where the line opens a turn at its first block, the later fold sees that head.
LEMMA FreshJoint ==
    ASSUME NEW r, IsReplayer(r), NEW u, IsReplayer(u), NEW y, NEW F, NEW p, p = r.out,
           F = RawLen(r), y.base = r.base, Outs(F, p, u, y), NEW j, j = F + 1, OpensAt(y, j)
    PROVE  Joint(Len(p), u)
<1>1. PICK c \in Nat, n \in Nat : c = r.base /\ n = Len(p) BY DEF IsReplayer, IsSeq
<1>2. PICK m \in Nat, e \in Nat : m = Len(u.out) /\ e = u.base BY DEF IsReplayer, IsSeq
<1>3. CASE p = <<>>
  <2>1. Len(p) = 0 BY <1>3, EmptyIsSeq
  <2> QED BY <2>1 DEF Joint
<1>4. CASE p # <<>>
  <2>1. e = 0 BY <1>2, <1>4 DEF Outs
  <2>2. Len(y.out) = n + m /\ \A i \in 1..m : y.out[n + i] = u.out[i]
    <3>1. /\ Len(y.out) = Len(p) + Len(u.out)
          /\ \A i \in 1..Len(u.out) : y.out[Len(p) + i] = u.out[i]
      <4>1. IsReplayer(u) /\ Outs(F, p, u, y) OBVIOUS
      <4> QED BY ONLY <4>1, OutsFacts
    <3> QED BY <1>1, <1>2, <3>1
  <2>3. F = c + n BY <1>1 DEF RawLen
  <2>4. j <= c + (n + m) /\ OpensTurn(y.out[j - c]) BY <1>1, <2>2 DEF OpensAt, RawLen
  <2>5. m > 0 /\ j - c = n + 1 /\ 1 \in 1..m
    <3>1. PICK a \in Nat : a = F BY <1>1, <2>3
    <3>2. j = a + 1 /\ a = c + n /\ j <= c + (n + m) BY <2>3, <2>4, <3>1
    <3> QED BY <3>2
  <2>6. OpensTurn(u.out[1]) BY <2>2, <2>4, <2>5
  <2> QED BY <1>2, <2>1, <2>5, <2>6 DEF Joint
<1> QED BY <1>3, <1>4

\* What a line leaves of a fold that begins with it.
LEMMA FreshFinal ==
    ASSUME NEW r, Good(r), r.queue = <<>>, NEW s, Fresh(s, r), NEW F, F = RawLen(r),
           NEW ts, NEW line \in Lines, NEW y, y = Told(r, ts, line), NEW u, u = Told(s, ts, line),
           Prefixed(r.out, y), NEW j, j = F + 1, OpensAt(y, j),
           NEW v, v = Apply(s, ts, line), NEW z, z = Apply(r, ts, line)
    PROVE  /\ Alike(F, <<>>, v, z) /\ Cut(u, Frontier(u), v)
           /\ z.base \in Nat /\ F \in Nat /\ F <= z.base
           /\ z.base = F => Frontier(u) = 0
<1>1. PICK p : p = r.out OBVIOUS
<1>2. Alike(F, p, s, r) BY <1>1, FreshAlike
<1>3. IsReplayer(r) /\ Tidy(r) /\ IsReplayer(s) BY DEF Good, Fresh
<1>4. Alike(F, p, u, y) /\ IsReplayer(u) /\ IsReplayer(y) /\ Tidy(y) BY <1>1, <1>2, <1>3, ToldAlike
<1>5. y.base = r.base BY ApplyCut
<1>6. Outs(F, p, u, y) BY <1>4 DEF Alike
<1>7. Joint(Len(p), u) BY <1>1, <1>3, <1>4, <1>5, <1>6, FreshJoint
<1>8. v = FinalizeCompleted(u) /\ z = FinalizeCompleted(y) BY ApplyIs
<1>9. /\ Alike(F, <<>>, v, z) /\ Cut(u, Frontier(u), v) /\ Cut(y, Frontier(y), z)
      /\ Off(Len(p), Frontier(u), Frontier(y))
  BY <1>4, <1>7, <1>8, FinalizeAlike
<1>10. PICK c \in Nat, n \in Nat : c = r.base /\ n = Len(p) BY <1>1, <1>3 DEF IsReplayer, IsSeq
<1>11. PICK k \in Nat, e \in Nat : k = Frontier(u) /\ e = Frontier(y) /\ e = n + k
  BY <1>9, <1>10 DEF Off
<1>12. z.base = c + e BY <1>5, <1>9, <1>10, <1>11 DEF Cut
<1>13. F = c + n BY <1>1, <1>10 DEF RawLen
<1>14. z.base \in Nat /\ F \in Nat /\ F <= z.base /\ (z.base = F => k = 0)
  <2>1. PICK a, b : a = F /\ b = z.base OBVIOUS
  <2>2. a = c + n /\ b = c + (n + k) BY <1>11, <1>12, <1>13, <2>1
  <2>3. b \in Nat /\ a \in Nat /\ a <= b /\ (b = a => k = 0) BY <2>2
  <2> QED BY <2>1, <2>3
<1> QED BY <1>9, <1>11, <1>14

-----------------------------------------------------------------------------
(* Where the frontier can meet the start of a line.                        *)

\* The line after the first f neither finds a prompt waiting nor patches a block
\* of an earlier line, unless it opens none.
Apart(b, y) == b.queue = <<>> /\ (Len(y.out) > Len(b.out) => Prefixed(b.out, y))

\* What the proviso of a resume says of its line.
LEMMA RepeatsApart ==
    ASSUME NEW lines, NEW f, NEW g, g = f + 1, Repeats(lines, f), NEW b, b = Upto(lines, f).r,
           IsReplayer(b), NEW y, y = Told(b, g, lines[g])
    PROVE  Apart(b, y)
<1>1. b.queue = <<>> /\ (Len(y.out) > Len(b.out) => SubSeq(y.out, 1, Len(b.out)) = b.out)
  BY DEF Repeats, Upto, Told
<1>2. PICK n \in Nat : n = Len(b.out) BY DEF IsReplayer, IsSeq
<1>3. \A j \in 1..n : SubSeq(y.out, 1, n)[j] = y.out[j] BY <1>2, SubFirst
<1>4. ASSUME Len(y.out) > Len(b.out) PROVE Prefixed(b.out, y)
  <2>1. SubSeq(y.out, 1, n) = b.out BY <1>1, <1>2, <1>4
  <2> QED BY <1>2, <1>3, <2>1 DEF Prefixed
<1> QED BY <1>1, <1>4 DEF Apart

\* There is a fold that begins there.
LEMMA FreshThere ==
    ASSUME NEW r, IsReplayer(r)
    PROVE  \E s : Fresh(s, r)
<1> DEFINE s == [NewReplayer EXCEPT !.inbox = r.inbox, !.times = OpenTimes(r)]
<1>1. PICK t : t = OpenTimes(r) OBVIOUS
<1>2. IsSeq(t)
  <2>1. Stamped(r, StampUserTurns(r)) BY StampFields
  <2>2. StampUserTurns(r).times = t BY <1>1 DEF OpenTimes
  <2> QED BY <2>1, <2>2 DEF Stamped, IsReplayer
<1>3. PICK x : x = s OBVIOUS
<1>4. /\ x.out = <<>> /\ x.base = 0 /\ x.queue = <<>> /\ x.suppress = {} /\ x.slot = <<>>
      /\ x.skill = 0 /\ x.inbox = r.inbox /\ x.times = t /\ x.stamped = 0 /\ x.gone = {}
      /\ DOMAIN x = Fields
  BY <1>1, <1>3 DEF NewReplayer, Fields
<1>5. DOMAIN x.slot = {} BY <1>4
<1>6. IsSeq(<<>>) /\ Len(<<>>) = 0 /\ 1..0 = {} BY EmptyIsSeq
<1>7. IsReplayer(x) BY <1>2, <1>4, <1>6 DEF IsReplayer
<1>8. OpenTimes(x) = t
  <2>1. RawLen(x) = 0 BY <1>4, <1>6 DEF RawLen
  <2> QED BY <1>4, <1>7, <2>1, StampedTimes
<1>9. Fresh(x, r) BY <1>1, <1>4, <1>5, <1>7, <1>8 DEF Fresh
<1> QED BY <1>9

\* A fold that begins at a line that opens a turn, next to the fold from the start.
LEMMA FreshLine ==
    ASSUME NEW r, Good(r), NEW ts, NEW line, line \in Lines, NEW y, y = Told(r, ts, line), Apart(r, y),
           NEW z, z = Apply(r, ts, line), NEW F, F = RawLen(r), NEW j, j = F + 1, OpensAt(z, j),
           NEW s, Fresh(s, r), NEW v, v = Apply(s, ts, line)
    PROVE  /\ Alike(F, <<>>, v, z)
           /\ z.base \in Nat /\ F \in Nat /\ F <= z.base
           /\ z.base = F => v.durable = <<>>
<1>1. /\ IsReplayer(y) /\ Cut(y, Frontier(y), z) /\ y.base = r.base
  BY ApplyCut
<1>2. OpensAt(y, j) BY <1>1, CutOpens
<1>3. PICK c \in Nat, n \in Nat, m \in Nat : c = r.base /\ n = Len(r.out) /\ m = Len(y.out)
  BY <1>1 DEF Good, IsReplayer, IsSeq
<1>4. F = c + n BY <1>3 DEF RawLen
<1>5. j <= c + m BY <1>1, <1>2, <1>3 DEF OpensAt, RawLen
<1>6. m > n
  <2>1. j = (c + n) + 1 BY <1>4
  <2> QED BY <1>3, <1>5, <2>1
<1>7. r.queue = <<>> /\ Prefixed(r.out, y) BY <1>3, <1>6 DEF Apart
<1>8. PICK u : u = Told(s, ts, line) OBVIOUS
<1>9. /\ Alike(F, <<>>, v, z) /\ Cut(u, Frontier(u), v)
      /\ z.base \in Nat /\ F \in Nat /\ F <= z.base
      /\ z.base = F => Frontier(u) = 0
  BY <1>2, <1>7, <1>8, FreshFinal
<1>10. ASSUME z.base = F PROVE v.durable = <<>>
  <2>1. Cut(u, 0, v) BY <1>9, <1>10
  <2>2. v.durable = FinishTurns(Shown(SubSeq(u.out, 1, 0), u.base, u.suppress)) BY <2>1 DEF Cut
  <2> QED BY <2>2, SubNone, ShownNone, FinishNone
<1> QED BY <1>9, <1>10

\* The two folds, of a transcript.
LEMMA UptoFresh ==
    ASSUME NEW lines \in Seq(Lines), NEW f \in Nat, NEW g, g = f + 1, g <= Len(lines),
           Repeats(lines, f), NEW r, r = Upto(lines, f).r, NEW z, z = Upto(lines, g).r,
           NEW F, F = RawLen(r), NEW j, j = F + 1, OpensAt(z, j),
           NEW s, Fresh(s, r), NEW v, v = Apply(s, g, lines[g])
    PROVE  /\ Alike(F, <<>>, v, z)
           /\ z.base \in Nat /\ F \in Nat /\ F <= z.base
           /\ z.base = F => v.durable = <<>>
<1>1. PICK a, line : a = Upto(lines, f) /\ line = lines[g] OBVIOUS
<1>2. /\ g \in Nat \ {0} /\ line \in Lines /\ Honest(a) /\ Upto(lines, g) = AdvanceAt(a, g, line)
  BY <1>1, UptoStep
<1>3. Good(r) /\ IsReplayer(r) BY <1>1, <1>2 DEF Honest, Good
<1>4. z = Apply(r, g, line)
  <2>1. IsAcc(a) BY <1>2 DEF Honest
  <2> QED BY <1>1, <1>2, <2>1, AdvanceIs
<1>5. PICK y : y = Told(r, g, line) OBVIOUS
<1>6. Apart(r, y) BY <1>1, <1>3, <1>5, RepeatsApart
<1>7. v = Apply(s, g, line) BY <1>1
<1> QED BY <1>2, <1>3, <1>4, <1>5, <1>6, <1>7, FreshLine

\* A line after which the frontier is at the start of an earlier line, for the
\* first time, is that line.
LEMMA ResumeLine ==
    ASSUME NEW lines \in Seq(Lines), NEW f \in Nat, NEW n \in Nat, f <= n, NEW m, m = n + 1,
           m <= Len(lines), Repeats(lines, f), NEW g, g = f + 1,
           NEW F, F = RawLen(Upto(lines, f).r), RawLen(Upto(lines, g).r) > F,
           Upto(lines, m).r.base = F, Upto(lines, n).r.base < F
    PROVE  n = f
<1> SUFFICES ASSUME n # f PROVE FALSE OBVIOUS
<1>1. PICK l \in Nat : l = Len(lines) OBVIOUS
<1>2. g \in Nat /\ m \in Nat /\ g <= n /\ g <= m /\ n <= l /\ m <= l /\ g <= l /\ f <= l BY <1>1
<1>3. Later(Upto(lines, g), Upto(lines, n)) /\ Later(Upto(lines, g), Upto(lines, m))
  BY <1>1, <1>2, UptoLater
<1>4. PICK r, z, x, y : /\ r = Upto(lines, f).r /\ z = Upto(lines, g).r
                        /\ x = Upto(lines, n).r /\ y = Upto(lines, m).r
  OBVIOUS
<1>5. Good(r) /\ Good(y) /\ IsReplayer(z) /\ IsReplayer(x)
  BY <1>1, <1>2, <1>4, UptoHonest DEF Honest, Good
<1>6. PICK b \in Nat, e \in Nat : b = z.base /\ e = x.base BY <1>5 DEF IsReplayer
<1>7. b <= e BY <1>3, <1>4, <1>6 DEF Later, Further
<1>8. F \in Nat
  <2>1. IsReplayer(y) BY <1>5 DEF Good
  <2> QED BY <1>4, <2>1 DEF IsReplayer
<1>9. e < F /\ F > 0 BY <1>4, <1>6, <1>8
<1>10. PICK j \in Nat : j = F + 1 BY <1>8
<1>11. OpensAt(y, j) BY <1>4, <1>5, <1>9, <1>10, KeptOpens
<1>12. RawLen(z) \in Nat /\ j <= RawLen(z) /\ y.base < j
  <2>1. PICK t \in Nat : t = RawLen(z) BY <1>5 DEF IsReplayer, IsSeq, RawLen
  <2>2. j <= t BY <1>4, <1>8, <1>10, <2>1
  <2> QED BY <1>4, <1>8, <1>10, <2>1, <2>2
<1>13. OpensAt(z, j) BY <1>3, <1>4, <1>11, <1>12 DEF Later
<1>14. IsReplayer(r) BY <1>5 DEF Good
<1>15. PICK s : Fresh(s, r) BY <1>14, FreshThere
<1>16. F <= z.base BY <1>1, <1>2, <1>4, <1>10, <1>13, <1>15, UptoFresh
<1> QED BY <1>6, <1>7, <1>8, <1>9, <1>16

-----------------------------------------------------------------------------
(* A resume, and the line it begins with.                                  *)

\* z is what is left of r once all of its window has left it.
LeftBehind(r, z, t) ==
    /\ z.past = r.past \o r.out /\ IsSeq(r.past) /\ IsSeq(r.out) /\ IsSeq(t)
    /\ SubSeq(z.times, 1, Len(t)) = t

\* Where the frontier meets the start of a line, exactly the lines before it have left.
LEMMA LineLeaves ==
    ASSUME NEW r, Good(r), NEW ts, NEW line, line \in Lines, NEW y, y = Told(r, ts, line), Apart(r, y),
           NEW z, z = Apply(r, ts, line), NEW F, F = RawLen(r), z.base = F, r.base < F,
           RawLen(z) > F, NEW t, t = OpenTimes(r)
    PROVE  LeftBehind(r, z, t)
<1>1. /\ IsReplayer(y) /\ Cut(y, Frontier(y), z) /\ y.base = r.base
  BY ApplyCut
<1>2. IsReplayer(r) /\ Tidy(r) /\ Kept(r) BY DEF Good
<1>3. y.past = r.past /\ IsSeq(r.past) /\ IsSeq(r.out) /\ IsSeq(y.out)
  BY <1>1, <1>2, ToldGood DEF Kept, IsReplayer
<1>4. PICK k, c, n, m, e, w : /\ k = Frontier(y) /\ c = y.base /\ n = Len(r.out)
                              /\ m = Len(y.out) /\ e = Len(z.out) /\ w = z.base
  OBVIOUS
<1>5. /\ w = c + k /\ e = m - k /\ k <= m
      /\ w \in Nat /\ c \in Nat /\ k \in Nat /\ e \in Nat /\ m \in Nat
  BY <1>1, <1>4, CutShape
<1>6. n \in Nat BY <1>3, <1>4 DEF IsSeq
<1>7. F = c + n /\ w + e > F /\ w = F /\ c < F BY <1>1, <1>4 DEF RawLen
<1>8. k = n /\ m > n /\ k # 0 BY <1>5, <1>6, <1>7
<1>9. Prefixed(r.out, y) BY <1>4, <1>8 DEF Apart
<1>10. SubSeq(y.out, 1, n) = r.out
  <2>1. PICK x : x = SubSeq(y.out, 1, n) OBVIOUS
  <2>2. IsSeq(x) /\ Len(x) = n /\ \A i \in 1..n : x[i] = y.out[i] BY <1>6, <2>1, SubFirst
  <2>3. \A i \in 1..n : y.out[i] = r.out[i] BY <1>4, <1>9 DEF Prefixed
  <2>4. PICK o : o = r.out OBVIOUS
  <2>5. IsSeq(o) /\ Len(o) = n BY <1>3, <1>4, <2>4
  <2>6. \A i \in 1..n : x[i] = o[i] BY <2>2, <2>3, <2>4
  <2> QED BY <2>1, <2>2, <2>4, <2>5, <2>6, SameSeq
<1>11. z.past = r.past \o r.out
  <2>1. z.past = y.past \o SubSeq(y.out, 1, k) BY <1>1, <1>3, <1>4 DEF Cut
  <2> QED BY <1>3, <1>8, <1>10, <2>1
<1>12. PICK s : s = LineStart(r, ts) OBVIOUS
<1>13. s.times = t BY <1>2, <1>12, StartFields DEF Stamped
<1>14. Moves(s, y) BY <1>2, <1>12, ToldGrows
<1>15. y.times = t BY <1>13, <1>14 DEF Moves
<1>16. PICK u : u = Alloted(y) OBVIOUS
<1>17. OpenTimes(y) = t \o u BY <1>1, <1>15, <1>16, StampFields
<1>18. z.times = t \o u BY <1>1, <1>4, <1>8, <1>17 DEF Cut
<1>19. IsSeq(t) BY <1>1, <1>15 DEF IsReplayer
<1>20. IsSeq(u)
  <2>1. PICK v : v = Untimed(y) OBVIOUS
  <2>2. IsSeq(y.out) /\ y.stamped - y.base + 1 \in Nat BY <1>1 DEF IsReplayer
  <2>3. v \in Nat
    <3>1. PICK a, b : a = y.stamped - y.base + 1 /\ b = Len(y.out) OBVIOUS
    <3>2. a \in Nat /\ b \in Nat BY <2>2, <3>1 DEF IsSeq
    <3>3. IsSeq(SubSeq(y.out, a, b)) BY <3>2, SeqSub
    <3> QED BY <2>1, <3>1, <3>3, HeadsFinite DEF Untimed
  <2>4. u = [i \in 1..v |-> y.pending] BY <1>16, <2>1 DEF Alloted
  <2> QED BY <2>3, <2>4, SeqOfDomain
<1>21. SubSeq(t \o u, 1, Len(t)) = t
  <2>1. PICK l \in Nat : l = Len(t) BY <1>19 DEF IsSeq
  <2>2. PICK x : x = SubSeq(t \o u, 1, l) OBVIOUS
  <2>3. IsSeq(x) /\ Len(x) = l /\ \A i \in 1..l : x[i] = (t \o u)[i] BY <2>1, <2>2, SubFirst
  <2>4. \A i \in 1..l : (t \o u)[i] = t[i] BY <1>19, <1>20, <2>1, SeqConcat
  <2> QED BY <1>19, <2>1, <2>2, <2>3, <2>4, SameSeq
<1> QED BY <1>3, <1>11, <1>18, <1>19, <1>21 DEF LeftBehind

\* What a checkpoint and a record carry over a resume at the start of line g.
Carries(mm, b, c, f) ==
    mm = [turns |-> c.turns, times |-> SubSeq(c.r.times, 1, c.turns), inbox |-> c.inbox, tokens |-> f]

\* The frontier of c, one line after b, is at the start of that line.
Meets(b, c) ==
    RawLen(c.r) > RawLen(b.r) /\ c.r.base = RawLen(b.r) /\ b.r.base < c.r.base

\* A record authored at a resume point carries what the fold had before the
\* line: nothing relayed and no time is of the line itself.
LEMMA CarriesFresh ==
    ASSUME NEW b, Honest(b), NEW g, g \in Nat \ {0}, NEW line, line \in Lines,
           NEW c, c = AdvanceAt(b, g, line), Honest(c),
           NEW y, y = Told(b.r, g, line), Apart(b.r, y), Meets(b, c),
           NEW f, NEW mm, Carries(mm, b, c, f)
    PROVE  mm.inbox = b.r.inbox /\ mm.times = OpenTimes(b.r)
<1>1. PICK r, z : r = b.r /\ z = c.r OBVIOUS
<1>2. Good(r) /\ IsAcc(b) /\ Good(z) BY <1>1 DEF Honest
<1>3. z = Apply(r, g, line) BY <1>1, <1>2, AdvanceIs
<1>4. PICK t : t = OpenTimes(r) OBVIOUS
<1>5. RawLen(z) > RawLen(r) /\ z.base = RawLen(r) /\ r.base < RawLen(r) BY <1>1 DEF Meets
<1>6. LeftBehind(r, z, t)
  <2>1. PICK F : F = RawLen(r) OBVIOUS
  <2>2. Good(r) /\ line \in Lines /\ y = Told(r, g, line) /\ Apart(r, y) BY <1>1, <1>2
  <2>3. z.base = F /\ r.base < F /\ RawLen(z) > F BY <1>5, <2>1
  <2> QED BY ONLY <1>3, <1>4, <2>1, <2>2, <2>3, LineLeaves
<1>7. InboxOf(z.past) = r.inbox
  <2>1. InboxOf(z.past) = InboxOf(r.past) \cup InboxOf(r.out) BY <1>6, InboxConcat DEF LeftBehind
  <2> QED BY <1>2, <2>1 DEF Good, Tidy
<1>8. Len(t) = c.turns
  <2>1. Openers(z.past) = Openers(r.past) + Openers(r.out) BY <1>6, OpenersConcat DEF LeftBehind
  <2>2. IsReplayer(r) /\ Counted(r) BY <1>2 DEF Good
  <2>3. Len(t) = Openers(r.past) + Openers(r.out)
    <3>1. IsSeq(r.past) BY <1>6 DEF LeftBehind
    <3> QED BY <1>4, <2>2, <3>1, CountedTimes
  <2>4. c.turns = Openers(z.past) BY <1>1 DEF Honest
  <2> QED BY <2>1, <2>3, <2>4
<1>9. c.inbox = InboxOf(z.past) BY <1>1 DEF Honest
<1> QED BY <1>1, <1>4, <1>6, <1>7, <1>8, <1>9 DEF Carries, LeftBehind

\* A resumed accumulator: nothing is in the window, the totals are the record's.
Restored(a, mm, log) ==
    /\ IsAcc(a) /\ a.out = <<>> /\ a.log = log /\ a.boundary = <<>>
    /\ a.tokens = mm.tokens /\ a.turns = mm.turns /\ a.inbox = mm.inbox /\ a.seen = mm.turns
    /\ a.r.out = <<>> /\ a.r.base = 0 /\ a.r.queue = <<>> /\ a.r.suppress = {}
    /\ a.r.slot = <<>> /\ a.r.skill = 0 /\ a.r.inbox = mm.inbox /\ OpenTimes(a.r) = mm.times

\* `restore` gives an empty window, the log, and what the record carries.
LEMMA RestoreIs ==
    ASSUME NEW mm, IsMeta(mm), NEW resume, NEW log, IsSeq(log), NEW a, a = Restore(mm, resume, log)
    PROVE  Restored(a, mm, log)
<1>1. IsAcc(a) /\ a.out = <<>> /\ a.log = log BY RestoreFacts
<1>2. /\ a.boundary = <<>> /\ a.tokens = mm.tokens /\ a.turns = mm.turns /\ a.inbox = mm.inbox
      /\ a.seen = mm.turns
      /\ a.r = [NewReplayer EXCEPT !.inbox = mm.inbox, !.times = mm.times,
                                   !.pending = resume.pending]
  BY DEF Restore, NewAccumulator
<1>3. PICK r : r = a.r OBVIOUS
<1>4. /\ r.out = <<>> /\ r.base = 0 /\ r.queue = <<>> /\ r.suppress = {} /\ r.slot = <<>>
      /\ r.skill = 0 /\ r.inbox = mm.inbox /\ r.times = mm.times /\ r.stamped = 0
  BY <1>2, <1>3 DEF NewReplayer
<1>5. IsReplayer(r) BY <1>1, <1>3 DEF IsAcc
<1>6. RawLen(r) = 0 BY <1>4, EmptyIsSeq DEF RawLen
<1>7. OpenTimes(r) = mm.times BY <1>4, <1>5, <1>6, StampedTimes
<1> QED BY <1>1, <1>2, <1>3, <1>4, <1>7 DEF Restored

-----------------------------------------------------------------------------
(* A session that follows the fold from the start.                         *)

\* A boundary is the state before a line that lengthens the raw stream.
IsMark(F, e, lines, n) ==
    \E f, g : /\ f \in Nat /\ g = f + 1 /\ g <= n /\ e.offset = f /\ e.tokens = f
              /\ e.logical \in Nat /\ e.logical + F = RawLen(Upto(lines, f).r)
              /\ RawLen(Upto(lines, g).r) > RawLen(Upto(lines, f).r)

\* All boundaries of a are such marks.
Marked(F, a, lines, n) == \A i \in 1..Len(a.boundary) : IsMark(F, a.boundary[i], lines, n)

\* After n lines, a follows the fold from the start.
On(F, a, lines, n) ==
    /\ n \in Nat /\ n <= Len(lines) /\ IsAcc(a) /\ Follows(F, a, Upto(lines, n))

\* The state of a resumed session is before a line that opens a turn.
LEMMA RestoredFresh ==
    ASSUME NEW a, NEW mm, NEW log, Restored(a, mm, log), NEW r, mm.inbox = r.inbox,
           mm.times = OpenTimes(r)
    PROVE  Fresh(a.r, r)
<1>1. PICK s : s = a.r OBVIOUS
<1>2. IsReplayer(s) BY <1>1 DEF Restored, IsAcc
<1>3. /\ s.out = <<>> /\ s.base = 0 /\ s.queue = <<>> /\ s.suppress = {}
      /\ s.slot = <<>> /\ s.skill = 0 /\ s.inbox = mm.inbox /\ OpenTimes(s) = mm.times
  BY <1>1 DEF Restored
<1>4. DOMAIN s.slot = {} BY <1>3
<1> QED BY <1>1, <1>2, <1>3, <1>4 DEF Fresh

\* The first line of a resume brings the session to the fold from the start.
LEMMA ResumeFollows ==
    ASSUME NEW lines \in Seq(Lines), NEW f \in Nat, NEW g, g = f + 1, g <= Len(lines),
           Repeats(lines, f), NEW b, b = Upto(lines, f), NEW c, c = Upto(lines, g), Meets(b, c),
           NEW mm, Carries(mm, b, c, f), NEW a, Restored(a, mm, c.log),
           NEW z, z = AdvanceAt(a, g, lines[g]), NEW F, F = RawLen(b.r)
    PROVE  Follows(F, z, c) /\ z.out = <<>> /\ Moved(a, g, z) /\ IsAcc(a) /\ F \in Nat /\ g \in Nat \ {0}
<1>1. PICK line : line = lines[g] OBVIOUS
<1>2. /\ g \in Nat \ {0} /\ f <= Len(lines) /\ line \in Lines /\ Honest(b) /\ c = AdvanceAt(b, g, line)
  BY <1>1, UptoStep
<1>3. Honest(c) /\ c.tokens = g
  <2>1. g \in Nat BY <1>2
  <2> QED BY <2>1, UptoHonest
<1>4. PICK y : y = Told(b.r, g, line) OBVIOUS
<1>5. IsReplayer(b.r) BY <1>2 DEF Honest, Good
<1>6. Apart(b.r, y) BY <1>1, <1>4, <1>5, RepeatsApart
<1>7. mm.inbox = b.r.inbox /\ mm.times = OpenTimes(b.r) BY <1>2, <1>3, <1>4, <1>6, CarriesFresh
<1>8. PICK r, s, x, v : r = b.r /\ s = a.r /\ x = c.r /\ v = z.r OBVIOUS
<1>9. Fresh(s, r) BY <1>7, <1>8, RestoredFresh
<1>10. IsAcc(a) BY DEF Restored
<1>11. /\ v = Apply(s, g, line) /\ Moved(a, g, z)
       /\ Unrecorded(a, z) \/ \E full : Recorded(a, z, full)
  BY <1>1, <1>2, <1>8, <1>10, AdvanceIs
<1>12. x.base = F /\ r.base < F /\ Good(x) /\ IsReplayer(r) BY <1>3, <1>5, <1>8 DEF Meets, Honest
<1>13. PICK d \in Nat : d = r.base BY <1>12 DEF IsReplayer
<1>14. F \in Nat
  <2>1. IsReplayer(x) BY <1>12 DEF Good
  <2> QED BY <1>12, <2>1 DEF IsReplayer
<1>15. x.base > 0 BY <1>12, <1>13, <1>14
<1>16. PICK j : j = F + 1 OBVIOUS
<1>17. OpensAt(x, j) BY <1>12, <1>15, <1>16, KeptOpens
<1>18. /\ Alike(F, <<>>, v, x) /\ (x.base = F => v.durable = <<>>)
  BY <1>1, <1>8, <1>9, <1>11, <1>16, <1>17, UptoFresh
<1>19. v.durable = <<>> BY <1>12, <1>18
<1>20. z.out = a.out BY <1>8, <1>11, <1>19 DEF Unrecorded, Recorded
<1>21. /\ z.tokens = a.tokens + 1 /\ z.turns = a.turns + 0 /\ z.inbox = a.inbox \cup {}
       /\ z.log = a.log /\ z.seen = a.seen
  <2>1. PICK p : p = [a EXCEPT !.r = v] OBVIOUS
  <2>2. DOMAIN p = AccFields /\ p.log = a.log /\ p.seen = a.seen /\ IsSeq(p.log)
    BY <1>10, <2>1 DEF IsAcc, AccFields
  <2>3. Stored(p, <<>>) = p BY <2>2, StoredNone
  <2>4. z.r = v /\ z.r.durable = <<>> BY <1>8, <1>19
  <2>5. z.log = Stored(p, <<>>).log /\ z.seen = Stored(p, <<>>).seen /\ z.tokens = a.tokens + 1
    BY <1>11, <2>1, <2>4 DEF Moved
  <2>6. z.turns = a.turns + 0 BY <1>11, <2>4, OpenersEmpty DEF Moved
  <2>7. z.inbox = a.inbox \cup {} BY <1>11, <2>4, InboxNone DEF Moved
  <2> QED BY <2>2, <2>3, <2>5, <2>6, <2>7
<1>22. /\ a.tokens = f /\ a.turns = c.turns /\ a.inbox = c.inbox /\ a.log = c.log /\ a.seen = c.turns
       /\ a.out = <<>>
  BY DEF Restored, Carries
<1>23. c.turns \in Nat /\ c.seen = c.turns
  <2>1. Good(c.r) /\ c.turns = Openers(c.r.past) /\ c.seen = c.turns BY <1>3 DEF Honest
  <2>2. IsSeq(c.r.past) BY <2>1 DEF Good, Kept
  <2> QED BY <2>1, <2>2, HeadsFinite
<1>24. z.turns = c.turns /\ z.inbox = c.inbox /\ z.tokens = g BY <1>21, <1>22, <1>23
<1>25. Follows(F, z, c) BY <1>3, <1>8, <1>18, <1>21, <1>22, <1>23, <1>24 DEF Follows
<1> QED BY <1>2, <1>10, <1>11, <1>14, <1>20, <1>22, <1>25

\* A restored session, once it has folded its first line, follows the fold
\* from the start; it has authored nothing.
LEMMA ResumeStart ==
    ASSUME NEW lines \in Seq(Lines), NEW f \in Nat, NEW g, g = f + 1, g <= Len(lines),
           Repeats(lines, f), NEW b, b = Upto(lines, f), NEW c, c = Upto(lines, g), Meets(b, c),
           NEW mm, Carries(mm, b, c, f), NEW a, Restored(a, mm, c.log),
           NEW z, z = AdvanceAt(a, g, lines[g])
    PROVE  \E F : On(F, z, lines, g) /\ Marked(F, z, lines, g) /\ z.out = <<>>
<1>1. PICK F : F = RawLen(b.r) OBVIOUS
<1>2. /\ Follows(F, z, c) /\ z.out = <<>> /\ Moved(a, g, z) /\ IsAcc(a) /\ F \in Nat
      /\ g \in Nat \ {0}
  BY <1>1, ResumeFollows
<1>3. lines[g] \in Lines
  <2>1. PICK l \in Nat : l = Len(lines) OBVIOUS
  <2>2. g \in 1..l BY <1>2, <2>1
  <2> QED BY <2>1, <2>2
<1>4. IsAcc(z) BY <1>2, <1>3, AdvanceFacts
<1>5. On(F, z, lines, g) BY <1>2, <1>4 DEF On
<1>6. PICK e : e = Here(a, g) OBVIOUS
<1>7. e.logical = 0 /\ e.offset = f /\ e.tokens = f
  <2>1. RawLen(a.r) = 0 BY EmptyIsSeq DEF Restored, RawLen
  <2>2. g - 1 = f OBVIOUS
  <2>3. a.tokens = f BY DEF Restored, Carries
  <2> QED BY <1>6, <2>1, <2>2, <2>3 DEF Here
<1>8. RawLen(c.r) > RawLen(b.r) BY DEF Meets
<1>9. e.logical + F = F /\ g <= g /\ e.logical \in Nat BY <1>2, <1>7
<1>10. IsMark(F, e, lines, g)
  <2>1. /\ g = f + 1 /\ g <= g /\ e.offset = f /\ e.tokens = f
        /\ e.logical \in Nat /\ e.logical + F = RawLen(Upto(lines, f).r)
        /\ RawLen(Upto(lines, g).r) > RawLen(Upto(lines, f).r) /\ f \in Nat
    BY <1>1, <1>7, <1>8, <1>9
  <2> QED BY <2>1 DEF IsMark
<1>11. a.boundary = <<>> BY DEF Restored
<1>12. ASSUME NEW i \in 1..Len(z.boundary) PROVE IsMark(F, z.boundary[i], lines, g)
  <2>1. \/ \E l \in 1..Len(a.boundary) : z.boundary[i] = a.boundary[l]
        \/ z.boundary[i] = e
    BY <1>2, <1>6 DEF Moved
  <2>2. 1..Len(a.boundary) = {} BY <1>11, EmptyIsSeq
  <2> QED BY <1>10, <2>1, <2>2
<1> QED BY <1>2, <1>5, <1>12 DEF Marked

-----------------------------------------------------------------------------
(* The resume points of the records.                                       *)

\* Record k can be resumed from: it says what the fold from the start has seen
\* where the frontier is at the start of its line.
Point(recs, k, lines) ==
    LET f == recs[k].resume.from
        b == Upto(lines, f)
        c == Upto(lines, f + 1)
    IN  Meets(b, c) /\ recs[k].resume.id = Len(c.log) /\ Carries(MetaAt(recs, k), b, c, f)

\* A record that can be resumed from is at a line that was read, and tells
\* of that line if a resume there repeats it.
SoundAt(recs, k, lines, n) ==
    recs[k].resume.id # Nil =>
        /\ recs[k].resume.from \in Nat /\ recs[k].resume.from + 1 <= n
        /\ Repeats(lines, recs[k].resume.from) => Point(recs, k, lines)

\* All the records are sound.
Sound(recs, lines, n) == \A k \in 1..Len(recs) : SoundAt(recs, k, lines, n)

\* One line more.
LEMMA OnNext ==
    ASSUME NEW lines \in Seq(Lines), NEW F, NEW a, NEW n, On(F, a, lines, n), NEW m, m = n + 1,
           m <= Len(lines), NEW z, z = AdvanceAt(a, m, lines[m])
    PROVE  On(F, z, lines, m) /\ m \in Nat \ {0} /\ lines[m] \in Lines
<1>1. PICK b, c, line : b = Upto(lines, n) /\ c = Upto(lines, m) /\ line = lines[m] OBVIOUS
<1>2. n \in Nat BY DEF On
<1>3. m \in Nat \ {0} /\ line \in Lines /\ Honest(b) /\ c = AdvanceAt(b, m, line)
  BY <1>1, <1>2, UptoStep
<1>4. IsAcc(a) /\ Follows(F, a, b) BY <1>1 DEF On
<1>5. z = AdvanceAt(a, m, line) BY <1>1
<1>6. Follows(F, z, c) BY <1>3, <1>4, <1>5, AdvanceFollows
<1>7. IsAcc(z) BY <1>3, <1>4, <1>5, AdvanceFacts
<1> QED BY <1>1, <1>3, <1>6, <1>7 DEF On

\* The raw streams are F apart.
LEMMA FollowsRaw ==
    ASSUME NEW F, NEW a, NEW b, IsAcc(a), Honest(b), Follows(F, a, b)
    PROVE  /\ RawLen(a.r) \in Nat /\ a.r.base \in Nat /\ F \in Nat
           /\ RawLen(a.r) + F = RawLen(b.r) /\ a.r.base + F = b.r.base
<1>1. PICK s, r, p : s = a.r /\ r = b.r /\ p = <<>> OBVIOUS
<1>2. IsReplayer(s) /\ Outs(F, p, s, r) BY <1>1 DEF IsAcc, Follows, Alike
<1>3. /\ Len(r.out) = Len(p) + Len(s.out) /\ Len(s.out) \in Nat /\ s.base \in Nat /\ F \in Nat
  BY <1>2, OutsFacts
<1>4. PICK c, d, n, m : c = s.base /\ d = r.base /\ n = Len(s.out) /\ m = Len(r.out) OBVIOUS
<1>5. c \in Nat /\ n \in Nat /\ m = n /\ d = c + F
  <2>1. Len(p) = 0 BY <1>1, EmptyIsSeq
  <2>2. m = 0 + n /\ n \in Nat BY <1>3, <1>4, <2>1
  <2>3. d + 0 = c + F BY <1>2, <1>4, <2>1 DEF Outs
  <2>4. d \in Nat BY <1>1, <1>4 DEF Honest, IsAcc, IsReplayer
  <2> QED BY <1>3, <1>4, <2>2, <2>3, <2>4
<1>6. RawLen(s) = c + n /\ RawLen(r) = d + m BY <1>4 DEF RawLen
<1>7. (c + n) + F = (c + F) + n /\ c + n \in Nat BY <1>3, <1>5
<1> QED BY <1>1, <1>3, <1>4, <1>5, <1>6, <1>7

\* A mark stays a mark.
LEMMA MarkLonger ==
    ASSUME NEW F, NEW e, NEW lines, NEW n \in Nat, IsMark(F, e, lines, n), NEW m \in Nat, n <= m
    PROVE  IsMark(F, e, lines, m)
<1>1. PICK f, g : /\ f \in Nat /\ g = f + 1 /\ g <= n /\ e.offset = f /\ e.tokens = f
                  /\ e.logical \in Nat /\ e.logical + F = RawLen(Upto(lines, f).r)
                  /\ RawLen(Upto(lines, g).r) > RawLen(Upto(lines, f).r)
  BY DEF IsMark
<1>2. g <= m BY <1>1
<1> QED BY <1>1, <1>2 DEF IsMark

\* A line adds only marks: a boundary is kept where a line opened blocks.
LEMMA MarkedNext ==
    ASSUME NEW lines \in Seq(Lines), NEW F, NEW a, NEW n, On(F, a, lines, n), NEW m, m = n + 1,
           m <= Len(lines), NEW z, z = AdvanceAt(a, m, lines[m]), Marked(F, a, lines, n)
    PROVE  Marked(F, z, lines, m)
<1>1. On(F, z, lines, m) /\ m \in Nat \ {0} /\ lines[m] \in Lines BY OnNext
<1>2. n \in Nat /\ n <= Len(lines) /\ IsAcc(a) /\ Follows(F, a, Upto(lines, n)) BY DEF On
<1>3. IsAcc(z) /\ Follows(F, z, Upto(lines, m)) BY <1>1 DEF On
<1>4. Moved(a, m, z) BY <1>1, <1>2, AdvanceIs
<1>5. PICK b, c : b = Upto(lines, n) /\ c = Upto(lines, m) OBVIOUS
<1>6. PICK x, y : x = RawLen(a.r) /\ y = RawLen(z.r) OBVIOUS
<1>7. b.tokens = n /\ Honest(b) /\ Honest(c)
  <2>1. b.tokens = n /\ Honest(b) BY <1>2, <1>5, UptoHonest
  <2>2. Honest(c) BY <1>1, <1>5, UptoHonest
  <2> QED BY <2>1, <2>2
<1>8. x \in Nat /\ F \in Nat /\ x + F = RawLen(b.r) BY <1>2, <1>5, <1>6, <1>7, FollowsRaw
<1>9. y \in Nat /\ y + F = RawLen(c.r) BY <1>3, <1>5, <1>6, <1>7, FollowsRaw
<1>10. PICK e : e = Here(a, m) OBVIOUS
<1>11. e.logical = x /\ e.offset = n /\ e.tokens = n
  <2>1. m - 1 = n BY <1>2
  <2>2. a.tokens = n BY <1>2, <1>5, <1>7 DEF Follows
  <2> QED BY <1>6, <1>10, <2>1, <2>2 DEF Here
<1>12. ASSUME y > x PROVE IsMark(F, e, lines, m)
  <2>1. y + F > x + F BY <1>8, <1>9, <1>12
  <2>2. RawLen(c.r) > RawLen(b.r) BY <1>8, <1>9, <2>1
  <2>3. m <= m BY <1>1
  <2>4. /\ n \in Nat /\ m = n + 1 /\ m <= m /\ e.offset = n /\ e.tokens = n
        /\ e.logical \in Nat /\ e.logical + F = RawLen(Upto(lines, n).r)
        /\ RawLen(Upto(lines, m).r) > RawLen(Upto(lines, n).r)
    BY <1>2, <1>5, <1>8, <1>11, <2>2, <2>3
  <2> QED BY <2>4 DEF IsMark
<1>13. ASSUME NEW i \in 1..Len(z.boundary) PROVE IsMark(F, z.boundary[i], lines, m)
  <2>1. \/ \E l \in 1..Len(a.boundary) : z.boundary[i] = a.boundary[l]
        \/ z.boundary[i] = e /\ y > x
    BY <1>4, <1>6, <1>10 DEF Moved
  <2>2. ASSUME NEW l \in 1..Len(a.boundary), z.boundary[i] = a.boundary[l]
        PROVE IsMark(F, z.boundary[i], lines, m)
    <3>1. IsMark(F, a.boundary[l], lines, n) BY DEF Marked
    <3>2. n <= m BY <1>2
    <3>3. PICK h : h = a.boundary[l] OBVIOUS
    <3>4. IsMark(F, h, lines, m) BY <1>1, <1>2, <3>1, <3>2, <3>3, MarkLonger
    <3> QED BY <2>2, <3>3, <3>4
  <2> QED BY <1>12, <2>1, <2>2
<1> QED BY <1>13 DEF Marked

\* A record only depends on the ones before it.
LEMMA SoundPrefix ==
    ASSUME NEW s, NEW t, NEW k, k \in Nat \ {0}, \A j \in 1..k : s[j] = t[j], NEW lines, NEW n,
           SoundAt(s, k, lines, n)
    PROVE  SoundAt(t, k, lines, n)
<1>1. k \in Nat /\ k \in 1..k OBVIOUS
<1>2. s[k] = t[k] BY <1>1
<1>3. MetaAt(s, k) = MetaAt(t, k) BY <1>1, MetaPrefix
<1> QED BY <1>2, <1>3 DEF SoundAt, Point

-----------------------------------------------------------------------------
\* What a new record says where it can be resumed from.
Names(z, full, lines, f) ==
    LET b == Upto(lines, f)
        c == Upto(lines, f + 1)
    IN  Meets(b, c) /\ full.resume.id = Len(c.log) /\ Carries(Materialized(z), b, c, f)

\* A record authored at the resume point of line f + 1 tells of that line:
\* only there does the frontier come to its first block (ResumeLine).
LEMMA RecordNames ==
    ASSUME NEW lines \in Seq(Lines), NEW F, NEW a, NEW n, On(F, a, lines, n), NEW m, m = n + 1,
           m <= Len(lines), NEW z, z = AdvanceAt(a, m, lines[m]), Marked(F, z, lines, m),
           NEW full, Recorded(a, z, full), full.resume.id # Nil, NEW f, f = full.resume.from
    PROVE  f \in Nat /\ f + 1 <= m /\ (Repeats(lines, f) => Names(z, full, lines, f))
<1>1. On(F, z, lines, m) /\ m \in Nat \ {0} /\ lines[m] \in Lines BY OnNext
<1>2. n \in Nat /\ n <= Len(lines) /\ IsAcc(a) /\ Follows(F, a, Upto(lines, n)) BY DEF On
<1>3. IsAcc(z) /\ Follows(F, z, Upto(lines, m)) BY <1>1 DEF On
<1>4. PICK x, y, line : x = Upto(lines, n) /\ y = Upto(lines, m) /\ line = lines[m] OBVIOUS
<1>5. /\ Honest(x) /\ y = AdvanceAt(x, m, line) /\ line \in Lines BY <1>1, <1>2, <1>4, UptoStep
<1>6. Honest(y) BY <1>1, <1>4, UptoHonest
<1>7. /\ Follows(F, a, x) /\ z.r.durable = y.r.durable
      /\ z.r.durable # <<>> => z.r.times = y.r.times
  <2>1. Follows(F, a, x) /\ z = AdvanceAt(a, m, line) BY <1>2, <1>4
  <2> QED BY <1>1, <1>2, <1>5, <2>1, AdvanceFollows
<1>8. z.r.durable # <<>> /\ Resumes(z, full) BY DEF Recorded
<1>9. z.r.times = y.r.times /\ y.r.durable # <<>> BY <1>7, <1>8
<1>10. x.r.base < y.r.base BY <1>1, <1>5, <1>9, AdvanceFurther
<1>11. PICK e : e = z.boundary[1] OBVIOUS
<1>12. /\ z.boundary # <<>> /\ e.logical = z.r.base /\ full.resume.id = Len(z.log) /\ f = e.offset
       /\ z.emitted = e.tokens
  BY <1>8, <1>11 DEF Resumes
<1>13. IsMark(F, e, lines, m)
  <2>1. IsSeq(z.boundary) BY <1>3 DEF IsAcc
  <2>2. 1 \in 1..Len(z.boundary) BY <1>12, <2>1, HeadIs
  <2> QED BY <1>11, <2>2 DEF Marked
<1>14. PICK g : /\ f \in Nat /\ g = f + 1 /\ g <= m /\ e.tokens = f
                /\ e.logical \in Nat /\ e.logical + F = RawLen(Upto(lines, f).r)
                /\ RawLen(Upto(lines, g).r) > RawLen(Upto(lines, f).r)
  BY <1>12, <1>13 DEF IsMark
<1>15. z.r.base + F = y.r.base BY <1>3, <1>4, <1>6, FollowsRaw
<1>16. PICK X : X = RawLen(Upto(lines, f).r) OBVIOUS
<1>17. y.r.base = X /\ x.r.base < X /\ RawLen(Upto(lines, g).r) > X BY <1>10, <1>12, <1>14, <1>15, <1>16
<1>18. f <= n BY <1>2, <1>14
<1>19. ASSUME Repeats(lines, f) PROVE Names(z, full, lines, f)
  <2>1. n = f BY <1>2, <1>4, <1>14, <1>16, <1>17, <1>18, <1>19, ResumeLine
  <2>2. g = m BY <1>14, <2>1
  <2>3. RawLen(y.r) > RawLen(x.r) /\ y.r.base = RawLen(x.r) /\ x.r.base < y.r.base
    BY <1>4, <1>16, <1>17, <2>1, <2>2
  <2>4. Meets(x, y) BY <2>3 DEF Meets
  <2>5. y.log = z.log /\ y.turns = z.turns /\ y.inbox = z.inbox BY <1>3, <1>4 DEF Follows
  <2>6. full.resume.id = Len(y.log) BY <1>12, <2>5
  <2>7. z.emitted = f BY <1>12, <1>14
  <2>8. Materialized(z) = [turns |-> y.turns, times |-> SubSeq(y.r.times, 1, y.turns),
                           inbox |-> y.inbox, tokens |-> f]
    BY <1>9, <2>5, <2>7 DEF Materialized
  <2>9. Carries(Materialized(z), x, y, f) BY <2>8 DEF Carries
  <2>10. x = Upto(lines, f) /\ y = Upto(lines, f + 1) BY <1>4, <2>1
  <2> QED BY <2>4, <2>6, <2>9, <2>10 DEF Names
<1>20. f + 1 <= m BY <1>14
<1> QED BY <1>14, <1>19, <1>20

\* The records stay sound when a line adds one.
LEMMA SoundNext ==
    ASSUME NEW lines \in Seq(Lines), NEW F, NEW a, NEW n, On(F, a, lines, n), NEW m, m = n + 1,
           m <= Len(lines), NEW z, z = AdvanceAt(a, m, lines[m]), Marked(F, a, lines, n),
           NEW recs, IsStream(recs), Ties(a, recs), NEW l, l = Len(lines), Sound(recs \o a.out, lines, l)
    PROVE  Sound(recs \o z.out, lines, l)
<1>1. Marked(F, z, lines, m) BY MarkedNext
<1>2. On(F, z, lines, m) /\ m \in Nat \ {0} /\ lines[m] \in Lines BY OnNext
<1>3. IsAcc(a) /\ IsAcc(z) BY <1>2 DEF On
<1>4. Unrecorded(a, z) \/ \E full : Recorded(a, z, full) BY <1>2, <1>3, AdvanceIs
<1>5. CASE Unrecorded(a, z) BY <1>5 DEF Unrecorded
<1>6. ASSUME NEW full, Recorded(a, z, full) PROVE Sound(recs \o z.out, lines, l)
  <2>1. z.out = Append(a.out, full) BY <1>6 DEF Recorded
  <2>2. PICK s, t : s = recs \o a.out /\ t = recs \o z.out OBVIOUS
  <2>3. IsSeq(recs) /\ IsSeq(a.out) BY <1>3 DEF IsAcc, IsStream
  <2>4. IsSeq(s) BY <2>2, <2>3, SeqConcat
  <2>5. t = Append(s, full)
    <3>1. PICK w : w = a.out OBVIOUS
    <3>2. recs \o Append(w, full) = Append(recs \o w, full) BY <2>3, <3>1, ConcatAppend
    <3>3. t = recs \o Append(w, full) /\ s = recs \o w BY <2>1, <2>2, <3>1
    <3> QED BY <3>2, <3>3
  <2>6. PICK d \in Nat : d = Len(s) BY <2>4 DEF IsSeq
  <2>7. IsSeq(t) /\ Len(t) = d + 1 /\ (\A i \in 1..d : t[i] = s[i]) /\ t[d + 1] = full
    BY <2>4, <2>5, <2>6, SeqAppend
  <2>8. MetaAt(t, d + 1) = Materialized(z)
    <3>1. Ties(z, recs) BY <1>2, <1>3, AdvanceFacts
    <3> QED BY <2>2, <2>7, <3>1 DEF Ties
  <2>9. ASSUME NEW k \in 1..d PROVE SoundAt(t, k, lines, l)
    <3>1. SoundAt(s, k, lines, l) BY <2>2, <2>6 DEF Sound
    <3>2. k \in Nat \ {0} /\ \A j \in 1..k : j \in 1..d BY <2>6
    <3>3. \A j \in 1..k : s[j] = t[j] BY <2>7, <3>2
    <3> QED BY <3>1, <3>2, <3>3, SoundPrefix
  <2>10. SoundAt(t, d + 1, lines, l)
    <3> SUFFICES ASSUME full.resume.id # Nil
                 PROVE /\ full.resume.from \in Nat /\ full.resume.from + 1 <= l
                       /\ Repeats(lines, full.resume.from) => Point(t, d + 1, lines)
      BY <2>7 DEF SoundAt
    <3>1. PICK f : f = full.resume.from OBVIOUS
    <3>2. f \in Nat /\ f + 1 <= m /\ (Repeats(lines, f) => Names(z, full, lines, f))
      BY <1>1, <1>6, <3>1, RecordNames
    <3>3. m \in Nat /\ l \in Nat /\ m <= l BY <1>2
    <3>4. f + 1 <= l BY <3>2, <3>3
    <3>5. ASSUME Names(z, full, lines, f) PROVE Point(t, d + 1, lines)
      BY <2>7, <2>8, <3>1, <3>5 DEF Names, Point
    <3> QED BY <3>1, <3>2, <3>4, <3>5
  <2>11. ASSUME NEW k \in 1..(d + 1) PROVE SoundAt(t, k, lines, l)
    <3>1. k \in 1..d \/ k = d + 1 BY <2>6
    <3> QED BY <2>9, <2>10, <3>1
  <2> QED BY <2>2, <2>7, <2>11 DEF Sound
<1> QED BY <1>4, <1>5, <1>6

-----------------------------------------------------------------------------
(* A tick.                                                                 *)

\* a follows the fold from the start; if the records are those of this
\* transcript, they are sound, and so are the boundaries.
Keeps(clean, F, a, lines, recs, n) ==
    /\ On(F, a, lines, n)
    /\ clean => /\ Marked(F, a, lines, n) /\ Ties(a, recs)
                /\ Sound(recs \o a.out, lines, Len(lines))

\* A line keeps what is said of the session and its records.
LEMMA KeepsNext ==
    ASSUME NEW clean, NEW F, NEW a, NEW lines, NEW recs, NEW n, lines \in Seq(Lines), IsStream(recs),
           Keeps(clean, F, a, lines, recs, n), NEW m, m = n + 1, m <= Len(lines),
           NEW z, z = AdvanceAt(a, m, lines[m])
    PROVE  Keeps(clean, F, z, lines, recs, m)
<1>1. On(F, a, lines, n) BY DEF Keeps
<1>2. On(F, z, lines, m) /\ m \in Nat \ {0} /\ lines[m] \in Lines BY <1>1, OnNext
<1>3. IsAcc(a) BY <1>1 DEF On
<1>4. ASSUME clean PROVE /\ Marked(F, z, lines, m) /\ Ties(z, recs)
                         /\ Sound(recs \o z.out, lines, Len(lines))
  <2>1. Marked(F, a, lines, n) /\ Ties(a, recs) /\ Sound(recs \o a.out, lines, Len(lines))
    BY <1>4 DEF Keeps
  <2>2. Marked(F, z, lines, m) BY <1>1, <2>1, MarkedNext
  <2>3. Ties(z, recs) BY <1>2, <1>3, <2>1, AdvanceFacts
  <2>4. PICK l : l = Len(lines) OBVIOUS
  <2>5. Sound(recs \o a.out, lines, l) BY <2>1, <2>4
  <2>6. Sound(recs \o z.out, lines, l) BY <1>1, <2>1, <2>4, <2>5, SoundNext
  <2> QED BY <2>2, <2>3, <2>4, <2>6
<1> QED BY <1>2, <1>4 DEF Keeps

\* So do the lines of a tick.
LEMMA ReadKeeps ==
    ASSUME NEW clean, NEW F, NEW a, NEW lines, NEW recs, NEW from, NEW g, NEW n, NEW h,
           lines \in Seq(Lines), IsStream(recs), from \in Nat, Reads(g, a, lines, from, n),
           h \in 0..n, NEW k, k = from + h, Keeps(clean, F, g[h], lines, recs, k),
           NEW l, l = Len(lines)
    PROVE  Keeps(clean, F, g[n], lines, recs, l)
<1>1. /\ n \in Nat /\ n = l - from
      /\ \A i \in 1..n : g[i] = AdvanceAt(g[i - 1], from + i, lines[from + i])
  BY DEF Reads
<1>2. l \in Nat BY LenProperties
<1> DEFINE keeps(i) == Keeps(clean, F, g[h + i], lines, recs, from + (h + i))
           I == {i \in Nat : h + i <= n => keeps(i)}
<1>3. 0 \in I
  <2>1. h + 0 = h /\ from + (h + 0) = k BY <1>1
  <2> QED BY <2>1
<1>4. ASSUME NEW i \in Nat, i \in I PROVE i + 1 \in I
  <2> SUFFICES ASSUME h + (i + 1) <= n PROVE keeps(i + 1) OBVIOUS
  <2>1. PICK p, q, u, v : p = h + i /\ q = h + (i + 1) /\ u = from + p /\ v = from + q OBVIOUS
  <2>2. /\ q \in 1..n /\ q - 1 = p /\ p <= n /\ v = u + 1 /\ v <= l BY <1>1, <1>2, <2>1
  <2>3. Keeps(clean, F, g[p], lines, recs, u) BY <1>4, <2>1, <2>2
  <2>4. g[q] = AdvanceAt(g[p], v, lines[v]) BY <1>1, <2>1, <2>2
  <2>5. v = u + 1 /\ v <= Len(lines) BY <2>2
  <2>6. lines \in Seq(Lines) /\ IsStream(recs) OBVIOUS
  <2> HIDE DEF keeps, I
  <2>7. PICK x, z : x = g[p] /\ z = g[q] OBVIOUS
  <2>8. Keeps(clean, F, x, lines, recs, u) /\ z = AdvanceAt(x, v, lines[v]) BY <2>3, <2>4, <2>7
  <2>9. Keeps(clean, F, z, lines, recs, v) BY ONLY <2>5, <2>6, <2>8, KeepsNext
  <2> QED BY <2>1, <2>7, <2>9 DEF keeps
<1> HIDE DEF I
<1>5. Nat \subseteq I BY <1>3, <1>4, A!SetInduction
<1>6. n \in Nat /\ h \in 0..n BY <1>1
<1>7. n - h \in Nat BY ONLY <1>6
<1>8. PICK i : i = n - h OBVIOUS
<1>9. i \in Nat /\ h + i = n /\ n <= n BY ONLY <1>6, <1>7, <1>8
<1>10. from + n = l BY <1>1, <1>2
<1>11. h + i <= n => keeps(i)
  <2>1. i \in I BY <1>5, <1>9
  <2> HIDE DEF keeps
  <2> QED BY <2>1 DEF I
<1>12. keeps(i) BY <1>9, <1>11
<1> QED BY <1>9, <1>10, <1>12

\* A session that is reset begins the fold from the start again.
LEMMA ResetOn ==
    ASSUME NEW a, IsAcc(a), NEW lines \in Seq(Lines)
    PROVE  On(0, Reset(a), lines, 0) /\ On(0, NewAccumulator, lines, 0)
<1>1. PICK r : r = NewReplayer OBVIOUS
<1>2. Good(r) /\ IsReplayer(r) BY <1>1, NewGood DEF Good
<1>3. /\ r.out = <<>> /\ r.base = 0 /\ r.queue = <<>> /\ r.suppress = {} /\ r.slot = <<>> /\ r.skill = 0
  BY <1>1 DEF NewReplayer
<1>4. DOMAIN r.slot = {} BY <1>3
<1>5. Fresh(r, r) BY <1>2, <1>3, <1>4 DEF Fresh
<1>6. RawLen(r) = 0 BY <1>3, EmptyIsSeq DEF RawLen
<1>7. Alike(0, <<>>, r, r) BY <1>2, <1>3, <1>5, <1>6, FreshAlike
<1>8. PICK b, x : b = NewAccumulator /\ x = Reset(a) OBVIOUS
<1>9. /\ b.r = r /\ x.r = r /\ b.log = <<>> /\ x.log = <<>> /\ b.tokens = 0 /\ x.tokens = 0
      /\ b.turns = 0 /\ x.turns = 0 /\ b.inbox = {} /\ x.inbox = {} /\ b.seen = 0 /\ x.seen = 0
  BY <1>1, <1>8 DEF NewAccumulator, Reset
<1>10. Follows(0, x, b) /\ Follows(0, b, b) BY <1>7, <1>9 DEF Follows
<1>11. Upto(lines, 0) = b BY <1>8, UptoNone
<1>12. IsAcc(x) /\ IsAcc(b) BY <1>8, ResetFacts, NewAccFacts
<1>13. 0 \in Nat /\ 0 <= Len(lines) BY LenProperties
<1> QED BY <1>8, <1>10, <1>11, <1>12, <1>13 DEF On

\* What was read of one transcript was read of another that begins with it.
LEMMA OnShares ==
    ASSUME NEW s, NEW t, NEW n, Shares(s, t, n), NEW F, NEW a, NEW m, On(F, a, s, m), m <= n
    PROVE  On(F, a, t, m)
<1>1. m \in Nat /\ n \in Nat /\ n <= Len(t) /\ t \in Seq(Lines) BY DEF On, Shares
<1>2. Upto(s, m) = Upto(t, m) BY <1>1, UptoShares
<1>3. PICK l \in Nat : l = Len(t) BY <1>1, LenProperties
<1>4. m <= l BY <1>1, <1>3
<1> QED BY <1>1, <1>2, <1>3, <1>4 DEF On

\* Marks are of the lines read: others may change.
LEMMA MarkedShares ==
    ASSUME NEW s, NEW t, NEW n, Shares(s, t, n), NEW F, NEW a, NEW m, m \in Nat, m <= n,
           Marked(F, a, s, m)
    PROVE  Marked(F, a, t, m)
<1> SUFFICES ASSUME NEW i \in 1..Len(a.boundary) PROVE IsMark(F, a.boundary[i], t, m) BY DEF Marked
<1>1. PICK e : e = a.boundary[i] OBVIOUS
<1>2. IsMark(F, e, s, m) BY <1>1 DEF Marked
<1>3. PICK f, g : /\ f \in Nat /\ g = f + 1 /\ g <= m /\ e.offset = f /\ e.tokens = f
                  /\ e.logical \in Nat /\ e.logical + F = RawLen(Upto(s, f).r)
                  /\ RawLen(Upto(s, g).r) > RawLen(Upto(s, f).r)
  BY <1>2 DEF IsMark
<1>4. n \in Nat BY DEF Shares
<1>5. f <= n /\ g <= n /\ g \in Nat BY <1>3, <1>4
<1>6. Upto(s, f) = Upto(t, f) /\ Upto(s, g) = Upto(t, g) BY <1>3, <1>5, UptoShares
<1>7. IsMark(F, e, t, m) BY <1>3, <1>6 DEF IsMark
<1> QED BY <1>1, <1>7

\* A record is sound for every transcript that has the line it resumes at.
LEMMA SoundShares ==
    ASSUME NEW s, NEW t, NEW n, Shares(s, t, n), NEW recs, NEW k, NEW l,
           SoundAt(recs, k, s, l), recs[k].resume.id # Nil => recs[k].resume.from + 1 <= n
    PROVE  SoundAt(recs, k, t, n)
<1> SUFFICES ASSUME recs[k].resume.id # Nil PROVE SoundAt(recs, k, t, n) BY DEF SoundAt
<1>1. PICK f, g : f = recs[k].resume.from /\ g = f + 1 OBVIOUS
<1>2. f \in Nat /\ g <= n /\ (Repeats(s, f) => Point(recs, k, s)) BY <1>1 DEF SoundAt
<1>3. n \in Nat BY DEF Shares
<1>4. g \in Nat /\ f <= n BY <1>1, <1>2, <1>3
<1>5. Upto(s, f) = Upto(t, f) /\ Upto(s, g) = Upto(t, g) BY <1>2, <1>4, UptoShares
<1>6. Repeats(s, f) <=> Repeats(t, f) BY <1>1, <1>2, <1>4, RepeatsShares
<1>7. Point(recs, k, s) => Point(recs, k, t) BY <1>1, <1>5 DEF Point
<1> QED BY <1>1, <1>2, <1>6, <1>7 DEF SoundAt

-----------------------------------------------------------------------------
(* The content log, as far as the records reach into it.                   *)

\* The content log is that of the fold from the start, as far as the record
\* reaches into it.
HoldsAt(recs, k, log, lines) ==
    recs[k].resume.id # Nil /\ Repeats(lines, recs[k].resume.from) =>
        \A i \in 1..Len(log) :
            i <= recs[k].resume.id => log[i] = Upto(lines, recs[k].resume.from + 1).log[i]

\* So for all the records.
Holds(recs, log, lines) == \A k \in 1..Len(recs) : HoldsAt(recs, k, log, lines)

\* The log of a fold of n lines is, up to a resume point, that of the fold up to there.
LEMMA HoldsOf ==
    ASSUME NEW lines \in Seq(Lines), NEW recs, IsStream(recs), NEW l, l = Len(lines),
           Sound(recs, lines, l), NEW n, n \in Nat, n <= l, NEW log, log = Upto(lines, n).log
    PROVE  Holds(recs, log, lines)
<1> SUFFICES ASSUME NEW k \in 1..Len(recs), recs[k].resume.id # Nil,
                    Repeats(lines, recs[k].resume.from),
                    NEW i \in 1..Len(log), i <= recs[k].resume.id
             PROVE  log[i] = Upto(lines, recs[k].resume.from + 1).log[i]
  BY DEF Holds, HoldsAt
<1>1. PICK f, g : f = recs[k].resume.from /\ g = f + 1 OBVIOUS
<1>2. SoundAt(recs, k, lines, l) BY DEF Sound
<1>3. f \in Nat /\ g <= l /\ Point(recs, k, lines) BY <1>1, <1>2 DEF SoundAt
<1>4. l \in Nat BY LenProperties
<1>5. g \in Nat BY <1>1, <1>3
<1>6. PICK x, y : x = Upto(lines, n) /\ y = Upto(lines, g) OBVIOUS
<1>7. recs[k].resume.id = Len(y.log) BY <1>1, <1>3, <1>6 DEF Point
<1>8. i <= Len(y.log) BY <1>7
<1>9. CASE g <= n
  <2>1. Later(y, x) BY <1>3, <1>4, <1>5, <1>6, <1>9, UptoLater
  <2>2. Begins(y.log, x.log) BY <2>1 DEF Later
  <2>3. PICK m \in Nat : m = Len(y.log) BY <2>2 DEF Begins, IsSeq
  <2>4. i \in Nat /\ i >= 1
    <3>1. IsSeq(x.log) BY <2>2 DEF Begins
    <3>2. PICK q \in Nat : q = Len(log) BY <1>6, <3>1 DEF IsSeq
    <3> QED BY <3>2
  <2>5. i \in 1..m BY <1>8, <2>3, <2>4
  <2> QED BY <1>1, <1>6, <2>2, <2>3, <2>5 DEF Begins
<1>10. CASE n <= g
  <2>1. Later(x, y) BY <1>3, <1>4, <1>5, <1>6, <1>10, UptoLater
  <2>2. Begins(x.log, y.log) BY <2>1 DEF Later
  <2> QED BY <1>1, <1>6, <2>2 DEF Begins
<1> QED BY <1>5, <1>9, <1>10

\* This too is of the lines read.
LEMMA HoldsShares ==
    ASSUME NEW s, NEW t, NEW n, Shares(s, t, n), NEW recs, NEW k, NEW l, SoundAt(recs, k, s, l),
           recs[k].resume.id # Nil => recs[k].resume.from + 1 <= n,
           NEW log, HoldsAt(recs, k, log, s)
    PROVE  HoldsAt(recs, k, log, t)
<1> SUFFICES ASSUME recs[k].resume.id # Nil PROVE HoldsAt(recs, k, log, t) BY DEF HoldsAt
<1>1. PICK f, g : f = recs[k].resume.from /\ g = f + 1 OBVIOUS
<1>2. f \in Nat /\ g <= n BY <1>1 DEF SoundAt
<1>3. n \in Nat BY DEF Shares
<1>4. g \in Nat /\ f <= n BY <1>1, <1>2, <1>3
<1>5. Upto(s, g) = Upto(t, g) BY <1>2, <1>4, UptoShares
<1>6. Repeats(s, f) <=> Repeats(t, f) BY <1>1, <1>2, <1>4, RepeatsShares
<1> QED BY <1>1, <1>5, <1>6 DEF HoldsAt

\* Both of a stream of records and its log, for another transcript that begins alike.
Vouched(recs, log, lines, l) == Sound(recs, lines, l) /\ Holds(recs, log, lines)

\* So is what is said of the two files.
LEMMA VouchedShares ==
    ASSUME NEW s, NEW t, NEW n, Shares(s, t, n), NEW recs, NEW log, NEW l, Vouched(recs, log, s, l),
           \A k \in 1..Len(recs) : recs[k].resume.id # Nil => recs[k].resume.from + 1 <= n
    PROVE  Vouched(recs, log, t, n)
<1>1. ASSUME NEW k \in 1..Len(recs) PROVE SoundAt(recs, k, t, n) /\ HoldsAt(recs, k, log, t)
  <2>1. SoundAt(recs, k, s, l) /\ HoldsAt(recs, k, log, s) BY DEF Vouched, Sound, Holds
  <2>2. recs[k].resume.id # Nil => recs[k].resume.from + 1 <= n OBVIOUS
  <2>3. SoundAt(recs, k, t, n) BY <2>1, <2>2, SoundShares
  <2>4. HoldsAt(recs, k, log, t) BY <2>1, <2>2, HoldsShares
  <2> QED BY <2>3, <2>4
<1> QED BY <1>1 DEF Vouched, Sound, Holds

\* Of each file some prefix is left.
LEMMA VouchedPrefix ==
    ASSUME NEW recs, NEW log, NEW lines, NEW l, IsStream(recs), IsSeq(log), Vouched(recs, log, lines, l),
           NEW i, NEW j, i \in 0..Len(log), j \in 0..Len(recs),
           NEW s, s = SubSeq(recs, 1, j), NEW t, t = SubSeq(log, 1, i)
    PROVE  Vouched(s, t, lines, l)
<1>1. PICK m \in Nat, n \in Nat : m = Len(recs) /\ n = Len(log) BY DEF IsStream, IsSeq
<1>2. i \in Nat /\ i <= n /\ j \in Nat /\ j <= m BY <1>1
<1>3. IsSeq(s) /\ Len(s) = j /\ \A k \in 1..j : s[k] = recs[k] BY <1>2, SubFirst
<1>4. IsSeq(t) /\ Len(t) = i /\ \A k \in 1..i : t[k] = log[k] BY <1>2, SubFirst
<1>5. ASSUME NEW k \in 1..j PROVE SoundAt(s, k, lines, l) /\ HoldsAt(s, k, t, lines)
  <2>1. k \in 1..m /\ k \in Nat \ {0} /\ \A h \in 1..k : h \in 1..j BY <1>2
  <2>2. SoundAt(recs, k, lines, l) /\ HoldsAt(recs, k, log, lines) BY <1>1, <2>1 DEF Vouched, Sound, Holds
  <2>3. \A h \in 1..k : recs[h] = s[h] BY <1>3, <2>1
  <2>4. SoundAt(s, k, lines, l) BY <2>1, <2>2, <2>3, SoundPrefix
  <2>5. s[k] = recs[k] BY <1>3
  <2>6. \A h \in 1..i : h \in 1..n BY <1>2
  <2>7. HoldsAt(s, k, t, lines) BY <1>1, <1>4, <2>2, <2>5, <2>6 DEF HoldsAt
  <2> QED BY <2>4, <2>7
<1> QED BY <1>3, <1>5 DEF Vouched, Sound, Holds

\* An entry without records vouches for nothing.
LEMMA VouchedNone ==
    ASSUME NEW log, NEW lines, NEW l
    PROVE  Vouched(<<>>, log, lines, l)
<1>1. PICK recs : recs = <<>> OBVIOUS
<1>2. 1..Len(recs) = {} BY <1>1, EmptyIsSeq
<1>3. Vouched(recs, log, lines, l) BY <1>2 DEF Vouched, Sound, Holds
<1> QED BY <1>1, <1>3

\* No record that is vouched for reaches further than the log.
LEMMA CorroboratedReaches ==
    ASSUME NEW recs, IsSeq(recs), NEW n, NEW c, c = Corroborated(recs, n)
    PROVE  \A k \in 1..c : recs[k].resume.id # Nil => ~(recs[k].resume.id > n)
<1>1. PICK len \in Nat : len = Len(recs) BY DEF IsSeq
<1> DEFINE I == {i \in 1..Len(recs) : recs[i].resume.id # Nil /\ recs[i].resume.id > n}
<1>2. I \in SUBSET Nat /\ I \subseteq 1..len BY <1>1
<1>3. c = IF (IF I # {} THEN Min(I) ELSE 0) = 0 THEN len
          ELSE (IF I # {} THEN Min(I) ELSE 0) - 1
  BY <1>1 DEF Corroborated, SelectInSeq
<1>4. \A i \in 1..len : recs[i].resume.id # Nil /\ recs[i].resume.id > n => i \in I BY <1>1
<1> HIDE DEF I
<1> SUFFICES ASSUME NEW k \in 1..c, recs[k].resume.id # Nil, recs[k].resume.id > n PROVE FALSE
  OBVIOUS
<1>5. c \in 0..len BY <1>1, CorroboratedIn
<1>6. k \in 1..len BY <1>5
<1>7. k \in I BY <1>4, <1>6
<1>8. PICK m : m = Min(I) OBVIOUS
<1>9. m \in I /\ m <= k BY <1>2, <1>7, <1>8, MinIn
<1>10. m \in 1..len BY <1>2, <1>9
<1>11. c = m - 1 BY <1>3, <1>7, <1>8, <1>10
<1> QED BY <1>6, <1>9, <1>10, <1>11

\* The record recovery resumes from has a resume point.
LEMMA AlignNames ==
    ASSUME NEW recs, IsStream(recs), NEW n, NEW k, k = Align(recs, n), k # 0
    PROVE  recs[k].resume.id # Nil
<1>1. PICK c : c = Corroborated(recs, n) OBVIOUS
<1>2. Len(recs) \in Nat /\ c \in 0..Len(recs) BY <1>1, CorroboratedIn DEF IsStream, IsSeq
<1> DEFINE I == {i \in 1..c : recs[i].resume.id # Nil}
<1>3. k = IF I # {} THEN Max(I) ELSE 0 BY <1>1 DEF Align, SelectLastInSubSeq
<1>4. I \in SUBSET (1..Len(recs)) /\ \A i \in I : recs[i].resume.id # Nil BY <1>2
<1> HIDE DEF I
<1>5. I # {} /\ k = Max(I) BY <1>3
<1>6. k \in I BY <1>2, <1>4, <1>5, MaxIn
<1> QED BY <1>4, <1>6

\* The record recovery resumes from is covered by the log.
LEMMA AlignReaches ==
    ASSUME NEW recs, IsStream(recs), NEW n, n \in Nat, NEW k, k = Align(recs, n), k # 0
    PROVE  /\ k \in 1..Len(recs) /\ recs[k].resume.id \in Nat \ {0} /\ recs[k].resume.from \in Nat
           /\ recs[k].resume.id <= n
<1>1. k \in 1..Len(recs) /\ recs[k].resume.id \in Nat \ {0} /\ recs[k].resume.from \in Nat
  BY AlignIn
<1>2. PICK c : c = Corroborated(recs, n) OBVIOUS
<1>3. Len(recs) \in Nat /\ c \in 0..Len(recs) /\ IsSeq(recs)
  BY <1>2, CorroboratedIn DEF IsStream, IsSeq
<1> DEFINE I == {i \in 1..c : recs[i].resume.id # Nil}
<1>4. k = IF I # {} THEN Max(I) ELSE 0 BY <1>2 DEF Align, SelectLastInSubSeq
<1>5. I \in SUBSET (1..Len(recs)) /\ \A i \in I : i \in 1..c /\ recs[i].resume.id # Nil BY <1>3
<1> HIDE DEF I
<1>6. I # {} /\ k = Max(I) BY <1>4
<1>7. k \in I BY <1>3, <1>5, <1>6, MaxIn
<1>8. k \in 1..c /\ recs[k].resume.id # Nil BY <1>5, <1>7
<1>9. ~(recs[k].resume.id > n) BY <1>2, <1>3, <1>8, CorroboratedReaches
<1>10. PICK d \in Nat : d = recs[k].resume.id BY <1>1
<1>11. d <= n BY <1>9, <1>10
<1> QED BY <1>1, <1>10, <1>11

-----------------------------------------------------------------------------
(* The invariant of a session that was resumed.                            *)

\* The session follows the fold from the start, and as long as the entry is
\* not dirty so do its boundaries.
Following(clean, F, a, lines, n) == On(F, a, lines, n) /\ (clean => Marked(F, a, lines, n))

\* A session about to fold the line it was resumed at follows once it has.
Begun(a, lines, n) ==
    \E F, m, z : /\ m = n + 1 /\ z = AdvanceAt(a, m, lines[m]) /\ z.out = <<>>
                 /\ Following(TRUE, F, z, lines, m)

\* n is where one of the records can be resumed from.
ResumesAt(recs, n) ==
    n \in Nat /\ \E k \in 1..Len(recs) : recs[k].resume.id # Nil /\ recs[k].resume.from = n

\* The session has read a line of the transcript, or began with none.
Reading == \E F : Following(~dirty, F, acc, source, cursor)

\* The session was just resumed, at a point that one of the records names.
Started == ~dirty /\ Begun(acc, source, cursor) /\ ResumesAt(meta, cursor)

\* The inductive invariant: the files vouch for the fold from the start, and
\* the session follows it or is about to.
ResumeInv ==
    /\ exact /\ ~dirty => Vouched(meta, content, source, Len(source))
    /\ up /\ exact => Reading \/ Started

\* Following is of the lines read.
LEMMA FollowingShares ==
    ASSUME NEW s, NEW t, NEW n, Shares(s, t, n), NEW clean, NEW F, NEW a, NEW m,
           Following(clean, F, a, s, m), m <= n
    PROVE  Following(clean, F, a, t, m)
<1>1. On(F, a, s, m) /\ m \in Nat BY DEF Following, On
<1>2. On(F, a, t, m) BY <1>1, OnShares
<1>3. ASSUME clean PROVE Marked(F, a, t, m)
  <2>1. Marked(F, a, s, m) BY <1>3 DEF Following
  <2> QED BY <1>1, <2>1, MarkedShares
<1> QED BY <1>2, <1>3 DEF Following

\* So is being about to.
LEMMA BegunShares ==
    ASSUME NEW s, NEW t, NEW n, Shares(s, t, n), NEW a, NEW k, k \in Nat, Begun(a, s, k), k + 1 <= n
    PROVE  Begun(a, t, k)
<1>1. PICK F, m, z : /\ m = k + 1 /\ z = AdvanceAt(a, m, s[m]) /\ z.out = <<>>
                     /\ Following(TRUE, F, z, s, m)
  BY DEF Begun
<1>2. n \in Nat /\ \A i \in 1..n : s[i] = t[i] BY DEF Shares
<1>3. m \in 1..n /\ m <= n BY <1>1, <1>2
<1>4. s[m] = t[m] BY <1>2, <1>3
<1>5. Following(TRUE, F, z, t, m) BY <1>1, <1>3, FollowingShares
<1>6. z = AdvanceAt(a, m, t[m]) BY <1>1, <1>4
<1> QED BY <1>1, <1>5, <1>6 DEF Begun

\* More lines change nothing for the files.
LEMMA VouchedLonger ==
    ASSUME NEW recs, NEW log, NEW lines, NEW n, NEW l, n \in Nat, l \in Nat, n <= l,
           Vouched(recs, log, lines, n)
    PROVE  Vouched(recs, log, lines, l)
<1>1. ASSUME NEW k \in 1..Len(recs) PROVE SoundAt(recs, k, lines, l)
  <2>1. SoundAt(recs, k, lines, n) BY DEF Vouched, Sound
  <2>2. PICK f : f = recs[k].resume.from OBVIOUS
  <2>3. f \in Nat /\ f + 1 <= n => f + 1 <= l OBVIOUS
  <2> QED BY <2>1, <2>2, <2>3 DEF SoundAt
<1> QED BY <1>1 DEF Vouched, Sound

\* The session that begins as the fold from the start does.
LEMMA ColdFollowing ==
    ASSUME NEW lines \in Seq(Lines), NEW clean
    PROVE  Following(clean, 0, NewAccumulator, lines, 0)
<1>1. On(0, NewAccumulator, lines, 0) BY NewAccFacts, ResetOn
<1>2. PICK a : a = NewAccumulator OBVIOUS
<1>3. a.boundary = <<>> BY <1>2 DEF NewAccumulator
<1>4. 1..Len(a.boundary) = {} BY <1>3, EmptyIsSeq
<1>5. Marked(0, a, lines, 0) BY <1>4 DEF Marked
<1> QED BY <1>1, <1>2, <1>5 DEF Following

\* Each step keeps the invariant. At first there is no record.
LEMMA InitResume == Init => ResumeInv
<1> SUFFICES ASSUME Init PROVE ResumeInv OBVIOUS
<1>1. meta = <<>> /\ up = FALSE BY DEF Init
<1>2. Vouched(meta, content, source, Len(source)) BY <1>1, VouchedNone
<1> QED BY <1>1, <1>2 DEF ResumeInv

\* The agent appends a line: nothing that was said is of it.
LEMMA WriteResume ==
    ASSUME EntryInv, ResumeInv, NEW line \in Lines, Write(line)
    PROVE  ResumeInv'
<1>1. /\ source' = Append(source, line) /\ up' = up /\ acc' = acc /\ cursor' = cursor
      /\ content' = content /\ meta' = meta /\ exact' = exact /\ dirty' = dirty
  BY DEF Write, memory, disk
<1>2. PICK s, t, n : s = source /\ t = source' /\ n = Len(s) OBVIOUS
<1>3. s \in Seq(Lines) BY <1>2 DEF EntryInv
<1>4. n \in Nat BY <1>2, <1>3, LenProperties
<1>5. t \in Seq(Lines) /\ Len(t) = n + 1 /\ \A i \in 1..n : s[i] = t[i]
  <2>1. t = Append(s, line) BY <1>1, <1>2
  <2> QED BY <1>2, <1>3, <1>4, <2>1, AppendProperties
<1>6. Shares(s, t, n) BY <1>2, <1>3, <1>4, <1>5 DEF Shares
<1>7. PICK l : l = Len(t) OBVIOUS
<1>8. l \in Nat /\ n <= l BY <1>4, <1>5, <1>7
<1>9. ASSUME exact, ~dirty PROVE Vouched(meta, content, t, l)
  <2>1. Vouched(meta, content, s, n) BY <1>2, <1>9 DEF ResumeInv
  <2>2. \A k \in 1..Len(meta) : meta[k].resume.id # Nil => meta[k].resume.from + 1 <= n
    BY <2>1 DEF Vouched, Sound, SoundAt
  <2>3. Vouched(meta, content, t, n) BY <1>6, <2>1, <2>2, VouchedShares
  <2> QED BY <1>4, <1>8, <2>3, VouchedLonger
<1>10. ASSUME up, exact, Reading PROVE \E F : Following(~dirty, F, acc, t, cursor)
  <2>1. PICK F : Following(~dirty, F, acc, s, cursor) BY <1>2, <1>10 DEF Reading
  <2>2. cursor <= n BY <1>2, <2>1 DEF Following, On
  <2>3. Following(~dirty, F, acc, t, cursor) BY <1>6, <2>1, <2>2, FollowingShares
  <2> QED BY <2>3
<1>11. ASSUME up, exact, Started
       PROVE ~dirty /\ Begun(acc, t, cursor) /\ ResumesAt(meta, cursor)
  <2>1. ~dirty /\ Begun(acc, s, cursor) /\ ResumesAt(meta, cursor) BY <1>2, <1>11 DEF Started
  <2>2. cursor \in Nat BY <2>1 DEF ResumesAt
  <2>3. cursor + 1 <= n BY <1>2, <2>1 DEF Begun, Following, On
  <2>4. Begun(acc, t, cursor) BY <1>6, <2>1, <2>2, <2>3, BegunShares
  <2> QED BY <2>1, <2>4
<1>12. (exact /\ ~dirty => Vouched(meta, content, source, Len(source)))'
  BY <1>1, <1>2, <1>7, <1>9
<1>13. (up /\ exact => Reading \/ Started)'
  <2> SUFFICES ASSUME up, exact PROVE Reading' \/ Started' BY <1>1
  <2>1. CASE Reading
    <3>1. Reading' BY <1>1, <1>2, <1>10, <2>1 DEF Reading
    <3> QED BY <3>1
  <2>2. CASE Started
    <3>1. Started' BY <1>1, <1>2, <1>11, <2>2 DEF Started
    <3> QED BY <3>1
  <2> QED BY <2>1, <2>2 DEF ResumeInv
<1> QED BY <1>12, <1>13 DEF ResumeInv

-----------------------------------------------------------------------------
\* The transcript is cut: what was read of it is still there, or the entry is
\* dirty and the session no longer exact.
LEMMA ShrinkResume ==
    ASSUME EntryInv, ResumeInv, NEW n \in 1..(Len(source) - 1), Shrink(n)
    PROVE  ResumeInv'
<1>1. PICK below : below = \E rec \in ToSet(meta) : rec.resume.id # Nil /\ rec.resume.from >= n
  OBVIOUS
<1>2. PICK read : read = (up /\ n < cursor) OBVIOUS
<1>3. /\ source' = SubSeq(source, 1, n) /\ up' = up /\ acc' = acc /\ cursor' = cursor
      /\ content' = content /\ meta' = meta
      /\ exact' = (exact /\ ~(up /\ (read \/ below))) /\ dirty' = (dirty \/ below \/ read)
  BY <1>1, <1>2 DEF Shrink, memory, disk
<1>4. PICK s, t, l : s = source /\ t = source' /\ l = Len(s) OBVIOUS
<1>5. s \in Seq(Lines) /\ l \in Nat BY <1>4, LenProperties DEF EntryInv
<1>6. n \in Nat /\ n <= l BY <1>4, <1>5
<1>7. t \in Seq(Lines) /\ Len(t) = n /\ \A i \in 1..n : s[i] = t[i]
  <2>1. t = SubSeq(s, 1, n) BY <1>3, <1>4
  <2>2. t \in Seq(Lines) /\ Len(t) = n BY <1>4, <1>5, <1>6, <2>1, PrefixLines
  <2>3. \A i \in 1..n : t[i] = s[i] BY <1>6, <2>1, SubFirst
  <2> QED BY <2>2, <2>3
<1>8. Shares(s, t, n) BY <1>4, <1>5, <1>6, <1>7 DEF Shares
<1>9. IsStream(meta) /\ cursor \in Nat BY EntryAssumption DEF EntryInv
<1>10. ASSUME ~below, NEW k \in 1..Len(meta), meta[k].resume.id # Nil
       PROVE meta[k].resume.from \in Nat /\ meta[k].resume.from + 1 <= n
  <2>1. PICK rec : rec = meta[k] OBVIOUS
  <2>2. IsRecord(rec) BY <1>9, <2>1 DEF IsStream
  <2>3. rec.resume.from \in Nat BY <1>10, <2>1, <2>2 DEF IsRecord
  <2>4. rec \in ToSet(meta)
    <3>1. DOMAIN meta = 1..Len(meta) BY <1>9, SeqTyped DEF IsStream
    <3> QED BY <2>1, <3>1 DEF ToSet
  <2>5. ~(rec.resume.from >= n) BY <1>1, <1>10, <2>1, <2>4
  <2>6. PICK f \in Nat : f = rec.resume.from BY <2>3
  <2>7. f + 1 <= n BY <1>6, <2>5, <2>6
  <2> QED BY <2>1, <2>6, <2>7
<1>11. ASSUME exact, ~dirty, ~below PROVE Vouched(meta, content, t, n)
  <2>1. Vouched(meta, content, s, l) BY <1>4, <1>11 DEF ResumeInv
  <2>2. \A k \in 1..Len(meta) : meta[k].resume.id # Nil => meta[k].resume.from + 1 <= n
    BY <1>10, <1>11
  <2> QED BY <1>8, <2>1, <2>2, VouchedShares
<1>12. ASSUME up, ~read, Reading PROVE \E F : Following(~dirty, F, acc, t, cursor)
  <2>1. PICK F : Following(~dirty, F, acc, s, cursor) BY <1>4, <1>12 DEF Reading
  <2>2. cursor <= n
    <3>1. ~(n < cursor) BY <1>2, <1>12, Zenon
    <3>2. PICK c \in Nat : c = cursor BY <1>9
    <3>3. ~(n < c) BY <3>1, <3>2
    <3>4. c <= n BY <1>6, <3>3
    <3> QED BY <3>2, <3>4
  <2>3. Following(~dirty, F, acc, t, cursor) BY <1>8, <2>1, <2>2, FollowingShares
  <2> QED BY <2>3
<1>13. ASSUME up, ~below, Started
       PROVE ~dirty /\ Begun(acc, t, cursor) /\ ResumesAt(meta, cursor)
  <2>1. ~dirty /\ Begun(acc, s, cursor) /\ ResumesAt(meta, cursor) BY <1>4, <1>13 DEF Started
  <2>2. PICK k \in 1..Len(meta) : meta[k].resume.id # Nil /\ meta[k].resume.from = cursor
    BY <2>1 DEF ResumesAt
  <2>3. cursor + 1 <= n BY <1>10, <1>13, <2>2
  <2>4. Begun(acc, t, cursor) BY <1>8, <1>9, <2>1, <2>3, BegunShares
  <2> QED BY <2>1, <2>4
<1>14. (exact /\ ~dirty => Vouched(meta, content, source, Len(source)))'
  BY <1>3, <1>4, <1>7, <1>11
<1>15. (up /\ exact => Reading \/ Started)'
  <2> SUFFICES ASSUME up, exact, ~read, ~below PROVE Reading' \/ Started' BY <1>3
  <2>0. dirty' = dirty /\ dirty \in BOOLEAN BY <1>3 DEF EntryInv
  <2>1. CASE Reading
    <3>1. PICK F : Following(~dirty, F, acc, t, cursor) BY <1>12, <2>1
    <3>2. (~dirty') = (~dirty) BY <2>0
    <3>3. Following(~dirty', F, acc', source', cursor') BY <1>3, <1>4, <3>1, <3>2
    <3>4. Reading' BY <3>3 DEF Reading
    <3> QED BY <3>4
  <2>2. CASE Started
    <3>1. ~dirty /\ Begun(acc, t, cursor) /\ ResumesAt(meta, cursor) BY <1>13, <2>2
    <3>2. ~dirty' /\ Begun(acc', source', cursor') /\ ResumesAt(meta', cursor')
      BY <1>3, <1>4, <2>0, <3>1
    <3>3. Started' BY <3>2 DEF Started
    <3> QED BY <3>3
  <2> QED BY <2>1, <2>2 DEF ResumeInv
<1> QED BY <1>14, <1>15 DEF ResumeInv

\* Of each file a prefix survives: both are still those of the fold from the
\* start, as far as they reach.
LEMMA CrashResume ==
    ASSUME EntryInv, ResumeInv, Crash
    PROVE  ResumeInv'
<1>1. PICK i \in 0..Len(content), j \in 0..Len(meta) :
         content' = SubSeq(content, 1, i) /\ meta' = SubSeq(meta, 1, j)
  BY DEF Crash
<1>2. up' = FALSE /\ source' = source /\ exact' = exact /\ dirty' = dirty BY DEF Crash
<1>3. IsStream(meta) /\ IsSeq(content) BY DEF EntryInv
<1>4. ASSUME exact, ~dirty PROVE Vouched(meta', content', source, Len(source))
  <2>1. PICK l : l = Len(source) OBVIOUS
  <2>2. Vouched(meta, content, source, l) BY <1>4, <2>1 DEF ResumeInv
  <2>3. Vouched(meta', content', source, l) BY <1>1, <1>3, <2>2, VouchedPrefix
  <2> QED BY <2>1, <2>3
<1>5. (exact /\ ~dirty => Vouched(meta, content, source, Len(source)))' BY <1>2, <1>4
<1>6. (up /\ exact => Reading \/ Started)' BY <1>2
<1> QED BY <1>5, <1>6 DEF ResumeInv

\* An entry begun afresh.
LEMMA ColdResume ==
    ASSUME EntryInv, ResumeInv, AdmitCold
    PROVE  ResumeInv'
<1>1. /\ acc' = NewAccumulator /\ cursor' = 0 /\ content' = <<>> /\ meta' = <<>>
      /\ exact' = TRUE /\ dirty' = FALSE /\ up' = TRUE /\ source' = source
  BY DEF AdmitCold
<1>2. source \in Seq(Lines) BY DEF EntryInv
<1>3. Following(~dirty', 0, NewAccumulator, source, 0) BY <1>2, ColdFollowing
<1>4. Following(~dirty', 0, acc', source', cursor') BY <1>1, <1>3
<1>5. Reading' BY <1>4 DEF Reading
<1>6. Vouched(meta', content', source', Len(source')) BY <1>1, VouchedNone
<1> QED BY <1>5, <1>6 DEF ResumeInv

\* A record that can be resumed from, and a log that is covered by it.
LEMMA PointBegins ==
    ASSUME NEW lines \in Seq(Lines), NEW recs, IsStream(recs), NEW log, IsSeq(log),
           NEW l, l = Len(lines), Vouched(recs, log, lines, l), NEW n, n = Len(log),
           NEW k, k = Align(recs, n), k # 0, NEW resume, resume = recs[k].resume,
           Repeats(lines, resume.from), NEW kept, kept = SubSeq(log, 1, resume.id),
           NEW mm, mm = MetaAt(recs, k), NEW a, a = Restore(mm, resume, kept)
    PROVE  Begun(a, lines, resume.from)
<1>1. n \in Nat BY DEF IsSeq
<1>2. /\ k \in 1..Len(recs) /\ resume.id \in Nat \ {0} /\ resume.from \in Nat /\ resume.id <= n
  BY <1>1, AlignReaches
<1>3. PICK f, g, d : f = resume.from /\ g = f + 1 /\ d = resume.id OBVIOUS
<1>4. SoundAt(recs, k, lines, l) /\ HoldsAt(recs, k, log, lines) BY <1>2 DEF Vouched, Sound, Holds
<1>5. resume.id # Nil
  <2>1. recs[k].resume.id # Nil
    <3>1. Align(recs, n) # 0 OBVIOUS
    <3> QED BY <3>1, AlignNames
  <2> QED BY <2>1
<1>6. f \in Nat /\ g <= l /\ Point(recs, k, lines) BY <1>3, <1>4, <1>5 DEF SoundAt
<1>7. PICK b, c : b = Upto(lines, f) /\ c = Upto(lines, g) OBVIOUS
<1>8. Meets(b, c) /\ d = Len(c.log) /\ Carries(mm, b, c, f) BY <1>3, <1>6, <1>7 DEF Point
<1>9. \A i \in 1..n : i <= d => log[i] = c.log[i] BY <1>3, <1>4, <1>5, <1>7 DEF HoldsAt
<1>10. l \in Nat /\ g \in Nat BY <1>3, <1>6, LenProperties
<1>11. IsSeq(c.log)
  <2>1. Honest(c) BY <1>6, <1>7, <1>10, UptoHonest
  <2> QED BY <2>1 DEF Honest, IsAcc
<1>12. kept = c.log
  <2>1. d \in Nat /\ d <= n BY <1>2, <1>3
  <2>2. IsSeq(kept) /\ Len(kept) = d /\ \A i \in 1..d : kept[i] = log[i] BY <1>3, <2>1, SubFirst
  <2>3. \A i \in 1..d : i \in 1..n /\ i <= d BY <1>1, <2>1
  <2>4. \A i \in 1..d : kept[i] = c.log[i] BY <1>9, <2>2, <2>3
  <2>5. PICK u : u = c.log OBVIOUS
  <2> QED BY <1>8, <1>11, <2>2, <2>4, <2>5, SameSeq
<1>13. IsMeta(mm)
  <2>1. k \in 0..Len(recs) BY <1>2
  <2> QED BY <2>1, MetaIsMeta
<1>14. IsSeq(kept) BY <1>11, <1>12
<1>15. Restored(a, mm, c.log) BY <1>12, <1>13, <1>14, RestoreIs
<1>16. PICK z : z = AdvanceAt(a, g, lines[g]) OBVIOUS
<1>17. \E F : On(F, z, lines, g) /\ Marked(F, z, lines, g) /\ z.out = <<>>
  <2>1. lines \in Seq(Lines) /\ f \in Nat /\ g = f + 1 /\ g <= Len(lines) BY <1>3, <1>6
  <2>2. Repeats(lines, f) BY <1>3
  <2>3. b = Upto(lines, f) /\ c = Upto(lines, g) /\ Meets(b, c) /\ Carries(mm, b, c, f)
    BY <1>7, <1>8
  <2> QED BY ONLY <1>15, <1>16, <2>1, <2>2, <2>3, ResumeStart
<1>18. PICK F : On(F, z, lines, g) /\ Marked(F, z, lines, g) /\ z.out = <<>> BY <1>17
<1>19. Following(TRUE, F, z, lines, g) BY <1>18 DEF Following
<1> QED BY <1>3, <1>16, <1>18, <1>19 DEF Begun

\* A resume: the point `align` chooses is one both files reach, so the
\* restored session has the log and the record of the fold from the start.
LEMMA ResumedResume ==
    ASSUME EntryInv, ResumeInv, AdmitResumed
    PROVE  ResumeInv'
<1>1. PICK n : n = Len(content) OBVIOUS
<1>2. PICK k : k = Align(meta, n) OBVIOUS
<1>3. PICK resume : resume = meta[k].resume OBVIOUS
<1>4. PICK log : log = SubSeq(content, 1, resume.id) OBVIOUS
<1>5. PICK mm : mm = MetaAt(meta, k) OBVIOUS
<1>6. /\ acc' = Restore(mm, resume, log) /\ cursor' = resume.from /\ content' = log
      /\ meta' = SubSeq(meta, 1, k) /\ up' = TRUE /\ source' = source /\ dirty' = dirty
      /\ exact' = (exact /\ ~dirty /\ Repeats(source, resume.from))
  BY <1>1, <1>2, <1>3, <1>4, <1>5 DEF AdmitResumed
<1>7. k # 0 BY <1>1, <1>2 DEF AdmitResumed, Resumable
<1>8. source \in Seq(Lines) /\ IsStream(meta) /\ IsSeq(content) BY DEF EntryInv
<1>9. n \in Nat BY <1>1, <1>8 DEF IsSeq
<1>10. /\ k \in 1..Len(meta) /\ resume.id \in Nat \ {0} /\ resume.from \in Nat /\ resume.id <= n
  BY <1>2, <1>3, <1>7, <1>8, <1>9, AlignReaches
<1> SUFFICES ASSUME exact, ~dirty, Repeats(source, resume.from) PROVE ResumeInv'
  BY <1>6 DEF ResumeInv
<1>11. PICK l : l = Len(source) OBVIOUS
<1>12. Vouched(meta, content, source, l) BY <1>11 DEF ResumeInv
<1>13. PICK a : a = acc' OBVIOUS
<1>14. Begun(a, source, resume.from)
  <2>1. a = Restore(mm, resume, log) BY <1>6, <1>13
  <2> QED BY <1>1, <1>2, <1>3, <1>4, <1>5, <1>7, <1>8, <1>11, <1>12, <2>1, PointBegins
<1>15. Vouched(meta', content', source, l)
  <2>1. resume.id \in 0..Len(content) /\ k \in 0..Len(meta) BY <1>1, <1>9, <1>10
  <2> QED BY <1>4, <1>6, <1>8, <1>12, <2>1, VouchedPrefix
<1>16. ResumesAt(meta', resume.from)
  <2>1. k \in Nat
    <3>1. Len(meta) \in Nat BY <1>8 DEF IsStream, IsSeq
    <3> QED BY <1>10, <3>1
  <2>2. PICK recs : recs = meta' OBVIOUS
  <2>3. Len(recs) = k /\ \A j \in 1..k : recs[j] = meta[j] BY <1>6, <2>1, <2>2, SubFirst
  <2>4. k \in 1..k BY <1>7, <2>1
  <2>5. recs[k].resume = resume BY <1>3, <2>3, <2>4
  <2>6. meta[k].resume.id # Nil BY <1>2, <1>7, <1>8, AlignNames
  <2>7. recs[k].resume.id # Nil /\ recs[k].resume.from = resume.from BY <1>3, <2>5, <2>6
  <2> QED BY <1>10, <2>2, <2>3, <2>4, <2>7 DEF ResumesAt
<1>17. Started' BY <1>6, <1>13, <1>14, <1>16 DEF Started
<1> QED BY <1>6, <1>11, <1>15, <1>17 DEF ResumeInv

-----------------------------------------------------------------------------
\* A fold that goes on from where the session is, all the way to the end.
LEMMA ReadFollowing ==
    ASSUME NEW clean, clean \in BOOLEAN, NEW F, NEW a, NEW lines, NEW recs, NEW from, NEW g, NEW n,
           NEW h, lines \in Seq(Lines), IsStream(recs), from \in Nat, Reads(g, a, lines, from, n),
           h \in 0..n, NEW k, k = from + h, Following(clean, F, g[h], lines, k),
           NEW l, l = Len(lines),
           clean => Ties(g[h], recs) /\ Sound(recs \o g[h].out, lines, l),
           NEW z, z = AdvanceOver(a, lines, from)
    PROVE  Following(clean, F, z, lines, l) /\ (clean => Sound(recs \o z.out, lines, l))
<1>1. Keeps(clean, F, g[h], lines, recs, k) BY Zenon DEF Keeps, Following
<1>2. Keeps(clean, F, g[n], lines, recs, l) BY <1>1, ReadKeeps
<1>3. z = g[n] BY DEF Reads
<1>4. Keeps(clean, F, z, lines, recs, l) BY <1>2, <1>3
<1> QED BY <1>4 DEF Keeps, Following

\* What a session has written is no longer in its accumulator.
LEMMA FollowingOut ==
    ASSUME NEW clean, clean \in BOOLEAN, NEW F, NEW a, NEW lines, NEW n, Following(clean, F, a, lines, n),
           NEW z, z = [a EXCEPT !.out = <<>>]
    PROVE  Following(clean, F, z, lines, n)
<1>1. On(F, a, lines, n) /\ (clean => Marked(F, a, lines, n)) BY DEF Following
<1>2. IsAcc(a) BY <1>1 DEF On
<1>3. /\ DOMAIN z = AccFields /\ z.out = <<>> /\ z.r = a.r /\ z.log = a.log
      /\ z.boundary = a.boundary /\ z.emitted = a.emitted /\ z.tokens = a.tokens
      /\ z.turns = a.turns /\ z.inbox = a.inbox /\ z.seen = a.seen
  BY <1>2 DEF IsAcc, AccFields
<1>4. IsAcc(z) BY <1>2, <1>3, EmptyStream DEF IsAcc
<1>5. On(F, z, lines, n) BY <1>1, <1>3, <1>4 DEF On, Follows
<1>6. ASSUME clean PROVE Marked(F, z, lines, n)
  <2>1. Marked(F, a, lines, n) BY <1>1, <1>6
  <2> QED BY <1>3, <2>1 DEF Marked
<1> QED BY <1>5, <1>6 DEF Following

\* A tick that reads on, of a session that is at the fold from the start or one
\* line before it.
LEMMA TickReads ==
    ASSUME EntryInv, ResumeInv, up, exact, cursor < Len(source), NEW clean, clean = ~dirty,
           NEW a, a = AdvanceOver(acc, source, cursor), NEW l, l = Len(source)
    PROVE  \E F : Following(clean, F, a, source, l) /\ (clean => Sound(meta \o a.out, source, l))
<1>1. PICK lines, recs, from : lines = source /\ recs = meta /\ from = cursor OBVIOUS
<1>2. lines \in Seq(Lines) /\ IsStream(recs) /\ IsAcc(acc) /\ acc.out = <<>> /\ dirty \in BOOLEAN
  BY <1>1 DEF EntryInv
<1>3. clean \in BOOLEAN BY <1>2
<1>4. l \in Nat /\ from \in Nat /\ from < l
  BY <1>1, <1>2, LenProperties, EntryAssumption DEF EntryInv
<1>5. PICK g, n : Reads(g, acc, lines, from, n)
  <2>1. from \in 0..Len(lines) BY <1>1, <1>4
  <2> QED BY <1>2, <2>1, ReadCourse
<1>6. n \in Nat /\ n = l - from /\ g[0] = acc /\ n >= 1 BY <1>1, <1>4, <1>5 DEF Reads
<1>7. ASSUME clean PROVE Ties(acc, recs) /\ Sound(recs \o acc.out, lines, l)
  <2>1. ~dirty BY <1>7
  <2>2. Tied BY <2>1 DEF EntryInv
  <2>3. IsSeq(recs) BY <1>2 DEF IsStream
  <2>4. recs \o acc.out = recs BY <1>2, <2>3, ConcatNone
  <2>5. Ties(acc, recs) BY <1>1, <2>2, <2>4 DEF Tied, Ties
  <2>6. Sound(recs, lines, l) BY <1>1, <2>1 DEF ResumeInv, Vouched
  <2> QED BY <2>4, <2>5, <2>6
<1>8. CASE Reading
  <2>1. PICK F : Following(clean, F, acc, lines, from) BY <1>1, <1>8 DEF Reading
  <2>2. PICK h, k : h = 0 /\ k = from + h OBVIOUS
  <2>3. h \in 0..n /\ k = from /\ g[h] = acc BY <1>4, <1>6, <2>2
  <2>4. Following(clean, F, g[h], lines, k) BY <2>1, <2>3
  <2>5. clean => Ties(g[h], recs) /\ Sound(recs \o g[h].out, lines, l) BY <1>7, <2>3
  <2>6. a = AdvanceOver(acc, lines, from) /\ l = Len(lines) BY <1>1
  <2>7. Following(clean, F, a, lines, l) /\ (clean => Sound(recs \o a.out, lines, l))
    BY <1>2, <1>3, <1>4, <1>5, <2>2, <2>3, <2>4, <2>5, <2>6, ReadFollowing
  <2> QED BY <1>1, <2>7
<1>9. CASE Started
  <2>1. ~dirty /\ Begun(acc, lines, from) BY <1>1, <1>9 DEF Started
  <2>2. clean = TRUE BY <2>1
  <2>3. PICK F, m, z : /\ m = from + 1 /\ z = AdvanceAt(acc, m, lines[m]) /\ z.out = <<>>
                       /\ Following(TRUE, F, z, lines, m)
    BY <2>1 DEF Begun
  <2>4. PICK h : h = 1 OBVIOUS
  <2>5. h \in 0..n /\ h \in 1..n /\ m = from + h /\ h - 1 = 0 BY <1>6, <2>3, <2>4
  <2>6. g[h] = z
    <3>1. g[h] = AdvanceAt(g[h - 1], from + h, lines[from + h]) BY <1>5, <2>5 DEF Reads
    <3> QED BY <1>6, <2>3, <2>5, <3>1
  <2>7. Ties(z, recs)
    <3>1. m \in Nat \ {0} /\ m \in 1..l BY <1>4, <1>6, <2>3
    <3>2. lines[m] \in Lines BY <1>1, <1>2, <3>1
    <3> QED BY <1>2, <1>7, <2>2, <2>3, <3>1, <3>2, AdvanceFacts
  <2>8. Sound(recs \o z.out, lines, l) BY <1>2, <1>7, <2>2, <2>3
  <2>9. Following(clean, F, g[h], lines, m) BY <2>2, <2>3, <2>6
  <2>10. clean => Ties(g[h], recs) /\ Sound(recs \o g[h].out, lines, l) BY <2>6, <2>7, <2>8
  <2>11. a = AdvanceOver(acc, lines, from) /\ l = Len(lines) BY <1>1
  <2>12. Following(clean, F, a, lines, l) /\ (clean => Sound(recs \o a.out, lines, l))
    BY <1>2, <1>3, <1>4, <1>5, <2>5, <2>9, <2>10, <2>11, ReadFollowing
  <2> QED BY <1>1, <2>12
<1> QED BY <1>8, <1>9 DEF ResumeInv

\* A tick that finds the transcript cut begins again, and no record is trusted.
LEMMA TickResets ==
    ASSUME EntryInv, NEW a, a = AdvanceOver(Reset(acc), source, 0), NEW l, l = Len(source)
    PROVE  Following(FALSE, 0, a, source, l)
<1>1. PICK b, lines, recs : b = Reset(acc) /\ lines = source /\ recs = meta OBVIOUS
<1>2. lines \in Seq(Lines) /\ IsStream(recs) /\ IsAcc(acc) BY <1>1 DEF EntryInv
<1>3. On(0, b, lines, 0) BY <1>1, <1>2, ResetOn
<1>4. PICK from, h, k : from = 0 /\ h = 0 /\ k = from + h OBVIOUS
<1>5. PICK g, n : Reads(g, b, lines, from, n)
  <2>1. from \in 0..Len(lines) BY <1>2, <1>4, LenProperties
  <2> QED BY <1>2, <2>1, ReadCourse
<1>6. n \in Nat /\ g[0] = b BY <1>5 DEF Reads
<1>7. from \in Nat /\ h \in 0..n /\ k = 0 /\ g[h] = b BY <1>4, <1>6
<1>8. Following(FALSE, 0, g[h], lines, k) BY <1>3, <1>7 DEF Following
<1>9. a = AdvanceOver(b, lines, from) /\ l = Len(lines) BY <1>1, <1>4
<1>10. FALSE => Ties(g[h], recs) /\ Sound(recs \o g[h].out, lines, l) OBVIOUS
<1>11. FALSE \in BOOLEAN OBVIOUS
<1>12. Following(FALSE, 0, a, lines, l)
  BY ONLY <1>2, <1>4, <1>5, <1>7, <1>8, <1>9, <1>10, <1>11, ReadFollowing
<1> QED BY <1>1, <1>12

\* A tick: the lines it reads, and the records it writes.
LEMMA TickResume ==
    ASSUME EntryInv, ResumeInv, Tick
    PROVE  ResumeInv'
<1>1. PICK l : l = Len(source) OBVIOUS
<1>2. source \in Seq(Lines) /\ l \in Nat /\ cursor \in Nat /\ dirty \in BOOLEAN /\ exact \in BOOLEAN
  BY <1>1, LenProperties, EntryAssumption DEF EntryInv
<1>3. up /\ cursor # l /\ cursor' = l /\ source' = source /\ up' = up BY <1>1 DEF Tick
<1>4. l <= Len(source) BY <1>1, <1>2
<1>5. CASE l < cursor
  <2>1. PICK a : a = AdvanceOver(Reset(acc), source, 0) OBVIOUS
  <2>2. acc' = [a EXCEPT !.out = <<>>] /\ dirty' = TRUE BY <1>1, <1>5, <2>1 DEF Tick
  <2>3. Following(FALSE, 0, a, source, l) BY <1>1, <2>1, TickResets
  <2>4. PICK z : z = acc' OBVIOUS
  <2>5. Following(FALSE, 0, z, source, l) BY <2>2, <2>3, <2>4, FollowingOut
  <2>6. Following(~dirty', 0, acc', source', cursor') BY <1>3, <2>2, <2>4, <2>5
  <2>7. Reading' BY <2>6 DEF Reading
  <2> QED BY <2>2, <2>7 DEF ResumeInv
<1>6. CASE ~(l < cursor)
  <2>1. PICK a : a = AdvanceOver(acc, source, cursor) OBVIOUS
  <2>2. /\ acc' = [a EXCEPT !.out = <<>>] /\ content' = a.log /\ meta' = meta \o a.out
        /\ dirty' = dirty /\ exact' = exact
    BY <1>1, <1>2, <1>6, <2>1 DEF Tick
  <2>3. cursor < l BY <1>2, <1>3, <1>6
  <2> SUFFICES ASSUME exact PROVE ResumeInv' BY <2>2 DEF ResumeInv
  <2>4. PICK clean : clean = ~dirty OBVIOUS
  <2>5. clean \in BOOLEAN BY <1>2, <2>4
  <2>6. PICK F : Following(clean, F, a, source, l) /\ (clean => Sound(meta \o a.out, source, l))
    BY <1>1, <1>3, <2>1, <2>3, <2>4, TickReads
  <2>7. PICK z : z = acc' OBVIOUS
  <2>8. Following(clean, F, z, source, l) BY <2>2, <2>5, <2>6, <2>7, FollowingOut
  <2>9. (~dirty') = clean BY <2>2, <2>4
  <2>10. Following(~dirty', F, acc', source', cursor') BY <1>3, <2>7, <2>8, <2>9
  <2>11. Reading' BY <2>10 DEF Reading
  <2>12. ASSUME ~dirty PROVE Vouched(meta', content', source, l)
    <3>1. Sound(meta', source, l) BY <2>2, <2>4, <2>6, <2>12
    <3>2. On(F, a, source, l) BY <2>6 DEF Following
    <3>3. content' = Upto(source, l).log BY <2>2, <3>2 DEF On, Follows
    <3>4. IsStream(meta')
      <4>1. IsStream(meta) BY DEF EntryInv
      <4>2. IsStream(a.out) BY <3>2 DEF On, IsAcc
      <4> QED BY <2>2, <4>1, <4>2, StreamConcat
    <3>5. PICK recs, log : recs = meta' /\ log = content' OBVIOUS
    <3>6. Sound(recs, source, l) /\ log = Upto(source, l).log /\ IsStream(recs)
      BY <3>1, <3>3, <3>4, <3>5
    <3>7. l <= l /\ l \in Nat /\ source \in Seq(Lines) BY <1>2
    <3>8. Holds(recs, log, source) BY ONLY <1>1, <3>6, <3>7, HoldsOf
    <3> QED BY <3>5, <3>6, <3>8 DEF Vouched
  <2> QED BY <1>1, <1>3, <2>2, <2>11, <2>12 DEF ResumeInv
<1> QED BY <1>5, <1>6

\* Every step.
LEMMA NextResume == EntryInv /\ ResumeInv /\ [Next]_vars => ResumeInv'
<1> SUFFICES ASSUME EntryInv, ResumeInv, [Next]_vars PROVE ResumeInv' OBVIOUS
<1>1. CASE \E line \in Lines : Write(line) BY <1>1, WriteResume
<1>2. CASE \E n \in 1..(Len(source) - 1) : Shrink(n) BY <1>2, ShrinkResume
<1>3. CASE Tick BY <1>3, TickResume
<1>4. CASE Crash BY <1>4, CrashResume
<1>5. CASE AdmitResumed BY <1>5, ResumedResume
<1>6. CASE AdmitCold BY <1>6, ColdResume
<1>7. CASE UNCHANGED vars
  <2>1. /\ source' = source /\ up' = up /\ acc' = acc /\ cursor' = cursor /\ content' = content
        /\ meta' = meta /\ exact' = exact /\ dirty' = dirty
    BY <1>7 DEF vars
  <2>2. (exact /\ ~dirty => Vouched(meta, content, source, Len(source)))'
    BY <2>1 DEF ResumeInv
  <2>3. (up /\ exact => Reading \/ Started)'
    <3> SUFFICES ASSUME up, exact PROVE Reading' \/ Started' BY <2>1
    <3>1. Reading => Reading' BY <2>1 DEF Reading
    <3>2. Started => Started' BY <2>1 DEF Started
    <3> QED BY <3>1, <3>2 DEF ResumeInv
  <2> QED BY <2>2, <2>3 DEF ResumeInv
<1> QED BY <1>1, <1>2, <1>3, <1>4, <1>5, <1>6, <1>7 DEF Next

\* A session that follows and has read everything shows what the fold from
\* the start shows.
LEMMA ResumeIsExact == EntryInv /\ ResumeInv => ResumeExact
<1> SUFFICES ASSUME EntryInv, ResumeInv, CaughtUp, exact PROVE View(acc) = View(Cold(source))
  BY DEF ResumeExact
<1>1. up /\ cursor = Len(source) BY DEF CaughtUp
<1>2. PICK l : l = Len(source) OBVIOUS
<1>3. source \in Seq(Lines) /\ IsAcc(acc) BY DEF EntryInv
<1>4. l \in Nat BY <1>2, <1>3, LenProperties
<1>5. Reading
  <2> SUFFICES ASSUME Started PROVE FALSE BY <1>1 DEF ResumeInv
  <2>1. l + 1 <= l BY <1>1, <1>2 DEF Started, Begun, Following, On
  <2> QED BY <1>4, <2>1
<1>6. PICK F : On(F, acc, source, l) BY <1>1, <1>2, <1>5 DEF Reading, Following
<1>7. Upto(source, l) = Cold(source)
  <2>1. IsSeq(source) BY <1>3, TypedSeq
  <2> QED BY <1>2, <2>1, SubAll DEF Upto
<1>8. PICK b : b = Cold(source) OBVIOUS
<1>9. Follows(F, acc, b) BY <1>6, <1>7, <1>8 DEF On
<1>10. IsAcc(b)
  <2>1. l <= Len(source) BY <1>2, <1>4
  <2> QED BY <1>3, <1>4, <1>7, <1>8, <2>1, UptoHonest DEF Honest
<1> QED BY <1>3, <1>8, <1>9, <1>10, FollowsView

\* For every set of lines, every bound, any number of crashes and resumes:
\* a caught-up session shows, block for block, time for time and count for
\* count, what one fold of the whole transcript shows, as long as it is
\* `exact` (DurableEntry: the transcript only grew, and each resume was at a
\* line that repeats). The code behaviour: `author_resume` writes a point of
\* resume into a record, `recover` chooses the newest one the header, both
\* files and the transcript allow, and `restore` folds on from there.
THEOREM ResumeAlwaysExact == Spec => []ResumeExact
<1>1. Init => ResumeInv BY InitResume
<1>2. EntryInv /\ ResumeInv /\ [Next]_vars => ResumeInv' BY NextResume
<1>3. EntryInv /\ ResumeInv => ResumeExact BY ResumeIsExact
<1>4. Spec => []EntryInv BY EntryInvariant
<1> QED BY <1>1, <1>2, <1>3, <1>4, PTL DEF Spec
=============================================================================
