------------------------- MODULE CodexGatewayProofs -------------------------
(***************************************************************************)
(* The theorems about CodexGateway, for every set of handlers, actions and *)
(* bodies and every bound: its types, the truth of its answers, a steer    *)
(* only once, the quiet disconnect, the full store, and that it implements *)
(* OneShot.                                                                *)
(*                                                                         *)
(* The argument: an action has one carrier at a time.  It is with a        *)
(* handler that has not called yet, in the command channel, on the wire,   *)
(* or done; each step moves it on, and only where nothing is left of it    *)
(* may its outcome be "rejected".                                          *)
(***************************************************************************)
EXTENDS CodexGateway, TLAPS

\* Nothing of action a was ever sent.
Fresh(a) ==
    /\ native[a] = <<>>
    /\ \A c \in channel : c.a # a
    /\ \A w \in wire : w.a # a

\* Action a did not run and never will.
Over(a) ==
    /\ native[a] = <<>>
    /\ \A c \in channel : c.a # a
    /\ \A w \in wire : w.a = a => w.reply = "error"

Working(h) == pc[h] \notin {"idle", "claim"}

\* A handler at work is the only one on its action, whose row is uncertain.
WorkInv ==
    /\ \A h \in Handlers : pc[h] # "idle" =>
          act[h] \in Actions /\ pay[h] \in Payloads /\ answer[h] = "none"
    /\ \A h \in Handlers : Working(h) =>
          receipt[act[h]] = "uncertain" /\ act[h] \notin retired /\ claimedAs[act[h]] = pay[h]
    /\ \A g, h \in Handlers : Working(g) /\ Working(h) /\ act[g] = act[h] => g = h

\* An identity has a fingerprint while it has a row in one of the tables, never in both.
RowInv ==
    \A a \in Actions :
        /\ a \in retired => receipt[a] = "none"
        /\ claimedAs[a] # None <=> receipt[a] # "none" \/ a \in retired
        /\ receipt[a] = "none" /\ a \notin retired => Fresh(a)
        /\ receipt[a] = "accepted" => native[a] # <<>>
        /\ receipt[a] = "rejected" => Over(a)
        /\ native[a] # <<>> => native[a] = <<claimedAs[a]>>

\* A command is all there is of its action; its handler waits, or has given up.
CommandInv(c) ==
    /\ receipt[c.a] = "uncertain" /\ c.a \notin retired /\ c.p = claimedAs[c.a]
    /\ native[c.a] = <<>>
    /\ \A d \in channel : d.a = c.a => d = c
    /\ \A w \in wire : w.a # c.a
    /\ c.late \/ c.heard
    /\ c.heard => pc[c.h] = "wait" /\ act[c.h] = c.a

ChannelInv == \A c \in channel : CommandInv(c)

\* So is a packet.
PacketInv(w) ==
    /\ \A x \in wire : x.a = w.a => x = w
    /\ w.p = claimedAs[w.a]
    /\ w.reply = "none" => receipt[w.a] = "uncertain" /\ w.a \notin retired /\ native[w.a] = <<>>
    /\ w.reply = "ok" => native[w.a] # <<>>
    /\ w.reply = "error" => native[w.a] = <<>>

WireInv == \A w \in wire : PacketInv(w)

\* A call in the worker's table has left the channel, and its handler waits.
PendingInv ==
    \A c \in pending :
        /\ pc[c.h] = "wait" /\ act[c.h] = c.a
        /\ \A d \in channel : d.a # c.a

\* What each stage of a handler knows of its action.
StageInv ==
    \A h \in Handlers :
        /\ pc[h] \in {"prepare", "bind", "call"} => Fresh(act[h])
        /\ pc[h] = "release" => Over(act[h])
        /\ pc[h] = "follow" => native[act[h]] # <<>>
        /\ pc[h] = "finish" =>
              /\ res[h] # "none"
              /\ res[h] = "rejected" => Over(act[h])
              /\ res[h] = "accepted" => native[act[h]] # <<>>

\* A verdict a device holds agrees with the row it came from.
AnswerInv ==
    \A h \in Handlers :
        /\ answer[h] = "accepted" => act[h] \in Actions /\ native[act[h]] # <<>>
        /\ answer[h] = "rejected" =>
              /\ act[h] \in Actions /\ native[act[h]] = <<>>
              /\ receipt[act[h]] = "rejected" \/ act[h] \in retired

\* A steer holds its submission from before its call until it is certainly over.
Tied(a, p) == p \in Steers => binding[Sub[p]] = a

SteerInv ==
    /\ \A h \in Handlers : pc[h] \in {"bind", "release"} => pay[h] \in Steers
    /\ \A h \in Handlers : pc[h] \in {"call", "wait", "follow"} => Tied(act[h], pay[h])
    /\ \A c \in channel : Tied(c.a, c.p)
    /\ \A w \in wire : w.reply # "error" => Tied(w.a, w.p)
    /\ \A a \in Actions : native[a] # <<>> => Tied(a, claimedAs[a])

\* While disconnect() is left alone, nobody works and nothing becomes accepted.
QuietInv ==
    /\ lifecycle # "active" => \A h \in Handlers : pc[h] = "idle"
    /\ leaving.stage # "no" /\ ~leaving.touched => \A h \in Handlers : pc[h] = "idle"
    /\ leaving.stage = "checked" /\ ~leaving.touched =>
          \A a \in Actions : receipt[a] = "accepted" => a \in vouched
    /\ QuietWhenReleased

IInv ==
    /\ TypeOK /\ WorkInv /\ RowInv /\ ChannelInv /\ WireInv /\ PendingInv /\ StageInv
    /\ AnswerInv /\ SteerInv /\ QuietInv

(***************************************************************************)
(* What the shared parts of the actions do to the handlers and the tables. *)
(***************************************************************************)

\* The types of what a handler keeps.
HandlerTypes ==
    /\ pc \in [Handlers -> Stages] /\ act \in [Handlers -> Actions \cup {None}]
    /\ pay \in [Handlers -> Payloads \cup {None}] /\ seen \in [Handlers -> Nat]
    /\ res \in [Handlers -> Verdicts \cup {"none", "uncertain"}]
    /\ answer \in [Handlers -> Answers]

\* Handler h answers x.
Replied(h, x) ==
    /\ pc'[h] = "idle" /\ res'[h] = "none" /\ answer'[h] = x
    /\ act'[h] = IF x \in Verdicts THEN act[h] ELSE None
    /\ \A g \in Handlers : g # h =>
          pc'[g] = pc[g] /\ res'[g] = res[g] /\ answer'[g] = answer[g] /\ act'[g] = act[g]
          /\ pay'[g] = pay[g]

\* The handlers of W go on with the answer r of their call.
Delivered(W, r) ==
    /\ \A g \in Handlers : g \notin W => pc'[g] = pc[g] /\ res'[g] = res[g]
    /\ \A g \in W :
          /\ pc'[g] \in {"follow", "release", "finish"}
          /\ pc'[g] = "follow" => r = "ok"
          /\ pc'[g] = "release" => r = "failed" /\ pay[g] \in Steers
          /\ pc'[g] = "finish" => \/ r = "failed" /\ res'[g] = "rejected"
                                  \/ r = "uncertain" /\ res'[g] = "uncertain"

\* A reply ends the request of its handler and leaves the others alone.
LEMMA ReplyEffect ==
    ASSUME TypeOK, NEW h \in Handlers, NEW x \in Answers, Reply(h, x)
    PROVE  HandlerTypes' /\ Replied(h, x)
<1> USE DEF TypeOK, Reply, Goto
<1>1. HandlerTypes'
  BY DEF HandlerTypes, Stages, Verdicts, Answers
<1>2. Replied(h, x)
  BY DEF Replied
<1> QED BY <1>1, <1>2

\* An answer of the worker reaches the handlers it is for.
LEMMA DeliverEffect ==
    ASSUME TypeOK, NEW W \in SUBSET Handlers, NEW r \in {"ok", "failed", "uncertain"},
           Deliver(W, r)
    PROVE  /\ pc' \in [Handlers -> Stages]
           /\ res' \in [Handlers -> Verdicts \cup {"none", "uncertain"}]
           /\ Delivered(W, r)
<1>1. \A g \in Handlers : Stage(g, r) \in {"follow", "release", "finish"}
  BY DEF Stage
<1>2. \A g \in Handlers : Outcome(g, r) \in {"none", "rejected", "uncertain"}
  BY DEF Outcome
<1>3. pc' \in [Handlers -> Stages]
  BY <1>1 DEF TypeOK, Deliver, Stages
<1>4. res' \in [Handlers -> Verdicts \cup {"none", "uncertain"}]
  BY <1>2 DEF TypeOK, Deliver, Verdicts
<1>5. Delivered(W, r)
  BY DEF Delivered, Deliver, Stage, Outcome
<1> QED BY <1>3, <1>4, <1>5

\* The rows of E, which have a verdict, move to retired_actions.
Retires(E) ==
    /\ E \subseteq Actions /\ \A a \in E : receipt[a] \in Verdicts
    /\ retired' = retired \cup E
    /\ \A a \in Actions : receipt'[a] = IF a \in E THEN "none" ELSE receipt[a]

\* The types of the tables an action may change.
TableTypes ==
    /\ receipt \in [Actions -> Verdicts \cup {"none", "uncertain"}]
    /\ retired \subseteq Actions /\ old \subseteq Actions

\* Pruning keeps the types and retires the expired rows.
LEMMA PruneEffect ==
    ASSUME TypeOK, Prune
    PROVE  TableTypes' /\ Retires(Expired)
  BY DEF TypeOK, TableTypes, Prune, Kept, Spent, Expired, Retires

\* A request that ends, with the rows of E retired, keeps the invariant when a verdict it
\* answers is the one on record.
LEMMA ReplyKeeps ==
    ASSUME IInv, NEW h \in Handlers, NEW x \in Answers, NEW E \in SUBSET Actions,
           pc[h] \in {"claim", "finish"},
           HandlerTypes', Replied(h, x), TableTypes', Retires(E),
           x \in Verdicts => receipt[act[h]] = x,
           UNCHANGED <<claimedAs, binding, worker, mode, server, requests>>, troubles' \in Nat
    PROVE  IInv'
<1> USE GatewayAssumption DEF IInv
<1>1. act[h] \in Actions
  BY DEF WorkInv
<1>2. TypeOK'
  BY DEF TypeOK, TableTypes, HandlerTypes, worker, mode, server
<1>3. WorkInv'
  <2>1. \A g \in Handlers : pc'[g] # "idle" => g # h
    BY DEF Replied
  <2>2. \A g \in Handlers : g # h => (Working(g)' <=> Working(g))
    BY DEF Replied, Working
  <2>3. \A g \in Handlers : Working(g) => act[g] \in Actions /\ act[g] \notin E
    BY DEF WorkInv, Working, Retires, Verdicts
  <2>4. \A g \in Handlers : pc'[g] # "idle" =>
           act'[g] \in Actions /\ pay'[g] \in Payloads /\ answer'[g] = "none"
    BY <2>1 DEF WorkInv, Replied
  <2>5. \A g \in Handlers : Working(g)' =>
           g # h /\ Working(g) /\ act'[g] = act[g] /\ pay'[g] = pay[g]
    BY <2>1, <2>2 DEF Replied, Working
  <2>6. \A g \in Handlers : Working(g)' =>
           receipt'[act'[g]] = "uncertain" /\ act'[g] \notin retired' /\ claimedAs'[act'[g]] = pay'[g]
    BY <2>3, <2>5 DEF WorkInv, Retires
  <2>7. \A f, g \in Handlers : Working(f)' /\ Working(g)' /\ act'[f] = act'[g] => f = g
    BY <2>5 DEF WorkInv
  <2> QED BY <2>4, <2>6, <2>7 DEF WorkInv
<1>4. RowInv'
  BY DEF RowInv, Fresh, Over, Retires, Verdicts, worker, server
<1>5. ChannelInv'
  <2>1. \A c \in channel : c.a \in Actions /\ c.a \notin E /\ (c.heard => c.h # h /\ c.h \in Handlers)
    BY DEF ChannelInv, CommandInv, Retires, Verdicts, TypeOK, Commands
  <2> QED BY <2>1 DEF ChannelInv, CommandInv, Retires, Replied, worker, server
<1>6. WireInv'
  <2>1. \A w \in wire : w.a \in Actions /\ (w.reply = "none" => w.a \notin E)
    BY DEF WireInv, PacketInv, Retires, Verdicts, TypeOK, Packets
  <2> QED BY <2>1 DEF WireInv, PacketInv, Retires, server
<1>7. PendingInv'
  <2>1. \A c \in pending : c.h # h /\ c.h \in Handlers
    BY DEF PendingInv, TypeOK, Calls
  <2> QED BY <2>1 DEF PendingInv, Replied, worker
<1>8. StageInv'
  BY DEF StageInv, Fresh, Over, Replied, worker, server
<1>9. AnswerInv'
  <2>1. ASSUME x \in Verdicts
        PROVE  /\ x = "accepted" => native[act[h]] # <<>>
               /\ x = "rejected" => native[act[h]] = <<>>
               /\ receipt'[act[h]] = x \/ act[h] \in retired'
    BY <2>1, <1>1 DEF RowInv, Over, Retires
  <2>2. \A g \in Handlers : answer[g] = "rejected" =>
           receipt'[act[g]] = "rejected" \/ act[g] \in retired'
    BY DEF AnswerInv, Retires
  <2> QED BY <2>1, <2>2, <1>1 DEF AnswerInv, Replied, server, Verdicts
<1>10. SteerInv'
  <2>1. /\ \A g \in Handlers : pc'[g] \in {"bind", "release"} => pay'[g] \in Steers
        /\ \A g \in Handlers : pc'[g] \in {"call", "wait", "follow"} => Tied(act[g], pay[g])'
    BY DEF SteerInv, Tied, Replied
  <2> QED BY <2>1 DEF SteerInv, Tied, worker, server
<1>11. QuietInv'
  BY DEF QuietInv, QuietWhenReleased, Replied, Retires, mode
<1> QED BY <1>2, <1>3, <1>4, <1>5, <1>6, <1>7, <1>8, <1>9, <1>10, <1>11
\* A conflicting body is refused; the prune rolls back.
LEMMA ClaimConflictKeeps ==
    ASSUME IInv, NEW h \in Handlers, pc[h] = "claim", ClaimConflict(h),
           UNCHANGED <<binding, worker, mode, server, counts>>
    PROVE  IInv'
<1>1. HandlerTypes' /\ Replied(h, "conflict")
  BY ReplyEffect DEF IInv, ClaimConflict, Answers
<1>2. TableTypes' /\ Retires({})
  BY DEF IInv, TypeOK, TableTypes, Retires, ClaimConflict
<1>3. UNCHANGED claimedAs /\ requests' = requests /\ troubles' \in Nat
  BY DEF IInv, TypeOK, counts, ClaimConflict
<1> QED BY <1>1, <1>2, <1>3, ReplyKeeps DEF Answers, Verdicts

\* A full store prunes and refuses.
LEMMA ClaimFullKeeps ==
    ASSUME IInv, NEW h \in Handlers, pc[h] = "claim", ClaimFull(h),
           UNCHANGED <<binding, worker, mode, server, counts>>
    PROVE  IInv'
<1>1. HandlerTypes' /\ Replied(h, "full")
  BY ReplyEffect DEF IInv, ClaimFull, Answers
<1>2. TableTypes' /\ Retires(Expired) /\ Expired \in SUBSET Actions
  BY PruneEffect DEF IInv, ClaimFull, Retires
<1>3. UNCHANGED claimedAs /\ requests' = requests /\ troubles' \in Nat
  BY DEF IInv, TypeOK, counts, ClaimFull
<1> QED BY <1>1, <1>2, <1>3, ReplyKeeps DEF Answers, Verdicts

\* A known action is answered from its row, or as expired.
LEMMA ClaimKnownKeeps ==
    ASSUME IInv, NEW h \in Handlers, pc[h] = "claim", ClaimKnown(h),
           UNCHANGED <<binding, worker, mode, server, counts>>
    PROVE  IInv'
<1> DEFINE x == IF act[h] \in Spent THEN "expired" ELSE Kept[act[h]]
<1>1. act[h] \in Actions
  BY DEF IInv, WorkInv
<1>2. x \in Answers /\ (x \in Verdicts => receipt[act[h]] = x)
  BY <1>1 DEF IInv, TypeOK, Kept, Answers, Verdicts
<1>3. HandlerTypes' /\ Replied(h, x)
  <2>1. Reply(h, x)
    BY DEF ClaimKnown
  <2> HIDE DEF x
  <2> QED BY <1>2, <2>1, ReplyEffect DEF IInv
<1>4. TableTypes' /\ Retires(Expired) /\ Expired \in SUBSET Actions
  BY PruneEffect DEF IInv, ClaimKnown, Retires
<1>5. UNCHANGED claimedAs /\ requests' = requests /\ troubles' \in Nat
  BY DEF IInv, TypeOK, counts, ClaimKnown
<1> HIDE DEF x
<1> QED BY <1>2, <1>3, <1>4, <1>5, ReplyKeeps

\* A new action gets its row before anything is sent of it.
LEMMA ClaimNewKeeps ==
    ASSUME IInv, NEW h \in Handlers, pc[h] = "claim", ClaimNew(h),
           UNCHANGED <<binding, worker, mode, server, counts>>
    PROVE  IInv'
<1> USE GatewayAssumption DEF IInv
<1>1. act[h] \in Actions /\ pay[h] \in Payloads
  BY DEF WorkInv
<1>2. /\ receipt[act[h]] = "none" /\ act[h] \notin retired /\ act[h] \notin Expired
      /\ Fresh(act[h]) /\ claimedAs[act[h]] = None
  BY <1>1 DEF ClaimNew, Spent, Rows, Kept, RowInv, TypeOK
<1>3. /\ \A a \in Actions : receipt'[a] = IF a = act[h] THEN "uncertain"
                                         ELSE IF a \in Expired THEN "none" ELSE receipt[a]
      /\ \A a \in Actions : claimedAs'[a] = IF a = act[h] THEN pay[h] ELSE claimedAs[a]
      /\ retired' = retired \cup Expired /\ UNCHANGED <<act, pay, seen, answer>>
  BY <1>1 DEF ClaimNew, Kept, Spent, TypeOK
<1>4. /\ Expired \subseteq Actions /\ \A a \in Expired : receipt[a] \in Verdicts
  BY DEF Expired, TypeOK
<1>5. /\ pc' \in [Handlers -> Stages] /\ res' \in [Handlers -> Verdicts \cup {"none", "uncertain"}]
      /\ pc'[h] = "prepare"
      /\ \A g \in Handlers : g # h => pc'[g] = pc[g] /\ res'[g] = res[g]
  BY DEF ClaimNew, Goto, TypeOK, Stages
<1>6. TypeOK'
  <2>1. receipt' \in [Actions -> Verdicts \cup {"none", "uncertain"}]
    BY DEF ClaimNew, Kept, TypeOK
  <2>2. claimedAs' \in [Actions -> Payloads \cup {None}]
    BY <1>1 DEF ClaimNew, TypeOK
  <2>3. old' \subseteq Actions /\ retired' \subseteq Actions
    BY <1>3, <1>4 DEF ClaimNew, TypeOK
  <2> QED BY <2>1, <2>2, <2>3, <1>3, <1>5 DEF TypeOK, worker, mode, server, counts
<1>7. \A g \in Handlers : Working(g) => g # h /\ act[g] # act[h] /\ act[g] \in Actions \ Expired
  BY <1>2, <1>4 DEF WorkInv, Working, Verdicts
<1>8. WorkInv'
  <2>1. \A g \in Handlers : Working(g)' => g = h \/ Working(g)
    BY <1>5 DEF Working
  <2>2. \A g \in Handlers : pc'[g] # "idle" => pc[g] # "idle"
    BY <1>5
  <2>3. \A g \in Handlers : Working(g)' =>
           receipt'[act'[g]] = "uncertain" /\ act'[g] \notin retired' /\ claimedAs'[act'[g]] = pay'[g]
    BY <2>1, <1>1, <1>2, <1>3, <1>7 DEF WorkInv
  <2>4. \A f, g \in Handlers : Working(f)' /\ Working(g)' /\ act'[f] = act'[g] => f = g
    BY <2>1, <1>3, <1>7 DEF WorkInv
  <2> QED BY <2>2, <2>3, <2>4, <1>3 DEF WorkInv
<1>9. RowInv'
  BY <1>1, <1>2, <1>3, <1>4 DEF RowInv, Fresh, Over, Verdicts, worker, server
<1>10. ChannelInv'
  <2>1. \A c \in channel : c.a \in Actions \ Expired /\ c.a # act[h] /\ (c.heard => c.h # h /\ c.h \in Handlers)
    BY <1>2, <1>4 DEF ChannelInv, CommandInv, Verdicts, TypeOK, Commands
  <2> QED BY <2>1, <1>3, <1>5 DEF ChannelInv, CommandInv, worker, server
<1>11. WireInv'
  <2>1. \A w \in wire : w.a \in Actions /\ w.a # act[h] /\ (w.reply = "none" => w.a \notin Expired)
    BY <1>2, <1>4 DEF WireInv, PacketInv, Fresh, Verdicts, TypeOK, Packets
  <2> QED BY <2>1, <1>3 DEF WireInv, PacketInv, server
<1>12. PendingInv'
  <2>1. \A c \in pending : c.h # h /\ c.h \in Handlers
    BY DEF PendingInv, TypeOK, Calls
  <2> QED BY <2>1, <1>3, <1>5 DEF PendingInv, worker
<1>13. StageInv'
  BY <1>2, <1>3, <1>5 DEF StageInv, Fresh, Over, worker, server
<1>14. AnswerInv'
  BY <1>2, <1>3, <1>4 DEF AnswerInv, server, Verdicts
<1>15. SteerInv'
  <2>1. /\ \A g \in Handlers : pc'[g] \in {"bind", "release"} => pay'[g] \in Steers
        /\ \A g \in Handlers : pc'[g] \in {"call", "wait", "follow"} => Tied(act[g], pay[g])'
    BY <1>3, <1>5 DEF SteerInv, Tied
  <2>2. \A a \in Actions : native[a] # <<>> => a # act[h]
    BY <1>2 DEF Fresh
  <2> QED BY <2>1, <2>2, <1>3 DEF SteerInv, Tied, worker, server
<1>16. QuietInv'
  BY <1>3, <1>5 DEF QuietInv, QuietWhenReleased, mode
<1> QED BY <1>6, <1>8, <1>9, <1>10, <1>11, <1>12, <1>13, <1>14, <1>15, <1>16

\* The request of h ends and its verdict goes to its row.
LEMMA StoreKeeps ==
    ASSUME IInv, NEW h \in Handlers, pc[h] = "finish",
           HandlerTypes', Replied(h, res[h]),
           receipt' = [receipt EXCEPT ![act[h]] = res[h]], old' \subseteq Actions,
           UNCHANGED <<claimedAs, retired, binding, worker, mode, server, counts>>
    PROVE  IInv'
<1> USE GatewayAssumption DEF IInv
<1>1. /\ act[h] \in Actions /\ receipt[act[h]] = "uncertain" /\ act[h] \notin retired
      /\ res[h] \in Verdicts \cup {"uncertain"}
      /\ res[h] = "rejected" => Over(act[h])
      /\ res[h] = "accepted" => native[act[h]] # <<>>
  BY DEF WorkInv, Working, StageInv, TypeOK
<1>2. \A a \in Actions : receipt'[a] = IF a = act[h] THEN res[h] ELSE receipt[a]
  BY <1>1 DEF TypeOK
<1>3. TypeOK'
  <2>1. receipt' \in [Actions -> Verdicts \cup {"none", "uncertain"}]
    BY <1>1 DEF TypeOK
  <2> QED BY <2>1 DEF TypeOK, HandlerTypes, worker, mode, server, counts
<1>4. \A g \in Handlers : g # h /\ Working(g) => act[g] \in Actions /\ act[g] # act[h]
  BY DEF WorkInv, Working
<1>5. WorkInv'
  <2>1. \A g \in Handlers : pc'[g] # "idle" => g # h
    BY DEF Replied
  <2>2. \A g \in Handlers : pc'[g] # "idle" =>
           act'[g] \in Actions /\ pay'[g] \in Payloads /\ answer'[g] = "none"
    BY <2>1 DEF WorkInv, Replied
  <2>3. \A g \in Handlers : Working(g)' =>
           g # h /\ Working(g) /\ act'[g] = act[g] /\ pay'[g] = pay[g]
    BY <2>1 DEF Replied, Working
  <2>4. \A g \in Handlers : Working(g)' =>
           receipt'[act'[g]] = "uncertain" /\ act'[g] \notin retired' /\ claimedAs'[act'[g]] = pay'[g]
    BY <2>3, <1>2, <1>4 DEF WorkInv
  <2>5. \A f, g \in Handlers : Working(f)' /\ Working(g)' /\ act'[f] = act'[g] => f = g
    BY <2>3 DEF WorkInv
  <2> QED BY <2>2, <2>4, <2>5 DEF WorkInv
<1>6. RowInv'
  BY <1>1, <1>2 DEF RowInv, Fresh, Over, Verdicts, worker, server
<1>7. ChannelInv'
  <2>1. \A c \in channel : c.a \in Actions /\ (c.heard => c.h # h /\ c.h \in Handlers)
    BY DEF ChannelInv, CommandInv, TypeOK, Commands
  <2>2. \A c \in channel : res[h] # "uncertain" => c.a # act[h]
    BY <2>1, <1>1 DEF ChannelInv, CommandInv, Over, Verdicts
  <2>3. \A c \in channel : receipt'[c.a] = receipt[c.a]
    BY <2>1, <2>2, <1>1, <1>2
  <2> QED BY <2>1, <2>3 DEF ChannelInv, CommandInv, Replied, worker, server
<1>8. WireInv'
  <2>1. \A w \in wire : w.a \in Actions
    BY DEF TypeOK, Packets
  <2>2. \A w \in wire : w.reply = "none" /\ res[h] # "uncertain" => w.a # act[h]
    BY <2>1, <1>1 DEF WireInv, PacketInv, Over, Verdicts
  <2>3. \A w \in wire : w.reply = "none" => receipt'[w.a] = receipt[w.a]
    BY <2>1, <2>2, <1>1, <1>2
  <2> QED BY <2>3 DEF WireInv, PacketInv, server
<1>9. PendingInv'
  <2>1. \A c \in pending : c.h # h /\ c.h \in Handlers
    BY DEF PendingInv, TypeOK, Calls
  <2> QED BY <2>1 DEF PendingInv, Replied, worker
<1>10. StageInv'
  BY DEF StageInv, Fresh, Over, Replied, worker, server
<1>11. AnswerInv'
  BY <1>1, <1>2 DEF AnswerInv, Over, Replied, server, Verdicts
<1>12. SteerInv'
  <2>1. /\ \A g \in Handlers : pc'[g] \in {"bind", "release"} => pay'[g] \in Steers
        /\ \A g \in Handlers : pc'[g] \in {"call", "wait", "follow"} => Tied(act[g], pay[g])'
    BY DEF SteerInv, Tied, Replied
  <2> QED BY <2>1 DEF SteerInv, Tied, worker, server
<1>13. QuietInv'
  <2>1. lifecycle = "active" /\ ~(leaving.stage # "no" /\ ~leaving.touched)
    BY DEF QuietInv
  <2> QED BY <2>1 DEF QuietInv, QuietWhenReleased, mode
<1> QED BY <1>3, <1>5, <1>6, <1>7, <1>8, <1>9, <1>10, <1>11, <1>12, <1>13

\* What a handler finishes with is what its action came to.
LEMMA FinishKeeps ==
    ASSUME IInv, NEW h \in Handlers, Finish(h)
    PROVE  IInv'
<1>1. act[h] \in Actions /\ receipt[act[h]] = "uncertain" /\ res[h] \in Answers
  BY DEF IInv, Finish, WorkInv, Working, TypeOK, Answers
<1>2. Reply(h, res[h]) /\ receipt' = [receipt EXCEPT ![act[h]] = res[h]] /\ old' = old \ {act[h]}
  BY <1>1 DEF Finish
<1>3. HandlerTypes' /\ Replied(h, res[h])
  BY <1>1, <1>2, ReplyEffect DEF IInv
<1>4. old' \subseteq Actions
  BY <1>2 DEF IInv, TypeOK
<1> QED BY <1>2, <1>3, <1>4, StoreKeeps DEF Finish

\* The server runs a call that is all there is of its action.
LEMMA RunKeeps ==
    ASSUME IInv, NEW w \in wire, Run(w)
    PROVE  IInv'
<1> USE GatewayAssumption DEF IInv
<1>1. PICK n \in Packets :
         /\ n.h = w.h /\ n.a = w.a /\ n.p = w.p /\ n.reply = "ok"
         /\ wire' \subseteq (wire \ {w}) \cup {n} /\ wire \ {w} \subseteq wire'
  <2> DEFINE m == [w EXCEPT !.reply = "ok"]
  <2>1. m \in Packets /\ m.h = w.h /\ m.a = w.a /\ m.p = w.p /\ m.reply = "ok"
    BY DEF TypeOK, Packets
  <2>2. wire' \subseteq (wire \ {w}) \cup {m} /\ wire \ {w} \subseteq wire'
    BY DEF Run, Answered
  <2> HIDE DEF m
  <2> QED BY <2>1, <2>2
<1>2. /\ w.a \in Actions /\ w.p \in Payloads /\ w.reply = "none"
      /\ receipt[w.a] = "uncertain" /\ w.a \notin retired /\ native[w.a] = <<>>
      /\ w.p = claimedAs[w.a] /\ \A x \in wire : x.a = w.a => x = w
  BY DEF Run, TypeOK, Packets, WireInv, PacketInv
<1>3. UNCHANGED <<receipts, handlers, worker, mode, counts>>
  BY DEF Run
<1>4. native' = [native EXCEPT ![w.a] = <<w.p>>]
  BY <1>2 DEF Run, TypeOK
<1>5. \A a \in Actions : native'[a] = IF a = w.a THEN <<w.p>> ELSE native[a]
  BY <1>4 DEF TypeOK
<1>6. <<w.p>> # <<>>
  OBVIOUS
<1>7. TypeOK'
  <2>1. native' \in [Actions -> Seq(Payloads)]
    BY <1>2, <1>4 DEF TypeOK
  <2>2. wire' \subseteq Packets
    BY <1>1 DEF TypeOK
  <2> QED BY <2>1, <2>2, <1>3 DEF TypeOK, receipts, handlers, worker, mode, counts
<1>8. WorkInv'
  BY <1>3 DEF WorkInv, Working, receipts, handlers
<1>9. \A x \in wire' : x = n \/ (x \in wire /\ x # w /\ x.a # w.a)
  BY <1>1, <1>2
<1>10. \A a \in Actions \ {w.a} : (Fresh(a) => Fresh(a)') /\ (Over(a) => Over(a)')
  BY <1>1, <1>3, <1>5, <1>9 DEF Fresh, Over, worker
<1>11. RowInv'
  BY <1>2, <1>3, <1>5, <1>6, <1>10, Zenon DEF RowInv, receipts
<1>12. ChannelInv'
  <2>1. \A c \in channel : c.a # w.a /\ c.a \in Actions
    BY DEF ChannelInv, CommandInv, TypeOK, Commands
  <2> QED BY <2>1, <1>1, <1>3, <1>5, <1>9 DEF ChannelInv, CommandInv, receipts, handlers, worker
<1>13. WireInv'
  <2>1. PacketInv(n)'
    BY <1>1, <1>2, <1>3, <1>5, <1>6, <1>9 DEF PacketInv, receipts
  <2>2. ASSUME NEW x \in wire, x # w, x.a # w.a PROVE PacketInv(x)'
    BY <2>2, <1>1, <1>3, <1>5, <1>9 DEF WireInv, PacketInv, TypeOK, Packets, receipts
  <2> QED BY <2>1, <2>2, <1>9 DEF WireInv
<1>14. PendingInv'
  BY <1>3 DEF PendingInv, handlers, worker
<1>15. StageInv'
  <2>1. \A h \in Handlers : pc[h] \in {"prepare", "bind", "call", "release"} => act[h] # w.a
    BY <1>2 DEF StageInv, Fresh, Over
  <2>2. \A h \in Handlers : pc[h] = "finish" /\ res[h] = "rejected" => act[h] # w.a
    BY <1>2 DEF StageInv, Over
  <2>3. \A h \in Handlers : Working(h) => act[h] \in Actions
    BY DEF WorkInv, Working
  <2>4. \A a \in Actions : native[a] # <<>> => native'[a] # <<>>
    BY <1>5, <1>6
  <2> QED BY <2>1, <2>2, <2>3, <2>4, <1>3, <1>10 DEF StageInv, Working, handlers
<1>16. AnswerInv'
  <2>1. \A h \in Handlers : answer[h] = "rejected" => act[h] # w.a
    BY <1>2 DEF AnswerInv
  <2> QED BY <2>1, <1>3, <1>5, <1>6 DEF AnswerInv, receipts, handlers
<1>17. SteerInv'
  <2>1. Tied(w.a, w.p)
    BY <1>2 DEF SteerInv
  <2> QED BY <2>1, <1>1, <1>2, <1>3, <1>5, <1>9 DEF SteerInv, Tied, receipts, handlers, worker
<1>18. QuietInv'
  BY <1>3 DEF QuietInv, QuietWhenReleased, receipts, handlers, mode
<1> QED BY <1>7, <1>8, <1>11, <1>12, <1>13, <1>14, <1>15, <1>16, <1>17, <1>18

\* A result that cannot be saved leaves the row uncertain.
LEMMA FinishFailsKeeps ==
    ASSUME IInv, NEW h \in Handlers, FinishFails(h)
    PROVE  IInv'
<1>1. HandlerTypes' /\ Replied(h, "uncertain")
  BY ReplyEffect DEF IInv, FinishFails, Answers
<1>2. TableTypes' /\ Retires({})
  BY DEF IInv, TypeOK, TableTypes, Retires, FinishFails, receipts
<1>3. UNCHANGED <<claimedAs, binding, requests>> /\ troubles' \in Nat
  BY DEF IInv, TypeOK, FinishFails, Trouble, receipts
<1> QED BY <1>1, <1>2, <1>3, ReplyKeeps DEF FinishFails, Answers, Verdicts

\* A handler at work goes on to stage s, and what the stage requires holds.
LEMMA MoveKeeps ==
    ASSUME IInv, NEW h \in Handlers, pc[h] \in {"prepare", "bind", "release", "follow"},
           NEW s \in {"bind", "call", "finish"}, NEW r \in Verdicts \cup {"none", "uncertain"},
           Goto(h, s, r),
           s # "finish" => Fresh(act[h]),
           s = "finish" => /\ r # "none"
                           /\ r = "rejected" => Over(act[h])
                           /\ r = "accepted" => native[act[h]] # <<>>,
           SteerInv', seen' \in [Handlers -> Nat], binding' \in [Subs -> Actions \cup {None}],
           UNCHANGED <<receipt, claimedAs, retired, old, act, pay, answer, worker, mode, server,
                       requests>>,
           troubles' \in Nat
    PROVE  IInv'
<1> USE DEF IInv
<1>1. /\ pc' \in [Handlers -> Stages] /\ res' \in [Handlers -> Verdicts \cup {"none", "uncertain"}]
      /\ pc'[h] = s /\ res'[h] = r
      /\ \A g \in Handlers : g # h => pc'[g] = pc[g] /\ res'[g] = res[g]
  BY DEF Goto, TypeOK, Stages
<1>2. TypeOK'
  BY <1>1 DEF TypeOK, worker, mode, server
<1>3. WorkInv'
  <2>1. \A g \in Handlers : (Working(g)' => Working(g)) /\ (pc'[g] # "idle" => pc[g] # "idle")
    BY <1>1 DEF Working
  <2> QED BY <2>1 DEF WorkInv
<1>4. RowInv'
  BY DEF RowInv, Fresh, Over, worker, server
<1>5. ChannelInv'
  <2>1. \A c \in channel : c.heard => c.h # h /\ c.h \in Handlers
    BY DEF ChannelInv, CommandInv, TypeOK, Commands
  <2> QED BY <2>1, <1>1 DEF ChannelInv, CommandInv, worker, server
<1>6. WireInv'
  BY DEF WireInv, PacketInv, server
<1>7. PendingInv'
  <2>1. \A c \in pending : c.h # h /\ c.h \in Handlers
    BY DEF PendingInv, TypeOK, Calls
  <2> QED BY <2>1, <1>1 DEF PendingInv, worker
<1>8. StageInv'
  <2>1. \A a \in Actions : (Fresh(a)' <=> Fresh(a)) /\ (Over(a)' <=> Over(a))
    BY DEF Fresh, Over, worker, server
  <2>2. \A g \in Handlers : pc[g] # "idle" => act[g] \in Actions
    BY DEF WorkInv
  <2> QED BY <2>1, <2>2, <1>1 DEF StageInv, server
<1>9. AnswerInv'
  BY DEF AnswerInv, server
<1>10. QuietInv'
  BY <1>1 DEF QuietInv, QuietWhenReleased, mode
<1> QED BY <1>2, <1>3, <1>4, <1>5, <1>6, <1>7, <1>8, <1>9, <1>10

\* What goes from one stage to another leaves the submissions tied if the bindings stay.
LEMMA MoveTied ==
    ASSUME IInv, NEW h \in Handlers, NEW s \in Stages, NEW r \in Verdicts \cup {"none", "uncertain"},
           Goto(h, s, r), s \in {"bind", "release"} => pay[h] \in Steers,
           s \in {"call", "wait", "follow"} => Tied(act[h], pay[h]),
           UNCHANGED <<binding, claimedAs, act, pay, channel, server>>
    PROVE  SteerInv'
<1>1. pc'[h] = s /\ \A g \in Handlers : g # h => pc'[g] = pc[g]
  BY DEF IInv, TypeOK, Goto
<1> QED BY <1>1 DEF IInv, SteerInv, Tied, server

\* The preparation leaves a fresh action fresh.
LEMMA PrepareKeeps ==
    ASSUME IInv, NEW h \in Handlers, Prepare(h)
    PROVE  IInv'
<1>1. PICK s \in {"bind", "call", "finish"}, r \in {"none", "rejected", "uncertain"} :
         /\ Goto(h, s, r)
         /\ s = "bind" <=> (s # "finish" /\ pay[h] \in Steers)
         /\ s = "finish" => r # "none"
  BY DEF Prepare
<1>2. pc[h] = "prepare" /\ UNCHANGED <<receipts, act, pay, answer, worker, mode, server, counts>>
  BY DEF Prepare
<1>3. Fresh(act[h]) /\ Over(act[h])
  BY <1>2 DEF IInv, StageInv, Fresh, Over
<1>4. SteerInv'
  BY <1>1, <1>2, MoveTied DEF Tied, Stages, Verdicts, receipts, worker
<1>5. /\ seen' \in [Handlers -> Nat] /\ binding' \in [Subs -> Actions \cup {None}]
      /\ troubles' \in Nat /\ UNCHANGED requests
  BY <1>2 DEF Prepare, IInv, TypeOK, receipts, counts
<1>6. r \in Verdicts \cup {"none", "uncertain"} /\ r # "accepted"
  BY DEF Verdicts
<1> QED BY <1>1, <1>2, <1>3, <1>4, <1>5, <1>6, MoveKeeps DEF receipts

\* A steer takes a submission that nobody holds, so no other loses its own.
LEMMA BindKeeps ==
    ASSUME IInv, NEW h \in Handlers, Bind(h)
    PROVE  IInv'
<1> USE GatewayAssumption DEF IInv
<1>1. PICK s \in {"call", "finish"}, r \in {"none", "rejected"} :
         /\ Goto(h, s, r)
         /\ s = "finish" => r = "rejected" /\ UNCHANGED binding
         /\ s = "call" => /\ binding[Sub[pay[h]]] = None
                          /\ binding' = [binding EXCEPT ![Sub[pay[h]]] = act[h]]
  BY DEF Bind
<1>2. pc[h] = "bind" /\ UNCHANGED <<receipt, claimedAs, retired, old, act, pay, seen, answer,
                                    worker, mode, server, counts>>
  BY DEF Bind
<1>3. Fresh(act[h]) /\ Over(act[h]) /\ Sub[pay[h]] \in Subs /\ act[h] \in Actions
  BY <1>2 DEF StageInv, WorkInv, SteerInv, Fresh, Over
<1>4. \A t \in Subs : binding'[t] = binding[t] \/ (t = Sub[pay[h]] /\ binding[t] = None)
  BY <1>1, <1>3 DEF TypeOK
<1>5. SteerInv'
  <2>1. ASSUME NEW a \in Actions, NEW p, Tied(a, p) PROVE p \in Steers => binding'[Sub[p]] = a
    BY <2>1, <1>4 DEF Tied
  <2>2. pc'[h] = s /\ \A g \in Handlers : g # h => pc'[g] = pc[g]
    BY <1>1 DEF Goto, TypeOK
  <2>3. ASSUME NEW g \in Handlers, pc'[g] \in {"call", "wait", "follow"}
        PROVE  Tied(act[g], pay[g])'
    <3>1. CASE g = h
      BY <3>1, <2>2, <2>3, <1>1, <1>2, <1>3 DEF Tied, TypeOK
    <3>2. CASE g # h
      <4>1. act[g] \in Actions /\ Tied(act[g], pay[g])
        BY <3>2, <2>2, <2>3 DEF WorkInv, SteerInv
      <4> QED BY <4>1, <2>1, <1>2 DEF Tied
    <3> QED BY <3>1, <3>2
  <2>4. \A c \in channel' : Tied(c.a, c.p)'
    BY <2>1, <1>2 DEF SteerInv, Tied, TypeOK, Commands, worker
  <2>5. \A w \in wire' : w.reply # "error" => Tied(w.a, w.p)'
    BY <2>1, <1>2 DEF SteerInv, Tied, TypeOK, Packets, server
  <2>6. \A a \in Actions : native'[a] # <<>> => Tied(a, claimedAs[a])'
    BY <2>1, <1>2 DEF SteerInv, Tied, server
  <2>7. \A g \in Handlers : pc'[g] \in {"bind", "release"} => pay'[g] \in Steers
    BY <2>2, <1>2 DEF SteerInv
  <2> QED BY <2>3, <2>4, <2>5, <2>6, <2>7 DEF SteerInv
<1>6. /\ seen' \in [Handlers -> Nat] /\ binding' \in [Subs -> Actions \cup {None}]
      /\ troubles' \in Nat /\ UNCHANGED requests
  BY <1>1, <1>2, <1>3 DEF TypeOK, counts
<1>7. r \in Verdicts \cup {"none", "uncertain"} /\ r # "accepted"
  BY DEF Verdicts
<1> QED BY <1>1, <1>2, <1>3, <1>5, <1>6, <1>7, MoveKeeps

\* A submission is given back only by an action that is over.
LEMMA ReleaseKeeps ==
    ASSUME IInv, NEW h \in Handlers, Release(h)
    PROVE  IInv'
<1> USE GatewayAssumption DEF IInv
<1>1. /\ pc[h] = "release" /\ Goto(h, "finish", "rejected")
      /\ binding' = IF binding[Sub[pay[h]]] = act[h]
                      THEN [binding EXCEPT ![Sub[pay[h]]] = None] ELSE binding
      /\ UNCHANGED <<receipt, claimedAs, retired, old, act, pay, seen, answer,
                     worker, mode, server, counts>>
  BY DEF Release
<1>2. pc'[h] = "finish" /\ \A g \in Handlers : g # h => pc'[g] = pc[g]
  BY <1>1 DEF Goto, TypeOK
<1>3. Sub[pay[h]] \in Subs /\ act[h] \in Actions /\ Over(act[h])
  BY <1>1 DEF WorkInv, SteerInv, StageInv
<1>4. \A t \in Subs : binding'[t] = binding[t] \/ binding[t] = act[h]
  BY <1>1, <1>3 DEF TypeOK
<1>5. SteerInv'
  <2>1. \A g \in Handlers : pc'[g] \in {"bind", "release"} => pay'[g] \in Steers
    BY <1>1, <1>2 DEF SteerInv
  <2>2. ASSUME NEW g \in Handlers, pc'[g] \in {"call", "wait", "follow"}
        PROVE  Tied(act[g], pay[g])'
    <3>1. act[g] # act[h] /\ Tied(act[g], pay[g])
      BY <2>2, <1>1, <1>2 DEF WorkInv, Working, SteerInv
    <3> QED BY <3>1, <1>1, <1>4 DEF Tied
  <2>3. \A c \in channel : Tied(c.a, c.p)'
    <3>1. \A c \in channel : c.a # act[h] /\ Tied(c.a, c.p)
      BY <1>3 DEF Over, SteerInv
    <3> QED BY <3>1, <1>1, <1>4 DEF Tied
  <2>4. \A w \in wire : w.reply # "error" => Tied(w.a, w.p)'
    <3>1. \A w \in wire : w.reply # "error" => w.a # act[h] /\ Tied(w.a, w.p)
      BY <1>3 DEF Over, SteerInv
    <3> QED BY <3>1, <1>1, <1>4 DEF Tied
  <2>5. \A a \in Actions : native[a] # <<>> => Tied(a, claimedAs[a])'
    <3>1. \A a \in Actions : native[a] # <<>> => a # act[h] /\ Tied(a, claimedAs[a])
      BY <1>3 DEF Over, SteerInv
    <3> QED BY <3>1, <1>1, <1>4 DEF Tied
  <2> QED BY <2>1, <2>2, <2>3, <2>4, <2>5, <1>1 DEF SteerInv, worker, server
<1>6. /\ seen' \in [Handlers -> Nat] /\ binding' \in [Subs -> Actions \cup {None}]
      /\ troubles' \in Nat /\ UNCHANGED requests
  BY <1>1, <1>3 DEF TypeOK, counts
<1> QED BY <1>1, <1>3, <1>5, <1>6, MoveKeeps DEF Verdicts

\* A release that fails keeps the submission.
LEMMA ReleaseFailsKeeps ==
    ASSUME IInv, NEW h \in Handlers, ReleaseFails(h)
    PROVE  IInv'
<1>1. /\ pc[h] = "release" /\ Goto(h, "finish", "uncertain")
      /\ UNCHANGED <<receipts, act, pay, seen, answer, worker, mode, server, requests>>
      /\ troubles' = troubles + 1
  BY DEF ReleaseFails, Trouble
<1>2. SteerInv'
  BY <1>1, MoveTied DEF Stages, receipts, worker
<1>3. /\ seen' \in [Handlers -> Nat] /\ binding' \in [Subs -> Actions \cup {None}]
      /\ troubles' \in Nat
  BY <1>1 DEF IInv, TypeOK, receipts
<1> QED BY <1>1, <1>2, <1>3, MoveKeeps DEF receipts

\* What is followed up has run.
LEMMA FollowUpKeeps ==
    ASSUME IInv, NEW h \in Handlers, FollowUp(h)
    PROVE  IInv'
<1>1. PICK r \in {"accepted", "uncertain"} : Goto(h, "finish", r)
  BY DEF FollowUp
<1>2. pc[h] = "follow" /\ UNCHANGED <<receipts, act, pay, seen, answer, worker, mode, server, counts>>
  BY DEF FollowUp
<1>3. native[act[h]] # <<>>
  BY <1>2 DEF IInv, StageInv
<1>4. r \in Verdicts \cup {"none", "uncertain"} /\ r # "rejected"
  BY DEF Verdicts
<1>5. SteerInv'
  BY <1>1, <1>2, <1>4, MoveTied DEF Stages, receipts, worker
<1>6. /\ seen' \in [Handlers -> Nat] /\ binding' \in [Subs -> Actions \cup {None}]
      /\ troubles' \in Nat /\ UNCHANGED requests
  BY <1>2 DEF IInv, TypeOK, receipts, counts
<1> QED BY <1>1, <1>2, <1>3, <1>4, <1>5, <1>6, MoveKeeps DEF receipts

\* The handlers of W, which wait, get answer r; of the channel, the calls and the packets
\* nothing is left that is for them.
LEMMA DeliverKeeps ==
    ASSUME IInv, NEW W \in SUBSET Handlers, NEW r \in {"ok", "failed", "uncertain"},
           Deliver(W, r), \A g \in W : pc[g] = "wait",
           channel' \subseteq channel, \A c \in channel' : c.heard => c.h \notin W,
           pending' \subseteq pending, \A c \in pending' : c.h \notin W,
           wire' \subseteq wire,
           r = "ok" => \A g \in W : native[act[g]] # <<>>,
           r = "failed" => \A g \in W : Over(act[g])',
           UNCHANGED <<receipts, act, pay, answer, mode, native, epoch, requests>>,
           seen' \in [Handlers -> Nat], conn' \in {"down", "up", "stopped"}, troubles' \in Nat
    PROVE  IInv'
<1> USE DEF IInv
<1>1. /\ pc' \in [Handlers -> Stages] /\ res' \in [Handlers -> Verdicts \cup {"none", "uncertain"}]
      /\ Delivered(W, r)
  BY DeliverEffect
<1>2. TypeOK'
  BY <1>1 DEF TypeOK, receipts, mode
<1>3. WorkInv'
  <2>1. \A g \in Handlers : (Working(g)' => Working(g)) /\ (pc'[g] # "idle" => pc[g] # "idle")
    BY <1>1 DEF Working, Delivered
  <2> QED BY <2>1 DEF WorkInv, receipts
<1>4. \A a \in Actions : (Fresh(a) => Fresh(a)') /\ (Over(a) => Over(a)')
  BY DEF Fresh, Over
<1>5. RowInv'
  BY <1>4 DEF RowInv, receipts
<1>6. ChannelInv'
  BY <1>1 DEF ChannelInv, CommandInv, Delivered, TypeOK, Commands, receipts
<1>7. WireInv'
  BY DEF WireInv, PacketInv, receipts
<1>8. PendingInv'
  BY <1>1 DEF PendingInv, Delivered, TypeOK, Calls
<1>9. StageInv'
  <2>1. \A g \in Handlers : pc[g] # "idle" => act[g] \in Actions
    BY DEF WorkInv
  <2>2. ASSUME NEW g \in Handlers, g \notin W
        PROVE  pc'[g] = pc[g] /\ res'[g] = res[g]
    BY <2>2, <1>1 DEF Delivered
  <2>3. ASSUME NEW g \in W
        PROVE  /\ pc'[g] \in {"follow", "release", "finish"}
               /\ pc'[g] = "follow" => native'[act'[g]] # <<>>
               /\ pc'[g] = "release" => Over(act[g])'
               /\ pc'[g] = "finish" =>
                     \/ res'[g] = "rejected" /\ Over(act[g])'
                     \/ res'[g] = "uncertain"
    BY <2>3, <1>1 DEF Delivered
  <2> QED BY <2>1, <2>2, <2>3, <1>4 DEF StageInv
<1>10. AnswerInv'
  BY DEF AnswerInv, receipts
<1>11. SteerInv'
  BY <1>1 DEF SteerInv, Tied, Delivered, receipts
<1>12. QuietInv'
  <2>1. \A g \in Handlers : pc'[g] # "idle" => pc[g] # "idle"
    BY <1>1 DEF Delivered
  <2> QED BY <2>1, <1>1 DEF QuietInv, QuietWhenReleased, Delivered, receipts, mode
<1> QED BY <1>2, <1>3, <1>5, <1>6, <1>7, <1>8, <1>9, <1>10, <1>11, <1>12

\* A command that the worker turns away has reached nobody.
LEMMA TurnAwayKeeps ==
    ASSUME IInv, NEW c \in channel, channel' = channel \ {c}, Deliver(Caller(c), "failed"),
           UNCHANGED <<receipts, act, pay, seen, answer, pending, conn, epoch, mode, server, counts>>
    PROVE  IInv'
<1> USE DEF IInv
<1>1. c.h \in Handlers /\ c.a \in Actions /\ Caller(c) \in SUBSET Handlers
  BY DEF TypeOK, Commands, Caller
<1>2. \A g \in Caller(c) : pc[g] = "wait" /\ act[g] = c.a
  BY DEF Caller, ChannelInv, CommandInv
<1>3. \A d \in channel' : d.a # c.a /\ (d.heard => act[d.h] = d.a)
  BY DEF ChannelInv, CommandInv
<1>4. \A d \in pending' : d.a # c.a /\ act[d.h] = d.a
  BY DEF PendingInv
<1>5. Over(c.a)'
  BY <1>3 DEF Over, ChannelInv, CommandInv, server
<1>6. \A g \in Caller(c) : Over(act[g])'
  BY <1>2, <1>5 DEF Over
<1>7. seen' \in [Handlers -> Nat] /\ conn' \in {"down", "up", "stopped"} /\ troubles' \in Nat
  BY DEF TypeOK, counts
<1> QED BY <1>1, <1>2, <1>3, <1>4, <1>6, <1>7, DeliverKeeps DEF server, counts

\* The reply to a call reaches the handler that still waits for it.
LEMMA ReceiveKeeps ==
    ASSUME IInv, NEW w \in wire, Receive(w)
    PROVE  IInv'
<1> USE DEF IInv
<1> DEFINE call == [h |-> w.h, a |-> w.a]
           W == IF call \in pending THEN {w.h} ELSE {}
           r == IF w.reply = "ok" THEN "ok" ELSE "failed"
<1>1. /\ w.h \in Handlers /\ W \in SUBSET Handlers /\ r \in {"ok", "failed", "uncertain"}
      /\ call.h = w.h /\ call.a = w.a
  BY DEF TypeOK, Packets
<1>2. \A g \in W : pc[g] = "wait" /\ act[g] = w.a /\ g = w.h
  BY <1>1 DEF PendingInv
<1>3. /\ wire' = wire \ {w} /\ pending' = pending \ {call} /\ Deliver(W, r)
      /\ UNCHANGED <<receipts, act, pay, seen, answer, channel, conn, epoch, mode, native, counts>>
  BY DEF Receive
<1>4. r = "ok" => native[w.a] # <<>>
  BY DEF WireInv, PacketInv
<1>5. ASSUME call \in pending, r = "failed" PROVE Over(w.a)'
  <2>1. w.reply = "error" /\ native[w.a] = <<>> /\ \A x \in wire : x.a = w.a => x = w
    BY <1>5 DEF Receive, WireInv, PacketInv, TypeOK, Packets
  <2>2. \A d \in channel : d.a # w.a
    BY <1>1, <1>5 DEF PendingInv
  <2> QED BY <2>1, <2>2, <1>3 DEF Over
<1>6. \A d \in channel : d.heard => d.h \notin W
  BY <1>1, <1>2 DEF ChannelInv, CommandInv, PendingInv
<1>7. ASSUME NEW d \in pending, d # call PROVE d.h \notin W
  <2>1. d.h = w.h /\ d.h \in W => d.a = w.a
    BY <1>2 DEF PendingInv
  <2> QED BY <2>1, <1>2, <1>7 DEF TypeOK, Calls
<1>8. seen' \in [Handlers -> Nat] /\ conn' \in {"down", "up", "stopped"} /\ troubles' \in Nat
  BY <1>3 DEF TypeOK, counts
<1>9. (r = "ok" => \A g \in W : native[act[g]] # <<>>) /\ (r = "failed" => \A g \in W : Over(act[g])')
  BY <1>2, <1>3, <1>4, <1>5 DEF Over
<1> HIDE DEF call, W, r
<1> QED BY <1>1, <1>2, <1>3, <1>6, <1>7, <1>8, <1>9, DeliverKeeps DEF counts

\* A call given up after its deadline stays open.
LEMMA TimeOutKeeps ==
    ASSUME IInv, NEW c \in pending, TimeOut(c)
    PROVE  IInv'
<1> USE DEF IInv
<1>1. c \in Calls /\ c.h \in Handlers /\ {c.h} \in SUBSET Handlers /\ pc[c.h] = "wait" /\ act[c.h] = c.a
  BY DEF TypeOK, Calls, PendingInv
<1>2. \A d \in channel : d.heard => d.h # c.h
  BY <1>1 DEF ChannelInv, CommandInv, PendingInv
<1>3. ASSUME NEW d \in pending, d # c PROVE d.h # c.h
  <2>1. d \in Calls /\ (d.h = c.h => d.a = c.a)
    BY <1>1 DEF PendingInv, TypeOK
  <2> QED BY <2>1, <1>1, <1>3 DEF Calls
<1>4. seen' \in [Handlers -> Nat] /\ conn' \in {"down", "up", "stopped"} /\ troubles' \in Nat
  BY DEF TimeOut, TypeOK, counts
<1> QED BY <1>1, <1>2, <1>3, <1>4, DeliverKeeps DEF TimeOut, server, counts

\* Every call on a lost socket stays open.
LEMMA DropKeeps ==
    ASSUME IInv, Drop
    PROVE  IInv'
<1> USE DEF IInv
<1> DEFINE W == {c.h : c \in pending}
<1>1. W \in SUBSET Handlers /\ \A g \in W : pc[g] = "wait"
  BY DEF TypeOK, Calls, PendingInv
<1>2. \A d \in channel : d.heard => d.h \notin W
  BY DEF ChannelInv, CommandInv, PendingInv
<1>3. Deliver(W, "uncertain") /\ wire' \subseteq wire /\ pending' = {} /\ UNCHANGED channel
  BY DEF Drop, Unread
<1>4. seen' \in [Handlers -> Nat] /\ conn' \in {"down", "up", "stopped"} /\ troubles' \in Nat
  BY DEF Drop, TypeOK, Trouble
<1> HIDE DEF W
<1> QED BY <1>1, <1>2, <1>3, <1>4, DeliverKeeps DEF Drop, Trouble

\* So does all that a stopped worker leaves behind.
LEMMA WorkerStopsKeeps ==
    ASSUME IInv, WorkerStops
    PROVE  IInv'
<1> USE DEF IInv
<1> DEFINE W == {c.h : c \in pending} \cup UNION {Caller(c) : c \in channel}
<1>1. W \in SUBSET Handlers /\ \A g \in W : pc[g] = "wait"
  BY DEF TypeOK, Calls, Commands, Caller, PendingInv, ChannelInv, CommandInv
<1>2. Deliver(W, "uncertain") /\ wire' \subseteq wire /\ pending' = {} /\ channel' = {}
  BY DEF WorkerStops, Unread
<1>3. seen' \in [Handlers -> Nat] /\ conn' \in {"down", "up", "stopped"} /\ troubles' \in Nat
  BY DEF WorkerStops, TypeOK, counts
<1> HIDE DEF W
<1> QED BY <1>1, <1>2, <1>3, DeliverKeeps DEF WorkerStops, counts

\* A command is sent when nothing else is left of its action.
LEMMA CallKeeps ==
    ASSUME IInv, NEW h \in Handlers, Call(h)
    PROVE  IInv'
<1> USE GatewayAssumption DEF IInv
<1>1. pc[h] = "call" /\ UNCHANGED <<receipts, act, pay, answer, pending, server, mode, conn, epoch, counts>>
  BY DEF Call
<1>2. /\ Fresh(act[h]) /\ act[h] \in Actions /\ pay[h] \in Payloads
      /\ receipt[act[h]] = "uncertain" /\ act[h] \notin retired /\ claimedAs[act[h]] = pay[h]
  BY <1>1 DEF StageInv, WorkInv, Working
<1>3. PICK n \in Commands :
         /\ n.h = h /\ n.a = act[h] /\ n.p = pay[h] /\ ~n.late /\ n.heard
         /\ \/ Deliver({h}, "failed") /\ UNCHANGED channel
            \/ Goto(h, "wait", "none") /\ channel' = channel \cup {n}
  <2> DEFINE m == [h |-> h, a |-> act[h], p |-> pay[h],
                   epoch |-> IF FencedByRead(h) THEN seen[h] ELSE epoch,
                   late |-> FALSE, heard |-> TRUE]
  <2>1. m \in Commands
    BY <1>2 DEF TypeOK, Commands
  <2>2. m.h = h /\ m.a = act[h] /\ m.p = pay[h] /\ ~m.late /\ m.heard
    OBVIOUS
  <2>3. \/ Deliver({h}, "failed") /\ UNCHANGED channel
        \/ Goto(h, "wait", "none") /\ channel' = channel \cup {m}
    BY DEF Call
  <2> HIDE DEF m
  <2> QED BY <2>1, <2>2, <2>3
<1>4. /\ pc' \in [Handlers -> Stages] /\ res' \in [Handlers -> Verdicts \cup {"none", "uncertain"}]
      /\ \A g \in Handlers : g # h => pc'[g] = pc[g] /\ res'[g] = res[g]
      /\ \/ /\ channel' = channel
            /\ \/ pc'[h] = "release" /\ pay[h] \in Steers
               \/ pc'[h] = "finish" /\ res'[h] = "rejected"
         \/ pc'[h] = "wait" /\ channel' = channel \cup {n}
  <2>1. CASE Deliver({h}, "failed") /\ UNCHANGED channel
    <3>1. {h} \in SUBSET Handlers
      OBVIOUS
    <3>2. /\ pc' \in [Handlers -> Stages]
          /\ res' \in [Handlers -> Verdicts \cup {"none", "uncertain"}]
          /\ Delivered({h}, "failed")
      BY <2>1, <3>1, DeliverEffect
    <3> QED BY <2>1, <3>2 DEF Delivered
  <2>2. CASE Goto(h, "wait", "none") /\ channel' = channel \cup {n}
    BY <2>2 DEF Goto, TypeOK, Stages
  <2> QED BY <1>3, <2>1, <2>2
<1>5. TypeOK'
  <2>1. seen' \in [Handlers -> Nat]
    BY DEF TypeOK, Call
  <2> QED BY <2>1, <1>1, <1>3, <1>4 DEF TypeOK, receipts, mode, server, counts
<1>6. WorkInv'
  BY <1>1, <1>4 DEF WorkInv, Working, receipts
<1>7. RowInv'
  BY <1>1, <1>2, <1>3, <1>4 DEF RowInv, Fresh, Over, receipts, server
<1>8. \A c \in channel : c.a # act[h] /\ (c.heard => c.h # h)
  BY <1>1, <1>2 DEF Fresh, ChannelInv, CommandInv
<1>9. ChannelInv'
  <2>1. ASSUME NEW c \in channel PROVE CommandInv(c)'
    BY <1>1, <1>2, <1>3, <1>4, <1>8 DEF ChannelInv, CommandInv, TypeOK, Commands, receipts, server
  <2>2. CASE pc'[h] = "wait" /\ channel' = channel \cup {n} 
    <3>1. CommandInv(n)'
      BY <2>2, <1>1, <1>2, <1>3, <1>8 DEF CommandInv, Fresh, receipts, server
    <3> QED BY <2>1, <2>2, <3>1 DEF ChannelInv
  <2>3. CASE channel' = channel
    BY <2>1, <2>3 DEF ChannelInv
  <2> QED BY <2>3, <2>2, <1>4
<1>10. WireInv'
  BY <1>1 DEF WireInv, PacketInv, receipts, server
<1>11. PendingInv'
  <2>1. \A c \in pending : c.h # h /\ c.h \in Handlers
    BY <1>1 DEF PendingInv, TypeOK, Calls
  <2>2. \A c \in pending : c.a # act[h]
    BY <1>1, <2>1 DEF PendingInv, WorkInv, Working
  <2> QED BY <2>1, <2>2, <1>1, <1>3, <1>4 DEF PendingInv
<1>12. StageInv'
  <2>1. ASSUME NEW g \in Handlers, g # h,
               pc[g] \in {"prepare", "bind", "call", "release", "finish"}
        PROVE  (Fresh(act[g]) => Fresh(act[g])') /\ (Over(act[g]) => Over(act[g])')
    <3>1. act[g] # act[h]
      BY <2>1, <1>1 DEF WorkInv, Working
    <3> QED BY <3>1, <1>1, <1>3, <1>4 DEF Fresh, Over, receipts, server
  <2>2. pc'[h] # "wait" => Over(act[h])'
    BY <1>1, <1>2, <1>4 DEF Fresh, Over, server
  <2> QED BY <2>1, <2>2, <1>1, <1>4 DEF StageInv, server
<1>13. AnswerInv'
  BY <1>1 DEF AnswerInv, receipts, server
<1>14. SteerInv'
  BY <1>1, <1>2, <1>3, <1>4 DEF SteerInv, Tied, receipts, server
<1>15. QuietInv'
  BY <1>1, <1>4 DEF QuietInv, QuietWhenReleased, mode, receipts
<1> QED BY <1>5, <1>6, <1>7, <1>9, <1>10, <1>11, <1>12, <1>13, <1>14, <1>15

\* A command given up is late, and stays in the channel for nobody.
LEMMA GiveUpKeeps ==
    ASSUME IInv, NEW h \in Handlers, GiveUp(h)
    PROVE  IInv'
<1> USE GatewayAssumption DEF IInv
<1> DEFINE Mine(c) == c.h = h /\ c.heard
           Copy(n, c) == /\ n.h = c.h /\ n.a = c.a /\ n.p = c.p /\ n.late = c.late
                         /\ n.epoch = c.epoch /\ n \in Commands
                         /\ IF Mine(c) THEN ~n.heard ELSE n = c
<1>1. /\ pc[h] = "wait" /\ \A c \in channel : Mine(c) => c.late
      /\ pending' = {c \in pending : c.h # h} /\ Deliver({h}, "uncertain")
      /\ UNCHANGED <<receipts, act, pay, seen, answer, conn, epoch, mode, server, counts>>
  BY DEF GiveUp
<1>2. \A n \in channel' : \E c \in channel : Copy(n, c)
  <2> SUFFICES ASSUME NEW n \in channel' PROVE \E c \in channel : Copy(n, c)
    OBVIOUS
  <2>1. CASE n \in channel /\ ~Mine(n)
    BY <2>1 DEF TypeOK
  <2>2. ASSUME NEW c \in channel, Mine(c), n = [c EXCEPT !.heard = FALSE] PROVE Copy(n, c)
    BY <2>2 DEF TypeOK, Commands
  <2>3. (n \in channel /\ ~Mine(n)) \/ \E c \in channel : Mine(c) /\ n = [c EXCEPT !.heard = FALSE]
    BY DEF GiveUp
  <2> HIDE DEF Copy, Mine
  <2> QED BY <2>1, <2>2, <2>3
<1>3. /\ pc' \in [Handlers -> Stages] /\ res' \in [Handlers -> Verdicts \cup {"none", "uncertain"}]
      /\ pc'[h] = "finish" /\ res'[h] = "uncertain"
      /\ \A g \in Handlers : g # h => pc'[g] = pc[g] /\ res'[g] = res[g]
  <2>1. {h} \in SUBSET Handlers
    OBVIOUS
  <2>2. /\ pc' \in [Handlers -> Stages] /\ res' \in [Handlers -> Verdicts \cup {"none", "uncertain"}]
        /\ Delivered({h}, "uncertain")
    BY <1>1, <2>1, DeliverEffect
  <2> QED BY <2>2 DEF Delivered
<1>4. TypeOK'
  <2>1. channel' \subseteq Commands /\ pending' \subseteq Calls
    BY <1>1, <1>2 DEF TypeOK
  <2> QED BY <2>1, <1>1, <1>3 DEF TypeOK, receipts, mode, server, counts
<1>5. WorkInv'
  <2>1. \A g \in Handlers : (Working(g)' => Working(g)) /\ (pc'[g] # "idle" => pc[g] # "idle")
    BY <1>1, <1>3 DEF Working
  <2> QED BY <2>1, <1>1 DEF WorkInv, receipts
<1>6. \A a \in Actions : (Fresh(a) => Fresh(a)') /\ (Over(a) => Over(a)')
  BY <1>1, <1>2 DEF Fresh, Over, server
<1>7. RowInv'
  BY <1>1, <1>6 DEF RowInv, receipts, server
<1>8. ChannelInv'
  <2> SUFFICES ASSUME NEW n \in channel' PROVE CommandInv(n)'
    BY DEF ChannelInv
  <2>1. PICK c \in channel : Copy(n, c)
    BY <1>2
  <2>2. CommandInv(c) /\ c \in Commands
    BY DEF ChannelInv, TypeOK
  <2>3. ASSUME NEW d \in channel', d.a = n.a PROVE d = n
    <3>1. PICK e \in channel : Copy(d, e)
      BY <1>2
    <3>2. e = c
      BY <2>1, <2>2, <2>3, <3>1 DEF CommandInv
    <3> QED BY <2>1, <3>1, <3>2 DEF Commands
  <2>4. n.late \/ n.heard
    BY <1>1, <2>1, <2>2 DEF CommandInv
  <2>5. n.heard => pc'[n.h] = "wait" /\ act'[n.h] = n.a
    BY <1>1, <1>3, <2>1, <2>2 DEF CommandInv, Commands
  <2>6. /\ receipt[n.a] = "uncertain" /\ n.a \notin retired /\ n.p = claimedAs[n.a]
        /\ native[n.a] = <<>> /\ \A w \in wire : w.a # n.a
    BY <2>1, <2>2 DEF CommandInv
  <2> QED BY <1>1, <2>3, <2>4, <2>5, <2>6 DEF CommandInv, receipts, server
<1>9. WireInv'
  BY <1>1 DEF WireInv, PacketInv, receipts, server
<1>10. PendingInv'
  BY <1>1, <1>2, <1>3 DEF PendingInv, TypeOK, Calls
<1>11. StageInv'
  <2>1. \A g \in Handlers : pc[g] # "idle" => act[g] \in Actions
    BY DEF WorkInv
  <2> QED BY <2>1, <1>1, <1>3, <1>6 DEF StageInv, server
<1>12. AnswerInv'
  BY <1>1 DEF AnswerInv, receipts, server
<1>13. SteerInv'
  BY <1>1, <1>2, <1>3 DEF SteerInv, Tied, receipts, server
<1>14. QuietInv'
  BY <1>1, <1>3 DEF QuietInv, QuietWhenReleased, receipts, mode
<1> QED BY <1>4, <1>5, <1>7, <1>8, <1>9, <1>10, <1>11, <1>12, <1>13, <1>14

\* A command that is written becomes the one packet of its action.
LEMMA WriteKeeps ==
    ASSUME IInv, NEW c \in channel, Write(c)
    PROVE  IInv'
<1> USE DEF IInv
<1>1. PICK k \in Calls, n \in Packets :
         /\ k.h = c.h /\ k.a = c.a
         /\ n.h = c.h /\ n.a = c.a /\ n.p = c.p /\ n.reply = "none"
         /\ pending' = pending \cup {k} /\ wire' = wire \cup {n}
  <2> DEFINE k == [h |-> c.h, a |-> c.a]
             n == [h |-> c.h, a |-> c.a, p |-> c.p, reply |-> "none"]
  <2>1. k \in Calls /\ n \in Packets
    BY DEF TypeOK, Commands, Calls, Packets
  <2>2. k.h = c.h /\ k.a = c.a /\ n.h = c.h /\ n.a = c.a /\ n.p = c.p /\ n.reply = "none"
    OBVIOUS
  <2>3. pending' = pending \cup {k} /\ wire' = wire \cup {n}
    BY DEF Write
  <2> HIDE DEF k, n
  <2> QED BY <2>1, <2>2, <2>3
<1>2. /\ ~c.late /\ channel' = channel \ {c}
      /\ UNCHANGED <<receipts, handlers, conn, epoch, mode, native, counts>>
  BY DEF Write
<1>3. /\ receipt[c.a] = "uncertain" /\ c.a \notin retired /\ c.p = claimedAs[c.a]
      /\ native[c.a] = <<>> /\ c.a \in Actions /\ c.h \in Handlers
      /\ \A d \in channel : d.a = c.a => d = c
      /\ \A w \in wire : w.a # c.a
      /\ pc[c.h] = "wait" /\ act[c.h] = c.a
  BY <1>2 DEF ChannelInv, CommandInv, TypeOK, Commands
<1>4. TypeOK'
  BY <1>1, <1>2 DEF TypeOK, receipts, handlers, mode, counts
<1>5. WorkInv'
  BY <1>2 DEF WorkInv, Working, receipts, handlers
<1>6. \A a \in Actions \ {c.a} : (Fresh(a) => Fresh(a)') /\ (Over(a) => Over(a)')
  BY <1>1, <1>2 DEF Fresh, Over
<1>7. RowInv'
  BY <1>2, <1>3, <1>6 DEF RowInv, receipts
<1>8. ChannelInv'
  <2>1. ASSUME NEW d \in channel, d # c PROVE CommandInv(d)'
    BY <2>1, <1>1, <1>2, <1>3 DEF ChannelInv, CommandInv, receipts, handlers
  <2> QED BY <2>1, <1>2 DEF ChannelInv
<1>9. WireInv'
  <2>1. PacketInv(n)'
    BY <1>1, <1>2, <1>3 DEF PacketInv, receipts
  <2>2. ASSUME NEW w \in wire PROVE PacketInv(w)'
    BY <1>1, <1>2, <1>3 DEF WireInv, PacketInv, receipts
  <2> QED BY <2>1, <2>2, <1>1 DEF WireInv
<1>10. PendingInv'
  BY <1>1, <1>2, <1>3 DEF PendingInv, handlers
<1>11. StageInv'
  <2>1. \A g \in Handlers : pc[g] \in {"prepare", "bind", "call", "release"} => act[g] # c.a
    BY DEF StageInv, Fresh, Over
  <2>2. \A g \in Handlers : pc[g] = "finish" /\ res[g] = "rejected" => act[g] # c.a
    BY DEF StageInv, Over
  <2>3. \A g \in Handlers : pc[g] # "idle" => act[g] \in Actions
    BY DEF WorkInv
  <2> QED BY <2>1, <2>2, <2>3, <1>2, <1>6 DEF StageInv, handlers
<1>12. AnswerInv'
  BY <1>2 DEF AnswerInv, receipts, handlers
<1>13. SteerInv'
  BY <1>1, <1>2 DEF SteerInv, Tied, receipts, handlers
<1>14. QuietInv'
  BY <1>2 DEF QuietInv, QuietWhenReleased, receipts, handlers, mode
<1> QED BY <1>4, <1>5, <1>7, <1>8, <1>9, <1>10, <1>11, <1>12, <1>13, <1>14

\* A deadline that passes marks the command.
LEMMA DeadlineKeeps ==
    ASSUME IInv, NEW c \in channel, Deadline(c)
    PROVE  IInv'
<1> USE DEF IInv
<1>1. PICK n \in Commands :
         /\ n.h = c.h /\ n.a = c.a /\ n.p = c.p /\ n.heard = c.heard /\ n.late
         /\ channel' = (channel \ {c}) \cup {n}
  <2> DEFINE n == [c EXCEPT !.late = TRUE]
  <2>1. n \in Commands /\ n.h = c.h /\ n.a = c.a /\ n.p = c.p /\ n.heard = c.heard /\ n.late
    BY DEF TypeOK, Commands
  <2>2. channel' = (channel \ {c}) \cup {n}
    BY DEF Deadline
  <2> HIDE DEF n
  <2> QED BY <2>1, <2>2
<1>2. UNCHANGED <<receipts, handlers, pending, conn, epoch, mode, server, counts>>
  BY DEF Deadline
<1>3. TypeOK'
  BY <1>1, <1>2 DEF TypeOK, receipts, handlers, mode, server, counts
<1>4. WorkInv'
  BY <1>2 DEF WorkInv, Working, receipts, handlers
<1>5. \A a \in Actions : (Fresh(a) => Fresh(a)') /\ (Over(a) => Over(a)')
  BY <1>1, <1>2 DEF Fresh, Over, server
<1>6. RowInv'
  BY <1>2, <1>5 DEF RowInv, receipts, server
<1>7. ChannelInv'
  <2>1. CommandInv(n)'
    BY <1>1, <1>2 DEF ChannelInv, CommandInv, receipts, handlers, server
  <2>2. ASSUME NEW d \in channel, d # c PROVE CommandInv(d)'
    BY <2>2, <1>1, <1>2 DEF ChannelInv, CommandInv, receipts, handlers, server
  <2> QED BY <2>1, <2>2, <1>1 DEF ChannelInv
<1>8. WireInv'
  BY <1>2 DEF WireInv, PacketInv, receipts, server
<1>9. PendingInv'
  BY <1>1, <1>2 DEF PendingInv, handlers
<1>10. StageInv'
  <2>1. \A g \in Handlers : pc[g] # "idle" => act[g] \in Actions
    BY DEF WorkInv
  <2> QED BY <2>1, <1>2, <1>5 DEF StageInv, handlers, server
<1>11. AnswerInv'
  BY <1>2 DEF AnswerInv, receipts, handlers, server
<1>12. SteerInv'
  BY <1>1, <1>2 DEF SteerInv, Tied, receipts, handlers, server
<1>13. QuietInv'
  BY <1>2 DEF QuietInv, QuietWhenReleased, receipts, handlers, mode
<1> QED BY <1>3, <1>4, <1>6, <1>7, <1>8, <1>9, <1>10, <1>11, <1>12, <1>13

\* A call that the server refuses is over.
LEMMA RefuseKeeps ==
    ASSUME IInv, NEW w \in wire, Refuse(w)
    PROVE  IInv'
<1> USE DEF IInv
<1>1. PICK n \in Packets :
         /\ n.h = w.h /\ n.a = w.a /\ n.p = w.p /\ n.reply = "error"
         /\ wire' \subseteq (wire \ {w}) \cup {n}
  <2> DEFINE n == [w EXCEPT !.reply = "error"]
  <2>1. n \in Packets /\ n.h = w.h /\ n.a = w.a /\ n.p = w.p /\ n.reply = "error"
    BY DEF TypeOK, Packets
  <2>2. wire' \subseteq (wire \ {w}) \cup {n}
    BY DEF Refuse, Answered
  <2> HIDE DEF n
  <2> QED BY <2>1, <2>2
<1>2. w.reply = "none" /\ UNCHANGED <<receipts, handlers, worker, mode, native, counts>>
  BY DEF Refuse
<1>3. /\ receipt[w.a] = "uncertain" /\ native[w.a] = <<>> /\ w.p = claimedAs[w.a]
      /\ \A x \in wire : x.a = w.a => x = w
  BY <1>2 DEF WireInv, PacketInv
<1>4. TypeOK'
  BY <1>1, <1>2 DEF TypeOK, receipts, handlers, worker, mode, counts
<1>5. WorkInv'
  BY <1>2 DEF WorkInv, Working, receipts, handlers
<1>6. \A a \in Actions : (Fresh(a) => Fresh(a)') /\ (Over(a) => Over(a)')
  BY <1>1, <1>2 DEF Fresh, Over, worker
<1>7. RowInv'
  BY <1>2, <1>6 DEF RowInv, receipts
<1>8. ChannelInv'
  BY <1>1, <1>2 DEF ChannelInv, CommandInv, receipts, handlers, worker
<1>9. WireInv'
  <2>1. PacketInv(n)'
    BY <1>1, <1>2, <1>3 DEF PacketInv, receipts
  <2>2. ASSUME NEW x \in wire, x # w PROVE PacketInv(x)'
    BY <2>2, <1>1, <1>2, <1>3 DEF WireInv, PacketInv, receipts
  <2> QED BY <2>1, <2>2, <1>1 DEF WireInv
<1>10. PendingInv'
  BY <1>2 DEF PendingInv, handlers, worker
<1>11. StageInv'
  <2>1. \A g \in Handlers : pc[g] # "idle" => act[g] \in Actions
    BY DEF WorkInv
  <2> QED BY <2>1, <1>2, <1>6 DEF StageInv, handlers
<1>12. AnswerInv'
  BY <1>2 DEF AnswerInv, receipts, handlers
<1>13. SteerInv'
  BY <1>1, <1>2 DEF SteerInv, Tied, receipts, handlers, worker
<1>14. QuietInv'
  BY <1>2 DEF QuietInv, QuietWhenReleased, receipts, handlers, mode
<1> QED BY <1>4, <1>5, <1>7, <1>8, <1>9, <1>10, <1>11, <1>12, <1>13, <1>14

\* A restart forgets the handlers and the channel; what is on its way stays uncertain.
LEMMA RestartKeeps ==
    ASSUME IInv, Restart
    PROVE  IInv'
<1> USE DEF IInv
<1>1. /\ channel' = {} /\ pending' = {} /\ wire' \subseteq wire
      /\ \A w \in wire' : w.reply = "none"
      /\ UNCHANGED <<claimedAs, binding, native>>
  BY DEF Restart, Start, Unread
<1>2. \A h \in Handlers : pc'[h] = "idle" /\ answer'[h] = "none" /\ act'[h] = None
  BY DEF Restart, Start
<1>3. TableTypes' /\ Retires(Expired)
  BY PruneEffect DEF Restart, Start
<1>4. lifecycle' = "active" /\ leaving' = NotLeaving
  BY DEF Restart, Start
<1>5. TypeOK'
  <2>1. HandlerTypes'
    BY DEF Restart, Start, HandlerTypes, Stages, Answers
  <2>2. leaving' \in [stage : {"no", "checking", "checked"}, epoch : Nat, touched : BOOLEAN]
    BY <1>4 DEF NotLeaving
  <2>3. requests' \in Nat /\ troubles' \in Nat
    BY DEF Restart, Trouble, TypeOK
  <2> QED BY <2>1, <2>2, <2>3, <1>1, <1>3 DEF Restart, Start, TypeOK, TableTypes, HandlerTypes
<1>6. WorkInv'
  BY <1>2 DEF WorkInv, Working
<1>7. \A a \in Actions : (Fresh(a) => Fresh(a)') /\ (Over(a) => Over(a)')
  BY <1>1 DEF Fresh, Over
<1>8. RowInv'
  BY <1>1, <1>3, <1>7 DEF RowInv, Retires, Verdicts
<1>9. ChannelInv' /\ PendingInv'
  BY <1>1 DEF ChannelInv, PendingInv
<1>10. WireInv'
  <2>1. \A w \in wire' : w \in wire /\ w.a \in Actions /\ w.a \notin Expired
    <3>1. \A w \in wire' : w \in wire /\ w.a \in Actions /\ receipt[w.a] = "uncertain"
      BY <1>1 DEF WireInv, PacketInv, TypeOK, Packets
    <3> QED BY <3>1, <1>3 DEF Retires, Verdicts
  <2> QED BY <2>1, <1>1, <1>3 DEF WireInv, PacketInv, Retires
<1>11. StageInv' /\ AnswerInv'
  BY <1>2 DEF StageInv, AnswerInv
<1>12. SteerInv'
  BY <1>1, <1>2 DEF SteerInv, Tied
<1>13. QuietInv'
  BY <1>2, <1>4 DEF QuietInv, QuietWhenReleased, NotLeaving
<1> QED BY <1>5, <1>6, <1>8, <1>9, <1>10, <1>11, <1>12, <1>13

\* A request begins with nothing but its own action and body.
LEMMA PostKeeps ==
    ASSUME IInv, NEW h \in Handlers, NEW a \in Actions, NEW p \in Payloads, Post(h, a, p)
    PROVE  IInv'
<1> USE DEF IInv
<1>1. /\ pc[h] = "idle" /\ lifecycle = "active" /\ Activity
      /\ UNCHANGED <<receipts, seen, res, worker, reading, stopping, lifecycle, vouched, server,
                     troubles>>
  BY DEF Post, Admitting
<1>2. /\ pc' \in [Handlers -> Stages] /\ act' \in [Handlers -> Actions \cup {None}]
      /\ pay' \in [Handlers -> Payloads \cup {None}] /\ answer' \in [Handlers -> Answers]
  BY DEF Post, TypeOK, Stages, Answers
<1>3. /\ pc'[h] = "claim" /\ act'[h] = a /\ pay'[h] = p /\ answer'[h] = "none"
      /\ \A g \in Handlers : g # h =>
            pc'[g] = pc[g] /\ act'[g] = act[g] /\ pay'[g] = pay[g] /\ answer'[g] = answer[g]
  BY DEF Post, TypeOK
<1>4. TypeOK'
  <2>1. leaving' \in [stage : {"no", "checking", "checked"}, epoch : Nat, touched : BOOLEAN]
    BY <1>1 DEF Activity, TypeOK
  <2>2. requests' \in Nat
    BY DEF Post, TypeOK
  <2> QED BY <2>1, <2>2, <1>1, <1>2 DEF TypeOK, receipts, worker, server
<1>5. WorkInv'
  <2>1. \A g \in Handlers : Working(g)' => g # h /\ Working(g)
    BY <1>3 DEF Working
  <2> QED BY <2>1, <1>1, <1>3 DEF WorkInv, receipts
<1>6. RowInv'
  BY <1>1 DEF RowInv, Fresh, Over, receipts, worker, server
<1>7. ChannelInv'
  <2>1. \A c \in channel : c.heard => c.h # h /\ c.h \in Handlers
    BY <1>1 DEF ChannelInv, CommandInv, TypeOK, Commands
  <2> QED BY <2>1, <1>1, <1>3 DEF ChannelInv, CommandInv, receipts, worker, server
<1>8. WireInv'
  BY <1>1 DEF WireInv, PacketInv, receipts, server
<1>9. PendingInv'
  <2>1. \A c \in pending : c.h # h /\ c.h \in Handlers
    BY <1>1 DEF PendingInv, TypeOK, Calls
  <2> QED BY <2>1, <1>1, <1>3 DEF PendingInv, worker
<1>10. StageInv'
  BY <1>1, <1>3 DEF StageInv, Fresh, Over, worker, server
<1>11. AnswerInv'
  BY <1>1, <1>3 DEF AnswerInv, receipts, server
<1>12. SteerInv'
  BY <1>1, <1>3 DEF SteerInv, Tied, receipts, worker, server
<1>13. QuietInv'
  BY <1>1 DEF QuietInv, QuietWhenReleased, Activity, receipts
<1> QED BY <1>4, <1>5, <1>6, <1>7, <1>8, <1>9, <1>10, <1>11, <1>12, <1>13

\* Steps that leave the tables, the handlers and their calls alone.
LEMMA ModeKeeps ==
    ASSUME IInv, UNCHANGED <<receipt, claimedAs, retired, binding, handlers, channel, pending, server>>,
           TypeOK', QuietInv'
    PROVE  IInv'
<1> USE DEF IInv, handlers, server
<1>1. WorkInv'
  BY DEF WorkInv, Working
<1>2. RowInv' /\ StageInv'
  BY DEF RowInv, StageInv, Fresh, Over
<1>3. ChannelInv' /\ WireInv' /\ PendingInv'
  BY DEF ChannelInv, CommandInv, WireInv, PacketInv, PendingInv
<1>4. AnswerInv' /\ SteerInv'
  BY DEF AnswerInv, SteerInv, Tied
<1> QED BY <1>1, <1>2, <1>3, <1>4

\* A read changes nothing but the lock it holds and the activity that disconnect() compares.
LEMMA GetKeeps ==
    ASSUME IInv, Get
    PROVE  IInv'
<1> USE DEF IInv, Get, receipts, handlers, server, worker, counts, Activity, Admitting
<1>1. TypeOK'
  BY DEF TypeOK
<1>2. QuietInv'
  BY DEF QuietInv, QuietWhenReleased, TypeOK
<1> QED BY <1>1, <1>2, ModeKeeps

\* The lock is given back.
LEMMA EndGetKeeps ==
    ASSUME IInv, EndGet
    PROVE  IInv'
<1> USE DEF IInv, EndGet, receipts, handlers, server, worker, counts
<1>1. TypeOK'
  BY DEF TypeOK
<1>2. QuietInv'
  BY DEF QuietInv, QuietWhenReleased, TypeOK
<1> QED BY <1>1, <1>2, ModeKeeps

\* A new connection changes its number only.
LEMMA ConnectKeeps ==
    ASSUME IInv, Connect
    PROVE  IInv'
<1> USE DEF IInv, Connect, receipts, handlers, server, worker, mode, counts
<1>1. TypeOK'
  BY DEF TypeOK
<1>2. QuietInv'
  BY DEF QuietInv, QuietWhenReleased, TypeOK
<1> QED BY <1>1, <1>2, ModeKeeps

\* When disconnect() begins nobody works.
LEMMA DisconnectBeginsKeeps ==
    ASSUME IInv, DisconnectBegins
    PROVE  IInv'
<1> USE DEF IInv, DisconnectBegins, receipts, handlers, server, worker, counts, NoReader, Trouble
<1>1. TypeOK'
  BY DEF TypeOK
<1>2. QuietInv'
  BY DEF QuietInv, QuietWhenReleased, TypeOK
<1> QED BY <1>1, <1>2, ModeKeeps

\* It ends cleanly only where nobody came in between.
LEMMA DisconnectEndsKeeps ==
    ASSUME IInv, DisconnectEnds
    PROVE  IInv'
<1> USE DEF IInv, DisconnectEnds, receipts, handlers, server, worker, counts, NoReader, NotLeaving, StillQuiet
<1>1. TypeOK'
  BY DEF TypeOK
<1>2. QuietInv'
  BY DEF QuietInv, QuietWhenReleased, TypeOK
<1> QED BY <1>1, <1>2, ModeKeeps

\* A forced disconnect waits until nobody works.
LEMMA ForceDisconnectKeeps ==
    ASSUME IInv, ForceDisconnect
    PROVE  IInv'
<1> USE DEF IInv, ForceDisconnect, receipts, handlers, server, worker, counts, NoReader, Trouble
<1>1. TypeOK'
  BY DEF TypeOK
<1>2. QuietInv'
  BY DEF QuietInv, QuietWhenReleased, TypeOK
<1> QED BY <1>1, <1>2, ModeKeeps

\* close() raises its fence.
LEMMA CloseBeginsKeeps ==
    ASSUME IInv, CloseBegins
    PROVE  IInv'
<1> USE DEF IInv, CloseBegins, receipts, handlers, server, worker, counts, Trouble
<1>1. TypeOK'
  BY DEF TypeOK
<1>2. QuietInv'
  BY DEF QuietInv, QuietWhenReleased, TypeOK
<1> QED BY <1>1, <1>2, ModeKeeps

\* It ends when nobody works.
LEMMA CloseEndsKeeps ==
    ASSUME IInv, CloseEnds
    PROVE  IInv'
<1> USE DEF IInv, CloseEnds, receipts, handlers, server, worker, counts, NoReader
<1>1. TypeOK'
  BY DEF TypeOK
<1>2. QuietInv'
  BY DEF QuietInv, QuietWhenReleased, TypeOK
<1> QED BY <1>1, <1>2, ModeKeeps

\* Of what disconnect() finds idle, all that is accepted has run.
LEMMA DisconnectChecksKeeps ==
    ASSUME IInv, DisconnectChecks
    PROVE  IInv'
<1> USE DEF IInv
<1>1. UNCHANGED <<receipts, handlers, worker, reading, stopping, lifecycle, server, counts>>
  BY DEF DisconnectChecks
<1>2. vouched' = {a \in Actions : native[a] # <<>>} \/ UNCHANGED vouched
  BY DEF DisconnectChecks
<1>3. TypeOK'
  <2>1. leaving.epoch \in Nat /\ leaving.touched \in BOOLEAN
    BY DEF TypeOK
  <2>2. leaving' \in [stage : {"no", "checking", "checked"}, epoch : Nat, touched : BOOLEAN]
    <3>1. CASE leaving' = [stage |-> "checked", epoch |-> leaving.epoch, touched |-> leaving.touched]
      BY <2>1, <3>1
    <3>2. CASE leaving' = NotLeaving
      BY <3>2 DEF NotLeaving
    <3> QED BY <3>1, <3>2 DEF DisconnectChecks
  <2> QED BY <2>2, <1>1, <1>2 DEF TypeOK, receipts, handlers, worker, server, counts
<1>4. QuietInv'
  <2>1. \A a \in Actions : receipt[a] = "accepted" => native[a] # <<>>
    BY DEF RowInv
  <2>2. lifecycle = "clean" => \A a \in Actions : receipt[a] = "accepted" => a \in vouched'
    BY <2>1, <1>2 DEF QuietInv, QuietWhenReleased
  <2> QED BY <2>1, <2>2, <1>1 DEF QuietInv, QuietWhenReleased, DisconnectChecks, NotLeaving,
                                 receipts, handlers
<1> QED BY <1>1, <1>3, <1>4, ModeKeeps DEF receipts, worker

\* A row ages.
LEMMA AgeKeeps ==
    ASSUME IInv, NEW a \in Actions, Age(a)
    PROVE  IInv'
<1>1. TypeOK'
  BY DEF IInv, TypeOK, Age, Trouble, handlers, worker, mode, server
<1>2. QuietInv'
  BY DEF IInv, QuietInv, QuietWhenReleased, Age, handlers, mode
<1> QED BY <1>1, <1>2, ModeKeeps DEF Age, worker

(***************************************************************************)
(* The invariant.                                                          *)
(***************************************************************************)

\* It holds of a gateway that starts.
LEMMA InitEstablishes ==
    ASSUME Init
    PROVE  IInv
<1> USE GatewayAssumption DEF Init
<1>1. TypeOK
  <2>1. native \in [Actions -> Seq(Payloads)]
    OBVIOUS
  <2>2. leaving \in [stage : {"no", "checking", "checked"}, epoch : Nat, touched : BOOLEAN]
    BY DEF NotLeaving
  <2>3. /\ pc \in [Handlers -> Stages] /\ answer \in [Handlers -> Answers]
        /\ res \in [Handlers -> Verdicts \cup {"none", "uncertain"}]
        /\ receipt \in [Actions -> Verdicts \cup {"none", "uncertain"}]
    BY DEF Stages, Answers
  <2> QED BY <2>1, <2>2, <2>3 DEF TypeOK
<1>2. WorkInv /\ StageInv /\ AnswerInv
  BY DEF WorkInv, Working, StageInv, AnswerInv
<1>3. RowInv
  BY DEF RowInv, Fresh
<1>4. ChannelInv /\ WireInv /\ PendingInv
  BY DEF ChannelInv, WireInv, PendingInv
<1>5. SteerInv
  BY DEF SteerInv
<1>6. QuietInv
  BY DEF QuietInv, QuietWhenReleased, NotLeaving
<1> QED BY <1>1, <1>2, <1>3, <1>4, <1>5, <1>6 DEF IInv

\* Every step of a handler keeps it.
LEMMA HandlerStepKeeps ==
    ASSUME IInv, NEW h \in Handlers, HandlerStep(h)
    PROVE  IInv'
<1>1. CASE Claim(h)
  BY <1>1, ClaimConflictKeeps, ClaimKnownKeeps, ClaimFullKeeps, ClaimNewKeeps DEF Claim
<1>2. CASE Prepare(h) \/ Bind(h) \/ Release(h) \/ Finish(h)
  BY <1>2, PrepareKeeps, BindKeeps, ReleaseKeeps, FinishKeeps
<1>3. CASE Call(h) \/ FollowUp(h) \/ GiveUp(h)
  BY <1>3, CallKeeps, FollowUpKeeps, GiveUpKeeps
<1> QED BY <1>1, <1>2, <1>3 DEF HandlerStep

\* So does every step of the worker.
LEMMA ServeKeeps ==
    ASSUME IInv, Serve
    PROVE  IInv'
<1>1. ASSUME NEW c \in channel, Unavailable(c) \/ Stale(c) PROVE IInv'
  BY <1>1, TurnAwayKeeps DEF Unavailable, Stale
<1> QED BY <1>1, WriteKeeps, TimeOutKeeps, ReceiveKeeps DEF Serve

\* And every step of the system.
LEMMA NextKeeps ==
    ASSUME IInv, [Next]_vars
    PROVE  IInv'
<1>1. ASSUME NEW h \in Handlers, NEW a \in Actions, NEW p \in Payloads, Post(h, a, p) PROVE IInv'
  BY <1>1, PostKeeps
<1>2. ASSUME NEW h \in Handlers, HandlerStep(h) \/ FinishFails(h) \/ ReleaseFails(h) PROVE IInv'
  BY <1>2, HandlerStepKeeps, FinishFailsKeeps, ReleaseFailsKeeps
<1>3. ASSUME NEW c \in channel, Fenced(c) PROVE IInv'
  BY <1>3, TurnAwayKeeps DEF Fenced
<1>4. ASSUME NEW c \in channel, Deadline(c) PROVE IInv'
  BY <1>4, DeadlineKeeps
<1>5. ASSUME NEW w \in wire, Run(w) \/ Refuse(w) PROVE IInv'
  BY <1>5, RunKeeps, RefuseKeeps
<1>6. ASSUME NEW a \in Actions, Age(a) PROVE IInv'
  BY <1>6, AgeKeeps
<1>7. CASE Get \/ EndGet \/ Connect \/ Serve \/ Drop \/ WorkerStops
  BY <1>7, GetKeeps, EndGetKeeps, ConnectKeeps, ServeKeeps, DropKeeps, WorkerStopsKeeps
<1>8. CASE DisconnectBegins \/ DisconnectChecks \/ DisconnectEnds \/ ForceDisconnect
  BY <1>8, DisconnectBeginsKeeps, DisconnectChecksKeeps, DisconnectEndsKeeps, ForceDisconnectKeeps
<1>9. CASE CloseBegins \/ CloseEnds \/ Restart
  BY <1>9, CloseBeginsKeeps, CloseEndsKeeps, RestartKeeps
<1>10. CASE UNCHANGED vars
  <2>1. TypeOK'
    BY <1>10 DEF IInv, TypeOK, vars, receipts, handlers, worker, mode, server, counts
  <2>2. QuietInv'
    BY <1>10 DEF IInv, QuietInv, QuietWhenReleased, vars, receipts, handlers, mode
  <2> QED BY <1>10, <2>1, <2>2, ModeKeeps DEF vars, receipts, worker
<1> QED BY <1>1, <1>2, <1>3, <1>4, <1>5, <1>6, <1>7, <1>8, <1>9, <1>10 DEF Next

\* The inductive invariant holds in every state of every behaviour of the gateway.
THEOREM Invariance == Spec => []IInv
<1>1. Init => IInv
  BY InitEstablishes
<1>2. IInv /\ [Next]_vars => IInv'
  BY NextKeeps
<1> QED BY <1>1, <1>2, PTL DEF Spec

\* Types: the tables, the channels and the counters hold what TypeOK says.
THEOREM Types == Spec => []TypeOK
<1>1. IInv => TypeOK
  BY DEF IInv
<1> QED BY <1>1, Invariance, PTL

\* What a device was told stays true.
THEOREM AnswersHold == Spec => []AnswerHolds
<1>1. ASSUME IInv PROVE AnswerHolds
  <2>1. ASSUME NEW h \in Handlers, answer[h] = "accepted" PROVE native[act[h]] # <<>>
    BY <1>1, <2>1 DEF IInv, AnswerInv
  <2>2. ASSUME NEW h \in Handlers, answer[h] = "rejected",
               NEW w \in wire, w.a = act[h]
        PROVE  w.reply = "error"
    <3>1. /\ act[h] \in Actions /\ native[act[h]] = <<>>
          /\ receipt[act[h]] = "rejected" \/ act[h] \in retired
      BY <1>1, <2>2 DEF IInv, AnswerInv
    <3>2. w.reply \in {"none", "ok", "error"}
      BY <1>1 DEF IInv, TypeOK, Packets
    <3> QED BY <1>1, <2>2, <3>1, <3>2 DEF IInv, WireInv, PacketInv
  <2>3. ASSUME NEW h \in Handlers, answer[h] = "rejected" PROVE native[act[h]] = <<>>
    BY <1>1, <2>3 DEF IInv, AnswerInv
  <2> QED BY <2>1, <2>2, <2>3 DEF AnswerHolds
<1>2. IInv => AnswerHolds
  BY <1>1
<1> QED BY <1>2, Invariance, PTL

\* One submission is never steered by two actions.
THEOREM SteersOnce == Spec => []SteeredOnce
<1>1. ASSUME IInv, NEW a \in Actions, NEW s \in Steered(a) PROVE binding[s] = a
  <2>1. PICK p \in Steers, i \in 1..Len(native[a]) : s = Sub[p] /\ p = native[a][i]
    BY <1>1 DEF Steered
  <2>2. native[a] # <<>>
    BY <2>1
  <2>3. native[a] = <<claimedAs[a]>> /\ Tied(a, claimedAs[a])
    BY <1>1, <2>2 DEF IInv, RowInv, SteerInv
  <2>4. p = claimedAs[a]
    BY <2>1, <2>3
  <2> QED BY <2>1, <2>3, <2>4 DEF Tied
<1>2. IInv => SteeredOnce
  BY <1>1 DEF SteeredOnce
<1> QED BY <1>2, Invariance, PTL

\* A clean disconnect leaves no accepted work unvouched.
THEOREM QuietRelease == Spec => []QuietWhenReleased
<1>1. IInv => QuietWhenReleased
  BY DEF IInv, QuietInv
<1> QED BY <1>1, Invariance, PTL

(***************************************************************************)
(* What one step may do.                                                   *)
(***************************************************************************)

\* Only a claim, a stored result, a run and a restart touch what the promise is about.
LEMMA OtherSteps ==
    ASSUME Next,
           ~\E h \in Handlers : Claim(h) \/ Finish(h),
           ~\E w \in wire : Run(w),
           ~Restart
    PROVE  UNCHANGED <<receipt, retired, native>>
<1> USE DEF receipts, server
<1>1. ASSUME NEW h \in Handlers, NEW a \in Actions, NEW p \in Payloads, Post(h, a, p)
      PROVE  UNCHANGED <<receipt, retired, native>>
  BY <1>1 DEF Post
<1>2. ASSUME NEW h \in Handlers,
             Prepare(h) \/ Bind(h) \/ Release(h) \/ Call(h) \/ FollowUp(h) \/ GiveUp(h)
               \/ FinishFails(h) \/ ReleaseFails(h)
      PROVE  UNCHANGED <<receipt, retired, native>>
  BY <1>2 DEF Prepare, Bind, Release, Call, FollowUp, GiveUp, FinishFails, ReleaseFails
<1>3. ASSUME NEW c \in channel,
             Unavailable(c) \/ Stale(c) \/ Write(c) \/ Fenced(c) \/ Deadline(c)
      PROVE  UNCHANGED <<receipt, retired, native>>
  BY <1>3 DEF Unavailable, Stale, Write, Fenced, Deadline
<1>4. ASSUME NEW c \in pending, TimeOut(c) PROVE UNCHANGED <<receipt, retired, native>>
  BY <1>4 DEF TimeOut
<1>5. ASSUME NEW w \in wire, Receive(w) \/ Refuse(w) PROVE UNCHANGED <<receipt, retired, native>>
  BY <1>5 DEF Receive, Refuse
<1>6. ASSUME NEW a \in Actions, Age(a) PROVE UNCHANGED <<receipt, retired, native>>
  BY <1>6 DEF Age
<1>7. CASE Get \/ EndGet \/ Connect \/ Drop \/ WorkerStops
  BY <1>7 DEF Get, EndGet, Connect, Drop, WorkerStops
<1>8. CASE DisconnectBegins \/ DisconnectChecks \/ DisconnectEnds \/ ForceDisconnect
             \/ CloseBegins \/ CloseEnds
  BY <1>8 DEF DisconnectBegins, DisconnectChecks, DisconnectEnds, ForceDisconnect,
              CloseBegins, CloseEnds
<1> QED BY <1>1, <1>2, <1>3, <1>4, <1>5, <1>6, <1>7, <1>8 DEF Next, HandlerStep, Serve

\* Where the tables only retire rows, the verdicts expire with them.
LEMMA RetiringExpires ==
    ASSUME IInv, UNCHANGED native, NEW E \in SUBSET Actions,
           \A a \in E : receipt[a] \in Verdicts,
           retired' = retired \cup E,
           \A a \in Actions : \/ receipt'[a] = IF a \in E THEN "none" ELSE receipt[a]
                              \/ /\ receipt[a] = "none" /\ receipt'[a] = "uncertain"
                                 /\ a \notin retired /\ a \notin E
    PROVE  Promise!Next
<1>1. \A a \in E : Verdict[a] \in {"accepted", "rejected"}
  BY DEF Verdict, Verdicts
<1>2. Verdict' = [a \in Actions |-> IF a \in E THEN "expired" ELSE Verdict[a]]
  BY DEF Verdict, Verdicts
<1>3. Promise!Expire(E)
  BY <1>1, <1>2 DEF Promise!Expire
<1> QED BY <1>3 DEF Promise!Next

\* Every step of the gateway is a step of OneShot or changes nothing of it.
LEMMA StepPromised ==
    ASSUME IInv, [Next]_vars
    PROVE  [Promise!Next]_<<native, Verdict>>
<1>1. ASSUME NEW h \in Handlers, Claim(h) PROVE Promise!Next \/ UNCHANGED <<native, Verdict>>
  <2>1. UNCHANGED native
    BY <1>1 DEF Claim, server
  <2>2. CASE ClaimConflict(h)
    BY <2>1, <2>2 DEF ClaimConflict, Verdict
  <2>3. CASE ClaimKnown(h) \/ ClaimFull(h)
    <3>1. Retires(Expired)
      BY <2>3, PruneEffect DEF IInv, ClaimKnown, ClaimFull
    <3> QED BY <2>1, <3>1, RetiringExpires DEF Retires
  <2>4. CASE ClaimNew(h)
    <3>1. act[h] \in Actions
      BY <1>1 DEF IInv, WorkInv, Claim
    <3>2. Expired \in SUBSET Actions /\ \A a \in Expired : receipt[a] \in Verdicts
      BY DEF IInv, TypeOK, Expired
    <3>3. receipt[act[h]] = "none" /\ act[h] \notin retired /\ act[h] \notin Expired
      BY <2>4, <3>1 DEF ClaimNew, Spent, Rows, Kept
    <3>4. /\ retired' = retired \cup Expired
          /\ \A a \in Actions : receipt'[a] = IF a = act[h] THEN "uncertain"
                                              ELSE IF a \in Expired THEN "none" ELSE receipt[a]
      BY <2>4, <3>1 DEF ClaimNew, Spent, Kept
    <3> QED BY <2>1, <3>2, <3>3, <3>4, RetiringExpires
  <2> QED BY <1>1, <2>2, <2>3, <2>4 DEF Claim
<1>2. ASSUME NEW h \in Handlers, Finish(h) PROVE Promise!Next \/ UNCHANGED <<native, Verdict>>
  <2>1. /\ act[h] \in Actions /\ receipt[act[h]] = "uncertain" /\ act[h] \notin retired
        /\ res[h] \in Verdicts \cup {"uncertain"}
        /\ res[h] = "rejected" => native[act[h]] = <<>>
        /\ res[h] = "accepted" => native[act[h]] # <<>>
    BY <1>2 DEF IInv, Finish, WorkInv, Working, StageInv, Over, TypeOK
  <2>2. UNCHANGED <<native, retired>> /\ receipt' = [receipt EXCEPT ![act[h]] = res[h]]
    BY <1>2, <2>1 DEF Finish, server
  <2>3. \A a \in Actions : receipt'[a] = IF a = act[h] THEN res[h] ELSE receipt[a]
    BY <2>1, <2>2 DEF IInv, TypeOK
  <2>4. Verdict[act[h]] = "none"
    BY <2>1 DEF Verdict, Verdicts
  <2>5. CASE res[h] = "uncertain"
    <3>1. Verdict' = Verdict
      BY <2>1, <2>2, <2>3, <2>5 DEF Verdict
    <3> QED BY <2>2, <3>1
  <2>6. CASE res[h] \in Verdicts
    <3>1. Verdict' = [Verdict EXCEPT ![act[h]] = res[h]]
      BY <2>1, <2>2, <2>3, <2>6 DEF Verdict
    <3>2. Promise!Accept(act[h]) \/ Promise!Reject(act[h])
      BY <2>1, <2>2, <2>4, <2>6, <3>1 DEF Promise!Accept, Promise!Reject, Verdicts
    <3> QED BY <2>1, <3>2 DEF Promise!Next
  <2> QED BY <2>1, <2>5, <2>6
<1>3. ASSUME NEW w \in wire, Run(w) PROVE Promise!Next
  <2>1. /\ w.a \in Actions /\ w.p \in Payloads /\ receipt[w.a] = "uncertain"
        /\ w.a \notin retired /\ native[w.a] = <<>>
    BY <1>3 DEF IInv, Run, TypeOK, Packets, WireInv, PacketInv
  <2>2. Verdict[w.a] = "none" /\ UNCHANGED Verdict
    BY <1>3, <2>1 DEF Run, Verdict, Verdicts, receipts
  <2>3. native' = [native EXCEPT ![w.a] = <<w.p>>]
    BY <1>3, <2>1 DEF Run, IInv, TypeOK
  <2>4. Promise!Run(w.a, w.p)
    BY <2>1, <2>2, <2>3 DEF Promise!Run
  <2> QED BY <2>1, <2>4 DEF Promise!Next
<1>4. CASE Restart
  <2>1. Retires(Expired) /\ UNCHANGED native
    BY <1>4, PruneEffect DEF IInv, Restart, Start
  <2> QED BY <2>1, RetiringExpires DEF Retires
<1>5. CASE UNCHANGED <<receipt, retired, native>>
  BY <1>5 DEF Verdict
<1> QED BY <1>1, <1>2, <1>3, <1>4, <1>5, OtherSteps DEF vars, receipts, server

\* The gateway implements OneShot.
THEOREM PromiseKept == Spec => KeepsPromise
<1>1. Init => Promise!Init
  BY DEF Init, Promise!Init, Verdict, Verdicts
<1>2. IInv /\ [Next]_vars => [Promise!Next]_<<native, Verdict>>
  BY StepPromised
<1> QED BY <1>1, <1>2, Invariance, PTL DEF Spec, KeepsPromise, Promise!Spec

\* A step that tells a claiming handler the store is full is ClaimFull.
LEMMA FullMeansClaimFull ==
    ASSUME IInv, Next, NEW h \in Handlers, pc[h] = "claim", answer'[h] = "full"
    PROVE  ClaimFull(h)
<1>1. answer'[h] # answer[h]
  BY DEF IInv, WorkInv
<1> USE DEF handlers
<1>2. ASSUME NEW g \in Handlers, Claim(g), ~ClaimFull(h) PROVE FALSE
  <2>1. CASE g # h
    BY <2>1, <1>1, <1>2 DEF IInv, TypeOK, Claim, ClaimConflict, ClaimKnown, ClaimFull, ClaimNew, Reply
  <2>2. CASE g = h
    <3>1. Kept[act[h]] # "full"
      BY DEF IInv, TypeOK, WorkInv, Kept, Verdicts
    <3> QED BY <1>1, <1>2, <2>2, <3>1 DEF IInv, TypeOK, Claim, ClaimConflict, ClaimKnown, ClaimNew, Reply
  <2> QED BY <2>1, <2>2
<1>3. ASSUME NEW g \in Handlers, Finish(g) \/ FinishFails(g) PROVE FALSE
  <2>1. g # h
    BY <1>3 DEF Finish, FinishFails
  <2> QED BY <1>1, <1>3, <2>1 DEF IInv, TypeOK, Finish, FinishFails, Reply
<1>4. ASSUME NEW g \in Handlers, NEW a \in Actions, NEW p \in Payloads, Post(g, a, p) PROVE FALSE
  BY <1>1, <1>4 DEF IInv, TypeOK, Post
<1>5. ASSUME NEW g \in Handlers,
             Prepare(g) \/ Bind(g) \/ Release(g) \/ Call(g) \/ FollowUp(g) \/ GiveUp(g)
               \/ ReleaseFails(g)
      PROVE  FALSE
  BY <1>1, <1>5 DEF Prepare, Bind, Release, Call, FollowUp, GiveUp, ReleaseFails
<1>6. ASSUME NEW c \in channel,
             Unavailable(c) \/ Stale(c) \/ Write(c) \/ Fenced(c) \/ Deadline(c)
      PROVE  FALSE
  BY <1>1, <1>6 DEF Unavailable, Stale, Write, Fenced, Deadline
<1>7. ASSUME NEW c \in pending, TimeOut(c) PROVE FALSE
  BY <1>1, <1>7 DEF TimeOut
<1>8. ASSUME NEW w \in wire, Receive(w) \/ Run(w) \/ Refuse(w) PROVE FALSE
  BY <1>1, <1>8 DEF Receive, Run, Refuse
<1>9. ASSUME NEW a \in Actions, Age(a) PROVE FALSE
  BY <1>1, <1>9 DEF Age
<1>10. ~(Get \/ EndGet \/ Connect \/ Drop \/ WorkerStops)
  BY <1>1 DEF Get, EndGet, Connect, Drop, WorkerStops
<1>11. ~(DisconnectBegins \/ DisconnectChecks \/ DisconnectEnds \/ ForceDisconnect
           \/ CloseBegins \/ CloseEnds)
  BY <1>1 DEF DisconnectBegins, DisconnectChecks, DisconnectEnds, ForceDisconnect,
              CloseBegins, CloseEnds
<1>12. ~Restart
  BY DEF Restart, Start
<1> QED BY <1>2, <1>3, <1>4, <1>5, <1>6, <1>7, <1>8, <1>9, <1>10, <1>11, <1>12
        DEF Next, HandlerStep, Serve

\* A full store turns away only what it has never seen.
THEOREM FullTurnsAwayNew == Spec => FullOnlyIfNew
<1>1. ASSUME IInv, [Next]_vars, NEW h \in Handlers, pc[h] = "claim", answer'[h] = "full"
      PROVE  native[act[h]] = <<>> /\ claimedAs[act[h]] = None
  <2>1. answer[h] = "none" /\ act[h] \in Actions
    BY <1>1 DEF IInv, WorkInv
  <2>2. Next
    BY <1>1, <2>1 DEF vars, handlers
  <2>3. ClaimFull(h)
    BY <1>1, <2>2, FullMeansClaimFull
  <2>4. receipt[act[h]] = "none" /\ act[h] \notin retired
    BY <2>1, <2>3 DEF ClaimFull, Spent, Rows, Kept
  <2> QED BY <1>1, <2>1, <2>4 DEF IInv, RowInv, Fresh
<1>2. IInv /\ [Next]_vars =>
        [\A h \in Handlers : pc[h] = "claim" /\ answer'[h] = "full"
           => native[act[h]] = <<>> /\ claimedAs[act[h]] = None]_vars
  BY <1>1
<1> QED BY <1>2, Invariance, PTL DEF Spec, FullOnlyIfNew
=============================================================================
