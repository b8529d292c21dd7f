---------------------------- MODULE CodexGateway ----------------------------
(***************************************************************************)
(* The write path of the Codex gateway (claude-monitor-codex): HTTP        *)
(* handlers that claim an action in the durable receipts, the one RPC      *)
(* worker that owns the socket to the native Codex server, and the         *)
(* lifecycle that turns native mode off while requests are under way.      *)
(*                                                                         *)
(* The receipts are one SQLite file: every operation on them is a step.    *)
(* A handler and the worker meet only in the command channel and in the    *)
(* answer channel of one call.  The worker checks each command by itself,  *)
(* so the channel is a set: the order of the commands of different         *)
(* requests decides nothing.  What was written to a socket that then goes  *)
(* down may still be run by the server, or be lost.                        *)
(*                                                                         *)
(* A body asks for one of two courses.  A steer (queue/steer) binds a      *)
(* queued submission, calls turn/steer and then queue/delete.  Every other *)
(* route is one native call, which send and settings follow up with a      *)
(* queue/start or with the wait for an event.  The first call is the one   *)
(* that must not be repeated, and the one modelled step by step; of the    *)
(* follow-up only its outcome matters.                                     *)
(***************************************************************************)
EXTENDS Integers, Sequences, FiniteSets

CONSTANTS
    Handlers,       \* the HTTP request threads
    Actions,        \* the actionIds devices choose
    Payloads,       \* request bodies, as far as their fingerprints differ
    Steers,         \* the bodies that steer a queued submission
    Subs,           \* the submissions in the native queue
    Sub,            \* Sub[p]: the submission a steering body names
    None,           \* no action, no payload
    MaxIdentities,  \* MAX_IDENTITIES of the receipts
    MaxRequests,    \* bound: POST requests
    MaxTroubles     \* bound: lost sockets, restarts, disk faults, expiries, shutdowns

ASSUME GatewayAssumption ==
    /\ Steers \subseteq Payloads /\ Sub \in [Steers -> Subs]
    /\ None \notin Actions \cup Payloads
    /\ {MaxIdentities, MaxRequests, MaxTroubles} \subseteq Nat

VARIABLES
    receipt,    \* the actions table: the status of each row, "none" without a row
    claimedAs,  \* the fingerprint of an action's row, in either table
    retired,    \* the retired_actions table
    old,        \* the rows whose updated_at is before the cutoff
    binding,    \* the queue_steers table: the action that holds each submission
    pc,         \* where each handler is
    act, pay,   \* the action and the body of its request
    reading,    \* some GET requests are under way
    seen,       \* the epoch at which it read the native queue, or made its last call
    res,        \* the result of its action, once it is decided
    answer,     \* what it last answered
    channel,    \* commands the worker has not taken
    pending,    \* calls the worker has written and not answered
    wire,       \* calls on a socket, and their replies
    conn,       \* "down" (connecting or reconnecting), "up", or "stopped"
    epoch,      \* the number of the connection
    stopping,   \* State.stopping: close() has begun
    lifecycle,  \* "active", or how the gateway was disconnected
    leaving,    \* the stage of disconnect(), and the epoch and activity it saw
    native,     \* what the server ran, per action (external)
    vouched,    \* the actions run when disconnect() found the server idle
    requests, troubles  \* how much of each bound is used

receipts == <<receipt, claimedAs, retired, old, binding>>
handlers == <<pc, act, pay, seen, res, answer>>
worker == <<channel, pending, conn, epoch>>
mode == <<reading, stopping, lifecycle, leaving, vouched>>
server == <<wire, native>>
counts == <<requests, troubles>>
vars == <<receipts, handlers, worker, mode, server, counts>>

Verdicts == {"accepted", "rejected"}
Answers == Verdicts \cup {"none", "uncertain", "expired", "conflict", "full"}
Stages == {"idle", "claim", "prepare", "bind", "call", "wait", "follow", "release", "finish"}

\* late: its deadline has passed; heard: the handler still waits for its answer.
Commands == [h : Handlers, a : Actions, p : Payloads, epoch : Nat, late : BOOLEAN,
             heard : BOOLEAN]
Calls == [h : Handlers, a : Actions]
Packets == [h : Handlers, a : Actions, p : Payloads, reply : {"none", "ok", "error"}]

\* The database, the pairs of tables and the counters hold what their types say.
TypeOK ==
    /\ receipt \in [Actions -> Verdicts \cup {"none", "uncertain"}]
    /\ claimedAs \in [Actions -> Payloads \cup {None}]
    /\ retired \subseteq Actions /\ old \subseteq Actions
    /\ binding \in [Subs -> Actions \cup {None}]
    /\ pc \in [Handlers -> Stages] /\ act \in [Handlers -> Actions \cup {None}]
    /\ pay \in [Handlers -> Payloads \cup {None}] /\ seen \in [Handlers -> Nat]
    /\ res \in [Handlers -> Verdicts \cup {"none", "uncertain"}] /\ answer \in [Handlers -> Answers]
    /\ channel \subseteq Commands /\ pending \subseteq Calls /\ wire \subseteq Packets
    /\ conn \in {"down", "up", "stopped"} /\ epoch \in Nat
    /\ reading \in BOOLEAN /\ stopping \in BOOLEAN
    /\ lifecycle \in {"active", "clean", "forced", "closed"}
    /\ leaving \in [stage : {"no", "checking", "checked"}, epoch : Nat, touched : BOOLEAN]
    /\ native \in [Actions -> Seq(Payloads)]
    /\ vouched \subseteq Actions
    /\ requests \in Nat /\ troubles \in Nat

NotLeaving == [stage |-> "no", epoch |-> 0, touched |-> FALSE]

\* A gateway starts; of an earlier one the database may hold identities already retired.
Init ==
    /\ receipt = [a \in Actions |-> "none"] /\ old = {}
    /\ retired \in SUBSET Actions /\ Cardinality(retired) <= MaxIdentities
    /\ claimedAs \in [Actions -> Payloads \cup {None}]
    /\ \A a \in Actions : a \in retired <=> claimedAs[a] # None
    /\ binding = [s \in Subs |-> None]
    /\ pc = [h \in Handlers |-> "idle"]
    /\ act = [h \in Handlers |-> None] /\ pay = [h \in Handlers |-> None]
    /\ seen = [h \in Handlers |-> 0]
    /\ res = [h \in Handlers |-> "none"] /\ answer = [h \in Handlers |-> "none"]
    /\ channel = {} /\ pending = {} /\ wire = {}
    /\ conn = "down" /\ epoch = 0
    /\ reading = FALSE /\ stopping = FALSE /\ lifecycle = "active" /\ leaving = NotLeaving
    /\ native = [a \in Actions |-> <<>>] /\ vouched = {}
    /\ requests = 0 /\ troubles = 0

\* One more of what does not happen often.
Trouble ==
    /\ troubles < MaxTroubles
    /\ troubles' = troubles + 1
    /\ UNCHANGED requests

\* No request holds the lifecycle lock for reading.
NoReader == ~reading /\ \A h \in Handlers : pc[h] = "idle"

Goto(h, stage, r) ==
    /\ pc' = [pc EXCEPT ![h] = stage]
    /\ res' = [res EXCEPT ![h] = r]

\* The request ends with answer x; a device keeps a verdict with the action it is about.
Reply(h, x) ==
    /\ Goto(h, "idle", "none")
    /\ answer' = [answer EXCEPT ![h] = x]
    /\ act' = IF x \in Verdicts THEN act ELSE [act EXCEPT ![h] = None]
    /\ pay' = [pay EXCEPT ![h] = None] /\ seen' = [seen EXCEPT ![h] = 0]

-----------------------------------------------------------------------------
(* Admission: route() of lib.rs. *)

\* Mutant: requests are admitted while close() waits.
AdmittingWhileClosing == lifecycle = "active"

Admitting == ~stopping /\ lifecycle = "active"

\* Every request counts as activity; disconnect() compares the count.
Activity ==
    leaving' = [stage |-> leaving.stage, epoch |-> leaving.epoch,
                touched |-> leaving.stage # "no"]

\* A device posts an action: a new one, a retry, or another body under a used actionId.
Post(h, a, p) ==
    /\ Admitting /\ pc[h] = "idle"
    /\ requests < MaxRequests
    /\ requests' = requests + 1
    /\ Activity
    /\ pc' = [pc EXCEPT ![h] = "claim"]
    /\ act' = [act EXCEPT ![h] = a] /\ pay' = [pay EXCEPT ![h] = p]
    /\ answer' = [answer EXCEPT ![h] = "none"]
    /\ UNCHANGED <<receipts, seen, res, worker, reading, stopping, lifecycle, vouched, server,
                   troubles>>

\* Devices read (the GET routes): nothing changes, but the lifecycle lock is held.
Get ==
    /\ Admitting /\ ~reading
    /\ reading' = TRUE
    /\ Activity
    /\ UNCHANGED <<receipts, handlers, worker, stopping, lifecycle, vouched, server, counts>>

EndGet ==
    /\ reading
    /\ reading' = FALSE
    /\ UNCHANGED <<receipts, handlers, worker, stopping, lifecycle, leaving, vouched, server,
                   counts>>

-----------------------------------------------------------------------------
(* The receipts: receipts.rs, and write_route() around them. *)

Expired == {a \in old : receipt[a] \in Verdicts}
Kept == [a \in Actions |-> IF a \in Expired THEN "none" ELSE receipt[a]]
Spent == retired \cup Expired
Rows == {a \in Actions : Kept[a] # "none"}

\* Mutant: old rows are deleted and leave no trace.
PruneForgets ==
    /\ receipt' = Kept
    /\ retired' = retired
    /\ old' = old \ Expired

\* prune(): rows with a verdict that are old move to retired_actions.
Prune ==
    /\ receipt' = Kept
    /\ retired' = Spent
    /\ old' = old \ Expired

\* The body differs from the one the identity was claimed with; the prune rolls back.
ClaimConflict(h) ==
    /\ act[h] \in Spent \cup Rows
    /\ claimedAs[act[h]] # pay[h]
    /\ Reply(h, "conflict")
    /\ UNCHANGED <<receipt, claimedAs, retired, old>>

ClaimKnown(h) ==
    /\ act[h] \in Spent \cup Rows
    /\ claimedAs[act[h]] = pay[h]
    /\ Prune
    /\ Reply(h, IF act[h] \in Spent THEN "expired" ELSE Kept[act[h]])
    /\ UNCHANGED claimedAs

\* Mutant: the capacity is checked before the identity is looked up.
ClaimFullFirst(h) ==
    /\ Cardinality(Rows) + Cardinality(Spent) >= MaxIdentities
    /\ Prune
    /\ Reply(h, "full")
    /\ UNCHANGED claimedAs

ClaimFull(h) ==
    /\ act[h] \notin Spent \cup Rows
    /\ Cardinality(Rows) + Cardinality(Spent) >= MaxIdentities
    /\ Prune
    /\ Reply(h, "full")
    /\ UNCHANGED claimedAs

ClaimNew(h) ==
    /\ act[h] \notin Spent \cup Rows
    /\ Cardinality(Rows) + Cardinality(Spent) < MaxIdentities
    /\ receipt' = [Kept EXCEPT ![act[h]] = "uncertain"]
    /\ claimedAs' = [claimedAs EXCEPT ![act[h]] = pay[h]]
    /\ retired' = Spent
    /\ old' = old \ Expired
    /\ Goto(h, "prepare", "none")
    /\ UNCHANGED <<act, pay, seen, answer>>

Claim(h) ==
    /\ pc[h] = "claim"
    /\ ClaimConflict(h) \/ ClaimKnown(h) \/ ClaimFull(h) \/ ClaimNew(h)
    /\ UNCHANGED <<binding, worker, mode, server, counts>>

\* The result of execute() is stored, then answered.
Finish(h) ==
    /\ pc[h] = "finish"
    /\ IF receipt[act[h]] = "none"
         THEN /\ Reply(h, "uncertain")
              /\ UNCHANGED <<receipt, old>>
         ELSE /\ receipt' = [receipt EXCEPT ![act[h]] = res[h]]
              /\ old' = old \ {act[h]}
              /\ Reply(h, res[h])
    /\ UNCHANGED <<claimedAs, retired, binding, worker, mode, server, counts>>

\* The result cannot be saved: the device is told the outcome is uncertain.
FinishFails(h) ==
    /\ pc[h] = "finish"
    /\ Trouble
    /\ Reply(h, "uncertain")
    /\ UNCHANGED <<receipts, worker, mode, server>>

\* RETAIN_SECONDS pass for a row.
Age(a) ==
    /\ receipt[a] # "none" /\ a \notin old
    /\ Trouble
    /\ old' = old \cup {a}
    /\ UNCHANGED <<receipt, claimedAs, retired, binding, handlers, worker, mode, server>>

-----------------------------------------------------------------------------
(* execute(): what a claimed action does before, between and after its calls. *)

\* Mutant: the request waits for a connection without a deadline.
PrepareWaits(h) ==
    /\ pc[h] = "prepare" /\ conn = "up"
    /\ Goto(h, IF pay[h] \in Steers THEN "bind" ELSE "call", "none")
    /\ seen' = [seen EXCEPT ![h] = epoch]
    /\ UNCHANGED <<receipts, act, pay, answer, worker, mode, server, counts>>

\* The thread and its scope are read, the thread is opened; a steer reads the queue.
Prepare(h) ==
    /\ pc[h] = "prepare"
    /\ \/ /\ conn = "up"
          /\ Goto(h, IF pay[h] \in Steers THEN "bind" ELSE "call", "none")
          /\ seen' = [seen EXCEPT ![h] = epoch]
       \/ /\ \E r \in {"rejected", "uncertain"} : Goto(h, "finish", r)
          /\ UNCHANGED seen
    /\ UNCHANGED <<receipts, act, pay, answer, worker, mode, server, counts>>

\* Mutant: a later action takes the submission over.
BindAgain(h) ==
    /\ pc[h] = "bind"
    /\ binding' = [binding EXCEPT ![Sub[pay[h]]] = act[h]]
    /\ Goto(h, "call", "none")
    /\ UNCHANGED <<receipt, claimedAs, retired, old, act, pay, seen, answer, worker, mode,
                   server, counts>>

\* claim_queue_steer(): one action at a time may hold a submission.
Bind(h) ==
    LET s == Sub[pay[h]]
        Bound == {t \in Subs : binding[t] # None}
    IN
    /\ pc[h] = "bind"
    /\ IF binding[s] # None \/ Cardinality(Bound) >= MaxIdentities
         THEN /\ Goto(h, "finish", "rejected")
              /\ UNCHANGED binding
         ELSE /\ binding' = [binding EXCEPT ![s] = act[h]]
              /\ Goto(h, "call", "none")
    /\ UNCHANGED <<receipt, claimedAs, retired, old, act, pay, seen, answer, worker, mode,
                   server, counts>>

\* release_queue_steer(): only the action that holds the submission gives it back.
Release(h) ==
    LET s == Sub[pay[h]] IN
    /\ pc[h] = "release"
    /\ binding' = IF binding[s] = act[h] THEN [binding EXCEPT ![s] = None] ELSE binding
    /\ Goto(h, "finish", "rejected")
    /\ UNCHANGED <<receipt, claimedAs, retired, old, act, pay, seen, answer, worker, mode,
                   server, counts>>

ReleaseFails(h) ==
    /\ pc[h] = "release"
    /\ Trouble
    /\ Goto(h, "finish", "uncertain")
    /\ UNCHANGED <<receipts, act, pay, seen, answer, worker, mode, server>>

\* A steer keeps the epoch of the queue it read; rpc() takes the current one.
FencedByRead(h) == pay[h] \in Steers

\* What a handler does with the answer r of its call: it follows a success up; a failure
\* that is certain gives the submission back; otherwise the outcome of the action is open.
Stage(h, r) ==
    CASE r = "ok" -> "follow"
      [] r = "failed" -> IF pay[h] \in Steers THEN "release" ELSE "finish"
      [] r = "uncertain" -> "finish"

Outcome(h, r) ==
    CASE r = "ok" -> "none"
      [] r = "failed" -> IF pay[h] \in Steers THEN "none" ELSE "rejected"
      [] r = "uncertain" -> "uncertain"

\* The handlers in W get the answer r.
Deliver(W, r) ==
    /\ pc' = [h \in Handlers |-> IF h \in W THEN Stage(h, r) ELSE pc[h]]
    /\ res' = [h \in Handlers |-> IF h \in W THEN Outcome(h, r) ELSE res[h]]

\* client::call(): a command goes to the worker, or there is no worker to take it.
Call(h) ==
    LET refused == conn = "stopped" \/ (conn # "up" /\ ~FencedByRead(h)) IN
    /\ pc[h] = "call"
    /\ IF refused
         THEN /\ Deliver({h}, "failed")
              /\ UNCHANGED channel
         ELSE /\ channel' = channel \cup
                    {[h |-> h, a |-> act[h], p |-> pay[h],
                      epoch |-> IF FencedByRead(h) THEN seen[h] ELSE epoch,
                      late |-> FALSE, heard |-> TRUE]}
              /\ Goto(h, "wait", "none")
    /\ seen' = IF FencedByRead(h) THEN seen ELSE [seen EXCEPT ![h] = epoch]
    /\ UNCHANGED <<receipts, act, pay, answer, pending, conn, epoch, mode, server, counts>>

\* Mutant: the status of the call is stored, not the verdict on the action.
FollowUpRaw(h) ==
    /\ pc[h] = "follow"
    /\ Goto(h, "finish", "ok")
    /\ UNCHANGED <<receipts, act, pay, seen, answer, worker, mode, server, counts>>

\* A steer goes on with queue/delete, send with queue/start, settings with
\* wait_settings(): confirmed on the same connection, or the outcome of the action is
\* open.  The other routes are done: the server's replies are well formed.  (A thread/start
\* that ran but answers without a thread id is recorded as rejected, lib.rs:1286.)
FollowUp(h) ==
    /\ pc[h] = "follow"
    /\ \/ /\ pay[h] \in Steers => conn = "up" /\ seen[h] = epoch
          /\ Goto(h, "finish", "accepted")
       \/ Goto(h, "finish", "uncertain")
    /\ UNCHANGED <<receipts, act, pay, seen, answer, worker, mode, server, counts>>

\* The handler gives up two seconds after the deadline of its call.
GiveUp(h) ==
    LET mine == {c \in channel : c.h = h /\ c.heard} IN
    /\ pc[h] = "wait"
    /\ \A c \in mine : c.late
    /\ channel' = (channel \ mine) \cup {[c EXCEPT !.heard = FALSE] : c \in mine}
    /\ pending' = {c \in pending : c.h # h}
    /\ Deliver({h}, "uncertain")
    /\ UNCHANGED <<receipts, act, pay, seen, answer, conn, epoch, mode, server, counts>>

-----------------------------------------------------------------------------
(* The RPC worker: run() of client.rs. *)

\* The handler of a command, if it still waits.
Caller(c) == IF c.heard THEN {c.h} ELSE {}

\* bootstrap() ends: the connection is published under a new epoch.
Connect ==
    /\ conn = "down" /\ ~stopping /\ lifecycle = "active"
    /\ conn' = "up" /\ epoch' = epoch + 1
    /\ UNCHANGED <<receipts, handlers, channel, pending, mode, server, counts>>

\* A command met while there is no connection, or while the gateway closes.
Unavailable(c) ==
    /\ conn = "down" \/ (conn = "up" /\ stopping)
    /\ channel' = channel \ {c}
    /\ Deliver(Caller(c), "failed")
    /\ UNCHANGED <<receipts, act, pay, seen, answer, pending, conn, epoch, mode, server, counts>>

\* The thread was archived or left the configured roots before delivery.
Fenced(c) ==
    /\ conn = "up" /\ ~stopping
    /\ channel' = channel \ {c}
    /\ Deliver(Caller(c), "failed")
    /\ UNCHANGED <<receipts, act, pay, seen, answer, pending, conn, epoch, mode, server, counts>>

\* The command is too old or belongs to another connection.
Stale(c) ==
    /\ conn = "up" /\ ~stopping
    /\ c.late \/ c.epoch # epoch
    /\ channel' = channel \ {c}
    /\ Deliver(Caller(c), "failed")
    /\ UNCHANGED <<receipts, act, pay, seen, answer, pending, conn, epoch, mode, server, counts>>

Write(c) ==
    /\ conn = "up" /\ ~stopping
    /\ ~c.late /\ c.epoch = epoch
    /\ channel' = channel \ {c}
    /\ pending' = pending \cup {[h |-> c.h, a |-> c.a]}
    /\ wire' = wire \cup {[h |-> c.h, a |-> c.a, p |-> c.p, reply |-> "none"]}
    /\ UNCHANGED <<receipts, handlers, conn, epoch, mode, native, counts>>

\* A reply arrives; one whose call was given up is dropped.
Receive(w) ==
    LET call == [h |-> w.h, a |-> w.a] IN
    /\ conn = "up" /\ w.reply # "none"
    /\ wire' = wire \ {w}
    /\ pending' = pending \ {call}
    /\ Deliver(IF call \in pending THEN {w.h} ELSE {},
               IF w.reply = "ok" THEN "ok" ELSE "failed")
    /\ UNCHANGED <<receipts, act, pay, seen, answer, channel, conn, epoch, mode, native, counts>>

\* The deadline of a command passes before the worker takes it.
Deadline(c) ==
    /\ ~c.late
    /\ channel' = (channel \ {c}) \cup {[c EXCEPT !.late = TRUE]}
    /\ UNCHANGED <<receipts, handlers, pending, conn, epoch, mode, server, counts>>

\* Mutant: a call that timed out counts as one that failed.
TimeOutFails(c) ==
    /\ conn = "up"
    /\ pending' = pending \ {c}
    /\ Deliver({c.h}, "failed")
    /\ UNCHANGED <<receipts, act, pay, seen, answer, channel, conn, epoch, mode, server, counts>>

\* The deadline of a call passes before its reply, or its reply is read only afterwards.
TimeOut(c) ==
    /\ conn = "up"
    /\ pending' = pending \ {c}
    /\ Deliver({c.h}, "uncertain")
    /\ UNCHANGED <<receipts, act, pay, seen, answer, channel, conn, epoch, mode, server, counts>>

\* What has been written and not run stays on its way; replies are lost.
Unread == {w \in wire : w.reply = "none"}

\* The socket goes down: every call on it is uncertain.
Drop ==
    /\ conn = "up"
    /\ Trouble
    /\ conn' = "down"
    /\ pending' = {} /\ wire' = Unread
    /\ Deliver({c.h : c \in pending}, "uncertain")
    /\ UNCHANGED <<receipts, act, pay, seen, answer, channel, epoch, mode, native>>

\* The worker ends; calls and commands it leaves behind are uncertain to their handlers.
WorkerStops ==
    /\ conn # "stopped"
    /\ stopping \/ lifecycle # "active"
    /\ conn' = "stopped"
    /\ channel' = {} /\ pending' = {} /\ wire' = Unread
    /\ Deliver({c.h : c \in pending} \cup UNION {Caller(c) : c \in channel}, "uncertain")
    /\ UNCHANGED <<receipts, act, pay, seen, answer, epoch, mode, native, counts>>

-----------------------------------------------------------------------------
(* The native server (external): it runs a call or refuses it, in its own time. *)

Answered(w, r) ==
    wire' = (wire \ {w}) \cup
              (IF [h |-> w.h, a |-> w.a] \in pending THEN {[w EXCEPT !.reply = r]} ELSE {})

Run(w) ==
    /\ w.reply = "none"
    /\ native' = [native EXCEPT ![w.a] = Append(@, w.p)]
    /\ Answered(w, "ok")
    /\ UNCHANGED <<receipts, handlers, worker, mode, counts>>

Refuse(w) ==
    /\ w.reply = "none"
    /\ Answered(w, "error")
    /\ UNCHANGED <<receipts, handlers, worker, mode, native, counts>>

-----------------------------------------------------------------------------
(* Turning native mode off: disconnect(), force_disconnect() and close(). *)

\* disconnect() notes the epoch and the activity; it refuses while a request runs.
DisconnectBegins ==
    /\ leaving.stage = "no" /\ lifecycle = "active" /\ conn = "up"
    /\ NoReader
    /\ Trouble
    /\ leaving' = [stage |-> "checking", epoch |-> epoch, touched |-> FALSE]
    /\ UNCHANGED <<receipts, handlers, worker, reading, stopping, lifecycle, vouched, server>>

\* It asks the server about each thread and its queue, without any lock: all is idle,
\* or it refuses.
DisconnectChecks ==
    /\ leaving.stage = "checking"
    /\ \/ /\ conn = "up"
          /\ leaving' = [stage |-> "checked", epoch |-> leaving.epoch, touched |-> leaving.touched]
          /\ vouched' = {a \in Actions : native[a] # <<>>}
       \/ leaving' = NotLeaving /\ UNCHANGED vouched
    /\ UNCHANGED <<receipts, handlers, worker, reading, stopping, lifecycle, server, counts>>

\* Mutant: only requests that still run are noticed, not those that came and went.
StillQuietNow == NoReader /\ leaving.epoch = epoch /\ conn = "up"

\* Nothing ran and nothing changed since it began.
StillQuiet ==
    /\ NoReader /\ ~leaving.touched
    /\ leaving.epoch = epoch /\ conn = "up"

DisconnectEnds ==
    /\ leaving.stage = "checked"
    /\ leaving' = NotLeaving
    /\ lifecycle' = IF lifecycle = "active" /\ StillQuiet THEN "clean" ELSE lifecycle
    /\ UNCHANGED <<receipts, handlers, worker, reading, stopping, vouched, server, counts>>

\* force_disconnect() asks nobody: the work of a lost connection stays unknown.
ForceDisconnect ==
    /\ lifecycle = "active" /\ NoReader /\ leaving.stage = "no"
    /\ Trouble
    /\ lifecycle' = "forced"
    /\ UNCHANGED <<receipts, handlers, worker, reading, stopping, leaving, vouched, server>>

\* close() fences new requests and stops the worker ...
CloseBegins ==
    /\ ~stopping /\ lifecycle = "active"
    /\ Trouble
    /\ stopping' = TRUE
    /\ UNCHANGED <<receipts, handlers, worker, reading, lifecycle, leaving, vouched, server>>

\* ... and polls until the worker has ended and no request is under way.
CloseEnds ==
    /\ stopping /\ lifecycle = "active" /\ conn = "stopped" /\ NoReader
    /\ lifecycle' = "closed"
    /\ UNCHANGED <<receipts, handlers, worker, reading, stopping, leaving, vouched, server, counts>>

\* Gateway::start(): fresh state over the receipts on disk, which are pruned.
Start ==
    /\ Prune
    /\ pc' = [h \in Handlers |-> "idle"] /\ res' = [h \in Handlers |-> "none"]
    /\ act' = [h \in Handlers |-> None] /\ pay' = [h \in Handlers |-> None]
    /\ seen' = [h \in Handlers |-> 0] /\ answer' = [h \in Handlers |-> "none"]
    /\ channel' = {} /\ pending' = {} /\ wire' = Unread
    /\ conn' = "down" /\ epoch' = 0
    /\ reading' = FALSE /\ stopping' = FALSE /\ lifecycle' = "active" /\ leaving' = NotLeaving
    /\ vouched' = {}
    /\ UNCHANGED <<claimedAs, binding, native>>

\* The monitor dies and is started again, or native mode is turned on again.
Restart ==
    /\ Trouble
    /\ Start

-----------------------------------------------------------------------------
HandlerStep(h) ==
    \/ Claim(h) \/ Prepare(h) \/ Bind(h) \/ Release(h) \/ Finish(h)
    \/ Call(h) \/ FollowUp(h) \/ GiveUp(h)

\* What the worker does of itself with a command or a call.
Serve ==
    \/ \E c \in channel : Unavailable(c) \/ Stale(c) \/ Write(c)
    \/ \E c \in pending : TimeOut(c)
    \/ \E w \in wire : Receive(w)

Next ==
    \/ \E h \in Handlers, a \in Actions, p \in Payloads : Post(h, a, p)
    \/ Get \/ EndGet
    \/ \E h \in Handlers : HandlerStep(h) \/ FinishFails(h) \/ ReleaseFails(h)
    \/ Connect \/ Serve \/ Drop \/ WorkerStops
    \/ \E c \in channel : Fenced(c)
    \/ \E c \in channel : Deadline(c)
    \/ \E w \in wire : Run(w) \/ Refuse(w)
    \/ \E a \in Actions : Age(a)
    \/ DisconnectBegins \/ DisconnectChecks \/ DisconnectEnds \/ ForceDisconnect
    \/ CloseBegins \/ CloseEnds
    \/ Restart

Spec == Init /\ [][Next]_vars

\* Threads run: each handler, the worker and the close() that polls.  Deadlines pass.
Fairness ==
    /\ \A h \in Handlers : WF_vars(HandlerStep(h))
    /\ WF_vars(EndGet) /\ WF_vars(Serve) /\ WF_vars(WorkerStops) /\ WF_vars(CloseEnds)
    /\ WF_vars(\E c \in channel : Deadline(c))

FairSpec == Spec /\ Fairness

-----------------------------------------------------------------------------
(* Properties *)

\* The verdict on record about an action, as a device may see it.
Verdict == [a \in Actions |->
               IF receipt[a] \in Verdicts THEN receipt[a]
               ELSE IF a \in retired THEN "expired" ELSE "none"]

Promise == INSTANCE OneShot WITH done <- native, verdict <- Verdict

\* The gateway keeps the promise of OneShot: whatever is lost, late, retried, pruned or
\* cut off by a restart, the server runs an action at most once, with the body it was
\* claimed with; a receipt says accepted only of what ran and rejected only of what did
\* not run and will not; and an expired identity is never delivered again
\* (receipts.rs:233 "never replayed automatically").
KeepsPromise == Promise!Spec

\* What a device was told stays true while it looks at the answer: accepted, the native
\* server did run it; rejected, it did not, and no copy still on its way will.
AnswerHolds ==
    \A h \in Handlers :
        /\ answer[h] = "accepted" => native[act[h]] # <<>>
        /\ answer[h] = "rejected" =>
              /\ native[act[h]] = <<>>
              /\ \A w \in wire : w.a = act[h] => w.reply = "error"

Steered(a) == {Sub[p] : p \in Steers \cap {native[a][i] : i \in 1..Len(native[a])}}

\* A queued submission is steered into a turn once, whichever devices, actions and
\* restarts try (steer_queued: "prevents redelivery across actions, devices and crashes").
SteeredOnce ==
    \A a, b \in Actions :
        /\ Steered(a) # {} /\ Steered(a) \cap Steered(b) # {}
        => a = b

\* A store that is full turns away new identities only: an action already claimed is
\* answered from its row (or as expired), never refused for want of room.
FullOnlyIfNew ==
    [][\A h \in Handlers : pc[h] = "claim" /\ answer'[h] = "full"
          => native[act[h]] = <<>> /\ claimedAs[act[h]] = None]_vars

\* disconnect() leaves no work behind: whatever this gateway reported accepted had run
\* when the server was found idle.
QuietWhenReleased ==
    lifecycle = "clean" => \A a \in Actions : receipt[a] = "accepted" => a \in vouched

\* Every request is answered, whatever the connection and the server do.
RequestsAnswered ==
    \A h \in Handlers : pc[h] # "idle" ~> pc[h] = "idle"

\* close() ends although devices keep asking: its fence keeps readers from starving it.
CloseTakesEffect == stopping ~> lifecycle # "active" \/ ~stopping
=============================================================================
