# TLA+ verification of claude-replay / agent-monitor

The repository reads the transcripts that coding agents append to disk, folds
them incrementally into blocks, keeps a durable cache of the fold, and serves
live views of it to a terminal, to browser pages and to a monitor. This
directory models the parts of it where the order of steps matters - concurrent
requests, polling clients, a lock file between processes, a crash between two
writes - and checks them with TLC and TLAPS.

    tlc -workers 2 -config pull_main.cfg PullHistory      # any row of "Runs"
    tlapm PullProtocolProofs.tla                          # the proofs

## 1. The system

| component | crate | state | operations | hard because |
|---|---|---|---|---|
| fold engine (`engine/replay.rs`, `session.rs`, `follow.rs`) | claude-replay-engine | resident window, queue of typed-ahead prompts, call slots, turn times | apply a line, finalize completed turns, snapshot the open turn | later lines patch earlier blocks; the frontier decides what can no longer be patched |
| accumulator, records (`engine/builder.rs`, `meta_stream.rs`) | claude-replay-engine | committed blocks, totals, boundaries, pending records | advance_at, author_resume, checkpoint, align, restore | a resume must equal a fold from the start, whatever a crash left |
| task and metrics folds | claude-replay-engine | task list, token totals | apply an operation, re-apply on resume | the same, for state beside the blocks |
| durable entry (`cache/stream.rs`, `admit.rs`, `fs.rs`, `html_export/record_store.rs`) | claude-replay-present, -html | content log, record stream, header | put, append, load, adopt, reset, recover | two append-only files, neither synced |
| session cache and entry lock (`cache/mod.rs`, `lock.rs`, `shared.rs`) | claude-replay-present | slots, residents, the flight, LOCK file, Lease | admit, install, reap, touch, release, remove, quiesce, re-arm | threads of one process share slots, processes share a file |
| pull protocol (`pull.rs`, `shared.rs`, `serve.rs`, `record-stream.js`, `export.js`) | -present, -html | two zones, epoch, generation, render cache; a cursor per page | advance, counters, open_delta_with, /records, reducePull | the server keeps no state per client; a reply is two requests |
| terminal viewer | claude-replay-tui | session on screen, sessions kept warm | enter, poll, switch, forget, quit | shares entries with servers |
| HTML export and page | claude-replay-html | record list, virtualised view | render, poll, search | layout mostly; the poll loop is part of the pull protocol |
| elision, tier-b reading | claude-replay-engine | none shared | cut large values | data shaping |
| agent adapters, discovery | claude-replay-agents, -core | none | decode transcript formats, find sessions | parsing |
| unattended supervisor | src/jdi | slot lock, meta file (pid, state, mode), three backlog directories, the run loop's counters | start, resume, drain, queue, take over; turns, retries, claim and finalize | commands, detached workers and their crashes meet in files; a run must end by itself |
| Codex gateway | claude-monitor-codex | receipts (SQLite), RPC worker with its pending calls, lifecycle; owned runtime, event history | claim, bind, call, release, finish, prune; connect, time out, drop; disconnect, close, restart | at-most-once delivery over a connection that may break at any moment, across restarts |
| monitor | claude-monitor | index of sessions, layout, consent grants, pairing | refresh, control, edit layout, grant | concurrent edits, expiry |
| fleet | claude-monitor-fleet | tunnels | connect, probe, restart | supervision of ssh |

How they interact: a frontend asks the **session cache** for a session; the
cache opens the **durable entry** under the LOCK file, restores the
**accumulator** from it or starts cold, and installs a `SharedSession`. Every
request thread then ticks that session itself (`advance`: the follower feeds
new lines to the accumulator and the fold, committed blocks go to the content
log, records to the record stream) and answers the page from the two zones
with the **pull protocol**.

`PROJECT.json` lists every component with what is modelled of it, and every
hazard of the code at its line with the property that would catch it.

## 2. Modules

| module | what it is |
|---|---|
| `PullProtocol` | one followed session, its server side and the pages that poll it |
| `PullHistory` | the same with a history variable: every display the session has had |
| `PullProtocolProofs` | the inductive invariants and the theorems of the protocol: of the session as it is, and of the displays it has had |
| `SessionCache` | threads of several processes around one session's slot, LOCK file and Lease |
| `MCSessionCache` | its instances (which thread is whose; an entry already owned) |
| `SessionCacheProofs` | its inductive invariants and theorems: within one process, and across processes (viewers, and one owner beside contenders) |
| `ReplayFold` | the block fold, as operators on the replayer's state |
| `DurableEntry` | the accumulator over that fold, the follower, the two files, crash and recovery |
| `MCDurableEntry` | its instances (which lines transcripts are made of) |
| `FoldFacts` | what a FoldLeft computes, for every sequence |
| `DurableEntryProofs` | the replayer, the accumulator and the entry: inductive invariant and theorems |
| `ResumeFoldProofs` | two folds of which one began later: that they stay alike |
| `DurableResumeProofs` | a resumed session shows what a fold from the start shows |
| `OneShot` | abstract: an action runs at most once, and a verdict about it is true |
| `CodexGateway` | the gateway's write path: handlers, receipts, RPC worker, lifecycle, the native server; implements `OneShot` |
| `MCCodexGateway` | its instance (two devices, one queued submission) |
| `CodexGatewayProofs` | its inductive invariant, its theorems and the refinement of `OneShot` |
| `JdiSlot` | agent-jdi on one directory: commands, slot lock, meta file, workers, backlog |
| `JdiSlotProofs` | its inductive invariants and theorems |

A definition whose name ends in a description of a bug and whose comment
starts with "Mutant:" is not part of a specification. It is the faulty variant
of the definition after it; with it in place the property named in
`PROJECT.json` must fail.

### PullProtocol

`committed` and `provisional` are the two zones, `prev`, `epoch` and `gen` are
the fields of `Inner` in shared.rs, `rendered` is `ServeAux.prov_render`. A
page is a record with its list, its cursor and the stage of its request. One
request is six steps, each of them one critical section of the server or one
event in the browser: `PageAdvance` (the handler ticks the session on its own
thread), `CountIdle`/`CountBusy` (counters), `ServeDelta` (the cut under one
lock), `Render` (the open turn, from the cache or rendered), `FetchRecords`/
`FetchStale` (the second request, for the committed bytes) and `Apply`
(`reducePull`). `Advance` is another thread's tick, `Lose` a failed fetch,
`Reload` a new tab. A tick brings any committed suffix and any open turn, with
or without a reset: this contains everything the fold can do. `PullClientApply`
is the Rust reducer, compared with the JavaScript one on every reply.

### SessionCache

Processes share `lock`; threads of one process share `resident` and
`opening`. Sessions are reference-counted through `Refs`; the Lease is part of
`Settle` (last reference gone) and `Quiesce`. A request of a server thread is
`Reap`, `DropEvicted`, `Touch`, `Admit`, `Fly`, `Land`, `Recheck`, `LockRead`,
`LockWrite`, `Open`, `Stamp`, `Arm`, `Install` or `Attach`, `PublishCheck`,
`PublishWrite`, `Check` (poison), `PoisonRelease`/`Remove`/`Drop`, `Advance`
and `Finish`; a viewer does `Enter`, `Poll`, `Switch`, `Forget`. `Crash`
removes a process without its destructors. The reading and the writing of the LOCK
file are two steps, as in the code; what is one step here and two system calls
there: a read of the file with the liveness probe, and a release's check with
its removal.

### ReplayFold and DurableEntry

`ReplayFold` translates `Replayer::apply` message by message: what appends,
what patches and where it finds its target, the queue and its markers, stamps,
the queue pin with its bound, the frontier, and the shaping of turns. Logical
indices are counted from 1. `past` and `gone` are history and feed nothing.
`DurableEntry` has the transcript (`source`), the session in memory (`acc`,
`cursor`) and the two files (`content`, `meta` with the header `anchor`).
`Tick` is a whole `advance_from_source` with the writes that follow it; `Crash`
leaves any prefix of each file; `AdmitResumed` and `AdmitCold` are `recover`
with what `open` does with its answer (both cuts, restore, or a fresh entry). Offsets
are counted in lines and every line is worth one token, so that counter deltas
and totals are distinguishable. Two history variables, `exact` and `dirty`,
record when the code no longer promises a faithful resume (section 6): `exact`
is lost when a resume is at a line before which a prompt was queued or which both
opens a block and changes an earlier one (`Repeats`), and returns with the next
fold from the start.
It stays lost across a further crash: what a session that was resumed wrongly has
committed is taken up by the next resume.

### OneShot and CodexGateway

`OneShot` has two variables: what the native server has run of each action,
and the verdict on record about it. Its steps are run (once, while nothing is
decided), accept (what ran), reject (what did not run), expire. The refinement
is `Promise == INSTANCE OneShot WITH done <- native, verdict <- Verdict`, where
`Verdict` is read off the two tables of the receipts; `KeepsPromise` is its
specification.

In `CodexGateway` `receipt`, `claimedAs`, `retired`, `old` and `binding` are the
tables of receipts.rs (`old`: rows past the retention time). Each handler has a
stage: `Post` (admission), `Claim` (conflict, known, full or new, in one
transaction with `Prune`), `Prepare` (everything `execute` reads before it
delivers), `Bind` (a steer's durable binding), `Call` and the wait, `FollowUp`,
`Release`, `Finish`. `channel`, `pending`, `conn` and `epoch` are the worker's:
`Connect`, `Unavailable`, `Fenced`, `Stale`, `Write`, `Receive`, `TimeOut`,
`Drop`, `WorkerStops`. A call is a packet on the `wire`; the server (external)
runs or refuses it, perhaps long after the socket it came on is gone.
`DisconnectBegins`/`Checks`/`Ends`, `ForceDisconnect`, `CloseBegins`/`Ends` and
`Restart` are the lifecycle. Two courses stand for the ten routes: a steer of a
queued submission, and a route with one call that must not be repeated; what a
route validates before, and reads after, is only an outcome. An `actionId` with
another body, a retry by another device, and identities retired by an earlier
gateway (`Init`) are among the inputs.

### JdiSlot

`lock` is the slot directory with its owner file, `meta` the keys of the meta
file that decide anything, `pending`, `draining`, `drained` the backlog. A start
or resume goes through `Guard`, the steps of `acquire` (`Acquire` makes the
directory; `ReadOwner` and `Reclaim` if there is one; `CheckAlive`,
`WriteOwner`), `Setup`, `Spawn`, `RecordPid`, `RecordState`; a drain through
`Look`, `Guard`, `Setup`, `Spawn`, `RecordPid`; a takeover through `Kill` and
`MarkStopped`; an add through three `Scan`s, `CreateItem` and `WriteItem`. A
worker is `Boot`, then turns (`TurnBegins`, and one of `Advance`, `TurnDone`,
`Recreate`, `TurnEndsRun`, `Retry` for what the agent's turn came to), and
around them `ClaimItem` and `FinalizeItem`, one rename at a time, and
`Claimed`, the reading of what is in `draining/`. Either may be killed between
any two steps (`KillCmd`, `Crash`); a rename may fail (`RenameFails`) and so may
the reading of files or of the directory (`ReadFails`).

One file operation is one step. A `meta_set` is two: what is in the file is read
into `copy` (`ReadMeta`, `WorkerReadsMeta`), and the copy, with the keys set, is
renamed over it by the step that follows; a rename in between is lost. An item
is empty from `CreateItem` to `WriteItem`, wherever it has been moved to, and a
claim that reads it meanwhile gets no text. What is coarser than the code:
several `meta_set`s in a row are one pair of steps (so is the one after a first
turn with the one before the next), the stamps and exit codes among them; a
`remove_dir_all` is one step; the two looks at a lock's owner and the probe of
its pid are one; a `create_dir_all` that fails in `claim` or `finalize` is its
renames failing and an empty read; a directory is listed in one step; `failed`,
`gaveup`, `idle` and `blocked` are `stopped`.

`added`, `worked`, `capped`, `missed` and `mishaps` are history. `missed` holds
the texts of files in `draining/` that a claim did not get to read: it passes
over what it cannot read (backlog.rs:113), takes an unreadable directory for an
empty one (backlog.rs:108, supervisor.rs:134 and 209), and may read an item not
yet written, and `finalize` moves them all the same. `mishaps` holds what has
happened that the slot lock and the pid in meta do not survive:

* `untracked`: a command was killed between the spawn of its worker and the
  recorded pid (mod.rs:938), so that nobody knows of the worker;
* `overwritten`: a `meta_set` that had read the file before a pid was recorded
  renamed its copy over it afterwards (state.rs:103);
* `robbed`: a lock taken to be stale was removed after another command had made
  it (lock.rs:45-58): two commands read the same dead owner, or a lock without
  an owner for longer than its 100 ms of grace.

In each of these cases there may be two supervisors. A fourth, the unlocked
drain, is `jdi_race`. `Beyond` says whether commands and faults go on after a
mishap; the theorems hold with either value, in the runs only the workers go on.

## 3. Runs

| run | checks | shows |
|---|---|---|
| `pull_main` | TypeOK, CursorSound, UpToDate, RenderCacheSound, ReducersAgree, NeverTorn, CommittedKept, Converges | whatever interleaving of ticks, truncations and requests: a cursor means what the server takes it to mean, an idle answer means nothing is missing, a cached rendering is current, both reducers agree, a page shows a state the session really had; when the session rests the page comes to show it, lost replies and refused pointers included |
| `cache_threads` | TypeOK, OneWriterEach, OneFlight, ViewFollows, NotLockedWhenLeft | two server threads and a terminal viewer of another process, with failing opens and a crash |
| `cache_peers` | OneWriter, LockedWhileWriting, Reclaimed | an owner, a contender, a crash: the lock holds, names whoever writes, and is taken over |
| `cache_live` | RequestsEnd, PoisonCleared | every request ends, through evictions, panics and failing opens; a session whose fold panicked is replaced |
| `entry_main` | TypeOK, ResumeExact, Assembled, FrontierMoves, CheckpointsAgree | a resumed session equals a fold from the start wherever two crashes cut the files; shaping turn by turn equals one shaping; the window is bounded; checkpoints and deltas agree |
| `gateway_main` | TypeOK, AnswerHolds, SteeredOnce, QuietWhenReleased, FullOnlyIfNew, KeepsPromise, CloseTakesEffect, RequestsAnswered | whatever is lost, late, retried, expired or restarted: an action runs at most once and its receipt is true, what a device was told stays true, a queued message is steered once, a full store turns away new actions only, a clean disconnect leaves nothing behind, requests and close end |
| `jdi_main` | TypeOK, OneSupervisor, NothingLost, DrainedIsDone, DoneMeansDrained, RunEnds | two terminals; commands and workers that are killed, renames and reads that fail: one supervisor unless a mishap has happened; no item lost; none that a claim read is confirmed unworked or left behind by a run that is done; a run whose turns change nothing ends |
| `lock_race` (violation) | OneWriter | `acquire` reads and writes the LOCK file in two steps: two processes both become the owner |
| `poison_race` (violation) | OneWriter | two threads that find one session poisoned: the slower removes the replacement |
| `pull_fault` (violation) | EpochMarksReset | a tick that fails after the fold was reset leaves the epoch where it was |
| `entry_queue` (violation) | ResumeEqualsCold | the queue of typed-ahead prompts is not restored and not always empty at the resume point |
| `jdi_race` (violation) | OneSupervisor | two `backlog --drain` (or one beside a start) both find no live worker and both launch one: a drain takes no slot lock |

Bounds. `pull_main` has one page: pages share only the session and the render
cache, and another page's effect on these is a tick (`Advance`) or an entry under
the same key. Two committed and two open blocks with two ticks reach a
commit, a regrouping and a truncation between any two steps of a request.
`cache_*`: five sessions in memory are more than the threads and slots of the
instance can refer to at once; two faults cover a failing open on the first
admission and on its retry. `SYMMETRY` is used in `cache_threads` only, over
the two threads of the server. `entry_main`: transcripts of up to four lines
over seven shapes of line (three where the transcript was cut) reach two
commits with a resume point each, a checkpoint (`CheckpointEvery` = 2), a pin at
its bound (`MaxPinnedTurns` = 1), a late result, and two crashes with an
admission between them. `MaxBehind` keeps a live session within one line of
its transcript; a session that starts may have all of it to read. The code's
own constants (64 turns, its checkpoint interval) differ only in scale;
`entry_queue` uses 64.

`gateway_main`: two requests by two handlers over two actions, two bodies and
one submission are every pairing of a first delivery with a retry, a conflict,
another steer of the same submission, or an unrelated action; the store holds
two identities and may start with any of them retired, so it is full as often
as not; one trouble puts one lost socket, restart, expiry, failed write,
disconnect or close between any two steps. `jdi_main` (876,053 states): two
terminals, two launches and two items, three of launches, items and turns that
change something together (`MaxEvents`), one of `MaxDrainCycles` and
`MaxNoProgress`, two of `MaxIdenticalFailures` (25, 2 and 3 in the code), and
one trouble: a kill, a failing rename or read, or a vanished session between
any two steps. That is two commands at any point of `acquire` beside a worker, and an
item on its way through the queue beside a second one being queued. `Caps =
{0}`: the runs do not reach the arm of `--max-attempts`, which only ends a run
earlier. Drain, backlog and takeover are issued one at a time (`Alone`), because
`jdi_race` shows what a second drain does and section 6 what concurrent adds do.

Deadlock checking is off in `entry_*`, `gateway_*` and `jdi_*`, where a
transcript at its bound, or users with nothing more to ask, leave nothing to do.

Fairness. `pull_main`: weak fairness of each page's steps - the page polls on
a timer and each handler ends; nothing is assumed of the session. `cache_live`
and `cache_peers`: weak fairness of each thread's request steps, that is,
threads are scheduled. A mutex of the standard library does not promise
that a particular waiter gets it, so RequestsEnd is claimed where requests are
bounded by the run's failures, not for an endless stream of them. Reclaimed is
checked from an entry that is already owned, because a race to acquire a free
entry (`lock_race`) may break it. `gateway_main`: weak fairness of each
handler, of the worker's handling of commands, replies and timeouts, of its
ending once it is told to, of the poll in `close`, of a GET's end and of the clock;
nothing is assumed of the server, of the socket or of the devices. CloseTakesEffect
assumes that `close` is tried again after its 15 seconds. `jdi_main`: weak fairness of a
worker's steps, that is, it is scheduled and a turn of the agent ends; retries that change
something are bounded (`MaxProgress`), which is what RunEnds is about.

## 4. Theorems

`PullProtocolProofs` (for every set of blocks and pages and every bound):

* **TypeCorrect**, **CursorSoundness**, **NothingMissed**, **RenderCache**:
  TypeOK, CursorSound, UpToDate and RenderCacheSound are invariants.

  A cursor alone is not inductive: a reply in flight was cut from a session
  that has moved since. The invariant `IInv == TypeInv /\ (faults = 0 =>
  SyncInv)` therefore says, of every stage of a request, what its reply still
  means relative to the session *now*: if the reply's epoch is the session's,
  its pointer denotes blocks of the committed zone; if its generation is the
  session's too, its open records are a piece of the open turn; a cached
  rendering with the current key is the open turn. The lemmas follow this
  split: what a tick carries over (`TickAdvances`, `CursorCarries`,
  `OpenCarries`, `LogCarries`, `PageCarries`, `EntryCarries`), what the cut is
  (`CommittedFromSound`, `ProvisionalFromSound`), what the reducer does to a
  sound list and a sound reply (`ReduceType`, `ReduceSound`), then one lemma
  per action.
* **ReducersMatchAlways**: ReducersAgree. The two reducers differ on replies
  that cannot arrive, so the invariant says which can: what `ServeDelta` cuts
  and what a fetch may add to it.
* **CommittedOnlyGrows**: the action property CommittedKept.
* **PagesAreWhole**: NeverTorn. A reply is cut from the session at one moment
  and completed from the session at later ones. The invariant `HInv` says that
  there is a course of moments, each leading on to the next and to the session
  now, that contains the moment every reply under way and the cached rendering
  were cut at, and whose displays were all real. Which moments those are cannot
  be read off the state, so the invariant is existential; each action shows
  that the old course, with the new moment added, still serves.

`SessionCacheProofs` (for every set of processes and threads and every bound):

* **CacheTypes** and **FlightIsOne**: TypeOK and OneFlight. They are proved
  together, since a step of an admission is type-correct only for the thread
  that holds the flight.
* **ServerOneWriter**, for `MaxPanics = 0`: OneWriterEach. The invariant adds
  to the types the shape of each stage (what a thread may hold there), that a
  resident lives in its own process, and that a session that can be written
  is the resident or is about to be installed by the holder of the flight.
  With panics the property is false for two threads (`poison_race`).
* **ScreenFollows** and **LeftIsUnlocked**: ViewFollows and NotLockedWhenLeft,
  without hypotheses. They follow a viewer through its stages: what it has on
  screen, whether it is armed, and which LOCK it holds at each of them.
* **OwnerAlone** and **OwnerLocked**: `OwnedSpec => []OneWriter` and
  `OwnedSpec => []LockedWhileWriting`, under `Settled`: the session is already
  admitted by one server, nothing is evicted and no fold panics, and either
  nobody crashes or there is one process beside the owner. Each hypothesis
  leaves out a behaviour the code is known to get wrong (section 6): with two
  processes that start together `lock_race`, with panics `poison_race`, with
  evictions the late Lease; after a crash two contenders race as in `lock_race`.
  With them the theorem holds for any number of processes and threads. The
  invariant says how far each thread may be: while the owner lives the others
  get no further than to read the LOCK file, and its own threads find the
  session and stop short of it; once it has died every thread is of the other
  process, whose one flight may take the LOCK.

`CodexGatewayProofs` (for every set of handlers, actions, bodies and
submissions and every bound):

* **Types**, **AnswersHold**, **SteersOnce**, **QuietRelease**: TypeOK,
  AnswerHolds, SteeredOnce and QuietWhenReleased are invariants.
* **FullTurnsAwayNew**: the action property FullOnlyIfNew.
* **PromiseKept**: `Spec => Promise!Spec`, the refinement of `OneShot`. A stored
  result is Accept or Reject, a prune is Expire, a run of the server is Run,
  every other step a stutter.

  None of these is inductive. What they need is where an action *is*. `IInv`
  says that an action has one carrier at a time: a handler that has not called
  (`Fresh`), one command of the channel (`CommandInv`), one packet
  (`PacketInv`), or nothing any more (`Over`, or it ran). It says what each
  stage of a handler knows of its action (`StageInv`), that the row of a
  carried action is uncertain and so never pruned (`WorkInv`, `RowInv`), that
  the worker's table and the commands still heard point to handlers that wait
  (`PendingInv`), that a verdict a device holds has a row or a retired
  identity behind it (`AnswerInv`), that a steer holds its submission from
  before its call until it is over (`SteerInv`), and that nobody works while
  disconnect() is left alone (`QuietInv`). A command whose handler gave up
  must be late, or the worker would write a call nobody waits for.

  Actions that end in the same way share a lemma: `ReplyKeeps` (a request
  ends), `MoveKeeps` (a handler goes on), `DeliverKeeps` (answers reach waiting
  handlers), `TurnAwayKeeps`, `ModeKeeps` (only the lifecycle changes).

`JdiSlotProofs` (for every number of terminals, launches and items, and every
bound):

* **SupervisorIsOne**, **DrainedWasDone**, **DoneHasDrained**: OneSupervisor,
  DrainedIsDone and DoneMeansDrained, for `"drain" \in Alone`: the user does not
  issue a command while a drain runs. Without that OneSupervisor is false
  (`jdi_race`). Their other provisos are the properties': no mishap has
  happened, and an item that a claim did not get to read may be confirmed, or
  left behind, without having been in a brief (section 2). They are claims about the code
  as long as nothing of the kind happens, and say nothing afterwards.

  The invariant is `Shape /\ (mishaps = {} => Supervision)`, for the last two
  with `Confirmed` beside `Supervision`. `Shape` is the form of each command and
  worker at each stage and holds for ever. `Supervision` ties the slot lock, the
  pid in meta and the stages together: who holds the lock (`Locked`); while a
  command sets up and spawns no worker is alive, and until it has recorded the
  pid only its own is (`Launch`); otherwise only the recorded one (`Recorded`). A step that would break one of
  these is a mishap, and is recorded as one. `Confirmed` follows the items: those
  in `draining/` are in the brief of the worker that drains, or were missed, and are worked or were
  missed when it comes to finalize them (`Briefed`); once `done` is in meta, or in
  a copy with which a command is about to record a pid, no worker is alive
  or about to be, and nothing but missed items is left unless the cycles are used up
  (`Over`).
* **ItemsKept** and **SlotTypes**: NothingLost and TypeOK, for `"add" \in
  Alone`: two concurrent adds may take the same number (section 6). The
  invariant is `Shape /\ Queue`: a number is in one directory at a time
  (`Apart`), numbers do not run ahead of the items queued (`Numbered`), what `next_seq`
  has seen bounds the names in the directories it has read, since workers move
  items only to those it has still to read (`Seen`), so that the number it makes
  is free, and a file it has made stays until it is written (`Made`). These two need no proviso about mishaps: with two supervisors,
  or none, no item is lost.

`DurableEntryProofs` (for every set of lines, every pin and every bound). It rests on the
lemma `FoldFacts!FoldCourse`, a fact of the library and not of this code: a FoldLeft is
the last state of its course - the base, then one step per element. The community
modules define FoldLeft by a recursive function over sets of positions; `FoldFacts`
shows that this recursion has a solution and that the fold follows it, by an induction
from the least element of a set of naturals (`SetInduction`). It is instantiated for each step
the model folds with: messages of a line, lines of a tick, blocks of a turn and of a
commit, boundaries, records.

* **EntryTypes**, **FrontierNeverFreezes**: TypeOK and FrontierMoves.
* **CheckpointsAlwaysAgree**: CheckpointsAgree.
* **AssembledAlways**: Assembled.

  `EntryInv` contains, of the replayer (`IsReplayer`), that the stamps lie
  inside the window, that every marker still referred to is a marker block of the window or
  has left it, and that a hidden index above the frontier is one of a delivered
  prompt; that its openers are bounded (`Bounded`, from the choice of the pin:
  `PinFacts`, `FinalizeFacts`) and that the turns already counted have their
  times (`Timed`). Of the accumulator, that its boundaries and records are well
  formed (`IsAcc`). And, for an entry that is not dirty, that the records on
  disk together with those not yet written add up to the maintained totals,
  each checkpoint included, and that the counters' baseline never runs ahead of
  a boundary (`Ties`). The last clause is what CheckpointsAgree needs: a
  delta is cut off at zero (`Since`), and deltas add up to totals only if it
  never has to be. A line carries all of this through `ApplyFacts`,
  `CommitTies` and `AdvanceFacts`, a tick through `AdvanceOverFacts`, a crash
  through `AgreesPrefix` (a prefix of a good stream is a good stream), a resume
  through `RestoreFacts` (the restored totals are those of the cut stream).

  AssembledAlways follows a fold from the start line by line. What is carried
  (`Whole`): the raw blocks that left the window are as many as the frontier
  says, the window begins with the head of a turn once any have left (`Kept`),
  and the content log is one shaping of them (`Shaped`). A drain appends the
  shaping of what it drains, and shaping two sequences one after the other is shaping
  them together because the second begins with the head of a turn, which ends
  any run before it (`FinishSplit`, from `ShapeRestart` and `ShapeShift`), and
  because that head is never hidden (`ShownHead`, `ShownSplit`). A message may
  patch the window but not what has left it (`ApplyKept`).

`ResumeFoldProofs` and `DurableResumeProofs` (the same constants):

* **ResumeAlwaysExact**: ResumeExact, for every transcript, any number of crashes
  and resumes, and any prefixes of the two files. Its provisos are the
  property's: `exact` (no cut of the transcript reached what was recorded or
  read, and each resume was at a line that repeats).

  A session resumed after f lines has an empty window, no slots and no queue;
  the fold from the start has at that point blocks in its window, calls it may
  still join results to, and hidden markers. `Alike(F, p, s, r)` says in which
  sense the two are the same: the window of the fold from the start is p
  followed by that of the resumed one, every remembered index is F further on,
  and what only the first remembers lies in p. A line preserves this provided p
  is still there, unchanged, at its end (`LineShifts`, from one lemma per
  message): this is the second conjunct of `Repeats`, for the line resumed at. At
  the end of that line the frontier moves both to the same block
  (`FrontierShift`, `PinShift`), p leaves, and from then on both
  commit the same blocks under the same times, and show the same open turn
  (`AdvanceFollows`, `DurableAlike`, `SnapshotAlike`).

  What makes this apply is what a record on disk means. `Point` says of a record
  with a resume point after f lines that line f + 1 is the one that moved the
  frontier to its own first block, and that the record carries the counts,
  times and relayed messages of that moment, from which those before the line
  can be had (`CarriesFresh`). A record names its boundary only by where the
  frontier stood, and the session that wrote it may itself have been resumed;
  that the boundary is nevertheless the right line is `ResumeLine`: the
  frontier comes to the first block of line f + 1 while folding that line or
  never. Its proof looks at where turns open (`OpensAt`, `Later`).

  The inductive invariant `ResumeInv` has two parts. Of the files: every record
  is sound, and the content log is the log of the fold from the start as far as
  a record reaches (`Vouched`: `Sound`, `Holds`); a crash keeps it because it
  speaks of prefixes. Of the session: it follows the fold from the start and its
  boundaries are marks of its lines (`Reading`), or it was just resumed and will
  follow once it has folded its first line (`Started`). The second alternative is
  needed because in between it does not follow: p is still in the other window. A
  caught-up session is not in it, since the line it has yet to fold is in the
  transcript: a record with a resume point after f lines was written when line
  f + 1 had been read.

The assumptions are those of the modules: the bounds are natural numbers, each
thread belongs to one process, a viewer has one thread, a steering body names
one submission, `None` is no action and no body, a line is a finite sequence of
messages.

Only model-checked: liveness (Converges, RequestsEnd, PoisonCleared, Reclaimed,
RequestsAnswered, CloseTakesEffect, RunEnds), which is out of this prover's
reach.

## 5. Not modelled

Parsing, discovery, rendering and layout. In the modelled parts: the tail-first
open of a long session; retained entries and the reuse of a decoded prefix;
compaction of a record stream (`compact` has no caller in production);
the `SingleWriter` and `Transient` providers, `reap_over_budget` and the
garbage collection of entries; pid reuse, the window in which `fs::write` has
truncated the LOCK file, the contents of its note; the viewer's undo of a
half-built frame; task operations, spawns, peers and durations in the records
(they are folded like the times and the inbox ids that are modelled);
`refused`, which like the queue is cleared by `reseed`.

Of the gateway: who owns the runtime process, event replay and history paging,
approvals (`respond`), the validation each route does, the `sequence` number by
which `disconnect` also notices server events, a disconnect before any thread
is known; replies of the server that are not well formed (a `thread/start`
that ran and returns no thread id is recorded as rejected, lib.rs:1286). Of agent-jdi: handoff and the takeover of sessions it did not start,
skills, prompts and their text, exit codes, write errors of a command's own files, two
adds at a time in the runs, pid reuse.

The monitor and the fleet are listed and not modelled: the monitor's
index and its page are reads of other components' files, its layout and
consent stores are single files behind one mutex of one process, and the fleet
supervises `ssh`.

## 6. Known limits of the code, met while modelling

* `lock_race`, `poison_race`, `pull_fault`, `entry_queue`, `jdi_race`: see the findings in
  `PROJECT.json`.
* A boundary is kept if its line authored a block (builder.rs:424), and builder.rs:381
  takes that for enough. A user line whose items are a tool result and a text
  (decoded in that order, agents/claude/model.rs:4025) changes the call of the
  turn before it and then opens a turn, so it becomes a resume point with the
  joined call already in the content log. A resume reads it again with an empty
  `tool_slot`, and the result is appended as an orphan block and committed:
  prompt; call; result and prompt; crash. `entry_main` has such a line, and
  ResumeExact is stated without it by the second conjunct of `Repeats`; with
  that conjunct dropped the run reports it.
* A page is not told when the open turn shrinks to nothing without a commit
  (`pull_indices`, pull.rs:305: the only block was a queued marker that was
  withdrawn). UpToDate and Converges are stated with that exception.
* With two request threads the Lease of an evicted session may be dropped after
  another thread of the process has admitted it again (serve.rs:915): the
  release finds its own pid in the LOCK file and removes it under the new
  writer. LockedWhileWriting is therefore checked without evictions
  (`cache_peers`). It speaks of sessions with an open record stream: without
  one a session goes on with its content log although the lock was given back.
* A session opened again (restart, eviction, poison) starts at epoch 1 and
  generation 0 (shared.rs:613). A page with a cursor of an earlier epoch 1 is
  answered as if it knew the new session, and may be told `nothing new` although
  the open turn or the transcript changed meanwhile. PullProtocol follows one
  SharedSession only.
* A session poisoned after `Check` is served once more (serve.rs:917); what is
  checked is that it is then replaced (PoisonCleared).
* agent-jdi. lock.rs:1 has "at most one tracked supervisor per project dir". There are
  four ways to two: a drain without the lock (`jdi_race`), and the three mishaps
  of section 2 - a lock reclaimed from a live command (the same race as
  `lock_race`, in another file), a recorded pid taken back by a `meta_set` that
  had read the file before, a worker whose command was killed before it could
  record the pid. OneSupervisor excludes the last three by name; with the
  proviso dropped and `Beyond = TRUE` the bounds of `jdi_main` reach two
  supervisors by each of them alone. The same holds of the other two provisos.
  backlog.rs:6 has `drained/` "confirmed done, only after a clean execute turn",
  but `finalize` confirms all that lies in `draining/`, also what the claim
  could not read or read before `fs::write` had written it; and a claim whose
  read fails ends the run as done with items left in `draining/`. Two concurrent
  `backlog` commands may choose one number and overwrite each other. A starting
  command writes `state = running` after the worker may have failed. `identical_failures` and `no_progress` are not reset when a
  turn is Done, so a later drain may stop at failures that were not
  consecutive. `RecreateSession` is not bounded by `--max-attempts`. Outside a
  git work tree and without a task list there is no fingerprint, and failures that never look
  alike are retried for ever. MAX_DRAIN_CYCLES is also reached by items
  queued during each cycle, not only when `finalize` keeps failing, as its comment has it.
* A live truncation resets the fold and the content log but leaves the record
  stream, the boundaries and the counter baseline. design/durable-session-
  cache.md:356 has a reset truncate both streams.
* Since the window check was removed (#222), an entry is tied to its
  transcript by the first line and the length only. A transcript cut to
  exactly the resume point, or below it and grown again, is accepted.
  `dirty` marks the entries of these last two kinds; ResumeExact and
  CheckpointsAgree do not speak of them.
* Once the oldest pending marker has been committed past the bound, the pin no
  longer protects younger markers (`checked_sub` in `queue_pin`); their rows
  may stay visible after their prompts are picked up.

## 7. Plan

Done: the pull protocol, the session cache and entry lock, the durable entry
over the block fold, the gateway's write path with its abstract specification,
agent-jdi's slot, run loop and backlog; proofs for each of them.

Left: the re-application of the task fold on resume, and retained entries with
prefix reuse, in `DurableEntry`; the counters of a rematerialized session in
`PullProtocol`; the ownership of the Codex runtime process.
