# Verification project for vela-server

vela-server (`src/crates/vela-server`) is the server of a voice agent. A device
opens one WebSocket, streams audio, and hears the answer of a language model.
This directory holds TLA+ models of that server, the TLC configurations that
check them on small instances, and TLAPS proofs about them. `PROJECT.json` is
the index: which source lines each definition stands for, which run checks
which property, which defect each property would notice, and the hazards of
the code with the properties aimed at them.

Paths below are relative to `src/crates/vela-server/src/` unless they start
with `docs/`, `.scratch/` or `tla/`.

| file | content |
|---|---|
| `VoiceTurn.tla`, `MCVoiceTurn.tla` | one Voice Session: actor, lanes, writer, mailbox, teardown |
| `PatientClient.tla` | a Voice Session with the history of its client, for theorems that hold until the client does one of two things |
| `TurnDelivery.tla` | the abstract promise of a session; `VoiceTurn` implements it |
| `ProviderAdmission.tla` | permits over shared counters |
| `AsrWorkers.tla`, `MCAsrWorkers.tla` | the ASR runtime on top of the admission: sessions, threads, supervisor, pool, shutdown |
| `VadWorkers.tla` | voice activity detection of one session: cycles, windows, leases, deadlines |
| `Reminders.tla` | voice reminders of one device: rows, scheduler, session registry, device answers |
| `Connections.tla`, `MCConnections.tla` | admission gate, drain registry, device registry, ordered shutdown |
| `NotificationOutbox.tla` | inbox, outbox rows and the worker that sends them |
| `LlmGateway.tla` | gateway accounts in row and snapshot, token renewal, requests |
| `MemoryVault.tla`, `MCMemoryVault.tla` | the Memory vault of one device: durable writes, tombstones, index, context, reconcile, crashes |
| `*_proofs.tla` | proofs about the module of the same name; `AsrWorkers_proofs` holds those about `ProviderAdmission` too |
| `<module>_<run>.cfg` | the runs of section 4 and the reproductions of section 5 |

To repeat the work: `tlc -config VoiceTurn_bargein.cfg MCVoiceTurn` (a
configuration belongs to the MC module of its name's first part, or to the
module itself where there is none), `tlapm LlmGateway_proofs.tla`.

## 1. The system

### Components

| component | state it keeps | operations | interacts through |
|---|---|---|---|
| **SessionActor** (`session/actor/`) | phase, generation, Active Turn and its permit, model round, tool batch, speech output, ASR and VAD handles, armed actions, listening mode | client commands, direct speech, worker events, writer outcomes, `fail_closed`, shutdown | lanes and gate to the writer; mailbox from it; worker handles |
| **GenerationGate** (`session/interaction/generation_gate.rs`) | highest invalidated generation (atomic max) | `invalidate`, `admits` | shared by actor and writer |
| **Outbound lanes** (`frame.rs`) | three bounded queues: urgent, control, audio | `try_send`, awaited `send` of a close | actor and reader to writer |
| **WebSocket writer** (`app/transport/websocket/writer.rs`) | active turn of the playback arbiter, a deferred stop | one biased `select!`; two awaits (socket, mailbox) | device; mailbox of the actor |
| **WebSocket reader** (`.../session.rs`) | ingress sender | parse, forward, close codes, joins the tasks | actor ingress, urgent lane |
| **Tool rounds** (`session/actor/tools/`) | pending batch, budgets, sequential executor | start batch, one call at a time, finish batch | LLM round, services |
| **Speech output** (`session/speech_output/`) | segments, synthesis, credit and pacing | push text, poll, abort | TTS worker |
| **ASR / VAD / LLM / TTS workers** (`workers/`) | slots per lease, retained recognizers, deadlines, quarantine | open, push, finish, cancel, reset, close, diagnose, shut down | native threads, one event channel, the supervisor, session event queues |
| **Worker supervision** (`workers/supervision`) | waker flag, due deadlines | drain, route, reap, wait | every runtime |
| **Provider admission** (`workers/admission`) | used permits per gate and class | admit over a view, release gate by gate | every runtime |
| **Lifecycle** (`lifecycle.rs`) | admission gate, drain registry and its published count, grace deadline | register, unregister, begin drain, close all, stop | every connection |
| **Active device sessions** (`services/device/active_sessions.rs`) | current session per device, in-flight reminder | register, replace, unregister, speak | connections, scheduler |
| **Dialogue history** (`session/interaction/turn.rs`) | messages under two budgets | commit, trim | LLM prompts |
| **Reminders** (`services/notifications`, `database/notifications`) | reminder and attempt rows, schedule revision | claim, start, complete, fail, release, reap, edit | direct speech of a session; device answers |
| **Notification hub** (`services/notification_hub`) | inbox items, outbox rows | publish, claim, send, record, recover | external channels |
| **LLM gateway** (`services/llm_gateway`) | accounts as rows and as a snapshot, refresh locks | lease, renew, mark, edit, delete, cool down | HTTP providers |
| **Session memory** (`services/memory`) | fact files, Forget Tombstones, search index, published context, one writer lock per scope | remember, correct, pin, discard, forget, purge, set profile; context, recall; reconcile | sessions, admin API, the vault's owner |
| **Wiki, task flow, device registry** (`services/`) | rows in SQLite | single transactions | actor, admin API |
| **Database, config, providers, admin API, MCP server, admin web, firmware** | - | I/O, numeric code, UI | - |

### How a turn runs

The reader passes a client command to the actor's ingress. The actor's loop
selects between ingress, writer outcomes and a worker tick of 1 ms. An
utterance opens an ASR stream; its final text begins a turn (a permit and a
turn id), a model round produces text or tool calls, speech output turns text
into Opus packets. The actor offers `tts:start`, text and audio to two lanes
and `Finish` when production drained; a cancellation offers `Abort` to a third
lane, after it has invalidated the generation at the gate. The writer drains
the lanes in fixed priority, keeps one active turn, drops what the gate or the
arbiter no longer admits, and reports one outcome (`normal`, `aborted`, or a
failed socket) which is what releases the turn and commits the assistant's
text to Dialogue History.

### What is hard

- The actor and the writer disagree about time: the actor has finished or
  cancelled a turn long before the writer takes the frames of it, and three
  lanes reorder them.
- A turn can end in a dozen ways (drained, aborted, barge-in, model or speech
  failure, refused capacity, full lane, tool result without speech, ASR
  deadline, VAD failure, shutdown); each must release it exactly once.
- Identities (operation, generation, turn) are compared in different places;
  a path that renews one but not the others leaves work nobody listens to.
- Two bounded queues face each other: the actor may wait for the urgent lane
  while the writer waits for the actor's mailbox.
- Commands continue to arrive after the session was failed closed.
- A native worker cannot be interrupted. Its permit, recognizer, slot and thread
  each come back at another moment, and a deadline may declare it lost while it
  still answers.
- A reminder is spoken by a session that may be busy, replaced or gone; the
  claim in the database, the mark in memory and the device's answer meet again
  in any order, or not at all after a crash.
- Gateway accounts live twice, in the database and in memory, and every change
  awaits between the two. A refresh token may be spent only once.
- Shutdown runs while connections arrive; whoever slips past the gate has to be
  told later.
- A memory change is half a dozen file operations. Any of them may fail or be the
  last before a crash, a power loss may undo those not yet synced, and the owner
  edits the same files with an editor.

`PROJECT.json` lists these and the rest as hazards, at their lines. Three have
no property that would catch them and say why in their note: a reset answered
after `fail_closed`, a worker event dropped at the session's full mailbox, and an
ASR slot whose refused `Cancel` nobody repeats. Others are places where the code
does what the hazard fears, and name the finding instead.


## 2. What the modules model

All modules are written the same way: one action per handler, transaction or
step between two awaits, the variables grouped in records where the code has a
struct. Each has one type invariant, and bounds that are constants with a name.

### VoiceTurn: one session

**Atomicity.** A handler of the actor has no await, so it is one step. Handlers call each
other (`fail_closed` calls `interrupt_active_turn` calls
`cancel_speech_delivery` calls `fail_closed`), therefore each is an *operator*
from a session record to a session record, and an *action* applies one of them
to the variable `sess`. The lanes and the gate are shared with the writer and
are fields of the same record: `try_send` inside a handler is part of the step.
The writer awaits its socket and its mailbox, so a writer step is cut in three
by `writer.pc`: taking a command, `sending`, `reporting` (or `failing`).

**State.**

| TLA+ | code |
|---|---|
| `sess.phase`, `.generation`, `.turn/.turnGen`, `.nextTurnId` | `SessionActor` fields; `ActiveTurn` with its permit |
| `sess.ttsStarted`, `.pendingDelivery`, `.closeAfter` | `tts_started`, `pending_delivery`, armed `ActionAfterTurn` |
| `sess.llmGen`, `.batchGen`, `.rounds` | model round and tool batch in flight, with the generation they were started in; rounds used |
| `sess.speech`, `.announced`, `.playing`, `.packets`, `.pendingAudio`, `.origin` | what the actor polls of `SpeechOutput`, the parked packet, who produced the text |
| `sess.vad`, `.cycle`, `.vadReset`, `.autoResetPending`, `.segment`, `.autoSpeechActive`, `.listenArmPending`, `.listeningMode`, `.capturing` | VAD lease and capture cycle, segmenter, listening mode, manual capture |
| `sess.asr`, `.asrGen`, `.asrCleanup` | ASR stream and its cleanup |
| `sess.urgent/control/audio`, `.lanesOpen`, `.gate`, `.shutdown` | the lanes, the gate, the writer's stop signal |
| `writer`, `mailbox` | writer task with `PlaybackArbiter`; outcomes on their way |
| `tasks` | actor loop, reader loop, last message of the ingress |
| `wire`, `delivered` | history: frames that reached the socket; turns whose text was committed |

**Actions.** Client: `StartListening`, `StopManual`, `StopContinuous`, `Detect`, `Abort`,
`AdmitDirectSpeech`. Recognition: `AsrFinal`, `AsrFailed`, `AsrFinalTimedOut`,
`AsrCleanedUp`, `AsrCleanupTimedOut`, refused pushes. Voice activity:
`SpeechStart`, `SpeechEnd`, `ResetDone`, `VadClosed`, `VadFailed`. Model and
tools: `LlmDelta`, `LlmFinished`, `LlmFailed`, `LlmCallsTools`, `ArmClose`,
`FinishToolBatch`. Speech: `SegmentReady`, `SpeechStarted`, `AudioPacket`,
`FlushPendingAudio`, `Drained`, `SpeechFailed`. Outcomes: `OnWriterEvent`.
Writer: `TakeUrgent`, `TakeDeferredFinish`, `TakeControl`, `TakeAudio`, `Sent`,
`SendFailed`, `ReportClosed`, `ReportFailed`, `WriterStops`. End of session:
`ReaderLeaves`, `ReaderEndsSession`, `ReaderCloses`, `ReaderPushesClose`,
`ApplicationShutdown`, `ActorPushesClose`, `IngressClosed`.

Capacity of the shared runtimes is the parameter `c` of a handler, one answer
each of the turn permit, the opening of an ASR stream, its `Cancel`, the VAD
lease and its command queue, and the model; `Refusals` says which of them may
say no. A refused `Cancel` before a typed message and a full VAD queue at a reset
fail the session closed. `Overtypes` is about the client: `accept_detect` takes a
typed message while a turn is active, so TRUE is the whole system; FALSE is a
client that waits for the end of its turn before it types. Only the run `bargein`
assumes FALSE, because some of its properties do not hold otherwise (finding 16).

**Abstractions.** Samples and VAD probabilities are a start and an end of
speech; text is a flag for "survives filtering"; a tool batch ends in one of
three ways. Bounds: `MaxInputs` (commands, direct requests and utterances),
`MaxFaults` (provider failures and failed sends), `MaxRounds`
(`llm.tools.max_rounds_per_turn`), `MaxPackets` (Opus packets of one turn), and
the four queue capacities, which are the configuration's own limits.
`Terminated` lets an ended session stutter, so that deadlock can be checked
everywhere else.

### PatientClient: until the client does one of two things

`VoiceTurn` with a history variable `patient`, TRUE until the client types over
an active turn (`TypesOverTurn`) or asks a session that is busy in another mode
for manual listening (`SwitchesToManual`). No step of `VoiceTurn` reads it, so
every behaviour of the session is one of `PatientSpec`. Everything else stays
possible, both kinds of listening on one connection included: a client that
changes between them while the session is idle is patient. The five theorems
about ownership are stated of it, since these two make the actor give up work
that goes on (findings 16 and 17).

### TurnDelivery: what a session promises

Four variables: the turn the device plays, the turns it was told have finished,
the turns whose text is remembered, and whether the connection is gone. `Start`
needs silence, `Stop` ends the playing turn, `Cut` ends it without a stop,
`Remember` takes a stopped turn into the history, `Leave` ends everything.
`VoiceTurn` implements it with `playing <- wire.playing`, `stops <- wire.stops`,
`heard <- delivered`, `gone <- writer.pc = "done"`; every one of the forty-odd actions
of actor, lanes, writer and teardown is a step of it or a stutter
(`DeliversTurns`).

### ProviderAdmission: permits

A *view* composes *gates* (the code's `Arc<Mutex<State>>`): a provider's
physical capacity, the quota of a template. `Admit` is `try_admit`, which locks
all gates of the view, so it is one step. Dropping a permit decrements gate by
gate: `Disown` starts it, `Release(p, g)` is one decrement, and anything may run
in between. Voice may use a gate's whole total, diagnostics and background must
leave its reserved part.

### AsrWorkers: the ASR runtime

Extends `ProviderAdmission`; a lease's permit is shared by its slot and its
thread and returns when the second of them drops it.

| TLA+ | code |
|---|---|
| `sess[s]` | the actor's view: no stream, opening, live, waiting, giving up; cleanups it still waits for |
| `slot[l]` | `Slot` in the runtime's table: Active, Finishing, Cleaning, Quarantined |
| `worker[l]`, `commands[l]` | native thread and its bounded command channel |
| `pool` | retained recognizers: number free, health |
| `events`, `route[s]` | the one unbounded event channel; the session's bounded mailbox |
| `sup`, `pending` | supervisor loop and the waker's flag |
| `diag`, `life` | a diagnostic; runtime open, closing, retired |

A session opens (`OpenAdmit`, `OpenSlot`, `OpenRefused`), pushes, finishes or
cancels, leaves, and handles events; a thread opens, serves one command at a
time, returns or drops its recognizer, drops the permit, sends its last event;
the supervisor drains the channel, removes slots *before* it routes, reaps
passed deadlines, and sleeps unless the flag was set. `Retire` and the two steps
before it are `shutdown_acknowledged`. A thread may hang in any step: nothing
of it is fair. Abstracted: audio and transcripts, the deadline of a diagnostic,
readiness, idle thread reuse. Bounds: `MaxOpens`; `MaxWorkers` (also the pool's
size) and `Capacity` are configuration.

### VadWorkers: voice activity detection

One session. Audio is counted in blocks of 64 samples (a frame is 15, a window
of the detector 8), so the rechunker's remainder at a cycle change is exact.
The actor pushes frames, resets to a new capture cycle, closes the lease for a
mode switch, and reopens; a slot is Active, Resetting, Cleaning or Quarantined
with one deadline; the worker's answer, the deadline and the next command race.
`lost` remembers that the session's bounded mailbox dropped an event. Permits,
pool, waker and shutdown are the ones of `AsrWorkers` and are not repeated.
Bounds: `MaxOpens`, `MaxCycles`, `MaxFrames`.

### Reminders: claims, speech and answers

One device. A database transaction is one action; the scheduler's awaits cut its
pass into steps (`SchedulerReaps`, `Picks`, `Claims`, `Locks`, `Asks`, `Hears`,
`Marks`, `Unlocks`, `Releases`). A connection registers and replaces the one
before it, its actor answers the request (busy, refused, accepted, requester
gone), speaks, is aborted or delivers; the device answers through a bounded
channel to the session's reminder worker, which applies the answer in a
transaction of its own. `due_at_ms`, `next_attempt_at_ms`, the 24-hour grace and
the lease each are a flag that a step of the clock (`Falls`, `Lapses`) sets.
`Crash` keeps the rows and forgets the rest. `SwitchDevice` is `devices.enabled`,
without which nothing is claimed or marked. A database call may fail:
`SchedulerFails` (the reaper's and the release's errors are ignored, a failed
claim ends the pass, a failed mark leaves an accepted attempt unmarked) and
`SessionFails` (the device's answer is lost, or a closed session's claims stay).
Bounds: `MaxSessions`, `MaxClaims`, and `MaxEdits`, which edits, switches and
failed calls share; `MaxAttempts` and `EventQueue` are the code's constants.

### Connections: admission, replacement, drain

A connection registers for the drain, passes the gate, upgrades, greets, and
enters the device registry (displacing the one before it); it ends by itself or
because it was told, its tasks end, it unregisters. `register` and `unregister`
change the map under the lock and publish the count they computed after it:
two steps each. Shutdown closes the gate, waits for the count or the deadline,
tells everybody, and stops the process. An enrollment socket is a connection
without a device. No bounds: each connection lives once.

### NotificationOutbox: at least once

An inbox item and one row per enabled channel are created in one transaction.
The worker recovers stale `sending` rows, selects a batch, claims row by row,
sends, and records the outcome; each is a step, `WriteFails` and `Crash` cut it
anywhere. A send that the adapter reports as retryable (a timeout, a broken
connection: `UpstreamTimeout`, `TransientNetwork`) may have been accepted by the
channel all the same: `Send` chooses the outcome and whether the message was
`taken`. Items can be deleted and channels switched meanwhile. Two histories of
a row pay for repeats: `cuts` counts the crashes and failed writes that left a
claim of it unrecorded, `unsure` the sends that were taken and reported as failed.
Bounds: `MaxPublications`, `MaxToggles`, `MaxCuts`; `MaxAttempts` and
`BatchLimit` are configuration.

### LlmGateway: two stores of one account

Each account is a `row` and an entry `ram` of the snapshot. A task has a program
counter that stops at each await. Renewal waits for the account's refresh lock,
re-reads the snapshot, exchanges its bundle, stores the new one in the row, then
in the snapshot; refusal marks the account for re-authentication in the same two
steps. The renewal loop visits what is due; a call renews once after a 401; a
quota request discovers a context id and writes it back (without the lock);
edits, deletion and a completed login write row and snapshot at different
moments. Bundles are numbered as the provider issues them, and an exchange
spends the newest: the behaviour of providers with rotating refresh tokens.
A renewal and every other task but the loop runs inside the future of its
caller, which may be dropped at an await: a model call at its deadline
(`workers/llm/mod.rs:232`), an administrator's request when the connection
closes. `Dropped(t)` ends the task there; the exchange or the UPDATE under way
may still happen, the snapshot is not written, the lock is released.
`lost[k]` remembers that an answer, a write, a crash, an overwrite or a dropped
caller lost the newest bundle. Bounds: `MaxBundles`, `MaxOps`, and `MaxCuts`,
which crashes, failed writes, lost answers and dropped callers share.

### MemoryVault: what a receipt is worth

One device's vault. Each file operation of a change is a step, in the order of
`apply.rs`: lift a tombstone, commit point, index, publish, `MEMORY.md`, cleanup.

| TLA+ | code |
|---|---|
| `dir`, `file`, `tombs` | the device's directory, `facts/*.md`, `tombstones.json` |
| `oldFile`, `oldTombs` | contents a power loss may bring back: what was renamed over or removed since the directory was last synced |
| `index`, `ctx`, `loaded` | the FTS index of the vault, `ScopeEntry.context` and `loaded` |
| `op` | the change or reconciliation that holds the writer, and where it is |
| `sweep` | the blocking closure of a reconciliation, which outlives its request |
| `recall` | a recall that found no index and waits for the writer |
| `said`, `firm`, `behind` | history: what the last receipt said of each file, which of them with nothing pending, and what is left to reconcile |
| `eclipsed` | history: files whose receipt still stood when a text that differs from theirs in diacritics was forgotten |

The code has two equalities of texts, and so has the model. Writes compare
`compare_key`, which keeps diacritics (`read.rs:354`): a `Body` is one text in
this sense. Tombstones compare the fingerprint of the folded text
(`tombstone.rs:62`): `Alike` groups the texts that differ in diacritics only, and
a forget hides, as a lifted tombstone shows, the whole group `Folded(b)`. What
the forget of one text does to a receipted fact with another is finding 19; such
a file is `eclipsed` until its next change. `edited` says that the
hash in the frontmatter is not the text's. Refused requests (permission, revision,
limits) change nothing and are left out. The writer's lock is `op.kind # "none"`;
a power loss keeps or undoes every unsynced change of a file by itself. A
reconciliation is taken to sync a directory that is not there, which is harmless.
Bounds:
`MaxChanges`, `MaxEdits`, `MaxFaults`, `MaxCuts`; a second reconciliation starts
when no closure of the first is still running.

## 3. Properties

Invariants, action properties, a refinement and liveness properties that hold.
Each has a mutant in `PROJECT.json`: an operator that changes the model as a
plausible bug would, under which TLC finds the property violated. (`TypeOK` of
each module is left out of the table.)

| property | what it says | hazard |
|---|---|---|
| **VoiceTurn** | | |
| `FramesFitPlayback` | a start meets silence; audio, stop and abort meet their own turn playing | Finish, Abort and audio race in three lanes |
| `StartedOnce` | no turn is started twice | the writer forgets a turn once its stop is sent |
| `NothingStaleStarts` | while the actor runs, no start or audio is handed to the socket for a turn other than the one it owns | frames wait in lanes behind a cancellation |
| `HeardBeforeCommitted` | assistant text is committed only for a turn whose stop reached the socket | a drained turn can still be aborted |
| `NormalCloseIsQuiet` | the End Conversation close cuts no playback and follows a turn heard in full | an armed close survives or outlives its turn |
| `LlmOwned`, `AsrOwned` | a model round and a recognition stream in flight are of the turn and generation owned now | stale identities: nobody would end them |
| `TurnAccountedFor` | an owned turn has work in progress or an acceptable outcome on its way | a refusal or failure between begin and release |
| `DeliversTurns` | the session implements `TurnDelivery` | all of the above, as one promise |
| `SessionEnds` | a reader that leaves takes actor and writer with it | tasks waiting for one another |
| `TurnReleased` | every Active Turn is released (checked without barge-in, refused capacity and tool rounds; for a refused round see `TurnAccountedFor`) | any of the above, as liveness |
| **AsrWorkers** | | |
| `CapacityRespected` | every counter equals the permits that count in it, stays within its total, and leaves the reserve to voice | several locks checked together, released one by one |
| `WorkIsCounted` | every recognizer in use and every slot, quarantined ones included, is paid for in every gate of its view (not that capacity comes back: finding 9) | slot and thread let go at different moments |
| `AdmittedIsServed` | whoever the admission let in finds a slot and a recognizer | admission and pool are separate counts |
| `CancelledIsReusable` | when the session reads that a stream is cancelled, its capacity is back | permit, slot, thread and event are ordered by hand |
| `RetiredIsQuiet` | an acknowledged shutdown leaves no native work | an open admitted just before the close |
| `StreamSettles` | a finished or cancelled stream is freed or quarantined | a wakeup lost between deadline and sleep |
| **VadWorkers** | | |
| `WindowsArePure` | a window judged in a cycle holds audio of that cycle only | the rechunker's remainder, late pushes |
| `ResetIsAnswered` | a session that waits for a reset will hear of it | reset, close and answer race per slot |
| `CurrentCycleIsServed` | once a cycle is current the slot takes its frames | events are observed before they are routed |
| **Reminders** | | |
| `CompletedWasHeard` | only an answer through the claiming session, which was asked to speak it, completes a reminder | late, duplicated and foreign answers |
| `QuotaExact` | `attempts_used` is the number of attempts whose rows say that they began to play | marks, early answers, reaping, failed calls and crashes |
| `LeavesWithRevision` | a reminder that leaves the schedule moves its revision; a terminal status is final | five paths out of the schedule |
| **Connections** | | |
| `DisplacedIsTold` | an open session that is not its device's current one was told to leave | an old session unregisters late |
| `OverdueIsTold` | after the controlled close no admitted connection is left untold | a registration slips between gate and closes |
| `ShutdownEndsAll` | once shutdown begins, every connection ends | the drain may trust a stale count |
| **NotificationOutbox** | | |
| `RepeatsHaveACause` | each further delivery is paid for by a send that was taken and reported as failed, or by a crash or failed write; a claim past the limit only by the latter | crash between send and record; a timeout after the message was accepted |
| `RowSettles` | every row is sent, given up or deleted | stale claims, disabled channels |
| **LlmGateway** | | |
| `BundleKept` | no spent bundle is offered; row and snapshot hold the newest unless something, a dropped caller included, lost it | renewals across awaits |
| `StatusFollowsEnabled` | status and flag agree in both stores | edits, marks and renewals interleave |
| `ExpiringIsHandled` | an expiring account is renewed, withdrawn or cooled down | the loop skips what another task renews |
| **MemoryVault** | | |
| `PromisesHold` | what a receipt said stays true: remembered facts are readable, discarded, forgotten and purged ones do not come back; through power losses too when nothing was pending. Eclipsed files are excepted | failed steps, crashes, leftovers of a crashed Forget, owner edits |
| `AnswersFollow` | no context and no index lacks or contradicts the last receipt, but for what a failure left to reconcile and for eclipsed files | index, context and files are written one after another |

## 4. Runs

| run | instance | distinct states |
|---|---|---|
| `bargein` | auto mode with barge-in, a client that does not overtype, 3 inputs, one tool round, lanes 2/3/1, no faults: utterances that interrupt turns, aborts, typed and direct turns, tool continuations, End Conversation | 1.6 million |
| `faults` | all modes without barge-in, every runtime may refuse, one fault, 2 inputs, urgent lane of 1, mailbox of 2 | 494,000 |
| `liveness` | auto mode, 2 inputs, one fault, with fairness | 103,000 |
| `pool` | one session, two streams, two workers, channels of one, a pool, a diagnostic and the shutdown | 1.6 million |
| `settles` | two sessions with one stream between them, with and without a pool, with fairness | 464,000 |
| `cycles` | three leases, three capture cycles, two frames each, two workers, channels of two | 3.7 million |
| `delivery` | two connections, two claims under a quota of one start, one edit, device switch or failed call, crashes | 4.7 million |
| `retries` | one connection, three claims under a quota of two starts, one edit, device switch or failed call, crashes | 3.7 million |
| `shutdown` | three connections, two of one device and one enrollment socket, with fairness | 54,000 |
| `recovery` | one reminder, two channels, two attempts, two publications, one switch, one cut, with fairness | 148,000 |
| `renewal` | one account, the loop and two requests, three bundles, two operations, one crash, failed write, lost answer or dropped caller, with fairness | 707,000 |
| `promises` | two fact files, three texts of which two differ in diacritics, four changes, one owner edit, one failed step, one crash or power loss; files and texts symmetric | 2.7 million |

Why the bounds are enough to be of interest. **Voice turn:** three inputs give
an utterance, a second one that interrupts it, and a command in between, which
is what every overlap here needs (the orphaned turn takes exactly that). An
audio lane of one makes the parked packet happen; an urgent lane of one makes a
refused stop happen; a control lane of three lets `start`, text and `finish` of
one turn coexist, and a fourth command be refused. One fault can fall anywhere,
including inside a teardown. `TurnAccountedFor` is checked without barge-in in
`faults`; with it, it fails (finding 2). `SessionEnds` is checked with the facing
queues at 2/4 (urgent/mailbox), without barge-in; it fails at 1/1 and, with barge-in and a burst of
aborts, at 2/2 (finding 6). `LlmOwned`, `AsrOwned` and `StartedOnce` are checked
in `bargein` with a client that does not overtype; their counterexamples with one
that does take more than three inputs.
`PatientClient_soFar.cfg` checks the statements of the theorems about them where
they matter, with auto and manual listening and a client that overtypes: 7.9
million states at four inputs, and 962,000 with `BargeIn` and three. It is not
one of the runs because the theorems say more. Without `patient`, `LlmOwned` is
refuted at the same bounds. **ASR:** a second stream is opened while the first one's
permit, thread and recognizer are on their way back; a channel of one is full
after one command. **VAD:** three leases are a mode switch that meets a closing
slot; two frames are 30 blocks, which leaves a remainder of six behind three
windows. **Reminders:** two connections replace each other, two claims let a
late answer meet the next attempt, three claims exhaust a quota of two, and a
failed mark leaves an attempt uncounted that is spoken all the same.
**Connections:** the successor registers before its predecessor has left, while
a third connection drains. **Outbox:** two rows of one item are one batch; one
cut interrupts it anywhere, and each of two attempts may be taken and reported
as failed. A row is interrupted twice only in the theorem. The order in which a
batch takes rows of two
*different* publications that fall due together needs more rows than that.
**Gateway:** two requests race the loop, three bundles allow two renewals in
turn; an instance with two accounts, and one with three operations, were also
checked and gave nothing new. **Vault:** two files let a forgotten text have a
second copy, three texts a variant of it and another one, four changes are
remember, forget, remember again and a reconciliation, and one step of any of
them fails. What the bounds cannot show is left to the proofs
where they reach.

Deadlock is checked in `VoiceTurn`, the outbox, the gateway and the vault. The other
systems may stop for good reasons (all streams used up and hung threads, all
connections gone, nothing scheduled), and their configurations say so.

### Fairness

*VoiceTurn.* The worker tick runs every millisecond and drains every event (weak
fairness of each event group); a recognition final, a model round, a synthesis,
a VAD reset, a cleanup and a send each end by a deadline of their own (weak
fairness of "answer or timeout"); the writer takes, reports and stops when it
can; the reader is woken by the writer's done signal. Nothing is assumed of the
client, and no provider has to fail. It does assume that a worker's event
reaches the session; the runtimes may drop one when a session's mailbox is full
(a hazard).

*AsrWorkers.* The supervisor thread runs, a permit being returned gets each
gate's lock, and time passes: a deadline that stays armed is found expired in
one of the supervisor's passes (strong fairness per lease, since the supervisor
is not always at that step). Native threads and sessions are
not fair at all.

*Connections.* Handlers, tasks and the shutdown go on; a connection need not end
before it is told to. That told tasks end is `SessionEnds` of `VoiceTurn`.

*NotificationOutbox.* The worker ticks and the clock passes.

*LlmGateway.* The loop ticks; requests and database calls end by their timeouts
(weak fairness of each task's next step); and the renewal loop gets the refresh
lock it waits for, since tokio's mutex is first-come first-served (strong
fairness of `TakeLock(Loop)`).

## 5. Findings

Disagreements between the code and what its documents, comments or tests say,
kept as configurations that reproduce them.

1. **Two aborts release a playing turn.** `cancel_speech_delivery`
   (`session/actor/delivery.rs:698`) clears `tts_started` when the stop is
   queued; the next cancellation takes the turn for one that never played and
   releases it with its permit while the device plays on. ADR-0046 keeps the
   permit until the writer's outcome.
2. **A barge-in can orphan the next turn.** The replaced turn's
   `pending_delivery` is put back when the next turn's outcome arrives
   (`session/actor/ingress.rs:101`), so nothing releases that turn.
3. **A closed session listens again.** `start_listening` and the VAD
   `ResetDone` branch (`session/actor/listening.rs:58`, `:539`) do not look at
   the Closed phase.
4. **A turn in a refused generation.** A direct-speech requester that has gone
   leaves the generation invalidated but not advanced
   (`session/actor/ingress.rs:176`); a typed turn then runs in it unheard.
5. **An idle session refuses reminders.** `listen_arm_pending`, set during a
   turn, is not consumed when a VAD mode is re-armed
   (`session/actor/lifecycle.rs:14`).
6. **Queues of one entry lock.** The actor awaits the urgent lane without
   draining its mailbox (`session/actor/ingress.rs:208`), the writer awaits the
   mailbox; `config/validation.rs:445` admits both sizes. With two entries each a
   burst of aborts fills both and does the same.
7. **A lost answer makes a session deaf to reminders.** The reaper closes an
   attempt whose lease passed without clearing `in_flight_reminder`
   (`services/device/active_sessions.rs:135`), so the session is never ready
   again and the promised retries do not happen before a reconnect.
8. **A cancelled reminder is spoken.** `mark_attempt_started` comes after the
   session accepted the speech; when it finds the reminder cancelled, the speech
   goes on (`services/notifications/reminder_scheduler.rs:126`). In the model:
   `SchedulerMarks` with `~Valid` leaves the connection speaking.
9. **A full command channel costs an ASR slot for good.** `cancel_asr`
   (`session/actor/delivery.rs:719`) forgets the stream although the runtime
   refused the `Cancel`; the slot stays Active, without a deadline.
10. **`Drained` with an open session.** `register` and `unregister` publish their
    counts after the lock (`lifecycle.rs:186`); two may publish in the other
    order. The stop signal still ends the session (`ShutdownEndsAll`).
11. **A rebuild nobody waits for revives facts.** `memory_rebuild`
    (`app/admin/knowledge/memory.rs:379`) awaits `reconcile` in the handler.
    When the client leaves, the writer's guard is dropped while the blocking
    closure goes on writing what it had read: a fact discarded or purged
    meanwhile is on disk again.
12. **A failed purge is forgotten.** It answers "cleanup pending" and has
    published nothing, but `recall`, the next publication and reconcile show
    what is left, and nothing resumes the removal (`services/memory/apply.rs:440`).
13. **A purge may show what was forgotten.** `remove_dir_all` may take
    `tombstones.json` before a file it hides, and stop there (`apply.rs:514`).
14. **A directory entry that is never synced.** `ensure_dir` syncs the parents of
    what *it* created; after a failed sync nobody does, and later receipts say
    that nothing is pending (`services/memory/vault.rs:72`).
15. **A search makes a vault.** `recall` looks before it waits for the writer; a
    purge in between removes the directory, the rebuild makes it again
    (`services/memory/read.rs:303`).

16. **A message typed over a turn is never answered.** While auto mode re-arms,
    `accept_detect` (`session/actor/listening.rs:294`) takes a typed message
    without a look at the Active Turn. The new turn overwrites the old one and
    leaves its tool batch; the end of that batch releases the new turn, and the
    new model round runs on with nobody to listen to it. With the same five
    inputs an ASR stream is left in the same way (`AsrOwned`).
17. **An utterance ends a turn typed in another mode.** The Manual branch of
    `accept_detect` (`session/actor/listening.rs:318`) keeps
    `auto_speech_active`. After a change from auto to manual and back, the queued
    end of an old utterance completes the recognition of nobody and releases the
    typed turn with its model round in flight.
18. **A renewal whose caller is gone offers a spent credential.**
    `persist_refreshed_bundle` (`services/llm_gateway/hub/refresh.rs:154`) writes
    the row, awaits, and then the snapshot, inside the future of its caller.
    Dropped in between (a model call's deadline, an administrator that hangs up),
    it leaves the new credential in the row, the spent one in the snapshot and the
    lock free: the next renewal is refused and marks the account for a new login.
19. **Forgetting one text hides another.** Tombstones compare a fingerprint that
    folds diacritics (`services/memory/tombstone.rs:62`), writes do not
    (`read.rs:354`). After "bàn nhà" is forgotten the fact "bán nhà" is no longer
    shown, although its receipt stands, and its file is removed later;
    `normalize.rs:15` says the two are different facts.

| configuration | module | violates | finding |
|---|---|---|---|
| `VoiceTurn_doubleAbort.cfg` | `MCVoiceTurn` | `PermitHeldUntilOutcome` | 1 |
| `VoiceTurn_orphan.cfg` | `MCVoiceTurn` | `TurnAccountedFor` | 2 |
| `VoiceTurn_closedListens.cfg` | `MCVoiceTurn` | `ClosedIsFinal` | 3 |
| `VoiceTurn_staleTurn.cfg` | `MCVoiceTurn` | `FreshTurnAdmitted` | 4 |
| `VoiceTurn_deafReminder.cfg` | `MCVoiceTurn` | `IdleListeningIsFree` | 5 |
| `VoiceTurn_smallQueues.cfg` | `MCVoiceTurn` | `SessionEnds` | 6 |
| `VoiceTurn_overtyped.cfg` | `MCVoiceTurn` | `LlmOwned` | 16 |
| `VoiceTurn_mixedModes.cfg` | `MCVoiceTurn` | `LlmOwned` | 17 |
| `Reminders_lock.cfg` | `Reminders` | `LockIsLive` | 7 |
| `AsrWorkers_leak.cfg` | `MCAsrWorkers` | `GivenUpIsCleaned` | 9 |
| `Connections_drained.cfg` | `MCConnections` | `DrainedMeansNone` | 10 |
| `MemoryVault_revived.cfg` | `MCMemoryVault` | `NothingRevived` | 11 |
| `MemoryVault_purgeFails.cfg` | `MCMemoryVault` | `PurgedStaysAway` | 12 |
| `MemoryVault_purgeShows.cfg` | `MCMemoryVault` | `PurgeShowsNothing` | 13 |
| `MemoryVault_looseVault.cfg` | `MCMemoryVault` | `CleanMeansDurable` | 14 |
| `MemoryVault_searchMakes.cfg` | `MCMemoryVault` | `SearchMakesNoVault` | 15 |
| `LlmGateway_dropped.cfg` | `LlmGateway` | `RowIsOffered` | 18 |
| `MemoryVault_variant.cfg` | `MCMemoryVault` | `ForgetsOneText` | 19 |
| `LlmGateway_overwritten.cfg` | `LlmGateway` | `RenewalSurvives` | observation |
| `LlmGateway_twoEdits.cfg` | `LlmGateway` | `EnabledAgrees` | observation |

Observed, where no document promises otherwise: a quota request that discovers a
context id writes the account back without the refresh lock and may put an older
bundle over a newer one (`LlmGateway_overwritten.cfg`; `BundleKept` excepts it);
two overlapping edits of an account leave row and snapshot with different flags
(`LlmGateway_twoEdits.cfg`); a crash between an exchange and its store loses the
bundle, which rotating tokens make unavoidable; a due reminder whose publication
to the hub fails is not published again while the process lives
(`reminder_scheduler.rs:51`); an attempt that is spoken although its mark failed
is not counted until the device reports it, so `attempts_used` may end one above
`MAX_REMINDER_ATTEMPTS` (the reminder expires then); `begin_active_turn`
overwrites a turn that still
waits for its outcome (`session/actor/mod.rs:615`); the comment at `mod.rs:261`
says an armed action of another turn stays in place, which `.take().filter()`
does not do; after a barge-in the outcome of the interrupted turn resets the VAD
cycle in the middle of the new utterance; a mode switch while the VAD slot
closes meets `UnknownLease` and fails the session closed; `FinishManual` with a
refused finish leaves auto mode Ready. In the vault: an owner's edit made while
the fact is being forgotten is removed with the file; a purge or removal that
finds nothing left reports clean although the first one's sync failed; a
`Remember` refused at its commit point leaves the tombstone lifted (`apply.rs:1`
says that before it "an error means nothing changed"); a repeated `Remember` is
answered clean although the first one's commit was never synced; a
reconciliation that fails after it adopted an edit leaves the old context.

## 6. Proofs

TLAPS checks thirty-six theorems, for every value of the constants that the named
assumptions admit (`ModesAssumption`, `FlagsAssumption`, `LimitsAssumption`;
`AdmissionAssumption`; `AsrAssumption`; `VadAssumption`; `ConnectionsAssumption`;
`GatewayAssumption`; `VaultAssumption`; `RemindersAssumption`; `OutboxAssumption`):
any queue sizes, any number of turns, streams, leases, cycles, sessions,
connections, accounts, files, requests, reminders, publications and failures.
Beyond these no theorem has a hypothesis about the constants; five are about the
behaviours of a session up to the point where its client stops being patient
(`PatientClient`).

| module | theorem | statement |
|---|---|---|
| `VoiceTurn_proofs` | `TypeCorrect` | `Spec => []TypeOK`; no lane nor the mailbox exceeds its limit |
| | `HeardCorrect` | `Spec => []HeardBeforeCommitted` |
| | `PlaybackCorrect` | `Spec => []FramesFitPlayback` |
| | `DeliveryRefined` | `Spec => DeliversTurns` |
| | `RoundOwned` | `PatientSpec => [](patient => LlmOwned)` |
| | `RecognitionOwned` | `PatientSpec => [](patient => AsrOwned)` |
| | `StartedAtMostOnce` | `PatientSpec => [](patient => StartedOnce)` |
| | `NothingStale` | `PatientSpec => [][patient => HandedIsOwned]_allVars`, the action of `NothingStaleStarts` |
| | `QuietClose` | `PatientSpec => [](patient => NormalCloseIsQuiet)` |
| `AsrWorkers_proofs` | `CountersExact` | `AdmissionSpec => []CapacityRespected` |
| | `AsrTypeCorrect` | `Spec => []TypeOK` |
| | `AsrFollowsProtocol` | `Spec => AdmissionSpec` |
| | `AsrCountsExact` | `Spec => []CapacityRespected` |
| | `WorkPaidFor` | `Spec => []WorkIsCounted` |
| | `RetirementFinal` | `Spec => []RetiredIsQuiet` |
| | `AdmittedServed` | `Spec => []AdmittedIsServed` |
| | `CancelledReusable` | `Spec => []CancelledIsReusable` |
| `VadWorkers_proofs` | `VadTyped` | `Spec => []TypeOK` |
| | `NoMixedWindow` | `Spec => []WindowsArePure` |
| | `ResetAnswered` | `Spec => []ResetIsAnswered` |
| | `CycleServed` | `Spec => []CurrentCycleIsServed` |
| `Connections_proofs` | `ConnectionsTyped` | `Spec => []TypeOK` |
| | `OneUntoldSession` | `Spec => []DisplacedIsTold` |
| | `DeadlineReachesAll` | `Spec => []OverdueIsTold` |
| `LlmGateway_proofs` | `GatewayTyped` | `Spec => []TypeOK` |
| | `StatusAgrees` | `Spec => []StatusFollowsEnabled` |
| | `NewestBundleKept` | `Spec => []BundleKept` |
| `MemoryVault_proofs` | `VaultTyped` | `Spec => []TypeOK` |
| | `PromisesKept` | `Spec => []PromisesHold` |
| | `AnswersAgree` | `Spec => []AnswersFollow` |
| `Reminders_proofs` | `RemindersTyped` | `Spec => []TypeOK` |
| | `QuotaCounted` | `Spec => []QuotaExact` |
| | `CompletionHeard` | `Spec => CompletedWasHeard` |
| | `RevisionFollows` | `Spec => LeavesWithRevision` |
| `NotificationOutbox_proofs` | `OutboxTyped` | `Spec => []TypeOK` |
| | `RepeatsCost` | `Spec => []RepeatsHaveACause` |

**VoiceTurn.** `TypeOK` is inductive as it stands. The session record has 35
fields and the handlers are chains of updates, so `Updates` states once that a
typed update of one field gives a typed record; a lemma per helper follows the
call graph of the code from the leaves up, and one lemma per group of actions
ends in `NextType`. `HeardBeforeCommitted` trusts an outcome taken from the
mailbox; `HeardInv` adds that every `normal` outcome in the mailbox or in the
writer's hand names a turn whose stop is already in `wire.stops`.
`FramesFitPlayback` needs the arbiter's own view: `ArbiterInv` says that
`writer.active` and what the device plays agree except while an abort is in
flight, that a frame in flight is of the active turn, that a start is in flight
only while none is active, and that the deferred stop is of the active turn. The
actor is arbitrary in this proof: whatever it puts into the lanes, the writer
sends no frame that does not fit. `DeliveryRefined` takes both invariants and
maps each step of the session to a step of `TurnDelivery` or a stutter.

**What a session owns.** `Owned(s, W, V)` says that one activity is at work at a
time (model round, tool batch, speech or recognition) and that it carries the
turn and generation owned now; and that there is none once an outcome of the
turn is under way, or its start is queued while nothing plays. W are the turns
whose outcome has left the lanes, V those whose start has: a handler keeps both,
so each operator has one lemma in which they are arbitrary, and the lemmas
compose as the handlers do; the writer only moves a message from a lane into W
or V. `OwnInv` adds that no turn has a second start queued or sent
(`StartsAreNew`, `FrameIsSent`).
`OwnInv` is inductive as long as the client is patient: a step of `Next` that
neither types over an active turn nor asks a session busy in another mode for
manual listening keeps it (`OwnStep`), whatever came before. Barge-in, typed
messages, changes between the modes while the session is idle or out of manual
listening at any time, refusals, faults, teardown and all queue sizes are
arbitrary. The step that ends the patience is where the code itself gives up
work that goes on (findings 16 and 17), and the theorems say nothing of what
follows it in that connection. For typing over a turn TLC refutes `LlmOwned`,
`AsrOwned` and `NothingStaleStarts`; for the change to manual only `LlmOwned`,
so for the other properties that exception is what the common invariant needs,
not a known counterexample.

**What a cancellation leaves.** `NothingStaleStarts` relates the contents of the
three lanes to the gate, which the actor closes and the writer reads later.
`Voiced` says that a session is either `Hushed`: the gate refuses every queued
start, and all audio but that of turns off air; or `Spoken`: it is within a
delivery, what the gate lets through is of its own turn, and no start of it is
queued behind an outcome. The gate is the point at which a cancellation takes
effect: every way out of a delivery either raises it over all that is queued or
leaves a stop that ends the turn on its way (`Fades`, `Quiet`), and a delivery
begins only in a session that is `Hushed`. The actor's half is one lemma per
handler (`HandlersApt`), the writer's one lemma per step from what the step does
to the writer's own record (`UrgentMove` to `EndMoves`). `Told` says of the
outcomes under way that their turns are off air, and of a normal one of the
current turn that nothing is on air, so a close asked for when it is handled is
asked for in silence; `Farewell` follows that close from the urgent lane through
the writer to the socket. After the actor is done, or the writer has failed,
nothing of this is needed, and `VoiceInv` states only `Farewell`. The
proof of `VoiceInv` rests on `OwnInv`, hence also holds for the patient client.

**ProviderAdmission.** `AdmissionInv` is the types with `CapacityRespected`. The
counters are cardinalities of the sets of permits that count, so the proof is
about what one permit more or less does to them (`FiniteSetTheorems`).

**AsrWorkers.** `AsrFollowsProtocol` shows that every step of the running system
is a step of the admission or leaves it alone; `AsrCountsExact` is then a
consequence of `CountersExact`. For the rest, `AsrInv` adds to the types and the
admission's invariant that an engaged thread knows its session (`Known`) and
that everything is paid for (`Paid`): a session that is opening holds its permit
(`OpenPaid`), so does every engaged thread and every slot (`WorkPaid`) and a
diagnostic (`DiagnosticPaid`); and a retired runtime has no work
(`RetiredWorkless`), which follows because it retires only when the gates of its
own view are all at zero and each view includes them. `ServiceInv` goes on from
there. For `AdmittedIsServed`, the recognizers in the pool and those out of it
are all there are until one is lost (`RecognizersKnown`), and a slot has its
thread (`ThreadsKnown`), so whoever holds a permit of the view finds one. For
`CancelledIsReusable`, `EndsTold` follows the terminal event through channel,
supervisor and mailbox: none is told while the thread still serves (`Untold`),
whoever is told of one finds the slot gone or quarantined (`ToldLast`), and behind
a `Cancelled` the thread is done and the capacity back, or the supervisor about
to return it (`CancelTold`).

**VadWorkers.** `VadInv` is about one reset on its way (`OneReset`): it is in the
lease's command channel or, answered, in the event channel, never in both, with
nothing but a Close behind it. So the frames of a channel, and the audio that the
rechunker holds, are of one cycle (`OneFeed`), and in a lease in use it is the
session's (`Feeds`), which is what makes windows pure. While a session waits,
the only reset on its way is the one it waits for, and all earlier frames are
before it (`Resets`); `ServedInv` says that a session which has a cycle, or is
about to read that it has one, is served by its slot unless a failure stands
ahead in its mailbox. `ResetIsAnswered` is inductive with these.

**Connections.** `ConnInv` adds only that the gate stays closed once shutdown
has begun; the registry identity inside `TypeOK` does the rest.

**LlmGateway.** `StatusFollowsEnabled` is inductive with `EditsAgree`: the edit a
task carries across its await agrees in itself. `BundleKept` rests on mutual
exclusion: `OneRenewal` (one task between exchange and publication per account)
from `HeldWhileThere` (it holds the lock while the account exists; a dropped
caller gives it back between the two, and is then recorded in `lost`). Deletion
removes the lock under its holder, so the proof also needs that a key never
names a second account (`Unborn`, `Inserting`); `NoneNewer` and `NewestHeld`
then follow the newest bundle from the provider into both stores.

**MemoryVault.** `IInv` follows the writer from step to step. For `PromisesHold`:
before a tombstone is lifted, what it hides is removed (`LiftIsSafe`); past the
commit point the file is as the receipt will say, and safe from a power loss if
nothing is pending (`ChangeIsDone`); a purge withdraws every promise first
(`WipeIsSafe`); the blocking closure of a reconciliation removes nothing a
receipt keeps and writes only files of which no receipt speaks (`SweepIsSafe`);
and no older content that a power loss may bring back contradicts a receipt with
nothing pending (`FirmIsSafe`, restored by `ReconcileIsSafe`). All of this is
said of files that are not `eclipsed`: a forget takes the receipt of every file
with its text and eclipses the others that share the fingerprint. For
`AnswersFollow`, `Follows` states what index and context lag behind at each place of
the writer, as long as nothing is left to reconcile. Files, texts,
their grouping by fingerprint, failures, crashes and edits by
the owner are arbitrary.

**Reminders.** The counter and the rows of the attempts change together in each
transaction, so `QuotaExact` is about one attempt entering or leaving a set
(`FiniteSetTheorems`), as long as nobody counts an attempt that already counts:
every transaction that counts reads in itself whether the attempt has begun, and
the claim of the pass has not (`PassKnown`). A mark counts below the quota only,
a report of the device only a reminder still in the schedule, which then leaves
it once the quota is used up; so the counter ends at most one above it
(`WithinQuota`). For `CompletedWasHeard`, an
answer queued in a connection names what that connection's device was given
(`Fine`). Nothing is assumed of which calls fail: the marks, answers and releases
that failed simply have not happened.

**NotificationOutbox.** A row in the worker's batch is the worker's alone: it is
`sending` with the attempt number of the copy, or deleted, and is in the batch
once (`BatchKnown`); the recovery of stale rows, which could hand it to a second
send, runs only between passes. `ReceiptsPaid` and `AttemptsPaid` say what a row
may have been given before it is claimed again: as many receipts as there were
cuts and sends taken but reported as failed, one more while a send is not
recorded, and an attempt to spare while it is pending or `sending` outside the
batch. A cut gives every row of the batch the one it owes, an unsure send the one
it took.

Every strengthening was checked by TLC before it was proved.

Only model-checked: all liveness (`SessionEnds`, `TurnReleased`,
`StreamSettles`, `ShutdownEndsAll`, `RowSettles`, `ExpiringIsHandled`: fairness
and ENABLED are out of the prover's reach) and, of the invariants,
`TurnAccountedFor` of `VoiceTurn`, which finding 2 refutes for larger bounds. The
prover cannot do induction over data or reason about RECURSIVE operators; the
models use neither.

## 7. Plan

1. **Tool rounds**: sequential executor, time and call budgets, results of an
   older generation. **Dialogue History** (`session/interaction/turn.rs`) as
   folds against a reference definition: trimming keeps role pairs and budgets.
2. **Speech pacing**: credit and prefetch of synthesis.
3. **LLM and TTS workers**; Muse accounts and account pools of the gateway.

## 8. Not modelled

Database, migrations and backups (single transactions; the engine carries the
concurrency); model providers (numeric code and HTTP adapters); LLM and TTS
worker runtimes (the session takes their answers as external events); Dialogue
History (sequential trimming); the Wiki (rows and files of the admin's);
configuration parsing (its limits are the assumptions on the constants); admin
API, MCP server and admin web client (request handlers over rows); the firmware
(another program, whose possible frames are the client actions).

Left out of what is modelled. *Session*: template switch and managed boundary,
pilot pipeline permits, speaker identification, PCM
retention, text back-pressure (`pending_llm_delta`), pings, the number of free
permits (a refusal is nondeterministic). The client that is modelled negotiated
neither `turn_status` nor `direct_metadata`: a session that did also sends status
frames, a tts result at the release of a direct turn, whose full lane fails the
session closed (`delivery.rs:739-774`), and an error for a typed message with an
invalid text (`listening.rs:301-308`). `CancelAsr` expects a cleanup even when
the runtime refused the `Cancel`; the code then forgets the stream at once, so
the model only has more late cleanups and timeouts than the code. A `Cancelled`
event of a stream the session still holds (`listening.rs:454`) has no action: the
runtime sends it after a `Cancel`, which drops the stream, or when the worker's
queue is gone. *WebSocket handshake*: the checks of
one request and the enrollment dialogue are a choice between admitted and
refused. *ASR*: transcripts, the deadline of a diagnostic, background class,
readiness, a thread that cannot be spawned or panics (quarantined by
`native_threads.rs:110`); a command to a thread that is returning is refused,
where the code may queue it to be read by nobody. *VAD*: permits, pool and
shutdown, which are those of ASR.
*Reminders*: snapshots and grants, listing, several devices, lengths of waits.
*Hub*: read marks, credentials, test deliveries. *Gateway*: the choice among a
pool's accounts (a failover is a new call), Muse, OAuth sessions before the
account exists, a reload after a backup import. `PROJECT.json` has the notes per
component.
