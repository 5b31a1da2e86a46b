------------------------------ MODULE VoiceTurn ------------------------------
(***************************************************************************)
(* One Voice Session of vela-server: the SessionActor, the three bounded   *)
(* outbound lanes, the WebSocket writer with its playback arbiter, the     *)
(* mailbox that carries turn outcomes back, and the teardown of the three  *)
(* tasks.  The question is when a Conversational Turn may start, be heard, *)
(* be cancelled and be released.                                           *)
(*                                                                         *)
(* A handler of the actor contains no await, so each one is one atomic     *)
(* step; the lanes and the gate, which it shares with the writer, are part *)
(* of the same record.  Handlers call each other, therefore they are       *)
(* operators from a session record to a session record; an action applies  *)
(* one of them to the variable sess.  The writer awaits its socket and its *)
(* mailbox, so a writer step is cut at both awaits (writer.pc).            *)
(*                                                                         *)
(* The operators whose names end in a defect (...KeepsActive, ...Forgets) are *)
(* not part of the specification: each is a definition with one plausible  *)
(* bug, kept beside it to show that a property would notice.               *)
(***************************************************************************)
EXTENDS Naturals, Sequences

CONSTANTS
  Modes,        (* listening modes the client asks for                       *)
  BargeIn,      (* policy, server flags and client AEC allow barge-in        *)
  Overtypes,    (* the client may type while a turn of its own is active     *)
  Refusals,     (* what may be refused: "permit" "asr" "cancel" "vad" "llm"   *)
  UrgentCap,    (* limits.urgent_control_queue                               *)
  ControlCap,   (* limits.outbound_control_queue                             *)
  AudioCap,     (* limits.outbound_audio_queue                               *)
  MailboxCap,   (* limits.session_event_queue, for the writer's outcomes     *)
  MaxRounds,    (* llm.tools.max_rounds_per_turn                             *)
  MaxPackets,   (* bound: Opus packets of one turn                           *)
  MaxInputs,    (* bound: client commands, direct requests and utterances    *)
  MaxFaults     (* bound: provider failures                                  *)

VadModes == {"auto", "realtime"}

ASSUME ModesAssumption == Modes \subseteq VadModes \union {"manual"}
ASSUME FlagsAssumption == BargeIn \in BOOLEAN /\ Overtypes \in BOOLEAN
ASSUME LimitsAssumption ==
  /\ UrgentCap \in Nat \ {0} /\ ControlCap \in Nat \ {0}
  /\ AudioCap \in Nat \ {0} /\ MailboxCap \in Nat \ {0}
  /\ MaxRounds \in Nat /\ MaxPackets \in Nat \ {0}
  /\ MaxInputs \in Nat /\ MaxFaults \in Nat

VARIABLES
  sess,       (* the actor's fields, the gate and the lanes it feeds         *)
  mailbox,    (* writer outcomes the actor has not applied yet               *)
  delivered,  (* turns whose assistant text entered Dialogue History         *)
  writer,     (* the writer task: pc, frame in flight, arbiter               *)
  wire,       (* history of playback frames that reached the socket          *)
  tasks,      (* the actor loop and the reader loop                          *)
  inputs, faults

vars == <<sess, mailbox, delivered, writer, wire, tasks, inputs, faults>>

NoTurn == 0

(* Messages of the lanes.  gen = 0 where the variant carries no generation. *)
Msg(k, g, t)   == [kind |-> k, gen |-> g, turn |-> t, code |-> 0]
CloseMsg(c)    == [kind |-> "close", gen |-> 0, turn |-> NoTurn, code |-> c]
NoMsg          == Msg("none", 0, NoTurn)
Outcome(k, t)  == [kind |-> k, turn |-> t]

(* What the shared runtimes answer when the actor asks for capacity.        *)
Runtimes == {"permit", "asr", "cancel", "vad", "llm"}
Replies  == {c \in [Runtimes -> BOOLEAN] : \A r \in Runtimes \ Refusals : c[r]}

-----------------------------------------------------------------------------
(* Lanes and generation gate.                                               *)

(* try_send on a lane: refused when it is full or the writer has gone.      *)
UrgentRoom(s)  == s.lanesOpen /\ Len(s.urgent) < UrgentCap
ControlRoom(s) == s.lanesOpen /\ Len(s.control) < ControlCap
AudioRoomUnbounded(s) == s.lanesOpen
AudioRoom(s)   == s.lanesOpen /\ Len(s.audio) < AudioCap

OfferUrgent(s, m) ==
  IF UrgentRoom(s) THEN [s EXCEPT !.urgent = Append(@, m)] ELSE s
OfferControl(s, m) ==
  IF ControlRoom(s) THEN [s EXCEPT !.control = Append(@, m)] ELSE s

InvalidateForgets(s) == s
Invalidate(s) == [s EXCEPT !.gate = IF @ < s.generation THEN s.generation ELSE @]
Admits(s, g) == g > s.gate
AdvanceGeneration(s) == [s EXCEPT !.generation = @ + 1]

-----------------------------------------------------------------------------
(* Turn ownership and cancellation.                                         *)

BeginActiveTurn(s) ==
  [s EXCEPT !.turn = s.nextTurnId, !.turnGen = s.generation,
            !.nextTurnId = @ + 1]
ReleaseActiveTurn(s) == [s EXCEPT !.turn = NoTurn, !.turnGen = 0]

(* take_for_turn takes the armed close whichever turn armed it.             *)
CancelPendingActions(s) ==
  IF s.turn = NoTurn THEN s ELSE [s EXCEPT !.closeAfter = NoTurn]

(* The gate is invalidated before SpeechOutput is emptied.                  *)
SilenceSpeech(s) ==
  [Invalidate(s) EXCEPT !.speech = "idle", !.announced = FALSE,
                        !.playing = FALSE, !.packets = 0,
                        !.pendingAudio = NoMsg]

CancelLlm(s)   == [s EXCEPT !.llmGen = 0]
CancelTools(s) == [s EXCEPT !.batchGen = 0]
ForgetAsr(s)   == [s EXCEPT !.asr = "none", !.asrGen = 0]
CancelAsr(s)   == [ForgetAsr(s) EXCEPT !.asrCleanup = @ \/ s.asr # "none"]
CloseVad(s) ==
  [s EXCEPT !.vad = IF @ = "none" THEN "none" ELSE "closing"]

TearDown(s, code) ==
  OfferUrgent([CloseVad(s) EXCEPT !.autoResetPending = FALSE,
                                  !.phase = "Closed"], CloseMsg(code))

(* fail_closed while no playback is owned: the inner call cancel_speech_    *)
(* delivery makes when the urgent lane refuses the stop.                    *)
FailClosedUnplayed(s) ==
  IF s.phase = "Closed" THEN s
  ELSE LET released == ReleaseActiveTurn(SilenceSpeech(CancelPendingActions(s)))
           stopped  == CancelAsr(CancelTools(CancelLlm(released)))
       IN  TearDown(AdvanceGeneration(stopped), 1011)

CancelSpeechDelivery(s) ==
  LET quiet == SilenceSpeech(s)
      kept  == [quiet EXCEPT !.ttsStarted = FALSE]
  IN  IF ~s.ttsStarted THEN ReleaseActiveTurn(quiet)
      ELSE IF s.turn = NoTurn THEN quiet
      ELSE IF UrgentRoom(s)
           THEN OfferUrgent(kept, Msg("abort", 0, s.turn))
           ELSE [FailClosedUnplayed(kept) EXCEPT !.shutdown = TRUE]

InterruptActiveTurnKeepsLlm(s) ==
  CancelAsr(CancelTools(CancelSpeechDelivery(CancelPendingActions(s))))
InterruptActiveTurnKeepsAsr(s) ==
  CancelTools(CancelLlm(CancelSpeechDelivery(CancelPendingActions(s))))
InterruptActiveTurn(s) ==
  CancelAsr(CancelTools(CancelLlm(CancelSpeechDelivery(CancelPendingActions(s)))))

FailClosed(s) ==
  IF s.phase = "Closed" THEN s
  ELSE TearDown(AdvanceGeneration(InterruptActiveTurn(s)), 1011)

-----------------------------------------------------------------------------
(* Capture.                                                                 *)

ReplaceListeningMode(s, mode, c) ==
  LET idle == CloseVad(CancelAsr(CancelLlm(AdvanceGeneration(
                CancelSpeechDelivery([s EXCEPT !.listenArmPending = FALSE])))))
      base == [idle EXCEPT !.autoSpeechActive = FALSE,
                           !.autoResetPending = FALSE, !.cycle = FALSE,
                           !.vadReset = FALSE, !.segment = FALSE,
                           !.listeningMode = mode]
  IN  IF mode = "manual"
      THEN IF c["asr"]
           THEN [base EXCEPT !.asr = "open", !.asrGen = base.generation,
                             !.capturing = TRUE, !.phase = "Listening"]
           ELSE [base EXCEPT !.phase = "Ready"]
      ELSE IF c["vad"]
           THEN [base EXCEPT !.vad = "open", !.cycle = TRUE,
                             !.phase = "Listening"]
           ELSE OfferUrgent([base EXCEPT !.phase = "Closed"], CloseMsg(1013))

(* Reset is refused by a worker that is closing or already resetting, and   *)
(* by a full command queue.                                                 *)
ResetVadCaptureCycle(s, c) ==
  LET accepted == s.vad = "open" /\ ~s.vadReset /\ c["vad"]
      asked    == [s EXCEPT !.cycle = FALSE, !.vadReset = accepted]
  IN  IF accepted THEN [asked EXCEPT !.autoResetPending = TRUE]
      ELSE FailClosed(asked)

CompleteRecognition(s, c) ==
  LET free == ReleaseActiveTurn(s) IN
  IF free.listeningMode \in VadModes
  THEN IF free.vad = "none"
       THEN ReplaceListeningMode(free, free.listeningMode, c)
       ELSE IF free.autoResetPending THEN free
       ELSE ResetVadCaptureCycle(free, c)
  ELSE IF free.listenArmPending
       THEN ReplaceListeningMode(free, free.listeningMode, c)
       ELSE [free EXCEPT !.phase = "Ready"]

FailSpeechDelivery(s, c) ==
  LET armed  == IF s.ttsStarted THEN s ELSE CancelPendingActions(s)
      failed == AdvanceGeneration(CancelTools(CancelLlm(
                  CancelSpeechDelivery(armed))))
  IN  IF s.ttsStarted THEN failed ELSE CompleteRecognition(failed, c)

(* commit_user_text: the stt frame is offered, a full lane only drops it.   *)
CommitUserText(s) == OfferControl(s, Msg("text", s.generation, s.turn))

(* start_llm_round; a refused start drops the turn and its permit.          *)
StartLlmRoundForgets(s, c) ==
  IF s.turn = NoTurn THEN FailClosed(s)
  ELSE [s EXCEPT !.origin = "llm", !.llmGen = IF c["llm"] THEN s.generation ELSE 0]
StartLlmRound(s, c) ==
  LET asked == [s EXCEPT !.origin = "llm"] IN
  IF s.turn = NoTurn THEN FailClosed(s)
  ELSE IF c["llm"] THEN [asked EXCEPT !.llmGen = s.generation]
  ELSE CompleteRecognition(ReleaseActiveTurn(asked), c)

BeginSpeechDelivery(s, c) == StartLlmRound([s EXCEPT !.rounds = 0], c)

(* begin_direct_speech: the whole text and its end are handed over at once. *)
BeginDirectSpeech(s, origin) ==
  [s EXCEPT !.origin = origin, !.speech = "finished"]

(* finish_manual at an utterance boundary, in every mode.                   *)
FinishManual(s, c) ==
  LET begun == BeginActiveTurn(s) IN
  IF ~c["permit"] THEN CompleteRecognition(CancelAsr(s), c)
  ELSE IF s.asr = "none" THEN ReleaseActiveTurn(begun)
  ELSE IF c["asr"] THEN [begun EXCEPT !.asr = "finishing"]
  ELSE [ReleaseActiveTurn(CancelAsr(begun)) EXCEPT !.phase = "Ready"]

-----------------------------------------------------------------------------
(* The shape of one step of the actor.                                      *)

Running   == tasks.actor = "running"
Handle(s) == sess' = s /\ UNCHANGED <<mailbox, delivered, writer, wire, tasks>>

(* A client frame or a direct request: apply_reported_turn_outcomes has     *)
(* emptied the mailbox before the handler runs.                             *)
ClientInput(s) ==
  /\ Running /\ mailbox = <<>> /\ inputs < MaxInputs
  /\ inputs' = inputs + 1 /\ UNCHANGED faults
  /\ Handle(s)
(* An event drained by the 1 ms worker tick.                                *)
Provider(s) == Running /\ Handle(s) /\ UNCHANGED <<inputs, faults>>
Fault(s) ==
  /\ Running /\ faults < MaxFaults
  /\ faults' = faults + 1 /\ UNCHANGED inputs
  /\ Handle(s)

-----------------------------------------------------------------------------
(* Client commands.                                                         *)

(* The VAD worker is kept; only its capture cycle is restarted.  No ASR     *)
(* stream is open here: start_listening has returned before when one is.    *)
RestartCaptureCycle(s, c) ==
  LET reset == ResetVadCaptureCycle([s EXCEPT !.autoSpeechActive = FALSE,
                                              !.segment = FALSE], c)
  IN  IF s.autoResetPending THEN s
      ELSE IF reset.autoResetPending /\ s.phase # "Speaking"
           THEN [reset EXCEPT !.phase = "Processing"]
      ELSE reset

StartListening(mode, c) ==
  LET same == mode \in VadModes /\ sess.listeningMode = mode IN
  ClientInput(
    IF same /\ (sess.autoSpeechActive \/ sess.asr # "none") THEN sess
    ELSE IF sess.turn # NoTurn \/ sess.phase \in {"Processing", "Speaking"}
    THEN [sess EXCEPT !.listeningMode = mode, !.listenArmPending = TRUE]
    ELSE IF same /\ sess.vad # "none" THEN RestartCaptureCycle(sess, c)
    ELSE ReplaceListeningMode(sess, mode, c))

(* has_utterance: the manual capture holds at least one decoded frame.      *)
StopManual(hasUtterance, c) ==
  LET stopped == [sess EXCEPT !.capturing = FALSE] IN
  /\ sess.listeningMode = "manual" /\ sess.phase = "Listening"
  /\ hasUtterance => sess.capturing
  /\ ClientInput(
       IF hasUtterance
       THEN FinishManual([stopped EXCEPT !.phase = "Processing"], c)
       ELSE [CancelAsr(stopped) EXCEPT !.phase = "Ready"])

StopContinuous ==
  LET off == [sess EXCEPT !.vad = "none", !.cycle = FALSE, !.vadReset = FALSE,
                !.listeningMode = "none", !.listenArmPending = FALSE,
                !.autoSpeechActive = FALSE, !.autoResetPending = FALSE,
                !.segment = FALSE]
  IN  /\ sess.listeningMode \in VadModes
      /\ ClientInput(IF sess.turn = NoTurn
                     THEN [CancelAsr(off) EXCEPT !.phase = "Ready"] ELSE off)

(* detach_asr_for_detect is mandatory in Manual, conditional in Auto.  The  *)
(* handler does not look at the turn: a client that waits for the end of    *)
(* its turn before it types is one with Overtypes = FALSE.                  *)
Detect(c) ==
  LET rearming == /\ sess.listeningMode = "auto" /\ sess.autoResetPending
                  /\ sess.phase = "Processing"
      heard    == [sess EXCEPT !.capturing = FALSE,
                     !.autoSpeechActive = @ /\ sess.listeningMode # "auto"]
      detached == IF sess.asr = "none" THEN sess.listeningMode = "auto"
                  ELSE c["cancel"]
      begun    == [BeginActiveTurn(CancelAsr(heard)) EXCEPT !.phase = "Processing"]
  IN  /\ sess.phase = "Listening" \/ rearming
      /\ Overtypes \/ sess.turn = NoTurn
      /\ ClientInput(
           IF sess.listeningMode \notin {"manual", "auto"} THEN heard
           ELSE IF ~detached THEN FailClosed(heard)
           ELSE IF c["permit"] THEN BeginSpeechDelivery(CommitUserText(begun), c)
           ELSE [CancelAsr(heard) EXCEPT !.phase = "Ready"])

Abort(c) ==
  LET halted == [AdvanceGeneration(InterruptActiveTurn(sess))
                   EXCEPT !.capturing = FALSE]
      quiet  == [halted EXCEPT !.autoSpeechActive = FALSE, !.segment = FALSE]
      reset  == ResetVadCaptureCycle(quiet, c)
      idle   == [CloseVad(halted) EXCEPT !.listeningMode = "none",
                   !.listenArmPending = FALSE, !.autoResetPending = FALSE,
                   !.phase = "Ready"]
  IN  /\ sess.phase # "Closed"
      /\ ClientInput(
           IF ~(halted.listeningMode \in VadModes /\ halted.vad # "none") THEN idle
           ELSE IF quiet.autoResetPending THEN quiet
           ELSE IF reset.autoResetPending THEN [reset EXCEPT !.phase = "Processing"]
           ELSE reset)

DirectSpeechBusy(s) ==
  \/ s.turn # NoTurn
  \/ s.phase \notin {"Ready", "Listening"}
  \/ s.autoSpeechActive \/ s.autoResetPending
  \/ s.asr # "none" \/ s.listenArmPending
  \/ s.phase = "Listening" /\ s.listeningMode = "manual"

(* answered: the requester still holds the reply channel when it is used.   *)
AdmitDirectSpeech(answered, c) ==
  LET begun    == [BeginActiveTurn(AdvanceGeneration(sess))
                     EXCEPT !.phase = "Processing"]
      admitted == BeginDirectSpeech(begun, "direct")
  IN  /\ ~DirectSpeechBusy(sess)
      /\ ClientInput(
           IF ~c["permit"] THEN AdvanceGeneration(sess)
           ELSE IF answered THEN admitted
           ELSE CompleteRecognition(InterruptActiveTurn(admitted), c))

-----------------------------------------------------------------------------
(* Recognition events.                                                      *)

AsrCurrent == sess.asr # "none" /\ sess.asrGen = sess.generation

AsrFinal(hasText, c) ==
  LET ended == ForgetAsr(sess) IN
  /\ sess.asr = "finishing" /\ AsrCurrent
  /\ Provider(IF hasText /\ sess.turn # NoTurn
              THEN BeginSpeechDelivery(CommitUserText(ended), c)
              ELSE CompleteRecognition(ended, c))
AsrFailed(c) ==
  /\ AsrCurrent
  /\ Fault(CompleteRecognition(ForgetAsr(sess), c))
AsrFinalTimedOut == sess.asr = "finishing" /\ AsrCurrent /\ Fault(FailClosed(sess))
AsrCleanedUp == sess.asrCleanup /\ Provider([sess EXCEPT !.asrCleanup = FALSE])
AsrCleanupTimedOut == sess.asrCleanup /\ Fault(FailClosed(sess))

BargeInAllowed == BargeIn /\ sess.listeningMode \in VadModes

(* on_binary: a decoded frame the ASR queue or the capture does not take.   *)
ArmedCapture ==
  /\ sess.vad # "none" /\ ~sess.autoResetPending
  /\ sess.phase = "Speaking" /\ BargeInAllowed
AsrPushRefused ==
  \/ /\ sess.phase = "Listening" /\ sess.listeningMode = "manual"
     /\ \/ Fault([CancelAsr(sess) EXCEPT !.capturing = FALSE])
        \/ /\ sess.capturing
           /\ Fault([CancelAsr(sess) EXCEPT !.phase = "Ready",
                                            !.capturing = sess.asr = "none"])
  \/ /\ sess.phase = "Listening" \/ ArmedCapture
     /\ sess.listeningMode \in VadModes /\ ~sess.autoResetPending
     /\ sess.cycle /\ sess.vad = "open" /\ sess.autoSpeechActive
     /\ Fault(CancelAsr(sess))
(* The VAD queue is full, or the worker is closing.                         *)
VadPushRefused ==
  /\ sess.phase = "Listening" \/ ArmedCapture
  /\ sess.listeningMode \in VadModes /\ ~sess.autoResetPending
  /\ sess.cycle /\ sess.vad # "none"
  /\ Fault(FailClosed(sess))

-----------------------------------------------------------------------------
(* Voice activity.  The segmenter of the session turns probabilities of the *)
(* current capture cycle into a start and an end of speech.                 *)

OpenAsrForSpeech(s, pushed, c) ==
  LET heard == [s EXCEPT !.autoSpeechActive = TRUE]
      open  == [heard EXCEPT !.asr = "open", !.asrGen = s.generation]
  IN  IF ~c["asr"] THEN heard
      ELSE IF pushed THEN open
      ELSE [CancelAsr(open) EXCEPT !.autoSpeechActive = FALSE]

(* pushed: the retained pre-roll fits the queue of the new ASR stream.      *)
SpeechStart(pushed, c) ==
  LET heard == [sess EXCEPT !.segment = TRUE] IN
  /\ Running /\ inputs < MaxInputs
  /\ sess.cycle /\ sess.vad # "none" /\ ~sess.segment
  /\ inputs' = inputs + 1 /\ UNCHANGED faults
  /\ Handle(
       IF sess.autoSpeechActive THEN heard
       ELSE IF sess.turn = NoTurn THEN OpenAsrForSpeech(heard, pushed, c)
       ELSE IF sess.phase = "Speaking" /\ BargeInAllowed
       THEN OpenAsrForSpeech(AdvanceGeneration(InterruptActiveTurn(heard)),
                             pushed, c)
       ELSE heard)

SpeechEnd(c) ==
  LET over == [sess EXCEPT !.segment = FALSE]
      done == [over EXCEPT !.autoSpeechActive = FALSE, !.phase = "Processing"]
  IN  /\ sess.cycle /\ sess.vad # "none" /\ sess.segment
      /\ Provider(IF ~sess.autoSpeechActive THEN over
                  ELSE IF sess.asr # "none" THEN FinishManual(done, c)
                  ELSE CompleteRecognition(done, c))

(* A model round and a playback keep their phase; nothing else does.  The   *)
(* worker answers its queue in order, also after a Close was queued.        *)
ResetDone ==
  /\ sess.vad # "none" /\ sess.vadReset
  /\ Provider([sess EXCEPT !.autoResetPending = FALSE, !.cycle = TRUE,
        !.vadReset = FALSE, !.segment = FALSE,
        !.phase = IF sess.llmGen = 0 /\ ~sess.ttsStarted
                  THEN "Listening" ELSE @])

VadClosed ==
  /\ sess.vad = "closing" /\ ~sess.vadReset
  /\ Provider([sess EXCEPT !.vad = "none"])
(* Failed, ResetTimedOut, CleanupTimedOut, broken sample continuity.        *)
VadFailed == sess.vad # "none" /\ Fault(FailClosed(sess))

-----------------------------------------------------------------------------
(* Model rounds and tool batches.                                           *)

LlmCurrent ==
  /\ sess.llmGen # 0 /\ sess.turn # NoTurn
  /\ sess.llmGen = sess.generation /\ sess.turnGen = sess.generation

LlmDelta ==
  /\ LlmCurrent /\ sess.speech = "idle"
  /\ Provider([sess EXCEPT !.speech = "partial"])
LlmFinishedSilently(deliverable, c) ==
  /\ LlmCurrent
  /\ Provider([sess EXCEPT !.llmGen = 0,
                           !.speech = IF deliverable THEN "finished" ELSE @])
(* deliverable: the round produced text that survives filtering.            *)
LlmFinished(deliverable, c) ==
  LET ended == [sess EXCEPT !.llmGen = 0] IN
  /\ LlmCurrent
  /\ Provider(IF deliverable THEN [ended EXCEPT !.speech = "finished"]
              ELSE FailSpeechDelivery(ended, c))
LlmFailed(c) ==
  LlmCurrent /\ Fault(FailSpeechDelivery([sess EXCEPT !.llmGen = 0], c))
(* A buffered round ends in calls; too many calls terminalize the turn, and *)
(* a call that follows streamed prose fails it.                             *)
LlmCallsTools(accepted, c) ==
  LET ended == [sess EXCEPT !.llmGen = 0] IN
  /\ LlmCurrent
  /\ Provider(IF sess.speech = "partial" THEN FailSpeechDelivery(sess, c)
              ELSE IF accepted THEN [ended EXCEPT !.batchGen = sess.generation]
              ELSE CompleteRecognition(ended, c))

(* execute_builtin_tool(EndConversation), while the batch goes on.          *)
ArmClose ==
  /\ sess.batchGen # 0 /\ sess.turn # NoTurn
  /\ sess.closeAfter # sess.turn
  /\ Provider([sess EXCEPT !.closeAfter = sess.turn])

(* finish_tool_batch: continue, speak a result, or end without speech.      *)
FinishToolBatch(how, c) ==
  LET done == [sess EXCEPT !.batchGen = 0] IN
  /\ sess.batchGen # 0
  /\ Provider(
       IF sess.batchGen # sess.generation THEN done
       ELSE IF how = "speak" THEN BeginDirectSpeech(done, "tool")
       ELSE IF how = "continue" /\ sess.rounds < MaxRounds
       THEN StartLlmRound([done EXCEPT !.rounds = @ + 1], c)
       ELSE CompleteRecognition(done, c))

-----------------------------------------------------------------------------
(* Speech output: drain_speech_output polls nothing while one packet waits. *)

Polled == sess.pendingAudio = NoMsg

FlushPendingAudio ==
  LET taken == [sess EXCEPT !.pendingAudio = NoMsg] IN
  /\ ~Polled
  /\ AudioRoom(sess) \/ ~sess.lanesOpen
  /\ Provider(IF sess.lanesOpen
              THEN [taken EXCEPT !.audio = Append(@, sess.pendingAudio)]
              ELSE taken)
SegmentReady(c) ==
  LET said == [sess EXCEPT !.announced = TRUE] IN
  /\ Polled /\ sess.speech # "idle" /\ ~sess.announced
  /\ Provider(IF sess.origin # "llm" THEN said
              ELSE IF sess.turn # NoTurn /\ ControlRoom(sess)
              THEN OfferControl(said, Msg("text", sess.generation, sess.turn))
              ELSE FailSpeechDelivery(said, c))

(* Direct speech has its sentence_start follow tts:start.                   *)
SpeechStarted(c) ==
  LET begun == [sess EXCEPT !.playing = TRUE, !.ttsStarted = TRUE,
                            !.phase = "Speaking"]
      start == OfferControl(begun, Msg("start", sess.generation, sess.turn))
  IN  /\ Polled /\ sess.announced /\ ~sess.playing
      /\ Provider(
           IF sess.turn = NoTurn \/ ~ControlRoom(sess)
           THEN FailSpeechDelivery(begun, c)
           ELSE IF sess.origin = "llm" THEN start
           ELSE IF ControlRoom(start)
           THEN OfferControl(start, Msg("text", sess.generation, sess.turn))
           ELSE FailSpeechDelivery(start, c))

AudioPacket(c) ==
  LET packet == Msg("binary", sess.generation, sess.turn)
      sent   == [sess EXCEPT !.packets = @ + 1]
  IN  /\ Polled /\ sess.playing /\ sess.packets < MaxPackets
      /\ Provider(IF sess.turn = NoTurn THEN FailSpeechDelivery(sent, c)
                  ELSE IF AudioRoom(sess)
                  THEN [sent EXCEPT !.audio = Append(@, packet)]
                  ELSE IF sess.lanesOpen THEN [sent EXCEPT !.pendingAudio = packet]
                  ELSE sent)

DrainedLeavesSpeech(c) ==
  LET spent == [sess EXCEPT !.playing = FALSE, !.packets = 0] IN
  /\ Polled /\ sess.playing /\ sess.packets > 0 /\ sess.speech = "finished"
  /\ Provider(IF sess.turn # NoTurn /\ ControlRoom(sess)
              THEN [OfferControl(spent, Msg("finish", 0, sess.turn))
                      EXCEPT !.pendingDelivery = sess.turn]
              ELSE FailClosed(spent))
Drained(c) ==
  LET spent == [sess EXCEPT !.speech = "idle", !.announced = FALSE,
                            !.playing = FALSE, !.packets = 0]
  IN  /\ Polled /\ sess.playing /\ sess.packets > 0 /\ sess.speech = "finished"
      /\ Provider(
           IF sess.turn = NoTurn THEN FailSpeechDelivery(spent, c)
           ELSE IF ControlRoom(sess)
           THEN [OfferControl(spent, Msg("finish", 0, sess.turn))
                   EXCEPT !.pendingDelivery = sess.turn]
           ELSE FailClosed(spent))

SpeechFailed(c) ==
  Polled /\ sess.speech # "idle" /\ Fault(FailSpeechDelivery(sess, c))

-----------------------------------------------------------------------------
(* Outcomes reported by the writer.                                         *)

CloseNormally(s) ==
  IF s.phase = "Closed" THEN s
  ELSE OfferUrgent([CloseVad(s) EXCEPT !.autoResetPending = FALSE,
                                       !.phase = "Closed"], CloseMsg(1000))

TurnClosedAnyhow(s, o, c) ==
  LET freed == ReleaseActiveTurn([s EXCEPT !.closeAfter = NoTurn,
                  !.ttsStarted = FALSE, !.pendingDelivery = NoTurn])
  IN  IF s.turn # o.turn \/ s.pendingDelivery \notin {NoTurn, o.turn} THEN s
      ELSE IF s.closeAfter = o.turn THEN CloseNormally(freed)
      ELSE CompleteRecognition(freed, c)
(* pending_delivery of another turn is put back and nothing else is done.   *)
TurnClosed(s, o, c) ==
  LET closing == s.closeAfter = o.turn
      freed   == ReleaseActiveTurn([s EXCEPT !.closeAfter = NoTurn,
                    !.ttsStarted = FALSE, !.pendingDelivery = NoTurn])
  IN  IF s.turn # o.turn \/ s.pendingDelivery \notin {NoTurn, o.turn} THEN s
      ELSE IF o.kind = "normal" /\ closing THEN CloseNormally(freed)
      ELSE CompleteRecognition(freed, c)

CommitsAssistantOnDrain(s, o) ==
  s.turn = o.turn /\ s.pendingDelivery = o.turn /\ s.origin \in {"llm", "tool"}
CommitsAssistant(s, o) ==
  /\ o.kind = "normal" /\ s.turn = o.turn /\ s.pendingDelivery = o.turn
  /\ s.origin \in {"llm", "tool"}

OnWriterEvent(c) ==
  LET o == Head(mailbox) IN
  /\ Running /\ mailbox # <<>>
  /\ mailbox' = Tail(mailbox)
  /\ sess' = IF o.kind = "failed" THEN FailClosed(sess) ELSE TurnClosed(sess, o, c)
  /\ delivered' = IF CommitsAssistant(sess, o) THEN delivered \union {o.turn}
                  ELSE delivered
  /\ UNCHANGED <<writer, wire, tasks, inputs, faults>>

-----------------------------------------------------------------------------
(* The writer: biased urgent > deferred stop > control > audio > stop.      *)

WriterStep == UNCHANGED <<mailbox, delivered, wire, tasks, inputs>>
Send(m)    == writer' = [writer EXCEPT !.pc = "sending", !.frame = m]
Report(o)  == writer' = [writer EXCEPT !.pc = "reporting", !.report = o]

TakeUrgentKeepsActive ==
  LET m == Head(sess.urgent) IN
  /\ writer.pc = "idle" /\ sess.urgent # <<>>
  /\ sess' = [sess EXCEPT !.urgent = Tail(@)]
  /\ IF m.kind = "abort" /\ writer.active # m.turn
     THEN Report(Outcome("aborted", m.turn)) ELSE Send(m)
  /\ WriterStep /\ UNCHANGED faults
TakeUrgent ==
  LET m == Head(sess.urgent) IN
  /\ writer.pc = "idle" /\ sess.urgent # <<>>
  /\ sess' = [sess EXCEPT !.urgent = Tail(@)]
  /\ IF m.kind = "abort" /\ writer.active # m.turn
     THEN Report(Outcome("aborted", m.turn))
     ELSE writer' = [writer EXCEPT !.pc = "sending", !.frame = m,
            !.active   = IF m.kind = "abort" THEN NoTurn ELSE @,
            !.deferred = IF m.kind = "abort" THEN NoTurn ELSE @]
  /\ WriterStep /\ UNCHANGED faults

DeferredReady == writer.deferred # NoTurn /\ sess.audio = <<>>
TakeDeferredFinish ==
  /\ writer.pc = "idle" /\ sess.urgent = <<>> /\ DeferredReady
  /\ writer' = [writer EXCEPT !.pc = "sending", !.deferred = NoTurn,
                              !.frame = Msg("finish", 0, writer.deferred)]
  /\ WriterStep /\ UNCHANGED <<sess, faults>>

TakeControl ==
  LET m == Head(sess.control) IN
  /\ writer.pc = "idle" /\ sess.urgent = <<>> /\ ~DeferredReady
  /\ sess.control # <<>>
  /\ sess' = [sess EXCEPT !.control = Tail(@)]
  /\ \/ /\ m.kind = "start"
        /\ IF writer.active = NoTurn /\ Admits(sess, m.gen)
           THEN Send(m) ELSE UNCHANGED writer
     \/ /\ m.kind = "finish"
        /\ IF writer.active # m.turn THEN Report(Outcome("aborted", m.turn))
           ELSE IF sess.audio # <<>>
           THEN writer' = [writer EXCEPT !.deferred = m.turn]
           ELSE Send(m)
     \/ /\ m.kind = "text"
        /\ IF Admits(sess, m.gen) THEN Send(m) ELSE UNCHANGED writer
  /\ WriterStep /\ UNCHANGED faults

TakeAudio ==
  LET m == Head(sess.audio) IN
  /\ writer.pc = "idle" /\ sess.urgent = <<>> /\ sess.control = <<>>
  /\ sess.audio # <<>>
  /\ sess' = [sess EXCEPT !.audio = Tail(@)]
  /\ IF writer.active = m.turn /\ Admits(sess, m.gen)
     THEN Send(m) ELSE UNCHANGED writer
  /\ WriterStep /\ UNCHANGED faults

(* The frame in flight has reached the socket.                              *)
Sent ==
  LET m == writer.frame
      idle == [writer EXCEPT !.pc = "idle", !.frame = NoMsg]
  IN
  /\ writer.pc = "sending"
  /\ CASE m.kind = "start" ->
            /\ writer' = [idle EXCEPT !.active = m.turn]
            /\ wire' = [wire EXCEPT !.playing = m.turn,
                                    !.starts = @ \union {m.turn}]
            /\ UNCHANGED sess
       [] m.kind = "finish" ->
            /\ writer' = [idle EXCEPT !.active = NoTurn, !.pc = "reporting",
                                      !.report = Outcome("normal", m.turn)]
            /\ wire' = [wire EXCEPT !.playing = NoTurn,
                                    !.stops = @ \union {m.turn}]
            /\ UNCHANGED sess
       [] m.kind = "abort" ->
            /\ writer' = [idle EXCEPT !.pc = "reporting",
                                      !.report = Outcome("aborted", m.turn)]
            /\ wire' = [wire EXCEPT !.playing = NoTurn]
            /\ UNCHANGED sess
       [] m.kind = "close" ->
            /\ writer' = [idle EXCEPT !.pc = "done"]
            /\ wire' = [wire EXCEPT !.closed = m.code]
            /\ sess' = [sess EXCEPT !.lanesOpen = FALSE]
       [] OTHER -> writer' = idle /\ UNCHANGED <<wire, sess>>
  /\ UNCHANGED <<mailbox, delivered, tasks, inputs, faults>>

(* The send fails or exceeds write_timeout.                                 *)
SendFailed ==
  /\ writer.pc = "sending" /\ faults < MaxFaults
  /\ faults' = faults + 1
  /\ writer' = [writer EXCEPT !.pc = "failing", !.frame = NoMsg]
  /\ WriterStep /\ UNCHANGED sess

(* writer_events.send waits for room; without a receiver it returns.        *)
MailboxRoom == tasks.actor = "done" \/ Len(mailbox) < MailboxCap
Deliver(o) == mailbox' = IF tasks.actor = "done" THEN mailbox ELSE Append(mailbox, o)

ReportClosed ==
  /\ writer.pc = "reporting" /\ MailboxRoom
  /\ Deliver(writer.report)
  /\ writer' = [writer EXCEPT !.pc = "idle", !.report = Outcome("none", NoTurn)]
  /\ UNCHANGED <<sess, delivered, wire, tasks, inputs, faults>>
ReportFailed ==
  /\ writer.pc = "failing" /\ MailboxRoom
  /\ Deliver(Outcome("failed", writer.active))
  /\ writer' = [writer EXCEPT !.pc = "done"]
  /\ sess' = [sess EXCEPT !.lanesOpen = FALSE]
  /\ UNCHANGED <<delivered, wire, tasks, inputs, faults>>

(* The stop signal, or every sender of the lanes and of the signal dropped. *)
WriterStops ==
  /\ writer.pc = "idle" /\ ~DeferredReady
  /\ sess.urgent = <<>> /\ sess.control = <<>> /\ sess.audio = <<>>
  /\ sess.shutdown \/ (tasks.actor = "done" /\ tasks.reader = "gone")
  /\ writer' = [writer EXCEPT !.pc = "done"]
  /\ sess' = [sess EXCEPT !.lanesOpen = FALSE]
  /\ WriterStep /\ UNCHANGED faults

-----------------------------------------------------------------------------
(* The reader and the end of the session.                                   *)

TaskStep == UNCHANGED <<mailbox, delivered, writer, wire, inputs, faults>>

(* Peer closed, receive error, or the writer is done: ingress is dropped.   *)
ReaderLeaves ==
  /\ tasks.reader = "reading"
  /\ tasks' = [tasks EXCEPT !.reader = "gone", !.ingress = "closed"]
  /\ TaskStep /\ UNCHANGED sess

(* Drain deadline and process stop, or replacement by a newer connection.   *)
ReaderEndsSession ==
  /\ tasks.reader = "reading"
  /\ \E code \in {1001, 1008} :
       tasks' = [tasks EXCEPT !.reader = "gone", !.ingress = "ended", !.code = code]
  /\ TaskStep /\ UNCHANGED sess

(* A revoked snapshot (1008); an idle window, an oversized frame or a full  *)
(* ingress (all as 1001): the reader itself waits for the urgent lane.      *)
ReaderCloses ==
  /\ tasks.reader = "reading"
  /\ \E code \in {1001, 1008} :
       tasks' = [tasks EXCEPT !.reader = "closing", !.code = code]
  /\ TaskStep /\ UNCHANGED sess
ReaderPushesCloseStuck ==
  /\ tasks.reader = "closing" /\ UrgentRoom(sess)
  /\ sess' = OfferUrgent(sess, CloseMsg(tasks.code))
  /\ \E last \in {"closed"} \union (IF tasks.code = 1008 THEN {"ended"} ELSE {}) :
       tasks' = [tasks EXCEPT !.reader = "gone", !.ingress = last]
  /\ TaskStep
ReaderPushesClose ==
  /\ tasks.reader = "closing"
  /\ UrgentRoom(sess) \/ ~sess.lanesOpen
  /\ sess' = OfferUrgent(sess, CloseMsg(tasks.code))
  /\ \E last \in {"closed"} \union (IF tasks.code = 1008 THEN {"ended"} ELSE {}) :
       tasks' = [tasks EXCEPT !.reader = "gone", !.ingress = last]
  /\ TaskStep

(* begin_application_shutdown, then the terminal Close is awaited.          *)
ApplicationShutdown ==
  /\ Running /\ tasks.ingress = "ended"
  /\ sess' = IF sess.phase = "Closed" THEN sess
             ELSE [CloseVad(AdvanceGeneration(InterruptActiveTurn(sess)))
                     EXCEPT !.autoResetPending = FALSE, !.phase = "Closed"]
  /\ tasks' = [tasks EXCEPT !.actor = "closing"]
  /\ TaskStep

(* Leaving the loop drops the actor.                                        *)
Dropped(s) ==
  [CloseVad(ReleaseActiveTurn(CancelLlm(CancelAsr(s)))) EXCEPT
     !.phase = "Closed", !.speech = "idle", !.announced = FALSE,
     !.playing = FALSE, !.packets = 0, !.pendingAudio = NoMsg, !.batchGen = 0]
ActorPushesClose ==
  /\ tasks.actor = "closing"
  /\ UrgentRoom(sess) \/ ~sess.lanesOpen
  /\ sess' = Dropped(OfferUrgent(sess, CloseMsg(tasks.code)))
  /\ tasks' = [tasks EXCEPT !.actor = "done"]
  /\ TaskStep
IngressClosed ==
  /\ Running /\ tasks.ingress = "closed"
  /\ sess' = Dropped(sess)
  /\ tasks' = [tasks EXCEPT !.actor = "done"]
  /\ TaskStep

-----------------------------------------------------------------------------
(* Specification.                                                           *)

Init ==
  /\ sess = [phase |-> "Ready", generation |-> 0, nextTurnId |-> 1,
             turn |-> NoTurn, turnGen |-> 0, ttsStarted |-> FALSE,
             llmGen |-> 0, batchGen |-> 0, rounds |-> 0,
             origin |-> "llm", speech |-> "idle", announced |-> FALSE,
             playing |-> FALSE, packets |-> 0, pendingAudio |-> NoMsg,
             pendingDelivery |-> NoTurn, closeAfter |-> NoTurn,
             listeningMode |-> "none", listenArmPending |-> FALSE,
             autoSpeechActive |-> FALSE, autoResetPending |-> FALSE,
             capturing |-> FALSE, segment |-> FALSE,
             vad |-> "none", cycle |-> FALSE, vadReset |-> FALSE,
             asr |-> "none", asrGen |-> 0, asrCleanup |-> FALSE,
             gate |-> 0, urgent |-> <<>>, control |-> <<>>, audio |-> <<>>,
             shutdown |-> FALSE, lanesOpen |-> TRUE]
  /\ mailbox = <<>> /\ delivered = {}
  /\ writer = [pc |-> "idle", active |-> NoTurn, deferred |-> NoTurn,
               frame |-> NoMsg, report |-> Outcome("none", NoTurn)]
  /\ wire = [playing |-> NoTurn, starts |-> {}, stops |-> {}, closed |-> 0]
  /\ tasks = [actor |-> "running", reader |-> "reading", ingress |-> "open",
              code |-> 0]
  /\ inputs = 0 /\ faults = 0

Client(c) ==
  \/ \E mode \in Modes : StartListening(mode, c)
  \/ \E hasUtterance \in BOOLEAN : StopManual(hasUtterance, c)
  \/ StopContinuous \/ Detect(c) \/ Abort(c)
  \/ \E answered \in BOOLEAN : AdmitDirectSpeech(answered, c)

AsrAnswers(c) == AsrFinalTimedOut \/ \E hasText \in BOOLEAN : AsrFinal(hasText, c)
CleanupEvent == AsrCleanedUp \/ AsrCleanupTimedOut
VadAnswers   == ResetDone \/ VadClosed
Utterance(c) ==
  \/ \E pushed \in BOOLEAN : SpeechStart(pushed, c)
  \/ AsrPushRefused \/ VadPushRefused
LlmAnswers(c) ==
  \/ LlmDelta \/ LlmFailed(c)
  \/ \E ok \in BOOLEAN : LlmFinished(ok, c) \/ LlmCallsTools(ok, c)
ToolEvent(c) ==
  \E how \in {"continue", "speak", "silent"} : FinishToolBatch(how, c)
SpeechProgress(c) ==
  \/ FlushPendingAudio \/ SegmentReady(c) \/ SpeechStarted(c)
  \/ AudioPacket(c) \/ Drained(c)

TakeLane == TakeUrgent \/ TakeDeferredFinish \/ TakeControl \/ TakeAudio
EndSend  == Sent \/ SendFailed
Writer   == TakeLane \/ EndSend \/ ReportClosed \/ ReportFailed \/ WriterStops

Ended == tasks.actor = "done" /\ writer.pc = "done"
Terminated == Ended /\ UNCHANGED vars

Next ==
  \/ \E c \in Replies :
       \/ Client(c) \/ AsrAnswers(c) \/ AsrFailed(c) \/ Utterance(c)
       \/ SpeechEnd(c) \/ LlmAnswers(c) \/ ToolEvent(c)
       \/ SpeechProgress(c) \/ SpeechFailed(c) \/ OnWriterEvent(c)
  \/ CleanupEvent \/ VadAnswers \/ VadFailed \/ ArmClose
  \/ Writer
  \/ ReaderLeaves \/ ReaderEndsSession \/ ReaderCloses \/ ReaderPushesClose
  \/ ApplicationShutdown \/ ActorPushesClose \/ IngressClosed
  \/ Terminated

Spec == Init /\ [][Next]_vars

(* The worker tick runs every millisecond and drains every event; a final,  *)
(* a model round, a synthesis, a VAD reset, an ASR cleanup and a send each  *)
(* end by a deadline of their own; the reader is woken by the writer's done *)
(* signal.  Nothing is assumed of the client, and no provider has to fail:  *)
(* a failure counts only where it is how a deadline ends the wait.          *)
Fairness ==
  /\ WF_vars(\E c \in Replies : OnWriterEvent(c))
  /\ WF_vars(\E c \in Replies : AsrAnswers(c))
  /\ WF_vars(\E c \in Replies : LlmAnswers(c))
  /\ WF_vars(\E c \in Replies : ToolEvent(c))
  /\ WF_vars(\E c \in Replies : SpeechProgress(c))
  /\ WF_vars(VadAnswers) /\ WF_vars(CleanupEvent)
  /\ WF_vars(TakeLane) /\ WF_vars(EndSend)
  /\ WF_vars(ReportClosed \/ ReportFailed) /\ WF_vars(WriterStops)
  /\ WF_vars(ReaderLeaves /\ writer.pc = "done")
  /\ WF_vars(ReaderPushesClose) /\ WF_vars(ApplicationShutdown)
  /\ WF_vars(ActorPushesClose) /\ WF_vars(IngressClosed)

FairSpec == Spec /\ Fairness

-----------------------------------------------------------------------------
(* Types.                                                                   *)

(* Each lane carries its own commands only, and a stop names its turn.      *)
Turns        == Nat
UrgentKinds  == {"abort", "close"}
ControlKinds == {"start", "text", "finish"}
AudioKinds   == {"binary"}
Kinds        == UrgentKinds \union ControlKinds \union AudioKinds \union {"none"}
Message(kinds)   == {m \in [kind : kinds, gen : Nat, turn : Turns, code : Nat] :
                       m.kind = "finish" => m.turn # NoTurn}
Lane(kinds, cap) == {q \in Seq(Message(kinds)) : Len(q) <= cap}
Verdict == [kind : {"none", "normal", "aborted", "failed"}, turn : Turns]
Session ==
  [phase : {"Ready", "Listening", "Processing", "Speaking", "Closed"},
   generation : Nat, nextTurnId : Nat \ {0}, turn : Turns, turnGen : Nat,
   ttsStarted : BOOLEAN, llmGen : Nat,
   batchGen : Nat, rounds : Nat, origin : {"llm", "tool", "direct"},
   speech : {"idle", "partial", "finished"}, announced : BOOLEAN,
   playing : BOOLEAN, packets : Nat, pendingAudio : {NoMsg} \union Message(AudioKinds),
   pendingDelivery : Turns, closeAfter : Turns,
   listeningMode : Modes \union {"none"}, listenArmPending : BOOLEAN,
   autoSpeechActive : BOOLEAN, autoResetPending : BOOLEAN,
   capturing : BOOLEAN, segment : BOOLEAN,
   vad : {"none", "open", "closing"}, cycle : BOOLEAN, vadReset : BOOLEAN,
   asr : {"none", "open", "finishing"}, asrGen : Nat, asrCleanup : BOOLEAN,
   gate : Nat, urgent : Lane(UrgentKinds, UrgentCap),
   control : Lane(ControlKinds, ControlCap),
   audio : Lane(AudioKinds, AudioCap), shutdown : BOOLEAN, lanesOpen : BOOLEAN]
Mailbox == {q \in Seq(Verdict) : Len(q) <= MailboxCap}
WriterState ==
  [pc : {"idle", "sending", "reporting", "failing", "done"},
   active : Turns, deferred : Turns, frame : Message(Kinds), report : Verdict]
WireState ==
  [playing : Turns, starts : SUBSET Turns, stops : SUBSET Turns, closed : Nat]
TaskState ==
  [actor : {"running", "closing", "done"}, reader : {"reading", "closing", "gone"},
   ingress : {"open", "ended", "closed"}, code : Nat]

(* Every variable has its type.  A lane and the mailbox never hold more     *)
(* than the configured capacity, although three tasks feed and drain them.  *)
TypeOK ==
  /\ sess \in Session /\ mailbox \in Mailbox /\ delivered \in SUBSET Turns
  /\ writer \in WriterState /\ wire \in WireState /\ tasks \in TaskState
  /\ inputs \in Nat /\ faults \in Nat

-----------------------------------------------------------------------------
(* Safety.                                                                  *)

SendingKind(kinds) == writer.pc = "sending" /\ writer.frame.kind \in kinds

(* What the device can make sense of: a turn starts into silence only, and  *)
(* audio, a stop or an abort only reaches the socket while that same turn   *)
(* plays, although Finish and Abort race in two lanes and Finish may wait   *)
(* behind queued audio (writer.rs, PlaybackArbiter).                        *)
FramesFitPlayback ==
  /\ SendingKind({"start"}) => wire.playing = NoTurn
  /\ SendingKind({"binary", "finish", "abort"}) => wire.playing = writer.frame.turn

(* No turn is started twice, although the actor speaks in several rounds    *)
(* and the writer forgets a turn as soon as its stop is sent (delivery.rs,  *)
(* drain_speech_output; writer.rs, admits_begin).                           *)
StartedOnce == SendingKind({"start"}) => writer.frame.turn \notin wire.starts

(* Assistant text enters Dialogue History only for a turn whose normal      *)
(* tts:stop reached the socket: production that drained, or an abort that   *)
(* won the race, is not a delivered response (ingress.rs, TurnClosed).      *)
HeardBeforeCommitted == delivered \subseteq wire.stops

(* A start or audio is handed to the socket only for the turn the actor     *)
(* owns at that moment, so for none it has given up, however long the frame *)
(* has waited in a lane: the gate is the linearization point of a           *)
(* cancellation (delivery.rs, cancel_speech_delivery).  Once the actor is   *)
(* gone the lanes only drain.                                               *)
HandedIsOwned ==
  writer'.pc = "sending" /\ writer'.frame # writer.frame
    /\ writer'.frame.kind \in {"start", "binary"}
  => tasks.actor = "done" \/ writer'.frame.turn = sess.turn
NothingStaleStarts == [][HandedIsOwned]_vars

(* An End Conversation close (1000) waits for the goodbye: it never cuts a  *)
(* turn that still plays and never comes before some turn was heard in full *)
(* (ingress.rs take_close_for, lifecycle.rs close_normally).                *)
NormalCloseIsQuiet == wire.closed = 1000 => wire.playing = NoTurn /\ wire.stops # {}

(* A model round in flight belongs to the turn and the generation the actor *)
(* owns now; otherwise its events are dropped as stale and nothing would    *)
(* ever end the round (delivery.rs, handle_llm_event's identity check).     *)
LlmOwned ==
  sess.llmGen # 0 => /\ sess.turn # NoTurn /\ sess.turnGen = sess.generation
                     /\ sess.llmGen = sess.generation

(* A recognition stream the actor holds is of the current generation: a     *)
(* stale one would never be heard of again and would keep start_listening   *)
(* and direct speech refused (listening.rs, handle_asr_event).              *)
AsrOwned == sess.asr # "none" => sess.asrGen = sess.generation

Holds(q, kind, t) == \E i \in DOMAIN q : q[i].kind = kind /\ q[i].turn = t
OutcomeDue(t) ==
  \/ Holds(sess.urgent, "abort", t) \/ Holds(sess.control, "finish", t)
  \/ writer.deferred = t
  \/ writer.frame.kind \in {"finish", "abort"} /\ writer.frame.turn = t
  \/ writer.report.turn = t \/ writer.pc = "failing"
  \/ \E i \in DOMAIN mailbox : mailbox[i].turn = t \/ mailbox[i].kind = "failed"

(* Whoever owns the Active Turn can still lose it: recognition, a model     *)
(* round, a tool batch or speech output is at work for it, or an outcome    *)
(* the actor will accept is on its way.  Otherwise nothing releases the     *)
(* turn and its permit, and the session answers nobody (writer.rs: "every   *)
(* turn-scoped command the actor sends ends in exactly one terminal outcome *)
(* the actor can act on").                                                  *)
TurnAccountedFor ==
  sess.turn # NoTurn /\ sess.phase # "Closed" =>
    \/ sess.asr # "none" \/ sess.llmGen # 0 \/ sess.batchGen # 0
    \/ sess.speech # "idle"
    \/ OutcomeDue(sess.turn) /\ sess.pendingDelivery \in {NoTurn, sess.turn}

-----------------------------------------------------------------------------
(* Refinement.                                                              *)

Delivery == INSTANCE TurnDelivery WITH
  playing <- wire.playing, stops <- wire.stops, heard <- delivered,
  gone <- writer.pc = "done"

(* Lanes, gate, arbiter, cancellation and faults together deliver turns as  *)
(* TurnDelivery promises: one plays at a time, each ends by its stop or is  *)
(* cut, only what was stopped is committed, nothing follows the end of the  *)
(* writer (writer.rs, delivery.rs, ingress.rs on_writer_event).             *)
DeliversTurns == Delivery!Spec

-----------------------------------------------------------------------------
(* Liveness.                                                                *)

(* A reader that leaves takes the actor and the writer down with it, also  *)
(* while one waits for a full lane and the other for a full mailbox         *)
(* (session.rs joins the three tasks before the session counts as ended).   *)
SessionEnds == tasks.reader # "reading" ~> Ended

(* Every Active Turn is released: its permit is shared by all sessions.     *)
TurnReleased == \A t \in 1..(2 * MaxInputs) : sess.turn = t ~> sess.turn # t

-----------------------------------------------------------------------------
(* What a document or a comment says and the code does not do.              *)

(* ADR-0046: a turn keeps its permit "until the writer's terminal outcome   *)
(* or teardown".  A turn the device still plays is the one the actor owns.  *)
PermitHeldUntilOutcome ==
  wire.playing # NoTurn => sess.turn = wire.playing \/ sess.phase = "Closed"

(* Flow 01, state diagram: no edge leaves the end of the session, so a      *)
(* closed actor never listens again.                                        *)
ClosedIsFinal == [][sess.phase = "Closed" => sess'.phase = "Closed"]_vars

(* Flow 06: invalidating generation N goes with generation = N + 1, so the  *)
(* turn a model round runs for is one whose frames the writer admits.       *)
FreshTurnAdmitted ==
  sess.turn # NoTurn /\ sess.llmGen # 0 => Admits(sess, sess.turnGen)

(* ADR-0088: a reminder waits until the actor is back in an idle Listening, *)
(* a safe turn boundary; there direct speech is not refused as busy.        *)
IdleListeningIsFree ==
  /\ sess.phase = "Listening" /\ sess.listeningMode \in VadModes
  /\ sess.turn = NoTurn /\ sess.asr = "none"
  /\ ~sess.autoSpeechActive /\ ~sess.autoResetPending
  => ~DirectSpeechBusy(sess)

=============================================================================
