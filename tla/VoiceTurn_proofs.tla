-------------------------- MODULE VoiceTurn_proofs --------------------------
(***************************************************************************)
(* Proofs about VoiceTurn: type correctness with the bounds of the lanes   *)
(* and the mailbox; that assistant text is committed only after its stop   *)
(* was sent; that every playback frame fits what the device plays.  They   *)
(* hold for all values of the constants that the assumptions admit.        *)
(* The rest proves, for as long as the client is patient (PatientClient),  *)
(* who owns a recognition and a model round, that no turn is started twice,*)
(* that the writer starts and speaks no turn the actor gave up, and that   *)
(* the close of End Conversation cuts nothing that plays.                  *)
(***************************************************************************)
EXTENDS PatientClient, SequenceTheorems, TLAPS

-----------------------------------------------------------------------------
(* Records. *)

(* A field of the session record takes a value of its type: the result is a *)
(* session record. One step per field; the handlers are chains of such *)
(* updates. *)
LEMMA Updates ==
  ASSUME NEW s \in Session
  PROVE 
    /\ \A v \in {"Ready", "Listening", "Processing", "Speaking", "Closed"} : [s EXCEPT !.phase = v] \in Session
    /\ \A v \in Nat : [s EXCEPT !.generation = v] \in Session
    /\ \A v \in Nat \ {0} : [s EXCEPT !.nextTurnId = v] \in Session
    /\ \A v \in Turns : [s EXCEPT !.turn = v] \in Session
    /\ \A v \in Nat : [s EXCEPT !.turnGen = v] \in Session
    /\ \A v \in BOOLEAN : [s EXCEPT !.ttsStarted = v] \in Session
    /\ \A v \in Nat : [s EXCEPT !.llmGen = v] \in Session
    /\ \A v \in Nat : [s EXCEPT !.batchGen = v] \in Session
    /\ \A v \in Nat : [s EXCEPT !.rounds = v] \in Session
    /\ \A v \in {"llm", "tool", "direct"} : [s EXCEPT !.origin = v] \in Session
    /\ \A v \in {"idle", "partial", "finished"} : [s EXCEPT !.speech = v] \in Session
    /\ \A v \in BOOLEAN : [s EXCEPT !.announced = v] \in Session
    /\ \A v \in BOOLEAN : [s EXCEPT !.playing = v] \in Session
    /\ \A v \in Nat : [s EXCEPT !.packets = v] \in Session
    /\ \A v \in {NoMsg} \union Message(AudioKinds) : [s EXCEPT !.pendingAudio = v] \in Session
    /\ \A v \in Turns : [s EXCEPT !.pendingDelivery = v] \in Session
    /\ \A v \in Turns : [s EXCEPT !.closeAfter = v] \in Session
    /\ \A v \in Modes \union {"none"} : [s EXCEPT !.listeningMode = v] \in Session
    /\ \A v \in BOOLEAN : [s EXCEPT !.listenArmPending = v] \in Session
    /\ \A v \in BOOLEAN : [s EXCEPT !.autoSpeechActive = v] \in Session
    /\ \A v \in BOOLEAN : [s EXCEPT !.autoResetPending = v] \in Session
    /\ \A v \in BOOLEAN : [s EXCEPT !.capturing = v] \in Session
    /\ \A v \in BOOLEAN : [s EXCEPT !.segment = v] \in Session
    /\ \A v \in {"none", "open", "closing"} : [s EXCEPT !.vad = v] \in Session
    /\ \A v \in BOOLEAN : [s EXCEPT !.cycle = v] \in Session
    /\ \A v \in BOOLEAN : [s EXCEPT !.vadReset = v] \in Session
    /\ \A v \in {"none", "open", "finishing"} : [s EXCEPT !.asr = v] \in Session
    /\ \A v \in Nat : [s EXCEPT !.asrGen = v] \in Session
    /\ \A v \in BOOLEAN : [s EXCEPT !.asrCleanup = v] \in Session
    /\ \A v \in Nat : [s EXCEPT !.gate = v] \in Session
    /\ \A v \in Lane(UrgentKinds, UrgentCap) : [s EXCEPT !.urgent = v] \in Session
    /\ \A v \in Lane(ControlKinds, ControlCap) : [s EXCEPT !.control = v] \in Session
    /\ \A v \in Lane(AudioKinds, AudioCap) : [s EXCEPT !.audio = v] \in Session
    /\ \A v \in BOOLEAN : [s EXCEPT !.shutdown = v] \in Session
    /\ \A v \in BOOLEAN : [s EXCEPT !.lanesOpen = v] \in Session
<1>1. \A v \in {"Ready", "Listening", "Processing", "Speaking", "Closed"} : [s EXCEPT !.phase = v] \in Session
  BY DEF Session
<1>2. \A v \in Nat : [s EXCEPT !.generation = v] \in Session
  BY DEF Session
<1>3. \A v \in Nat \ {0} : [s EXCEPT !.nextTurnId = v] \in Session
  BY DEF Session
<1>4. \A v \in Turns : [s EXCEPT !.turn = v] \in Session
  BY DEF Session
<1>5. \A v \in Nat : [s EXCEPT !.turnGen = v] \in Session
  BY DEF Session
<1>6. \A v \in BOOLEAN : [s EXCEPT !.ttsStarted = v] \in Session
  BY DEF Session
<1>7. \A v \in Nat : [s EXCEPT !.llmGen = v] \in Session
  BY DEF Session
<1>8. \A v \in Nat : [s EXCEPT !.batchGen = v] \in Session
  BY DEF Session
<1>9. \A v \in Nat : [s EXCEPT !.rounds = v] \in Session
  BY DEF Session
<1>10. \A v \in {"llm", "tool", "direct"} : [s EXCEPT !.origin = v] \in Session
  BY DEF Session
<1>11. \A v \in {"idle", "partial", "finished"} : [s EXCEPT !.speech = v] \in Session
  BY DEF Session
<1>12. \A v \in BOOLEAN : [s EXCEPT !.announced = v] \in Session
  BY DEF Session
<1>13. \A v \in BOOLEAN : [s EXCEPT !.playing = v] \in Session
  BY DEF Session
<1>14. \A v \in Nat : [s EXCEPT !.packets = v] \in Session
  BY DEF Session
<1>15. \A v \in {NoMsg} \union Message(AudioKinds) : [s EXCEPT !.pendingAudio = v] \in Session
  BY DEF Session
<1>16. \A v \in Turns : [s EXCEPT !.pendingDelivery = v] \in Session
  BY DEF Session
<1>17. \A v \in Turns : [s EXCEPT !.closeAfter = v] \in Session
  BY DEF Session
<1>18. \A v \in Modes \union {"none"} : [s EXCEPT !.listeningMode = v] \in Session
  BY DEF Session
<1>19. \A v \in BOOLEAN : [s EXCEPT !.listenArmPending = v] \in Session
  BY DEF Session
<1>20. \A v \in BOOLEAN : [s EXCEPT !.autoSpeechActive = v] \in Session
  BY DEF Session
<1>21. \A v \in BOOLEAN : [s EXCEPT !.autoResetPending = v] \in Session
  BY DEF Session
<1>22. \A v \in BOOLEAN : [s EXCEPT !.capturing = v] \in Session
  BY DEF Session
<1>23. \A v \in BOOLEAN : [s EXCEPT !.segment = v] \in Session
  BY DEF Session
<1>24. \A v \in {"none", "open", "closing"} : [s EXCEPT !.vad = v] \in Session
  BY DEF Session
<1>25. \A v \in BOOLEAN : [s EXCEPT !.cycle = v] \in Session
  BY DEF Session
<1>26. \A v \in BOOLEAN : [s EXCEPT !.vadReset = v] \in Session
  BY DEF Session
<1>27. \A v \in {"none", "open", "finishing"} : [s EXCEPT !.asr = v] \in Session
  BY DEF Session
<1>28. \A v \in Nat : [s EXCEPT !.asrGen = v] \in Session
  BY DEF Session
<1>29. \A v \in BOOLEAN : [s EXCEPT !.asrCleanup = v] \in Session
  BY DEF Session
<1>30. \A v \in Nat : [s EXCEPT !.gate = v] \in Session
  BY DEF Session
<1>31. \A v \in Lane(UrgentKinds, UrgentCap) : [s EXCEPT !.urgent = v] \in Session
  BY DEF Session
<1>32. \A v \in Lane(ControlKinds, ControlCap) : [s EXCEPT !.control = v] \in Session
  BY DEF Session
<1>33. \A v \in Lane(AudioKinds, AudioCap) : [s EXCEPT !.audio = v] \in Session
  BY DEF Session
<1>34. \A v \in BOOLEAN : [s EXCEPT !.shutdown = v] \in Session
  BY DEF Session
<1>35. \A v \in BOOLEAN : [s EXCEPT !.lanesOpen = v] \in Session
  BY DEF Session
<1> QED BY <1>1, <1>2, <1>3, <1>4, <1>5, <1>6, <1>7, <1>8, <1>9,
           <1>10, <1>11, <1>12, <1>13, <1>14, <1>15, <1>16, <1>17, <1>18,
           <1>19, <1>20, <1>21, <1>22, <1>23, <1>24, <1>25, <1>26, <1>27,
           <1>28, <1>29, <1>30, <1>31, <1>32, <1>33, <1>34, <1>35

(* The same for the writer task's record (writer.rs, PlaybackArbiter and *)
(* the frame in flight). *)
LEMMA WriterUpdates ==
  ASSUME NEW w \in WriterState
  PROVE
    /\ \A v \in {"idle", "sending", "reporting", "failing", "done"} : [w EXCEPT !.pc = v] \in WriterState
    /\ \A v \in Turns : [w EXCEPT !.active = v] \in WriterState
    /\ \A v \in Turns : [w EXCEPT !.deferred = v] \in WriterState
    /\ \A v \in Message(Kinds) : [w EXCEPT !.frame = v] \in WriterState
    /\ \A v \in Verdict : [w EXCEPT !.report = v] \in WriterState
<1>1. \A v \in {"idle", "sending", "reporting", "failing", "done"} : [w EXCEPT !.pc = v] \in WriterState
  BY DEF WriterState
<1>2. \A v \in Turns : [w EXCEPT !.active = v] \in WriterState
  BY DEF WriterState
<1>3. \A v \in Turns : [w EXCEPT !.deferred = v] \in WriterState
  BY DEF WriterState
<1>4. \A v \in Message(Kinds) : [w EXCEPT !.frame = v] \in WriterState
  BY DEF WriterState
<1>5. \A v \in Verdict : [w EXCEPT !.report = v] \in WriterState
  BY DEF WriterState
<1> QED BY <1>1, <1>2, <1>3, <1>4, <1>5

(* The same for the history of frames that reached the socket. *)
LEMMA WireUpdates ==
  ASSUME NEW w \in WireState
  PROVE
    /\ \A v \in Turns : [w EXCEPT !.playing = v] \in WireState
    /\ \A v \in SUBSET Turns : [w EXCEPT !.starts = v] \in WireState
    /\ \A v \in SUBSET Turns : [w EXCEPT !.stops = v] \in WireState
    /\ \A v \in Nat : [w EXCEPT !.closed = v] \in WireState
<1>1. \A v \in Turns : [w EXCEPT !.playing = v] \in WireState
  BY DEF WireState
<1>2. \A v \in SUBSET Turns : [w EXCEPT !.starts = v] \in WireState
  BY DEF WireState
<1>3. \A v \in SUBSET Turns : [w EXCEPT !.stops = v] \in WireState
  BY DEF WireState
<1>4. \A v \in Nat : [w EXCEPT !.closed = v] \in WireState
  BY DEF WireState
<1> QED BY <1>1, <1>2, <1>3, <1>4

(* The types of the fields that a later proof takes out of a session *)
(* record. *)
LEMMA Fields ==
  ASSUME NEW s \in Session
  PROVE  /\ s.generation \in Nat /\ s.nextTurnId \in Nat \ {0} /\ s.turn \in Nat
         /\ s.gate \in Nat /\ s.packets \in Nat /\ s.rounds \in Nat
         /\ s.pendingAudio \in {NoMsg} \union Message(AudioKinds) /\ s.vad \in {"none", "open", "closing"}
         /\ s.listeningMode \in Modes \union {"none"}
         /\ s.urgent \in Lane(UrgentKinds, UrgentCap) /\ s.control \in Lane(ControlKinds, ControlCap)
         /\ s.audio \in Lane(AudioKinds, AudioCap)
         /\ s.autoSpeechActive \in BOOLEAN /\ s.capturing \in BOOLEAN
         /\ s.asrCleanup \in BOOLEAN
BY DEF Session, Turns

-----------------------------------------------------------------------------
(* Lanes and messages. *)

(* A lane that has room is still a lane of its capacity after one try_send. *)
LEMMA LaneAppend ==
  ASSUME NEW kinds, NEW cap \in Nat, NEW q \in Lane(kinds, cap),
         NEW m \in Message(kinds), Len(q) < cap
  PROVE  Append(q, m) \in Lane(kinds, cap)
BY DEF Lane

(* What the writer takes from a lane is a command of that lane. *)
LEMMA LaneTail ==
  ASSUME NEW kinds, NEW cap \in Nat, NEW q \in Lane(kinds, cap), q # <<>>
  PROVE  Head(q) \in Message(kinds) /\ Tail(q) \in Lane(kinds, cap)
BY DEF Lane

(* Each command constructor yields a message of the lane it is sent on *)
(* (frame.rs, UrgentCommand, OutboundCommand and OutboundAudio). *)
LEMMA MessageTypes ==
  /\ NoMsg \in {NoMsg} \union Message(AudioKinds) /\ NoMsg \in Message(Kinds)
  /\ \A c \in Nat : CloseMsg(c) \in Message(UrgentKinds)
  /\ \A g \in Nat, t \in Turns :
       /\ Msg("abort", g, t) \in Message(UrgentKinds)
       /\ Msg("start", g, t) \in Message(ControlKinds)
       /\ Msg("text", g, t) \in Message(ControlKinds)
       /\ t # NoTurn => Msg("finish", g, t) \in Message(ControlKinds)
       /\ Msg("binary", g, t) \in Message(AudioKinds)
<1>1. \A kinds : \A k \in kinds, g \in Nat, t \in Turns :
        (k = "finish" => t # NoTurn) => Msg(k, g, t) \in Message(kinds)
  BY DEF Msg, Message
<1>2. \A c \in Nat : CloseMsg(c) \in Message(UrgentKinds)
  BY DEF CloseMsg, Message, UrgentKinds, Turns, NoTurn
<1>3. NoMsg \in Message(Kinds)
  BY <1>1 DEF NoMsg, Kinds, Turns, NoTurn
<1> QED BY <1>1, <1>2, <1>3 DEF UrgentKinds, ControlKinds, AudioKinds

(* A command of one lane is a frame the writer may have in flight. *)
LEMMA MessageKinds ==
  ASSUME NEW kinds \in {UrgentKinds, ControlKinds, AudioKinds}, NEW m \in Message(kinds)
  PROVE  m \in Message(Kinds) /\ m.kind \in kinds /\ m.turn \in Turns
<1>1. kinds \subseteq Kinds
  BY DEF Kinds
<1> QED BY <1>1 DEF Message

(* try_send on the urgent lane keeps the session typed: it drops the *)
(* command rather than exceed limits.urgent_control_queue. *)
LEMMA OfferUrgentType ==
  ASSUME NEW s \in Session, NEW m \in Message(UrgentKinds)
  PROVE  OfferUrgent(s, m) \in Session
<1>1. CASE UrgentRoom(s)
  BY <1>1, LaneAppend, LimitsAssumption, Updates, Fields DEF UrgentRoom, OfferUrgent
<1>2. CASE ~UrgentRoom(s)
  BY <1>2 DEF OfferUrgent
<1> QED BY <1>1, <1>2

(* The same for the control lane and limits.outbound_control_queue. *)
LEMMA OfferControlType ==
  ASSUME NEW s \in Session, NEW m \in Message(ControlKinds)
  PROVE  OfferControl(s, m) \in Session
<1>1. CASE ControlRoom(s)
  BY <1>1, LaneAppend, LimitsAssumption, Updates, Fields DEF ControlRoom, OfferControl
<1>2. CASE ~ControlRoom(s)
  BY <1>2 DEF OfferControl
<1> QED BY <1>1, <1>2

-----------------------------------------------------------------------------
(* Helpers of the actor. *)

(* Turn ownership, gate, and the cancellation helpers keep the session *)
(* typed (delivery.rs 663-779, mod.rs 597-672). *)
LEMMA TurnTypes ==
  ASSUME NEW s \in Session
  PROVE  /\ Invalidate(s) \in Session
         /\ AdvanceGeneration(s) \in Session
         /\ BeginActiveTurn(s) \in Session
         /\ ReleaseActiveTurn(s) \in Session
         /\ CancelPendingActions(s) \in Session
         /\ CancelLlm(s) \in Session
         /\ CancelTools(s) \in Session
         /\ ForgetAsr(s) \in Session
         /\ CancelAsr(s) \in Session
         /\ CloseVad(s) \in Session
         /\ SilenceSpeech(s) \in Session
<1> USE DEF Turns, NoTurn
<1>1. Invalidate(s) \in Session
  BY Updates, Fields DEF Invalidate
<1>2. AdvanceGeneration(s) \in Session
  <2>1. s.generation + 1 \in Nat
    BY Fields
  <2> QED BY <2>1, Updates DEF AdvanceGeneration
<1>3. BeginActiveTurn(s) \in Session
  <2>1. s.nextTurnId \in Nat /\ s.generation \in Nat
    BY Fields
  <2>2. s.nextTurnId + 1 \in Nat \ {0}
    BY <2>1
  <2>3. [s EXCEPT !.turn = s.nextTurnId, !.turnGen = s.generation] \in Session
    BY <2>1, Updates
  <2> QED BY <2>2, <2>3, Updates DEF BeginActiveTurn
<1>4. ReleaseActiveTurn(s) \in Session
  BY Updates DEF ReleaseActiveTurn
<1>5. CancelPendingActions(s) \in Session
  BY Updates DEF CancelPendingActions
<1>6. CancelLlm(s) \in Session /\ CancelTools(s) \in Session
  BY Updates DEF CancelLlm, CancelTools
<1>7. ForgetAsr(s) \in Session
  BY Updates DEF ForgetAsr
<1>8. CancelAsr(s) \in Session
  <2> DEFINE due == ForgetAsr(s).asrCleanup \/ s.asr # "none"
  <2>1. due \in BOOLEAN
    OBVIOUS
  <2> HIDE DEF due
  <2>2. [ForgetAsr(s) EXCEPT !.asrCleanup = due] \in Session
    BY <1>7, <2>1, Updates
  <2> QED BY <2>2 DEF CancelAsr, due
<1>9. CloseVad(s) \in Session
  <2>1. CASE s.vad = "none"
    BY <2>1, Updates DEF CloseVad
  <2>2. CASE s.vad # "none"
    BY <2>2, Updates DEF CloseVad
  <2> QED BY <2>1, <2>2
<1>10. SilenceSpeech(s) \in Session
  BY <1>1, Updates, MessageTypes DEF SilenceSpeech
<1> QED BY <1>1, <1>2, <1>3, <1>4, <1>5, <1>6, <1>7, <1>8, <1>9, <1>10

(* The cancellation cascade keeps the session typed, through fail_closed *)
(* called from inside cancel_speech_delivery (delivery.rs 655-701, *)
(* lifecycle.rs 67-87). *)
LEMMA CancellationTypes ==
  ASSUME NEW s \in Session
  PROVE  /\ \A code \in Nat : TearDown(s, code) \in Session
         /\ FailClosedUnplayed(s) \in Session
         /\ CancelSpeechDelivery(s) \in Session
         /\ InterruptActiveTurn(s) \in Session
         /\ FailClosed(s) \in Session
<1>1. ASSUME NEW r \in Session, NEW code \in Nat PROVE TearDown(r, code) \in Session
  <2>1. [CloseVad(r) EXCEPT !.autoResetPending = FALSE, !.phase = "Closed"] \in Session
    BY TurnTypes, Updates
  <2> QED BY <2>1, MessageTypes, OfferUrgentType DEF TearDown
<1>2. ASSUME NEW r \in Session PROVE FailClosedUnplayed(r) \in Session
  <2>1. ReleaseActiveTurn(SilenceSpeech(CancelPendingActions(r))) \in Session
    BY TurnTypes
  <2>2. AdvanceGeneration(CancelAsr(CancelTools(CancelLlm(
          ReleaseActiveTurn(SilenceSpeech(CancelPendingActions(r))))))) \in Session
    BY <2>1, TurnTypes
  <2> QED BY <1>1, <2>2 DEF FailClosedUnplayed
<1>3. ASSUME NEW r \in Session PROVE CancelSpeechDelivery(r) \in Session
  <2> DEFINE quiet == SilenceSpeech(r)
             kept  == [quiet EXCEPT !.ttsStarted = FALSE]
  <2>1. quiet \in Session /\ kept \in Session
    BY TurnTypes, Updates
  <2>2. ReleaseActiveTurn(quiet) \in Session
    BY <2>1, TurnTypes
  <2>3. OfferUrgent(kept, Msg("abort", 0, r.turn)) \in Session
    BY <2>1, Fields, MessageTypes, OfferUrgentType DEF Turns
  <2>4. [FailClosedUnplayed(kept) EXCEPT !.shutdown = TRUE] \in Session
    BY <2>1, <1>2, Updates
  <2> QED BY <2>1, <2>2, <2>3, <2>4 DEF CancelSpeechDelivery
<1>4. InterruptActiveTurn(s) \in Session
  BY <1>3, TurnTypes DEF InterruptActiveTurn
<1>5. FailClosed(s) \in Session
  BY <1>1, <1>4, TurnTypes DEF FailClosed
<1> QED BY <1>1, <1>2, <1>3, <1>4, <1>5

(* replace_listening_mode keeps the session typed (listening.rs 88-173). *)
LEMMA ReplaceListeningModeType ==
  ASSUME NEW s \in Session, NEW mode \in Modes \union {"none"}, NEW c
  PROVE  ReplaceListeningMode(s, mode, c) \in Session
<1> DEFINE idle == CloseVad(CancelAsr(CancelLlm(AdvanceGeneration(
                     CancelSpeechDelivery([s EXCEPT !.listenArmPending = FALSE])))))
           base == [idle EXCEPT !.autoSpeechActive = FALSE,
                           !.autoResetPending = FALSE, !.cycle = FALSE,
                           !.vadReset = FALSE, !.segment = FALSE,
                           !.listeningMode = mode]
<1>1. idle \in Session
  BY Updates, TurnTypes, CancellationTypes
<1> HIDE DEF idle
<1>2. base \in Session /\ base.generation \in Nat
  BY <1>1, Updates, Fields
<1> HIDE DEF base
<1>3. [base EXCEPT !.asr = "open", !.asrGen = base.generation,
                   !.capturing = TRUE, !.phase = "Listening"] \in Session
  BY <1>2, Updates
<1>4. [base EXCEPT !.phase = "Ready"] \in Session
  BY <1>2, Updates
<1>5. [base EXCEPT !.vad = "open", !.cycle = TRUE, !.phase = "Listening"] \in Session
  BY <1>2, Updates
<1>6. OfferUrgent([base EXCEPT !.phase = "Closed"], CloseMsg(1013)) \in Session
  <2>1. [base EXCEPT !.phase = "Closed"] \in Session
    BY <1>2, Updates
  <2>2. CloseMsg(1013) \in Message(UrgentKinds)
    BY MessageTypes
  <2> QED BY <2>1, <2>2, OfferUrgentType
<1> QED BY <1>3, <1>4, <1>5, <1>6 DEF ReplaceListeningMode, base, idle

(* reset_vad_capture_cycle keeps the session typed (listening.rs 568-576). *)
LEMMA ResetVadCaptureCycleType ==
  ASSUME NEW s \in Session, NEW c
  PROVE  ResetVadCaptureCycle(s, c) \in Session
<1> DEFINE accepted == s.vad = "open" /\ ~s.vadReset /\ c["vad"]
           asked    == [s EXCEPT !.cycle = FALSE, !.vadReset = accepted]
<1>1. accepted \in BOOLEAN
  OBVIOUS
<1> HIDE DEF accepted
<1>2. asked \in Session
  BY <1>1, Updates
<1> HIDE DEF asked
<1>3. [asked EXCEPT !.autoResetPending = TRUE] \in Session /\ FailClosed(asked) \in Session
  BY <1>2, Updates, CancellationTypes
<1> QED BY <1>3 DEF ResetVadCaptureCycle, asked, accepted

(* complete_recognition keeps the session typed (lifecycle.rs 4-57). *)
LEMMA CompleteRecognitionType ==
  ASSUME NEW s \in Session, NEW c
  PROVE  CompleteRecognition(s, c) \in Session
<1> DEFINE free == ReleaseActiveTurn(s)
<1>1. free \in Session /\ free.listeningMode \in Modes \union {"none"}
  BY TurnTypes, Fields
<1>2. ReplaceListeningMode(free, free.listeningMode, c) \in Session
  BY <1>1, ReplaceListeningModeType
<1>3. ResetVadCaptureCycle(free, c) \in Session /\ [free EXCEPT !.phase = "Ready"] \in Session
  BY <1>1, ResetVadCaptureCycleType, Updates
<1> QED BY <1>1, <1>2, <1>3 DEF CompleteRecognition

(* Starting, failing and finishing a turn's delivery keep the session typed *)
(* (delivery.rs 4-293 and 624-646, listening.rs 361-378). *)
LEMMA DeliveryTypes ==
  ASSUME NEW s \in Session, NEW c
  PROVE  /\ FailSpeechDelivery(s, c) \in Session
         /\ CommitUserText(s) \in Session
         /\ StartLlmRound(s, c) \in Session
         /\ BeginSpeechDelivery(s, c) \in Session
         /\ \A origin \in {"tool", "direct"} : BeginDirectSpeech(s, origin) \in Session
         /\ FinishManual(s, c) \in Session
<1>1. FailSpeechDelivery(s, c) \in Session
  <2> DEFINE armed == IF s.ttsStarted THEN s ELSE CancelPendingActions(s)
  <2>1. armed \in Session
    BY TurnTypes
  <2> HIDE DEF armed
  <2>2. AdvanceGeneration(CancelTools(CancelLlm(CancelSpeechDelivery(armed)))) \in Session
    BY <2>1, TurnTypes, CancellationTypes
  <2> QED BY <2>2, CompleteRecognitionType DEF FailSpeechDelivery, armed
<1>2. CommitUserText(s) \in Session
  BY Fields, MessageTypes, OfferControlType DEF CommitUserText, Turns
<1>3. ASSUME NEW r \in Session PROVE StartLlmRound(r, c) \in Session
  <2> DEFINE asked == [r EXCEPT !.origin = "llm"]
  <2>1. asked \in Session /\ FailClosed(r) \in Session /\ r.generation \in Nat
    BY Updates, CancellationTypes, Fields
  <2> HIDE DEF asked
  <2>2. [asked EXCEPT !.llmGen = r.generation] \in Session
    BY <2>1, Updates
  <2>3. CompleteRecognition(ReleaseActiveTurn(asked), c) \in Session
    BY <2>1, TurnTypes, CompleteRecognitionType
  <2> QED BY <2>1, <2>2, <2>3 DEF StartLlmRound, asked
<1>4. BeginSpeechDelivery(s, c) \in Session
  BY <1>3, Updates DEF BeginSpeechDelivery
<1>5. ASSUME NEW origin \in {"tool", "direct"}
      PROVE  BeginDirectSpeech(s, origin) \in Session
  BY Updates DEF BeginDirectSpeech
<1>6. FinishManual(s, c) \in Session
  <2> DEFINE begun == BeginActiveTurn(s)
  <2>1. begun \in Session
    BY TurnTypes
  <2> HIDE DEF begun
  <2>2. CompleteRecognition(CancelAsr(s), c) \in Session
    BY TurnTypes, CompleteRecognitionType
  <2>3. ReleaseActiveTurn(begun) \in Session /\ ReleaseActiveTurn(CancelAsr(begun)) \in Session
    BY <2>1, TurnTypes
  <2>4. [begun EXCEPT !.asr = "finishing"] \in Session
    BY <2>1, Updates
  <2>5. [ReleaseActiveTurn(CancelAsr(begun)) EXCEPT !.phase = "Ready"] \in Session
    BY <2>3, Updates
  <2> QED BY <2>2, <2>3, <2>4, <2>5 DEF FinishManual, begun
<1> QED BY <1>1, <1>2, <1>3, <1>4, <1>5, <1>6

(* Opening recognition for an utterance and restarting the capture cycle *)
(* keep the session typed (listening.rs 177-231 and 601-631). *)
LEMMA SpeechCaptureTypes ==
  ASSUME NEW s \in Session, NEW c, NEW pushed \in BOOLEAN
  PROVE  RestartCaptureCycle(s, c) \in Session /\ OpenAsrForSpeech(s, pushed, c) \in Session
<1>1. RestartCaptureCycle(s, c) \in Session
  <2> DEFINE reset == ResetVadCaptureCycle([s EXCEPT !.autoSpeechActive = FALSE,
                                                     !.segment = FALSE], c)
  <2>1. reset \in Session
    BY Updates, ResetVadCaptureCycleType
  <2> HIDE DEF reset
  <2>2. [reset EXCEPT !.phase = "Processing"] \in Session
    BY <2>1, Updates
  <2> QED BY <2>1, <2>2 DEF RestartCaptureCycle, reset
<1>2. OpenAsrForSpeech(s, pushed, c) \in Session
  <2> DEFINE heard == [s EXCEPT !.autoSpeechActive = TRUE]
             open  == [heard EXCEPT !.asr = "open", !.asrGen = s.generation]
  <2>1. heard \in Session /\ s.generation \in Nat
    BY Updates, Fields
  <2> HIDE DEF heard
  <2>2. open \in Session
    BY <2>1, Updates
  <2> HIDE DEF open
  <2>3. [CancelAsr(open) EXCEPT !.autoSpeechActive = FALSE] \in Session
    BY <2>2, TurnTypes, Updates
  <2> QED BY <2>1, <2>2, <2>3 DEF OpenAsrForSpeech, open, heard
<1> QED BY <1>1, <1>2

(* A turn outcome applied to the session, with or without the End *)
(* Conversation close, keeps it typed (ingress.rs 93-155, lifecycle.rs *)
(* 89-105). *)
LEMMA EndingTypes ==
  ASSUME NEW s \in Session, NEW o \in Verdict, NEW c
  PROVE  CloseNormally(s) \in Session /\ TurnClosed(s, o, c) \in Session
<1>1. ASSUME NEW r \in Session PROVE CloseNormally(r) \in Session
  <2>1. [CloseVad(r) EXCEPT !.autoResetPending = FALSE, !.phase = "Closed"] \in Session
    BY TurnTypes, Updates
  <2>2. CloseMsg(1000) \in Message(UrgentKinds)
    BY MessageTypes
  <2> QED BY <2>1, <2>2, OfferUrgentType DEF CloseNormally
<1>2. TurnClosed(s, o, c) \in Session
  <2> DEFINE freed == ReleaseActiveTurn([s EXCEPT !.closeAfter = NoTurn,
                        !.ttsStarted = FALSE, !.pendingDelivery = NoTurn])
  <2>1. freed \in Session
    BY Updates, TurnTypes DEF NoTurn, Turns
  <2> HIDE DEF freed
  <2>2. CloseNormally(freed) \in Session /\ CompleteRecognition(freed, c) \in Session
    BY <2>1, <1>1, CompleteRecognitionType
  <2> QED BY <2>2 DEF TurnClosed, freed
<1> QED BY <1>1, <1>2

(* What is left of the actor after its drop is typed (lifecycle.rs *)
(* 134-157). *)
LEMMA DroppedType ==
  ASSUME NEW s \in Session
  PROVE  Dropped(s) \in Session
<1> DEFINE gone == CloseVad(ReleaseActiveTurn(CancelLlm(CancelAsr(s))))
<1>1. gone \in Session /\ NoMsg \in {NoMsg} \union Message(AudioKinds)
  BY TurnTypes, MessageTypes
<1> HIDE DEF gone
<1>2. [gone EXCEPT !.phase = "Closed", !.speech = "idle", !.announced = FALSE,
         !.playing = FALSE, !.packets = 0, !.pendingAudio = NoMsg,
         !.batchGen = 0] \in Session
  BY <1>1, Updates
<1> QED BY <1>2 DEF Dropped, gone

-----------------------------------------------------------------------------
(* Actions keep the types. *)

(* A handler that leaves a typed session leaves every variable typed. *)
LEMMA HandlerTypes ==
  ASSUME TypeOK, NEW s \in Session
  PROVE  (ClientInput(s) \/ Provider(s) \/ Fault(s)) => TypeOK'
<1>1. ClientInput(s) => TypeOK'
  BY DEF ClientInput, Handle, TypeOK
<1>2. Provider(s) => TypeOK'
  BY DEF Provider, Handle, TypeOK
<1>3. Fault(s) => TypeOK'
  BY DEF Fault, Handle, TypeOK
<1> QED BY <1>1, <1>2, <1>3

(* Client commands and direct requests preserve TypeOK. *)
LEMMA ClientTypes ==
  ASSUME TypeOK, NEW c \in Replies, Client(c)
  PROVE  TypeOK'
<1>0. sess \in Session
  BY DEF TypeOK
<1>1. ASSUME NEW mode \in Modes, StartListening(mode, c) PROVE TypeOK'
  <2>1. [sess EXCEPT !.listeningMode = mode, !.listenArmPending = TRUE] \in Session
    BY <1>0, Updates
  <2>2. RestartCaptureCycle(sess, c) \in Session /\ ReplaceListeningMode(sess, mode, c) \in Session
    BY <1>0, SpeechCaptureTypes, ReplaceListeningModeType
  <2> QED BY <1>0, <1>1, <2>1, <2>2, HandlerTypes DEF StartListening
<1>2. ASSUME NEW hasUtterance \in BOOLEAN, StopManual(hasUtterance, c) PROVE TypeOK'
  <2> DEFINE stopped == [sess EXCEPT !.capturing = FALSE]
  <2>1. stopped \in Session
    BY <1>0, Updates
  <2> HIDE DEF stopped
  <2>2. FinishManual([stopped EXCEPT !.phase = "Processing"], c) \in Session
    BY <2>1, Updates, DeliveryTypes
  <2>3. [CancelAsr(stopped) EXCEPT !.phase = "Ready"] \in Session
    BY <2>1, Updates, TurnTypes
  <2> QED BY <1>2, <2>2, <2>3, HandlerTypes DEF StopManual, stopped
<1>3. ASSUME StopContinuous PROVE TypeOK'
  <2> DEFINE off == [sess EXCEPT !.vad = "none", !.cycle = FALSE, !.vadReset = FALSE,
                !.listeningMode = "none", !.listenArmPending = FALSE,
                !.autoSpeechActive = FALSE, !.autoResetPending = FALSE,
                !.segment = FALSE]
  <2>1. off \in Session
    BY <1>0, Updates
  <2> HIDE DEF off
  <2>2. [CancelAsr(off) EXCEPT !.phase = "Ready"] \in Session
    BY <2>1, Updates, TurnTypes
  <2> QED BY <1>3, <2>1, <2>2, HandlerTypes DEF StopContinuous, off
<1>4. ASSUME Detect(c) PROVE TypeOK'
  <2> DEFINE active == sess.autoSpeechActive /\ sess.listeningMode # "auto"
             heard  == [sess EXCEPT !.capturing = FALSE, !.autoSpeechActive = active]
             begun  == [BeginActiveTurn(CancelAsr(heard)) EXCEPT !.phase = "Processing"]
  <2>1. active \in BOOLEAN
    BY <1>0, Fields
  <2> HIDE DEF active
  <2>2. heard \in Session
    BY <1>0, <2>1, Updates
  <2> HIDE DEF heard
  <2>3. begun \in Session /\ [CancelAsr(heard) EXCEPT !.phase = "Ready"] \in Session
    BY <2>2, TurnTypes, Updates
  <2> HIDE DEF begun
  <2>4. BeginSpeechDelivery(CommitUserText(begun), c) \in Session /\ FailClosed(heard) \in Session
    BY <2>2, <2>3, DeliveryTypes, CancellationTypes
  <2> QED BY <1>4, <2>2, <2>3, <2>4, HandlerTypes DEF Detect, begun, heard, active
<1>5. ASSUME Abort(c) PROVE TypeOK'
  <2> DEFINE halted == [AdvanceGeneration(InterruptActiveTurn(sess)) EXCEPT !.capturing = FALSE]
             quiet  == [halted EXCEPT !.autoSpeechActive = FALSE, !.segment = FALSE]
             reset  == ResetVadCaptureCycle(quiet, c)
  <2>1. halted \in Session
    BY <1>0, CancellationTypes, TurnTypes, Updates
  <2> HIDE DEF halted
  <2>2. quiet \in Session
    BY <2>1, Updates
  <2>3. [CloseVad(halted) EXCEPT !.listeningMode = "none",
                   !.listenArmPending = FALSE, !.autoResetPending = FALSE,
                   !.phase = "Ready"] \in Session
    BY <2>1, TurnTypes, Updates
  <2> HIDE DEF quiet
  <2>4. reset \in Session
    BY <2>2, ResetVadCaptureCycleType
  <2> HIDE DEF reset
  <2>5. [reset EXCEPT !.phase = "Processing"] \in Session
    BY <2>4, Updates
  <2> QED BY <1>5, <2>2, <2>3, <2>4, <2>5, HandlerTypes DEF Abort, reset, quiet, halted
<1>6. ASSUME NEW answered \in BOOLEAN, AdmitDirectSpeech(answered, c) PROVE TypeOK'
  <2> DEFINE begun    == [BeginActiveTurn(AdvanceGeneration(sess)) EXCEPT !.phase = "Processing"]
             admitted == BeginDirectSpeech(begun, "direct")
  <2>1. begun \in Session /\ AdvanceGeneration(sess) \in Session
    BY <1>0, TurnTypes, Updates
  <2> HIDE DEF begun
  <2>2. admitted \in Session
    BY <2>1, DeliveryTypes
  <2> HIDE DEF admitted
  <2>3. CompleteRecognition(InterruptActiveTurn(admitted), c) \in Session
    BY <2>2, CancellationTypes, CompleteRecognitionType
  <2> QED BY <1>6, <2>1, <2>2, <2>3, HandlerTypes DEF AdmitDirectSpeech, admitted, begun
<1> QED BY <1>1, <1>2, <1>3, <1>4, <1>5, <1>6 DEF Client

(* ASR events and cleanup events preserve TypeOK. *)
LEMMA RecognitionTypes ==
  ASSUME TypeOK, NEW c \in Replies,
         AsrAnswers(c) \/ AsrFailed(c) \/ CleanupEvent
  PROVE  TypeOK'
<1>0. sess \in Session /\ FailClosed(sess) \in Session
  BY CancellationTypes DEF TypeOK
<1>1. ASSUME NEW hasText \in BOOLEAN, AsrFinal(hasText, c) PROVE TypeOK'
  <2>1. ForgetAsr(sess) \in Session
    BY <1>0, TurnTypes
  <2>2. BeginSpeechDelivery(CommitUserText(ForgetAsr(sess)), c) \in Session
    BY <2>1, DeliveryTypes
  <2>3. CompleteRecognition(ForgetAsr(sess), c) \in Session
    BY <2>1, CompleteRecognitionType
  <2> QED BY <1>1, <2>2, <2>3, HandlerTypes DEF AsrFinal
<1>2. ASSUME AsrFailed(c) PROVE TypeOK'
  <2>1. CompleteRecognition(ForgetAsr(sess), c) \in Session
    BY <1>0, TurnTypes, CompleteRecognitionType
  <2> QED BY <1>2, <2>1, HandlerTypes DEF AsrFailed
<1>3. ASSUME AsrFinalTimedOut PROVE TypeOK'
  BY <1>0, <1>3, HandlerTypes DEF AsrFinalTimedOut
<1>4. ASSUME CleanupEvent PROVE TypeOK'
  <2>1. [sess EXCEPT !.asrCleanup = FALSE] \in Session
    BY <1>0, Updates
  <2> QED BY <1>0, <1>4, <2>1, HandlerTypes DEF CleanupEvent, AsrCleanedUp, AsrCleanupTimedOut
<1> QED BY <1>1, <1>2, <1>3, <1>4 DEF AsrAnswers

(* Start and end of speech and refused audio pushes preserve TypeOK. *)
LEMMA UtteranceTypes ==
  ASSUME TypeOK, NEW c \in Replies, Utterance(c) \/ SpeechEnd(c)
  PROVE  TypeOK'
<1>0. sess \in Session /\ FailClosed(sess) \in Session /\ CancelAsr(sess) \in Session
  BY CancellationTypes, TurnTypes DEF TypeOK
<1>1. ASSUME NEW pushed \in BOOLEAN, SpeechStart(pushed, c) PROVE TypeOK'
  <2> DEFINE heard == [sess EXCEPT !.segment = TRUE]
  <2>1. heard \in Session
    BY <1>0, Updates
  <2> HIDE DEF heard
  <2>2. OpenAsrForSpeech(heard, pushed, c) \in Session
    BY <2>1, SpeechCaptureTypes
  <2>3. AdvanceGeneration(InterruptActiveTurn(heard)) \in Session
    BY <2>1, CancellationTypes, TurnTypes
  <2>4. OpenAsrForSpeech(AdvanceGeneration(InterruptActiveTurn(heard)), pushed, c) \in Session
    BY <2>3, SpeechCaptureTypes
  <2>5. sess' \in Session
    BY <1>1, <2>1, <2>2, <2>4 DEF SpeechStart, Handle, heard
  <2> QED BY <1>1, <2>5 DEF SpeechStart, Handle, TypeOK
<1>2. ASSUME AsrPushRefused PROVE TypeOK'
  <2>1. [CancelAsr(sess) EXCEPT !.capturing = FALSE] \in Session
    BY <1>0, Updates
  <2> DEFINE held == sess.asr = "none"
  <2>2. held \in BOOLEAN
    OBVIOUS
  <2> HIDE DEF held
  <2>3. [CancelAsr(sess) EXCEPT !.phase = "Ready", !.capturing = held] \in Session
    BY <1>0, <2>2, Updates
  <2> QED BY <1>0, <1>2, <2>1, <2>3, HandlerTypes DEF AsrPushRefused, held
<1>3. ASSUME VadPushRefused PROVE TypeOK'
  BY <1>0, <1>3, HandlerTypes DEF VadPushRefused
<1>4. ASSUME SpeechEnd(c) PROVE TypeOK'
  <2> DEFINE over == [sess EXCEPT !.segment = FALSE]
             done == [over EXCEPT !.autoSpeechActive = FALSE, !.phase = "Processing"]
  <2>1. over \in Session /\ done \in Session
    BY <1>0, Updates
  <2> HIDE DEF done, over
  <2>2. FinishManual(done, c) \in Session /\ CompleteRecognition(done, c) \in Session
    BY <2>1, DeliveryTypes, CompleteRecognitionType
  <2> QED BY <1>4, <2>1, <2>2, HandlerTypes DEF SpeechEnd, done, over
<1> QED BY <1>1, <1>2, <1>3, <1>4 DEF Utterance

(* VAD worker events preserve TypeOK. *)
LEMMA VadTypes ==
  ASSUME TypeOK, VadAnswers \/ VadFailed
  PROVE  TypeOK'
<1>0. sess \in Session /\ FailClosed(sess) \in Session
  BY CancellationTypes DEF TypeOK
<1>1. ASSUME ResetDone PROVE TypeOK'
  <2> DEFINE ph == IF sess.llmGen = 0 /\ ~sess.ttsStarted THEN "Listening" ELSE sess.phase
  <2>1. ph \in {"Ready", "Listening", "Processing", "Speaking", "Closed"}
    BY <1>0 DEF Session
  <2> HIDE DEF ph
  <2> DEFINE done == [sess EXCEPT !.autoResetPending = FALSE, !.cycle = TRUE,
                                  !.vadReset = FALSE, !.segment = FALSE, !.phase = ph]
  <2>2. done \in Session
    BY <1>0, <2>1, Updates
  <2>3. Provider(done)
    BY <1>1 DEF ResetDone, ph
  <2> HIDE DEF done
  <2> QED BY <2>2, <2>3, HandlerTypes
<1>2. ASSUME VadClosed PROVE TypeOK'
  <2>1. [sess EXCEPT !.vad = "none"] \in Session
    BY <1>0, Updates
  <2> QED BY <1>2, <2>1, HandlerTypes DEF VadClosed
<1>3. ASSUME VadFailed PROVE TypeOK'
  BY <1>0, <1>3, HandlerTypes DEF VadFailed
<1> QED BY <1>1, <1>2, <1>3 DEF VadAnswers

(* LLM events and tool batch events preserve TypeOK. *)
LEMMA ModelTypes ==
  ASSUME TypeOK, NEW c \in Replies, LlmAnswers(c) \/ ToolEvent(c) \/ ArmClose
  PROVE  TypeOK'
<1> DEFINE ended == [sess EXCEPT !.llmGen = 0]
           done  == [sess EXCEPT !.batchGen = 0]
<1>0. /\ sess \in Session /\ sess.generation \in Nat /\ sess.turn \in Turns
      /\ sess.rounds \in Nat
  BY Fields DEF TypeOK, Turns
<1>1. ended \in Session /\ done \in Session /\ done.rounds \in Nat
  BY <1>0, Updates, Fields
<1> HIDE DEF ended, done
<1>2. /\ CompleteRecognition(ended, c) \in Session
      /\ CompleteRecognition(done, c) \in Session
      /\ FailSpeechDelivery(ended, c) \in Session
      /\ FailSpeechDelivery(sess, c) \in Session
  BY <1>0, <1>1, CompleteRecognitionType, DeliveryTypes
<1>3. ASSUME LlmDelta PROVE TypeOK'
  <2>1. [sess EXCEPT !.speech = "partial"] \in Session
    BY <1>0, Updates
  <2> QED BY <1>3, <2>1, HandlerTypes DEF LlmDelta
<1>4. ASSUME NEW deliverable \in BOOLEAN, LlmFinished(deliverable, c) PROVE TypeOK'
  <2>1. [ended EXCEPT !.speech = "finished"] \in Session
    BY <1>1, Updates
  <2> QED BY <1>4, <1>2, <2>1, HandlerTypes DEF LlmFinished, ended
<1>5. ASSUME LlmFailed(c) PROVE TypeOK'
  BY <1>5, <1>2, HandlerTypes DEF LlmFailed, ended
<1>6. ASSUME NEW accepted \in BOOLEAN, LlmCallsTools(accepted, c) PROVE TypeOK'
  <2>1. [ended EXCEPT !.batchGen = sess.generation] \in Session
    BY <1>0, <1>1, Updates
  <2> QED BY <1>6, <1>2, <2>1, HandlerTypes DEF LlmCallsTools, ended
<1>7. ASSUME ArmClose PROVE TypeOK'
  <2>1. [sess EXCEPT !.closeAfter = sess.turn] \in Session
    BY <1>0, Updates
  <2> QED BY <1>7, <2>1, HandlerTypes DEF ArmClose
<1>8. ASSUME NEW how \in {"continue", "speak", "silent"}, FinishToolBatch(how, c)
      PROVE  TypeOK'
  <2>1. BeginDirectSpeech(done, "tool") \in Session
    BY <1>1, DeliveryTypes
  <2> DEFINE next == done.rounds + 1
  <2>2. next \in Nat
    BY <1>1
  <2> HIDE DEF next
  <2>3. [done EXCEPT !.rounds = next] \in Session
    BY <1>1, <2>2, Updates
  <2>4. StartLlmRound([done EXCEPT !.rounds = next], c) \in Session
    BY <2>3, DeliveryTypes
  <2> QED BY <1>8, <1>1, <1>2, <2>1, <2>4, HandlerTypes DEF FinishToolBatch, done, next
<1> QED BY <1>3, <1>4, <1>5, <1>6, <1>7, <1>8 DEF LlmAnswers, ToolEvent

(* Speech output events preserve TypeOK; a packet waits in pending_audio *)
(* rather than exceed limits.outbound_audio_queue. *)
LEMMA SpeechTypes ==
  ASSUME TypeOK, NEW c \in Replies, SpeechProgress(c) \/ SpeechFailed(c)
  PROVE  TypeOK'
<1>0. /\ sess \in Session /\ sess.generation \in Nat /\ sess.turn \in Turns
      /\ sess.pendingAudio \in {NoMsg} \union Message(AudioKinds)
      /\ sess.audio \in Lane(AudioKinds, AudioCap) /\ sess.packets \in Nat
  BY Fields DEF TypeOK, Turns
<1>1. /\ Msg("text", sess.generation, sess.turn) \in Message(ControlKinds)
      /\ Msg("start", sess.generation, sess.turn) \in Message(ControlKinds)
      /\ Msg("binary", sess.generation, sess.turn) \in Message(AudioKinds)
      /\ sess.turn # NoTurn => Msg("finish", 0, sess.turn) \in Message(ControlKinds)
  BY <1>0, MessageTypes
<1>2. ASSUME NEW m \in Message(AudioKinds), AudioRoom(sess)
      PROVE  Append(sess.audio, m) \in Lane(AudioKinds, AudioCap)
  BY <1>0, <1>2, LaneAppend, LimitsAssumption DEF AudioRoom
<1>3. ASSUME FlushPendingAudio PROVE TypeOK'
  <2> DEFINE taken == [sess EXCEPT !.pendingAudio = NoMsg]
  <2>1. taken \in Session
    BY <1>0, Updates
  <2>2. taken.audio = sess.audio
    BY <1>0 DEF Session
  <2> HIDE DEF taken
  <2>3. sess.pendingAudio \in Message(AudioKinds)
    BY <1>0, <1>3 DEF FlushPendingAudio, Polled
  <2>4. ASSUME AudioRoom(sess)
        PROVE  [taken EXCEPT !.audio = Append(taken.audio, sess.pendingAudio)] \in Session
    BY <1>2, <2>1, <2>2, <2>3, <2>4, Updates
  <2>5. sess.lanesOpen => AudioRoom(sess)
    BY <1>3 DEF FlushPendingAudio
  <2> QED BY <1>3, <2>1, <2>4, <2>5, HandlerTypes DEF FlushPendingAudio, taken
<1>4. ASSUME SegmentReady(c) PROVE TypeOK'
  <2> DEFINE said == [sess EXCEPT !.announced = TRUE]
  <2>1. said \in Session
    BY <1>0, Updates
  <2> HIDE DEF said
  <2>2. /\ OfferControl(said, Msg("text", sess.generation, sess.turn)) \in Session
        /\ FailSpeechDelivery(said, c) \in Session
    BY <1>1, <2>1, OfferControlType, DeliveryTypes
  <2> QED BY <1>4, <2>1, <2>2, HandlerTypes DEF SegmentReady, said
<1>5. ASSUME SpeechStarted(c) PROVE TypeOK'
  <2> DEFINE begun == [sess EXCEPT !.playing = TRUE, !.ttsStarted = TRUE,
                                   !.phase = "Speaking"]
             start == OfferControl(begun, Msg("start", sess.generation, sess.turn))
  <2>1. begun \in Session
    BY <1>0, Updates
  <2> HIDE DEF begun
  <2>2. start \in Session
    BY <1>1, <2>1, OfferControlType
  <2> HIDE DEF start
  <2>3. /\ OfferControl(start, Msg("text", sess.generation, sess.turn)) \in Session
        /\ FailSpeechDelivery(start, c) \in Session
        /\ FailSpeechDelivery(begun, c) \in Session
    BY <1>1, <2>1, <2>2, OfferControlType, DeliveryTypes
  <2> QED BY <1>5, <2>2, <2>3, HandlerTypes DEF SpeechStarted, start, begun
<1>6. ASSUME AudioPacket(c) PROVE TypeOK'
  <2> DEFINE packet == Msg("binary", sess.generation, sess.turn)
             count  == sess.packets + 1
             sent   == [sess EXCEPT !.packets = count]
  <2>1. count \in Nat
    BY <1>0
  <2> HIDE DEF count
  <2>2. sent \in Session
    BY <1>0, <2>1, Updates
  <2>3. sent.audio = sess.audio
    BY <1>0 DEF Session
  <2> HIDE DEF sent
  <2>4. FailSpeechDelivery(sent, c) \in Session
    BY <2>2, DeliveryTypes
  <2>5. packet \in Message(AudioKinds)
    BY <1>1
  <2> HIDE DEF packet
  <2>6. [sent EXCEPT !.pendingAudio = packet] \in Session
    BY <2>2, <2>5, Updates
  <2>7. ASSUME AudioRoom(sess)
        PROVE  [sent EXCEPT !.audio = Append(sent.audio, packet)] \in Session
    BY <1>2, <2>2, <2>3, <2>5, <2>7, Updates
  <2> QED BY <1>6, <2>2, <2>4, <2>6, <2>7, HandlerTypes
          DEF AudioPacket, packet, sent, count
<1>7. ASSUME Drained(c) PROVE TypeOK'
  <2> DEFINE spent    == [sess EXCEPT !.speech = "idle", !.announced = FALSE,
                                      !.playing = FALSE, !.packets = 0]
             finished == OfferControl(spent, Msg("finish", 0, sess.turn))
  <2>1. spent \in Session
    BY <1>0, Updates
  <2> HIDE DEF spent
  <2>2. sess.turn # NoTurn => finished \in Session
    BY <1>1, <2>1, OfferControlType
  <2> HIDE DEF finished
  <2>3. /\ sess.turn # NoTurn => [finished EXCEPT !.pendingDelivery = sess.turn] \in Session
        /\ FailSpeechDelivery(spent, c) \in Session
        /\ FailClosed(spent) \in Session
    BY <1>0, <2>1, <2>2, Updates, DeliveryTypes, CancellationTypes
  <2> QED BY <1>7, <2>3, HandlerTypes DEF Drained, finished, spent
<1>8. ASSUME SpeechFailed(c) PROVE TypeOK'
  BY <1>0, <1>8, DeliveryTypes, HandlerTypes DEF SpeechFailed
<1> QED BY <1>3, <1>4, <1>5, <1>6, <1>7, <1>8 DEF SpeechProgress

(* What the actor takes from its mailbox is an outcome. *)
LEMMA MailboxTail ==
  ASSUME NEW q \in Mailbox, q # <<>>
  PROVE  Head(q) \in Verdict /\ Tail(q) \in Mailbox
BY LimitsAssumption DEF Mailbox

(* A mailbox with room is still within its capacity after one report. *)
LEMMA MailboxAppend ==
  ASSUME NEW q \in Mailbox, NEW o \in Verdict, Len(q) < MailboxCap
  PROVE  Append(q, o) \in Mailbox
BY LimitsAssumption DEF Mailbox

(* Applying one writer outcome preserves TypeOK. *)
LEMMA OutcomeTypes ==
  ASSUME TypeOK, NEW c \in Replies, OnWriterEvent(c)
  PROVE  TypeOK'
<1>1. Head(mailbox) \in Verdict /\ Tail(mailbox) \in Mailbox
  BY MailboxTail DEF OnWriterEvent, TypeOK
<1>2. FailClosed(sess) \in Session /\ TurnClosed(sess, Head(mailbox), c) \in Session
  BY <1>1, CancellationTypes, EndingTypes DEF TypeOK
<1>3. sess' \in Session /\ mailbox' \in Mailbox
  BY <1>1, <1>2 DEF OnWriterEvent
<1>4. delivered' \in SUBSET Turns
  BY <1>1 DEF OnWriterEvent, TypeOK, Verdict
<1> QED BY <1>3, <1>4 DEF OnWriterEvent, TypeOK

(* Every writer step preserves TypeOK: a lane only shrinks, a report waits *)
(* for room in the mailbox. *)
LEMMA WriterTypes ==
  ASSUME TypeOK, Writer
  PROVE  TypeOK'
<1>0. /\ sess \in Session /\ writer \in WriterState /\ wire \in WireState
      /\ mailbox \in Mailbox /\ NoMsg \in Message(Kinds)
      /\ sess.urgent \in Lane(UrgentKinds, UrgentCap)
      /\ sess.control \in Lane(ControlKinds, ControlCap)
      /\ sess.audio \in Lane(AudioKinds, AudioCap)
  BY Fields, MessageTypes DEF TypeOK
<1>1. [sess EXCEPT !.lanesOpen = FALSE] \in Session
  BY <1>0, Updates
<1>2. ASSUME TakeUrgent PROVE TypeOK'
  <2> DEFINE m == Head(sess.urgent)
  <2>1. /\ m \in Message(Kinds) /\ m.turn \in Turns
        /\ Tail(sess.urgent) \in Lane(UrgentKinds, UrgentCap)
    BY <1>0, <1>2, LaneTail, MessageKinds, LimitsAssumption DEF TakeUrgent
  <2>2. sess' \in Session
    BY <1>0, <1>2, <2>1, Updates DEF TakeUrgent
  <2> HIDE DEF m
  <2>3. Outcome("aborted", m.turn) \in Verdict
    BY <2>1 DEF Outcome, Verdict
  <2>4. writer' \in WriterState
    <3>1. CASE m.kind = "abort" /\ writer.active # m.turn
      <4>1. writer' = [writer EXCEPT !.pc = "reporting",
                                     !.report = Outcome("aborted", m.turn)]
        BY <1>2, <3>1 DEF TakeUrgent, Report, m
      <4> QED BY <1>0, <2>3, <4>1, WriterUpdates
    <3>2. CASE ~(m.kind = "abort" /\ writer.active # m.turn)
      <4> DEFINE a == IF m.kind = "abort" THEN NoTurn ELSE writer.active
                 d == IF m.kind = "abort" THEN NoTurn ELSE writer.deferred
      <4>1. a \in Turns /\ d \in Turns
        BY <1>0 DEF WriterState, NoTurn, Turns
      <4>2. writer' = [writer EXCEPT !.pc = "sending", !.frame = m, !.active = a,
                                     !.deferred = d]
        BY <1>2, <3>2 DEF TakeUrgent, m
      <4> HIDE DEF a, d
      <4> QED BY <1>0, <2>1, <4>1, <4>2, WriterUpdates
    <3> QED BY <3>1, <3>2
  <2> QED BY <1>2, <2>2, <2>4 DEF TakeUrgent, WriterStep, TypeOK
<1>3. ASSUME TakeDeferredFinish PROVE TypeOK'
  <2>0. writer.deferred # NoTurn /\ writer.deferred \in Turns
    BY <1>0, <1>3 DEF TakeDeferredFinish, DeferredReady, WriterState
  <2>1. Msg("finish", 0, writer.deferred) \in Message(Kinds)
    BY <2>0, MessageTypes, MessageKinds DEF Turns
  <2>2. writer' \in WriterState
    BY <1>0, <1>3, <2>1 DEF TakeDeferredFinish, WriterState, Turns, NoTurn
  <2> QED BY <1>3, <2>2 DEF TakeDeferredFinish, WriterStep, TypeOK
<1>4. ASSUME TakeControl PROVE TypeOK'
  <2> DEFINE m == Head(sess.control)
  <2>1. /\ m \in Message(Kinds) /\ m.turn \in Turns
        /\ Tail(sess.control) \in Lane(ControlKinds, ControlCap)
    BY <1>0, <1>4, LaneTail, MessageKinds, LimitsAssumption DEF TakeControl
  <2>2. sess' \in Session
    BY <1>0, <1>4, <2>1, Updates DEF TakeControl
  <2>3. Outcome("aborted", m.turn) \in Verdict
    BY <2>1 DEF Outcome, Verdict
  <2>4. \/ UNCHANGED writer \/ Send(m) \/ Report(Outcome("aborted", m.turn))
        \/ writer' = [writer EXCEPT !.deferred = m.turn]
    BY <1>4 DEF TakeControl
  <2> HIDE DEF m
  <2>5. writer' \in WriterState
    BY <1>0, <2>1, <2>3, <2>4 DEF Send, Report, WriterState
  <2> QED BY <1>4, <2>2, <2>5 DEF TakeControl, WriterStep, TypeOK
<1>5. ASSUME TakeAudio PROVE TypeOK'
  <2> DEFINE m == Head(sess.audio)
  <2>1. /\ m \in Message(Kinds) /\ m.turn \in Turns
        /\ Tail(sess.audio) \in Lane(AudioKinds, AudioCap)
    BY <1>0, <1>5, LaneTail, MessageKinds, LimitsAssumption DEF TakeAudio
  <2>2. sess' \in Session
    BY <1>0, <1>5, <2>1, Updates DEF TakeAudio
  <2>3. writer' \in WriterState
    BY <1>0, <1>5, <2>1 DEF TakeAudio, Send, WriterState
  <2> QED BY <1>5, <2>2, <2>3 DEF TakeAudio, WriterStep, TypeOK
<1>6. ASSUME Sent PROVE TypeOK'
  <2> DEFINE m    == writer.frame
             idle == [writer EXCEPT !.pc = "idle", !.frame = NoMsg]
  <2>1. m.turn \in Turns /\ m.code \in Nat
    BY <1>0 DEF WriterState, Message
  <2>2. idle \in WriterState
    BY <1>0 DEF WriterState
  <2>3. /\ Outcome("normal", m.turn) \in Verdict
        /\ Outcome("aborted", m.turn) \in Verdict
        /\ NoTurn \in Turns
    BY <2>1 DEF Outcome, Verdict, NoTurn, Turns
  <2>4. /\ m.kind = "start" => writer' = [idle EXCEPT !.active = m.turn]
        /\ m.kind = "finish" =>
             writer' = [idle EXCEPT !.active = NoTurn, !.pc = "reporting",
                                    !.report = Outcome("normal", m.turn)]
        /\ m.kind = "abort" =>
             writer' = [idle EXCEPT !.pc = "reporting",
                                    !.report = Outcome("aborted", m.turn)]
        /\ m.kind = "close" => writer' = [idle EXCEPT !.pc = "done"]
        /\ m.kind \notin {"start", "finish", "abort", "close"} => writer' = idle
    BY <1>6 DEF Sent
  <2>5. /\ m.kind = "start" =>
             wire' = [wire EXCEPT !.playing = m.turn, !.starts = @ \union {m.turn}]
        /\ m.kind = "finish" =>
             wire' = [wire EXCEPT !.playing = NoTurn, !.stops = @ \union {m.turn}]
        /\ m.kind = "abort" => wire' = [wire EXCEPT !.playing = NoTurn]
        /\ m.kind = "close" => wire' = [wire EXCEPT !.closed = m.code]
        /\ m.kind \notin {"start", "finish", "abort", "close"} => wire' = wire
    BY <1>6 DEF Sent
  <2>6. sess' \in Session
    BY <1>0, <1>1, <1>6 DEF Sent
  <2> HIDE DEF m, idle
  <2>7. writer' \in WriterState
    BY <2>1, <2>2, <2>3, <2>4 DEF WriterState
  <2>8. /\ wire.starts \union {m.turn} \in SUBSET Turns
        /\ wire.stops \union {m.turn} \in SUBSET Turns
    BY <1>0, <2>1 DEF WireState
  <2>9. /\ [wire EXCEPT !.playing = m.turn, !.starts = @ \union {m.turn}] \in WireState
        /\ [wire EXCEPT !.playing = NoTurn, !.stops = @ \union {m.turn}] \in WireState
    <3>1. /\ [wire EXCEPT !.playing = m.turn] \in WireState
          /\ [wire EXCEPT !.playing = NoTurn] \in WireState
      BY <1>0, <2>1, <2>3, WireUpdates
    <3>2. /\ [wire EXCEPT !.playing = m.turn].starts = wire.starts
          /\ [wire EXCEPT !.playing = NoTurn].stops = wire.stops
      BY <1>0 DEF WireState
    <3> QED BY <2>8, <3>1, <3>2, WireUpdates
  <2>10. wire' \in WireState
    BY <1>0, <2>1, <2>3, <2>5, <2>9, WireUpdates
  <2> QED BY <1>6, <2>6, <2>7, <2>10 DEF Sent, TypeOK
<1>7. ASSUME SendFailed PROVE TypeOK'
  <2>1. writer' \in WriterState
    BY <1>0, <1>7 DEF SendFailed, WriterState
  <2>2. faults' \in Nat
    BY <1>7 DEF SendFailed, TypeOK
  <2> QED BY <1>7, <2>1, <2>2 DEF SendFailed, WriterStep, TypeOK
<1>8. ASSUME NEW o \in Verdict, MailboxRoom, Deliver(o) PROVE mailbox' \in Mailbox
  BY <1>0, <1>8, MailboxAppend DEF MailboxRoom, Deliver
<1>9. ASSUME ReportClosed PROVE TypeOK'
  <2>1. writer.report \in Verdict /\ Outcome("none", NoTurn) \in Verdict
    BY <1>0 DEF WriterState, Outcome, Verdict, Turns, NoTurn
  <2>2. mailbox' \in Mailbox
    BY <1>8, <1>9, <2>1 DEF ReportClosed
  <2>3. writer' \in WriterState
    BY <1>0, <1>9, <2>1 DEF ReportClosed, WriterState
  <2> QED BY <1>9, <2>2, <2>3 DEF ReportClosed, TypeOK
<1>10. ASSUME ReportFailed PROVE TypeOK'
  <2>1. Outcome("failed", writer.active) \in Verdict
    BY <1>0 DEF WriterState, Outcome, Verdict
  <2>2. mailbox' \in Mailbox
    BY <1>8, <1>10, <2>1 DEF ReportFailed
  <2>3. writer' \in WriterState
    BY <1>0, <1>10 DEF ReportFailed, WriterState
  <2> QED BY <1>1, <1>10, <2>2, <2>3 DEF ReportFailed, TypeOK
<1>11. ASSUME WriterStops PROVE TypeOK'
  <2>1. writer' \in WriterState
    BY <1>0, <1>11 DEF WriterStops, WriterState
  <2> QED BY <1>1, <1>11, <2>1 DEF WriterStops, WriterStep, TypeOK
<1> QED BY <1>2, <1>3, <1>4, <1>5, <1>6, <1>7, <1>9, <1>10, <1>11
        DEF Writer, TakeLane, EndSend

(* The steps of the reader and of the session's end. *)
Teardown ==
  \/ ReaderLeaves \/ ReaderEndsSession \/ ReaderCloses \/ ReaderPushesClose
  \/ ApplicationShutdown \/ ActorPushesClose \/ IngressClosed

(* What they do: the actor that is gone stays gone, and no close they ask *)
(* for is the normal one. *)
LEMMA TeardownMoves ==
  ASSUME tasks \in TaskState, Teardown
  PROVE  /\ TaskStep /\ tasks' \in TaskState
         /\ tasks.actor = "done" => tasks'.actor = "done"
         /\ tasks.code # 1000 => tasks'.code # 1000
         /\ \/ sess' = sess
            \/ sess' = OfferUrgent(sess, CloseMsg(tasks.code))
            \/ /\ ApplicationShutdown
               /\ sess' = [CloseVad(AdvanceGeneration(InterruptActiveTurn(sess)))
                             EXCEPT !.autoResetPending = FALSE, !.phase = "Closed"]
            \/ /\ tasks'.actor = "done"
               /\ sess' \in {Dropped(OfferUrgent(sess, CloseMsg(tasks.code))), Dropped(sess)}
<1> DEFINE Gone == /\ tasks' \in TaskState
                   /\ tasks.actor = "done" => tasks'.actor = "done"
                   /\ tasks.code # 1000 => tasks'.code # 1000
<1>1. CASE ReaderLeaves
  BY <1>1 DEF ReaderLeaves, TaskState
<1>2. CASE ReaderEndsSession
  <2>1. PICK code \in {1001, 1008} :
          tasks' = [tasks EXCEPT !.reader = "gone", !.ingress = "ended", !.code = code]
    BY <1>2 DEF ReaderEndsSession
  <2>2. code \in Nat /\ code # 1000
    OBVIOUS
  <2>3. tasks' \in TaskState
    <3> DEFINE away == [tasks EXCEPT !.reader = "gone"]
               left == [away EXCEPT !.ingress = "ended"]
    <3>1. away \in TaskState
      BY DEF TaskState
    <3>2. tasks' = [left EXCEPT !.code = code]
      BY <2>1
    <3> HIDE DEF away
    <3>3. left \in TaskState
      BY <3>1 DEF TaskState
    <3> HIDE DEF left
    <3> QED BY <2>2, <3>2, <3>3 DEF TaskState
  <2>4. tasks'.actor = tasks.actor /\ tasks'.code = code
    BY <2>1 DEF TaskState
  <2> QED BY <1>2, <2>2, <2>3, <2>4 DEF ReaderEndsSession
<1>3. CASE ReaderCloses
  <2>1. PICK code \in {1001, 1008} :
          tasks' = [tasks EXCEPT !.reader = "closing", !.code = code]
    BY <1>3 DEF ReaderCloses
  <2>2. code \in Nat /\ code # 1000
    OBVIOUS
  <2>3. tasks' \in TaskState
    <3> DEFINE left == [tasks EXCEPT !.reader = "closing"]
    <3>1. left \in TaskState
      BY DEF TaskState
    <3>2. tasks' = [left EXCEPT !.code = code]
      BY <2>1
    <3> HIDE DEF left
    <3> QED BY <2>2, <3>1, <3>2 DEF TaskState
  <2>4. tasks'.actor = tasks.actor /\ tasks'.code = code
    BY <2>1 DEF TaskState
  <2> QED BY <1>3, <2>2, <2>3, <2>4 DEF ReaderCloses
<1>4. CASE ReaderPushesClose
  <2> DEFINE ways == {"closed"} \union (IF tasks.code = 1008 THEN {"ended"} ELSE {})
  <2>1. \E last \in ways : tasks' = [tasks EXCEPT !.reader = "gone", !.ingress = last]
    BY <1>4, Zenon DEF ReaderPushesClose
  <2>2. ways \subseteq {"closed", "ended"}
    OBVIOUS
  <2> HIDE DEF ways
  <2>3. PICK last \in {"closed", "ended"} :
          tasks' = [tasks EXCEPT !.reader = "gone", !.ingress = last]
    BY <2>1, <2>2
  <2>4. Gone
    BY <2>3 DEF TaskState
  <2>5. TaskStep /\ sess' = OfferUrgent(sess, CloseMsg(tasks.code))
    BY <1>4 DEF ReaderPushesClose
  <2> QED BY <2>4, <2>5
<1>5. CASE ApplicationShutdown
  <2>1. Gone
    BY <1>5 DEF ApplicationShutdown, Running, TaskState
  <2> QED BY <1>5, <2>1 DEF ApplicationShutdown
<1>6. CASE ActorPushesClose \/ IngressClosed
  <2>1. Gone /\ tasks'.actor = "done"
    BY <1>6 DEF ActorPushesClose, IngressClosed, TaskState
  <2> QED BY <1>6, <2>1 DEF ActorPushesClose, IngressClosed
<1> QED BY <1>1, <1>2, <1>3, <1>4, <1>5, <1>6 DEF Teardown

(* Every way the session ends preserves TypeOK. *)
LEMMA TeardownTypes ==
  ASSUME TypeOK, Teardown
  PROVE  TypeOK'
<1> DEFINE told == OfferUrgent(sess, CloseMsg(tasks.code))
           free == CloseVad(AdvanceGeneration(InterruptActiveTurn(sess)))
           over == [free EXCEPT !.autoResetPending = FALSE, !.phase = "Closed"]
<1>1. sess \in Session /\ tasks \in TaskState /\ CloseMsg(tasks.code) \in Message(UrgentKinds)
  BY MessageTypes DEF TypeOK, TaskState
<1>2. /\ TaskStep /\ tasks' \in TaskState
      /\ sess' \in {sess, told, over, Dropped(told), Dropped(sess)}
  BY <1>1, TeardownMoves
<1>3. told \in Session
  BY <1>1, OfferUrgentType
<1>4. Dropped(told) \in Session /\ Dropped(sess) \in Session
  BY <1>1, <1>3, DroppedType
<1>5. free \in Session
  BY <1>1, CancellationTypes, TurnTypes
<1> HIDE DEF free
<1>6. over \in Session
  BY <1>5, Updates
<1> HIDE DEF told, over
<1>7. sess' \in Session
  BY <1>1, <1>2, <1>3, <1>4, <1>6
<1> QED BY <1>2, <1>7 DEF TaskStep, TypeOK

(* A session that was just constructed is typed (construct.rs). *)
LEMMA InitType == Init => TypeOK
<1> SUFFICES ASSUME Init PROVE TypeOK
  OBVIOUS
<1>1. /\ <<>> \in Lane(UrgentKinds, UrgentCap)
      /\ <<>> \in Lane(ControlKinds, ControlCap)
      /\ <<>> \in Lane(AudioKinds, AudioCap)
  BY LimitsAssumption DEF Lane
<1>2. <<>> \in Mailbox
  BY LimitsAssumption DEF Mailbox
<1>3. sess \in Session
  BY <1>1, MessageTypes DEF Init, Session, Turns, NoTurn
<1>4. writer \in WriterState /\ wire \in WireState /\ tasks \in TaskState
  BY MessageTypes
     DEF Init, WriterState, WireState, TaskState, Outcome, Verdict, Turns, NoTurn
<1> QED BY <1>2, <1>3, <1>4 DEF Init, TypeOK

(* Every step preserves TypeOK, which is inductive by itself. *)
LEMMA NextType == TypeOK /\ [Next]_vars => TypeOK'
<1> SUFFICES ASSUME TypeOK, [Next]_vars PROVE TypeOK'
  OBVIOUS
<1>1. CASE \E c \in Replies :
             \/ Client(c) \/ AsrAnswers(c) \/ AsrFailed(c) \/ Utterance(c)
             \/ SpeechEnd(c) \/ LlmAnswers(c) \/ ToolEvent(c)
             \/ SpeechProgress(c) \/ SpeechFailed(c) \/ OnWriterEvent(c)
  BY <1>1, ClientTypes, RecognitionTypes, UtteranceTypes, ModelTypes, SpeechTypes,
     OutcomeTypes
<1>2. CASE CleanupEvent \/ VadAnswers \/ VadFailed \/ ArmClose
  <2>1. [r \in Runtimes |-> TRUE] \in Replies
    BY DEF Replies
  <2> QED BY <1>2, <2>1, RecognitionTypes, VadTypes, ModelTypes
<1>3. CASE Writer
  BY <1>3, WriterTypes
<1>4. CASE Teardown
  BY <1>4, TeardownTypes
<1>5. CASE UNCHANGED vars
  BY <1>5 DEF vars, TypeOK
<1> QED BY <1>1, <1>2, <1>3, <1>4, <1>5 DEF Next, Teardown, Terminated

(* Every variable keeps its type and every lane and the mailbox keep their *)
(* capacity, for all values of the limits, of the listening modes and of *)
(* the fault, input and round bounds. *)
THEOREM TypeCorrect == Spec => []TypeOK
BY InitType, NextType, PTL DEF Spec

-----------------------------------------------------------------------------
(* Who touches what. *)

(* No handler but on_writer_event touches the mailbox, Dialogue History's *)
(* assistant side, the writer or the wire: the actor acts through the lanes *)
(* only, and while it runs. *)
LEMMA ActorSteps ==
  ASSUME NEW c \in Replies,
         \/ Client(c) \/ AsrAnswers(c) \/ AsrFailed(c) \/ Utterance(c)
         \/ SpeechEnd(c) \/ LlmAnswers(c) \/ ToolEvent(c)
         \/ SpeechProgress(c) \/ SpeechFailed(c)
         \/ CleanupEvent \/ VadAnswers \/ VadFailed \/ ArmClose
  PROVE  Running /\ UNCHANGED <<mailbox, delivered, writer, wire, tasks>>
<1> USE DEF ClientInput, Provider, Fault, Handle
<1>1. CASE Client(c)
  BY <1>1 DEF Client, StartListening, StopManual, StopContinuous, Detect, Abort,
              AdmitDirectSpeech
<1>2. CASE AsrAnswers(c) \/ AsrFailed(c) \/ CleanupEvent
  BY <1>2 DEF AsrAnswers, AsrFinal, AsrFinalTimedOut, AsrFailed, CleanupEvent,
              AsrCleanedUp, AsrCleanupTimedOut
<1>3. CASE Utterance(c) \/ SpeechEnd(c)
  BY <1>3 DEF Utterance, SpeechStart, AsrPushRefused, VadPushRefused, SpeechEnd
<1>4. CASE VadAnswers \/ VadFailed
  BY <1>4 DEF VadAnswers, ResetDone, VadClosed, VadFailed
<1>5. CASE LlmAnswers(c) \/ ToolEvent(c) \/ ArmClose
  BY <1>5 DEF LlmAnswers, LlmDelta, LlmFinished, LlmFailed, LlmCallsTools, ToolEvent,
              FinishToolBatch, ArmClose
<1>6. CASE SpeechProgress(c) \/ SpeechFailed(c)
  BY <1>6 DEF SpeechProgress, FlushPendingAudio, SegmentReady, SpeechStarted,
              AudioPacket, Drained, SpeechFailed
<1> QED BY <1>1, <1>2, <1>3, <1>4, <1>5, <1>6

(* Whatever is not a writer step leaves the writer and the wire alone, and *)
(* only on_writer_event takes from the mailbox or commits assistant text. *)
LEMMA QuietSteps ==
  ASSUME TypeOK, [Next]_vars, ~Writer
  PROVE  /\ UNCHANGED <<writer, wire>>
         /\ UNCHANGED <<mailbox, delivered>> \/ \E c \in Replies : OnWriterEvent(c)
<1>1. CASE \E c \in Replies :
             \/ Client(c) \/ AsrAnswers(c) \/ AsrFailed(c) \/ Utterance(c)
             \/ SpeechEnd(c) \/ LlmAnswers(c) \/ ToolEvent(c)
             \/ SpeechProgress(c) \/ SpeechFailed(c)
  BY <1>1, ActorSteps
<1>2. CASE CleanupEvent \/ VadAnswers \/ VadFailed \/ ArmClose
  <2>1. [r \in Runtimes |-> TRUE] \in Replies
    BY DEF Replies
  <2> QED BY <1>2, <2>1, ActorSteps
<1>3. CASE \E c \in Replies : OnWriterEvent(c)
  BY <1>3 DEF OnWriterEvent
<1>4. CASE Teardown
  BY <1>4, TeardownMoves DEF TypeOK, TaskStep
<1>5. CASE UNCHANGED vars
  BY <1>5 DEF vars
<1> QED BY <1>1, <1>2, <1>3, <1>4, <1>5 DEF Next, Teardown, Terminated

-----------------------------------------------------------------------------
(* What each step of the writer does to its own record. *)

Becomes(pc, frame, active, deferred, report) ==
  /\ writer'.pc = pc /\ writer'.frame = frame /\ writer'.active = active
  /\ writer'.deferred = deferred /\ writer'.report = report

(* An abort is answered at once unless its turn is the active one, which it *)
(* ends; a close is sent. *)
LEMMA UrgentMove ==
  ASSUME TypeOK, TakeUrgent
  PROVE  LET m == Head(sess.urgent) IN
         /\ writer.pc = "idle" /\ UNCHANGED <<mailbox, delivered, wire, tasks>>
         /\ sess.urgent \in Seq(Message(UrgentKinds)) /\ sess.urgent # <<>>
         /\ sess' = [sess EXCEPT !.urgent = Tail(sess.urgent)]
         /\ m \in Message(UrgentKinds) /\ m.kind \in {"abort", "close"} /\ m.turn \in Nat
         /\ \/ /\ m.kind = "abort" /\ writer.active # m.turn
               /\ Becomes("reporting", writer.frame, writer.active, writer.deferred,
                          Outcome("aborted", m.turn))
            \/ /\ m.kind = "abort" /\ writer.active = m.turn
               /\ Becomes("sending", m, NoTurn, NoTurn, writer.report)
            \/ /\ m.kind = "close"
               /\ Becomes("sending", m, writer.active, writer.deferred, writer.report)
<1> DEFINE m == Head(sess.urgent)
<1>1. /\ writer \in WriterState /\ writer.pc = "idle"
      /\ UNCHANGED <<mailbox, delivered, wire, tasks>>
      /\ sess.urgent \in Seq(Message(UrgentKinds)) /\ sess.urgent # <<>>
      /\ sess' = [sess EXCEPT !.urgent = Tail(sess.urgent)]
  BY Fields DEF TypeOK, TakeUrgent, WriterStep, Lane
<1>2. m \in Message(UrgentKinds)
  BY <1>1
<1>3. m.kind \in {"abort", "close"} /\ m.turn \in Nat
  BY <1>2 DEF Message, UrgentKinds, Turns
<1>4. CASE m.kind = "abort" /\ writer.active # m.turn
  <2>1. writer' = [writer EXCEPT !.pc = "reporting", !.report = Outcome("aborted", m.turn)]
    BY <1>4 DEF TakeUrgent, Report
  <2>2. Becomes("reporting", writer.frame, writer.active, writer.deferred, Outcome("aborted", m.turn))
    <3> HIDE DEF m
    <3> QED BY <1>1, <2>1 DEF WriterState, Becomes
  <2> QED BY <1>1, <1>2, <1>3, <1>4, <2>2
<1>5. CASE ~(m.kind = "abort" /\ writer.active # m.turn)
  <2>1. writer' = [writer EXCEPT !.pc = "sending", !.frame = m,
          !.active   = IF m.kind = "abort" THEN NoTurn ELSE @,
          !.deferred = IF m.kind = "abort" THEN NoTurn ELSE @]
    BY <1>5 DEF TakeUrgent
  <2>2. /\ m.kind = "abort" => Becomes("sending", m, NoTurn, NoTurn, writer.report)
        /\ m.kind # "abort" => Becomes("sending", m, writer.active, writer.deferred, writer.report)
    <3> HIDE DEF m
    <3> QED BY <1>1, <2>1 DEF WriterState, Becomes
  <2> QED BY <1>1, <1>2, <1>3, <1>5, <2>2
<1> QED BY <1>4, <1>5

(* A stop put off is sent. *)
LEMMA DeferredMove ==
  ASSUME TypeOK, TakeDeferredFinish
  PROVE  /\ writer.pc = "idle" /\ writer.deferred # NoTurn
         /\ UNCHANGED <<sess, mailbox, delivered, wire, tasks>>
         /\ Becomes("sending", Msg("finish", 0, writer.deferred), writer.active, NoTurn,
                    writer.report)
BY DEF TypeOK, WriterState, TakeDeferredFinish, DeferredReady, WriterStep, Becomes

(* A start the gate and the arbiter admit and a text the gate admits are *)
(* sent; a stop is sent, put off or answered at once. *)
LEMMA ControlMove ==
  ASSUME TypeOK, TakeControl
  PROVE  LET m == Head(sess.control) IN
         /\ writer.pc = "idle" /\ UNCHANGED <<mailbox, delivered, wire, tasks>>
         /\ sess.control \in Seq(Message(ControlKinds)) /\ sess.control # <<>>
         /\ sess' = [sess EXCEPT !.control = Tail(sess.control)]
         /\ m \in Message(ControlKinds) /\ m.kind \in {"start", "text", "finish"}
         /\ m.turn \in Nat /\ m.gen \in Nat /\ (m.kind = "finish" => m.turn # NoTurn)
         /\ \/ m.kind # "finish" /\ writer' = writer
            \/ /\ m.kind = "finish" /\ writer.active # m.turn
               /\ Becomes("reporting", writer.frame, writer.active, writer.deferred,
                          Outcome("aborted", m.turn))
            \/ /\ m.kind = "finish" /\ writer.active = m.turn
               /\ Becomes("idle", writer.frame, writer.active, m.turn, writer.report)
            \/ /\ m.kind = "start" => writer.active = NoTurn /\ Admits(sess, m.gen)
               /\ m.kind = "finish" => writer.active = m.turn /\ writer.deferred = NoTurn
               /\ Becomes("sending", m, writer.active, writer.deferred, writer.report)
<1> DEFINE m == Head(sess.control)
<1>1. /\ writer \in WriterState /\ writer.pc = "idle"
      /\ UNCHANGED <<mailbox, delivered, wire, tasks>>
      /\ sess.control \in Seq(Message(ControlKinds)) /\ sess.control # <<>>
      /\ sess' = [sess EXCEPT !.control = Tail(sess.control)]
  BY Fields DEF TypeOK, TakeControl, WriterStep, Lane
<1>2. m \in Message(ControlKinds)
  BY <1>1
<1>3. m.kind \in {"start", "text", "finish"} /\ m.turn \in Nat /\ m.gen \in Nat
      /\ (m.kind = "finish" => m.turn # NoTurn)
  BY <1>2 DEF Message, ControlKinds, Turns
<1>4. \/ m.kind # "finish" /\ writer' = writer
      \/ /\ m.kind = "finish" /\ writer.active # m.turn
         /\ writer' = [writer EXCEPT !.pc = "reporting", !.report = Outcome("aborted", m.turn)]
      \/ /\ m.kind = "finish" /\ writer.active = m.turn
         /\ writer' = [writer EXCEPT !.deferred = m.turn]
      \/ /\ m.kind = "start" => writer.active = NoTurn /\ Admits(sess, m.gen)
         /\ m.kind = "finish" => writer.active = m.turn /\ writer.deferred = NoTurn
         /\ writer' = [writer EXCEPT !.pc = "sending", !.frame = m]
  BY DEF TakeControl, DeferredReady, Send, Report
<1> HIDE DEF m
<1>5. /\ writer' = [writer EXCEPT !.pc = "reporting", !.report = Outcome("aborted", m.turn)] =>
           Becomes("reporting", writer.frame, writer.active, writer.deferred,
                   Outcome("aborted", m.turn))
      /\ writer' = [writer EXCEPT !.deferred = m.turn] =>
           Becomes("idle", writer.frame, writer.active, m.turn, writer.report)
      /\ writer' = [writer EXCEPT !.pc = "sending", !.frame = m] =>
           Becomes("sending", m, writer.active, writer.deferred, writer.report)
  BY <1>1 DEF WriterState, Becomes
<1>6. \/ m.kind # "finish" /\ writer' = writer
      \/ /\ m.kind = "finish" /\ writer.active # m.turn
         /\ Becomes("reporting", writer.frame, writer.active, writer.deferred,
                    Outcome("aborted", m.turn))
      \/ /\ m.kind = "finish" /\ writer.active = m.turn
         /\ Becomes("idle", writer.frame, writer.active, m.turn, writer.report)
      \/ /\ m.kind = "start" => writer.active = NoTurn /\ Admits(sess, m.gen)
         /\ m.kind = "finish" => writer.active = m.turn /\ writer.deferred = NoTurn
         /\ Becomes("sending", m, writer.active, writer.deferred, writer.report)
  BY <1>4, <1>5
<1> QED BY <1>1, <1>2, <1>3, <1>6 DEF m

(* Audio the gate admits is sent within its turn. *)
LEMMA AudioMove ==
  ASSUME TypeOK, TakeAudio
  PROVE  LET m == Head(sess.audio) IN
         /\ writer.pc = "idle" /\ UNCHANGED <<mailbox, delivered, wire, tasks>>
         /\ sess.audio \in Seq(Message(AudioKinds)) /\ sess.audio # <<>>
         /\ sess' = [sess EXCEPT !.audio = Tail(sess.audio)]
         /\ m \in Message(AudioKinds) /\ m.kind = "binary"
         /\ \/ writer' = writer
            \/ /\ writer.active = m.turn /\ Admits(sess, m.gen)
               /\ Becomes("sending", m, writer.active, writer.deferred, writer.report)
<1> DEFINE m == Head(sess.audio)
<1>1. /\ writer \in WriterState /\ writer.pc = "idle"
      /\ UNCHANGED <<mailbox, delivered, wire, tasks>>
      /\ sess.audio \in Seq(Message(AudioKinds)) /\ sess.audio # <<>>
      /\ sess' = [sess EXCEPT !.audio = Tail(sess.audio)]
  BY Fields DEF TypeOK, TakeAudio, WriterStep, Lane
<1>2. m \in Message(AudioKinds)
  BY <1>1
<1>3. m.kind = "binary"
  BY <1>2 DEF Message, AudioKinds
<1>4. \/ writer' = writer
      \/ /\ writer.active = m.turn /\ Admits(sess, m.gen)
         /\ writer' = [writer EXCEPT !.pc = "sending", !.frame = m]
  BY DEF TakeAudio, Send
<1> HIDE DEF m
<1>5. writer' = [writer EXCEPT !.pc = "sending", !.frame = m] =>
        Becomes("sending", m, writer.active, writer.deferred, writer.report)
  BY <1>1 DEF WriterState, Becomes
<1> QED BY <1>1, <1>2, <1>3, <1>4, <1>5 DEF m

(* A frame was sent: a start opens its turn, a stop ends it and is to be *)
(* reported, like an abort; a close ends the writer. *)
LEMMA SentMove ==
  ASSUME TypeOK, Sent
  PROVE  LET m == writer.frame IN
         /\ writer.pc = "sending" /\ UNCHANGED <<mailbox, delivered, tasks>>
         /\ sess' = sess \/ (m.kind = "close" /\ sess' = [sess EXCEPT !.lanesOpen = FALSE])
         /\ m.turn \in Nat /\ (m.kind = "finish" => m.turn # NoTurn)
         /\ \/ /\ m.kind = "start"
               /\ Becomes("idle", NoMsg, m.turn, writer.deferred, writer.report)
               /\ wire'.playing = m.turn /\ wire'.starts = wire.starts \union {m.turn}
               /\ wire'.stops = wire.stops /\ wire'.closed = wire.closed
            \/ /\ m.kind = "finish"
               /\ Becomes("reporting", NoMsg, NoTurn, writer.deferred, Outcome("normal", m.turn))
               /\ wire'.playing = NoTurn /\ wire'.starts = wire.starts
               /\ wire'.stops = wire.stops \union {m.turn} /\ wire'.closed = wire.closed
            \/ /\ m.kind = "abort"
               /\ Becomes("reporting", NoMsg, writer.active, writer.deferred,
                          Outcome("aborted", m.turn))
               /\ wire'.playing = NoTurn /\ wire'.starts = wire.starts
               /\ wire'.stops = wire.stops /\ wire'.closed = wire.closed
            \/ /\ m.kind = "close"
               /\ Becomes("done", NoMsg, writer.active, writer.deferred, writer.report)
               /\ wire'.playing = wire.playing /\ wire'.starts = wire.starts
               /\ wire'.stops = wire.stops /\ wire'.closed = m.code
            \/ /\ m.kind \notin {"start", "finish", "abort", "close"}
               /\ Becomes("idle", NoMsg, writer.active, writer.deferred, writer.report)
               /\ wire' = wire
<1> DEFINE m    == writer.frame
           idle == [writer EXCEPT !.pc = "idle", !.frame = NoMsg]
<1>1. /\ writer \in WriterState /\ wire \in WireState /\ writer.pc = "sending"
      /\ UNCHANGED <<mailbox, delivered, tasks>>
      /\ sess' = sess \/ (m.kind = "close" /\ sess' = [sess EXCEPT !.lanesOpen = FALSE])
  BY DEF TypeOK, Sent
<1>2. m.turn \in Nat /\ (m.kind = "finish" => m.turn # NoTurn)
  BY <1>1 DEF WriterState, Message, Turns
<1>3. /\ idle \in WriterState /\ idle.pc = "idle" /\ idle.frame = NoMsg
      /\ idle.active = writer.active /\ idle.deferred = writer.deferred
      /\ idle.report = writer.report
  BY <1>1, MessageTypes DEF WriterState
<1>4. CASE m.kind = "start"
  <2>1. /\ writer' = [idle EXCEPT !.active = m.turn]
        /\ wire' = [wire EXCEPT !.playing = m.turn, !.starts = @ \union {m.turn}]
    BY <1>4 DEF Sent
  <2> HIDE DEF m, idle
  <2>2. Becomes("idle", NoMsg, m.turn, writer.deferred, writer.report)
    BY <1>3, <2>1 DEF WriterState, Becomes
  <2>3. /\ wire'.playing = m.turn /\ wire'.starts = wire.starts \union {m.turn}
        /\ wire'.stops = wire.stops /\ wire'.closed = wire.closed
    BY <1>1, <2>1 DEF WireState
  <2> QED BY <1>1, <1>2, <1>4, <2>2, <2>3 DEF m
<1>5. CASE m.kind = "finish"
  <2>1. /\ writer' = [idle EXCEPT !.active = NoTurn, !.pc = "reporting",
                                  !.report = Outcome("normal", m.turn)]
        /\ wire' = [wire EXCEPT !.playing = NoTurn, !.stops = @ \union {m.turn}]
    BY <1>5 DEF Sent
  <2> HIDE DEF m, idle
  <2>2. Becomes("reporting", NoMsg, NoTurn, writer.deferred, Outcome("normal", m.turn))
    BY <1>3, <2>1 DEF WriterState, Becomes
  <2>3. /\ wire'.playing = NoTurn /\ wire'.starts = wire.starts
        /\ wire'.stops = wire.stops \union {m.turn} /\ wire'.closed = wire.closed
    BY <1>1, <2>1 DEF WireState
  <2> QED BY <1>1, <1>2, <1>5, <2>2, <2>3 DEF m
<1>6. CASE m.kind = "abort"
  <2>1. /\ writer' = [idle EXCEPT !.pc = "reporting", !.report = Outcome("aborted", m.turn)]
        /\ wire' = [wire EXCEPT !.playing = NoTurn]
    BY <1>6 DEF Sent
  <2> HIDE DEF m, idle
  <2>2. Becomes("reporting", NoMsg, writer.active, writer.deferred, Outcome("aborted", m.turn))
    BY <1>3, <2>1 DEF WriterState, Becomes
  <2>3. /\ wire'.playing = NoTurn /\ wire'.starts = wire.starts
        /\ wire'.stops = wire.stops /\ wire'.closed = wire.closed
    BY <1>1, <2>1 DEF WireState
  <2> QED BY <1>1, <1>2, <1>6, <2>2, <2>3 DEF m
<1>7. CASE m.kind = "close"
  <2>1. writer' = [idle EXCEPT !.pc = "done"] /\ wire' = [wire EXCEPT !.closed = m.code]
    BY <1>7 DEF Sent
  <2> HIDE DEF m, idle
  <2>2. Becomes("done", NoMsg, writer.active, writer.deferred, writer.report)
    BY <1>3, <2>1 DEF WriterState, Becomes
  <2>3. /\ wire'.playing = wire.playing /\ wire'.starts = wire.starts
        /\ wire'.stops = wire.stops /\ wire'.closed = m.code
    BY <1>1, <2>1 DEF WireState
  <2> QED BY <1>1, <1>2, <1>7, <2>2, <2>3 DEF m
<1>8. CASE m.kind \notin {"start", "finish", "abort", "close"}
  <2>1. writer' = idle /\ wire' = wire
    BY <1>8 DEF Sent
  <2>2. Becomes("idle", NoMsg, writer.active, writer.deferred, writer.report)
    BY <1>3, <2>1 DEF Becomes
  <2> QED BY <1>1, <1>2, <1>8, <2>1, <2>2
<1> QED BY <1>4, <1>5, <1>6, <1>7, <1>8

(* The writer gives up a frame, reports or stops. *)
LEMMA EndMoves ==
  ASSUME TypeOK
  PROVE  /\ SendFailed =>
              /\ writer.pc = "sending" /\ UNCHANGED <<sess, mailbox, delivered, wire, tasks>>
              /\ Becomes("failing", NoMsg, writer.active, writer.deferred, writer.report)
         /\ ReportClosed =>
              /\ writer.pc = "reporting" /\ UNCHANGED <<sess, delivered, wire, tasks>>
              /\ Deliver(writer.report)
              /\ Becomes("idle", writer.frame, writer.active, writer.deferred,
                         Outcome("none", NoTurn))
         /\ ReportFailed =>
              /\ writer.pc = "failing" /\ UNCHANGED <<delivered, wire, tasks>>
              /\ sess' = [sess EXCEPT !.lanesOpen = FALSE]
              /\ Deliver(Outcome("failed", writer.active))
              /\ Becomes("done", writer.frame, writer.active, writer.deferred, writer.report)
         /\ WriterStops =>
              /\ writer.pc = "idle" /\ UNCHANGED <<mailbox, delivered, wire, tasks>>
              /\ sess' = [sess EXCEPT !.lanesOpen = FALSE]
              /\ Becomes("done", writer.frame, writer.active, writer.deferred, writer.report)
<1>1. writer \in WriterState
  BY DEF TypeOK
<1>2. SendFailed => Becomes("failing", NoMsg, writer.active, writer.deferred, writer.report)
  BY <1>1 DEF SendFailed, WriterState, Becomes
<1>3. ReportClosed => Becomes("idle", writer.frame, writer.active, writer.deferred,
                              Outcome("none", NoTurn))
  BY <1>1 DEF ReportClosed, WriterState, Becomes
<1>4. ReportFailed \/ WriterStops =>
        Becomes("done", writer.frame, writer.active, writer.deferred, writer.report)
  BY <1>1 DEF ReportFailed, WriterStops, WriterState, Becomes
<1> QED BY <1>2, <1>3, <1>4 DEF SendFailed, ReportClosed, ReportFailed, WriterStops, WriterStep

-----------------------------------------------------------------------------
(* What is committed was heard. *)

(* HeardBeforeCommitted is not inductive: a commit trusts the outcome, so a *)
(* "normal" outcome in the mailbox, or about to be reported, must name a *)
(* turn whose stop is on the wire. *)
HeardInv ==
  /\ HeardBeforeCommitted
  /\ \A i \in 1..Len(mailbox) :
       mailbox[i].kind = "normal" => mailbox[i].turn \in wire.stops
  /\ writer.report.kind = "normal" => writer.report.turn \in wire.stops

(* A writer step preserves HeardInv: "normal" is reported in the same step *)
(* that adds the stop to the wire, and is carried unchanged into the *)
(* mailbox. *)
LEMMA HeardReport ==
  ASSUME TypeOK, HeardInv, Writer
  PROVE  HeardInv'
<1> USE DEF HeardInv, HeardBeforeCommitted
<1>0. mailbox \in Seq(Verdict) /\ writer.report \in Verdict /\ writer.active \in Nat
      /\ Len(mailbox) \in Nat
  BY DEF TypeOK, Mailbox, WriterState, Turns
<1>1. CASE TakeLane
  <2>1. UNCHANGED <<mailbox, delivered, wire>>
        /\ (writer'.report = writer.report \/ writer'.report.kind = "aborted")
    <3> USE DEF Becomes, Outcome
    <3>1. CASE TakeUrgent
      BY <3>1, UrgentMove
    <3>2. CASE TakeDeferredFinish
      BY <3>2, DeferredMove
    <3>3. CASE TakeControl
      BY <3>3, ControlMove
    <3>4. CASE TakeAudio
      BY <3>4, AudioMove
    <3> QED BY <1>1, <3>1, <3>2, <3>3, <3>4 DEF TakeLane
  <2> QED BY <2>1
<1>2. CASE Sent
  <2>1. /\ UNCHANGED <<mailbox, delivered>> /\ wire.stops \subseteq wire'.stops
        /\ \/ writer'.report = writer.report
           \/ writer'.report.kind = "aborted"
           \/ writer'.report.turn \in wire'.stops
    BY <1>2, SentMove DEF Becomes, Outcome
  <2> QED BY <2>1
<1>3. CASE SendFailed \/ WriterStops
  BY <1>3, EndMoves DEF Becomes
<1>4. ASSUME NEW o \in Verdict, Deliver(o), o.kind = "normal" => o.turn \in wire.stops
      PROVE  \A i \in 1..Len(mailbox') :
               mailbox'[i].kind = "normal" => mailbox'[i].turn \in wire.stops
  <2>1. CASE mailbox' = mailbox
    BY <2>1
  <2>2. CASE mailbox' = Append(mailbox, o)
    <3>1. /\ Len(mailbox') = Len(mailbox) + 1
          /\ \A i \in 1..Len(mailbox) : mailbox'[i] = mailbox[i]
          /\ mailbox'[Len(mailbox) + 1] = o
      BY <1>0, <2>2
    <3> QED BY <1>0, <1>4, <3>1
  <2> QED BY <1>4, <2>1, <2>2 DEF Deliver
<1>5. CASE ReportClosed
  <2>1. UNCHANGED <<delivered, wire>> /\ Deliver(writer.report) /\ writer'.report.kind = "none"
    BY <1>5, EndMoves DEF Becomes, Outcome
  <2> QED BY <1>0, <1>4, <2>1
<1>6. CASE ReportFailed
  <2> DEFINE o == Outcome("failed", writer.active)
  <2>1. o \in Verdict /\ o.kind = "failed"
    BY <1>0 DEF Outcome, Verdict, Turns
  <2>2. UNCHANGED <<delivered, wire>> /\ Deliver(o) /\ writer'.report = writer.report
    BY <1>6, EndMoves DEF Becomes
  <2> QED BY <1>4, <2>1, <2>2
<1> QED BY <1>1, <1>2, <1>3, <1>5, <1>6 DEF Writer, EndSend

(* on_writer_event preserves HeardInv: it commits only what a "normal" *)
(* outcome at the head of the mailbox names. *)
LEMMA HeardOutcome ==
  ASSUME TypeOK, HeardInv, NEW c \in Replies, OnWriterEvent(c)
  PROVE  HeardInv'
<1> DEFINE o == Head(mailbox)
<1>0. mailbox \in Seq(Verdict) /\ mailbox # <<>> /\ Len(mailbox) \in Nat
  BY DEF TypeOK, Mailbox, OnWriterEvent
<1>1. UNCHANGED <<writer, wire>> /\ mailbox' = Tail(mailbox)
  BY DEF OnWriterEvent
<1>2. o = mailbox[1] /\ 1 \in 1..Len(mailbox)
  BY <1>0
<1>3. delivered' \subseteq delivered \union (IF o.kind = "normal" THEN {o.turn} ELSE {})
  BY DEF OnWriterEvent, CommitsAssistant
<1>4. HeardBeforeCommitted'
  BY <1>1, <1>2, <1>3 DEF HeardInv, HeardBeforeCommitted
<1>5. ASSUME NEW i \in 1..Len(mailbox')
      PROVE  mailbox'[i] = mailbox[i + 1] /\ i + 1 \in 1..Len(mailbox)
  BY <1>0, <1>1
<1> QED BY <1>1, <1>4, <1>5 DEF HeardInv

(* Every step preserves HeardInv: only the writer and the outcomes touch it.*)
LEMMA HeardStep == TypeOK /\ HeardInv /\ [Next]_vars => HeardInv'
<1> SUFFICES ASSUME TypeOK, HeardInv, [Next]_vars PROVE HeardInv'
  OBVIOUS
<1>1. CASE Writer
  BY <1>1, HeardReport
<1>2. CASE \E c \in Replies : OnWriterEvent(c)
  BY <1>2, HeardOutcome
<1>3. ASSUME UNCHANGED <<mailbox, delivered, writer, wire>> PROVE HeardInv'
  BY <1>3 DEF HeardInv, HeardBeforeCommitted
<1> QED BY <1>1, <1>2, <1>3, QuietSteps

(* Assistant text enters Dialogue History only for a turn whose normal *)
(* tts:stop reached the socket, whatever the capacities of the lanes and of *)
(* the mailbox, the number of turns, rounds, cancellations and faults. *)
THEOREM HeardCorrect == Spec => []HeardBeforeCommitted
<1>1. Init => HeardInv
  BY DEF Init, HeardInv, HeardBeforeCommitted, Outcome
<1>2. TypeOK /\ HeardInv /\ [Next]_vars => HeardInv'
  BY HeardStep
<1>3. HeardInv => HeardBeforeCommitted
  BY DEF HeardInv
<1> QED BY <1>1, <1>2, <1>3, TypeCorrect, PTL DEF Spec

-----------------------------------------------------------------------------
(* The playback arbiter. *)

(* FramesFitPlayback is not inductive: the writer decides on its active *)
(* turn, not on what the device plays. The two agree except while an abort, *)
(* which has cleared the active turn already, is in flight; a deferred stop *)
(* is always the active turn's and a stop in flight leaves none deferred. *)
ArbiterInv ==
  /\ writer.pc \in {"idle", "reporting"} => wire.playing = writer.active
  /\ writer.pc = "sending" /\ writer.frame.kind # "abort" => wire.playing = writer.active
  /\ SendingKind({"start"}) => writer.active = NoTurn
  /\ SendingKind({"binary", "finish"}) => writer.frame.turn = writer.active
  /\ SendingKind({"finish"}) => writer.deferred = NoTurn
  /\ SendingKind({"abort"}) => wire.playing = writer.frame.turn /\ writer.active = NoTurn
  /\ writer.deferred \in {NoTurn, writer.active}

(* Taking a command preserves ArbiterInv: this is where the arbiter decides *)
(* (admits_begin, admits_audio, Finish against the active turn, Abort). *)
LEMMA ArbiterTakes ==
  ASSUME TypeOK, ArbiterInv, TakeLane
  PROVE  ArbiterInv'
<1> USE DEF ArbiterInv, SendingKind, Becomes
<1>1. CASE TakeUrgent
  BY <1>1, UrgentMove
<1>2. CASE TakeDeferredFinish
  BY <1>2, DeferredMove DEF Msg
<1>3. CASE TakeControl
  BY <1>3, ControlMove
<1>4. CASE TakeAudio
  BY <1>4, AudioMove
<1> QED BY <1>1, <1>2, <1>3, <1>4 DEF TakeLane

(* The end of a send preserves ArbiterInv: the active turn and what the *)
(* device plays change together, except that an abort has ended the turn *)
(* beforehand. *)
LEMMA ArbiterSends ==
  ASSUME TypeOK, ArbiterInv, EndSend
  PROVE  ArbiterInv'
<1> USE DEF ArbiterInv, SendingKind, Becomes
<1>1. CASE Sent
  BY <1>1, SentMove
<1>2. CASE SendFailed
  BY <1>2, EndMoves
<1> QED BY <1>1, <1>2 DEF EndSend

(* Reporting and stopping preserve ArbiterInv. *)
LEMMA ArbiterReports ==
  ASSUME TypeOK, ArbiterInv, ReportClosed \/ ReportFailed \/ WriterStops
  PROVE  ArbiterInv'
BY EndMoves DEF ArbiterInv, SendingKind, Becomes

(* Every step preserves ArbiterInv: only the writer touches what it names. *)
LEMMA ArbiterStep == TypeOK /\ ArbiterInv /\ [Next]_vars => ArbiterInv'
<1> SUFFICES ASSUME TypeOK, ArbiterInv, [Next]_vars PROVE ArbiterInv'
  OBVIOUS
<1>1. ASSUME UNCHANGED <<writer, wire>> PROVE ArbiterInv'
  BY <1>1 DEF ArbiterInv, SendingKind
<1>2. CASE Writer
  BY <1>2, ArbiterTakes, ArbiterSends, ArbiterReports DEF Writer
<1>3. CASE ~Writer
  BY <1>1, <1>3, QuietSteps
<1> QED BY <1>2, <1>3

(* A turn starts into silence only, and audio, stop and abort frames reach *)
(* the socket only while their turn plays, for every capacity of every lane *)
(* and any number of turns: the actor's side of the lanes is arbitrary in *)
(* this proof. *)
THEOREM PlaybackCorrect == Spec => []FramesFitPlayback
<1>1. Init => ArbiterInv
  BY DEF Init, ArbiterInv, SendingKind, NoTurn
<1>2. TypeOK /\ ArbiterInv /\ [Next]_vars => ArbiterInv'
  BY ArbiterStep
<1>3. ArbiterInv => FramesFitPlayback
  BY DEF ArbiterInv, FramesFitPlayback, SendingKind
<1> QED BY <1>1, <1>2, <1>3, TypeCorrect, PTL DEF Spec

-----------------------------------------------------------------------------
(* The refinement of TurnDelivery. *)

(* The end of a send is a start, a stop, a cut, the end, or nothing: which *)
(* one, ArbiterInv says, since it ties the frame to what the device plays. *)
LEMMA SendDelivers ==
  ASSUME TypeOK, ArbiterInv, Sent
  PROVE  [Delivery!Next]_Delivery!vars
<1> USE DEF Delivery!Next, Delivery!vars, Becomes
<1> DEFINE m == writer.frame
<1>1. /\ m.kind = "start" => wire.playing = NoTurn
      /\ m.kind = "finish" => wire.playing = m.turn
  BY SentMove DEF ArbiterInv, SendingKind
<1>2. CASE m.kind = "start"
  BY <1>1, <1>2, SentMove DEF Delivery!Start
<1>3. CASE m.kind = "finish"
  BY <1>1, <1>3, SentMove DEF Delivery!Stop
<1>4. CASE m.kind = "abort"
  BY <1>4, SentMove DEF Delivery!Cut
<1>5. CASE m.kind = "close"
  BY <1>5, SentMove DEF Delivery!Leave
<1>6. CASE m.kind \notin {"start", "finish", "abort", "close"}
  BY <1>6, SentMove
<1> QED BY <1>2, <1>3, <1>4, <1>5, <1>6

(* Every other writer step sends nothing; two of them end the writer. *)
LEMMA WriterDelivers ==
  ASSUME TypeOK, ArbiterInv, Writer
  PROVE  [Delivery!Next]_Delivery!vars
<1> USE DEF Delivery!Next, Delivery!vars, Becomes
<1>1. CASE TakeLane
  <2>1. UNCHANGED <<delivered, wire>> /\ writer.pc = "idle"
        /\ writer'.pc \in {"idle", "sending", "reporting"}
    <3>1. CASE TakeUrgent
      BY <3>1, UrgentMove
    <3>2. CASE TakeDeferredFinish
      BY <3>2, DeferredMove
    <3>3. CASE TakeControl
      BY <3>3, ControlMove
    <3>4. CASE TakeAudio
      BY <3>4, AudioMove
    <3> QED BY <1>1, <3>1, <3>2, <3>3, <3>4 DEF TakeLane
  <2> QED BY <2>1
<1>2. CASE Sent
  BY <1>2, SendDelivers
<1>3. CASE SendFailed \/ ReportClosed
  BY <1>3, EndMoves
<1>4. CASE ReportFailed \/ WriterStops
  BY <1>4, EndMoves DEF Delivery!Leave
<1> QED BY <1>1, <1>2, <1>3, <1>4 DEF Writer, EndSend

(* Applying an outcome remembers a turn that was stopped, or nothing. *)
LEMMA OutcomeDelivers ==
  ASSUME TypeOK, HeardInv, NEW c \in Replies, OnWriterEvent(c)
  PROVE  [Delivery!Next]_Delivery!vars
<1> USE DEF Delivery!Next, Delivery!vars
<1> DEFINE o == Head(mailbox)
<1>0. mailbox \in Seq(Verdict) /\ mailbox # <<>> /\ Len(mailbox) \in Nat
  BY DEF TypeOK, Mailbox, OnWriterEvent
<1>1. UNCHANGED <<writer, wire>>
  BY DEF OnWriterEvent
<1>2. o = mailbox[1] /\ 1 \in 1..Len(mailbox)
  BY <1>0
<1>3. \/ delivered' = delivered
      \/ o.kind = "normal" /\ delivered' = delivered \union {o.turn}
  BY DEF OnWriterEvent, CommitsAssistant
<1>4. o.kind = "normal" => o.turn \in wire.stops
  BY <1>2 DEF HeardInv
<1> QED BY <1>1, <1>3, <1>4 DEF Delivery!Remember

(* The session of VoiceTurn implements TurnDelivery, whatever the *)
(* capacities, the number of turns, the cancellations and the faults. *)
THEOREM DeliveryRefined == Spec => DeliversTurns
<1>1. Init => Delivery!Init
  BY DEF Init, Delivery!Init
<1>2. Init => HeardInv /\ ArbiterInv
  BY DEF Init, HeardInv, HeardBeforeCommitted, Outcome, ArbiterInv, SendingKind, NoTurn
<1>3. TypeOK /\ HeardInv /\ ArbiterInv /\ [Next]_vars => HeardInv' /\ ArbiterInv'
  BY HeardStep, ArbiterStep
<1>4. TypeOK /\ HeardInv /\ ArbiterInv /\ [Next]_vars => [Delivery!Next]_Delivery!vars
  <2> SUFFICES ASSUME TypeOK, HeardInv, ArbiterInv, [Next]_vars
               PROVE  [Delivery!Next]_Delivery!vars
    OBVIOUS
  <2>1. CASE Writer
    BY <2>1, WriterDelivers
  <2>2. CASE \E c \in Replies : OnWriterEvent(c)
    BY <2>2, OutcomeDelivers
  <2>3. ASSUME UNCHANGED <<mailbox, delivered, writer, wire>>
        PROVE  [Delivery!Next]_Delivery!vars
    BY <2>3 DEF Delivery!vars
  <2> QED BY <2>1, <2>2, <2>3, QuietSteps
<1> QED
  BY <1>1, <1>2, <1>3, <1>4, TypeCorrect, PTL DEF Spec, DeliversTurns, Delivery!Spec

-----------------------------------------------------------------------------
(***************************************************************************)
(* Ownership: whatever works for a turn, a recognition, a model round, a   *)
(* tool batch or speech output, works for the turn and the generation the  *)
(* actor owns now, and no turn is started twice.                           *)
(*                                                                         *)
(* A handler is a composition of operators from sessions to sessions, so   *)
(* the invariant is a predicate of a session s and of what has left its    *)
(* lanes: W, the turns whose outcome is on its way beyond the lanes, and V,*)
(* the turns whose start is.  A handler keeps W and V, so a lemma about one*)
(* operator serves every handler that calls it; the writer only moves a    *)
(* message from a lane into W or V.                                        *)
(*                                                                         *)
(* A step keeps it when it is Considerate: no text typed over a turn, and no*)
(* request for manual listening to a session busy in another mode.  In both*)
(* cases the code gives up a round that goes on; the runs of               *)
(* VoiceTurn_overtyped.cfg and VoiceTurn_mixedModes.cfg show it.           *)
(***************************************************************************)

(* A tool batch of this generation; one of an older generation is dropped. *)
Batched(s) == s.batchGen # 0 /\ s.batchGen = s.generation
(* No model round, no batch of this generation, nothing to speak. *)
Idle(s)    == s.llmGen = 0 /\ ~Batched(s) /\ s.speech = "idle"
(* The turn, if there is one, only waits for an outcome or for nothing. *)
Spent(s)   == Idle(s) /\ s.asr # "finishing"

(* An outcome of turn t is under way, in a lane or (W) beyond the lanes. *)
Ends(s, W, t) ==
  t \in W \/ Holds(s.urgent, "abort", t) \/ Holds(s.control, "finish", t)
(* A start of turn t is queued, or (V) has left the lanes. *)
Starts(s, V, t) == t \in V \/ Holds(s.control, "start", t)

(* What was or may be heard continuously excludes manual listening.         *)
Fits(s) ==
  s.autoSpeechActive \/ (s.vad # "none" /\ (s.cycle \/ s.vadReset)) =>
    s.listeningMode # "manual"

(* What holds of every session, also between the calls of a handler: no *)
(* continuous capture is live in manual mode, an output is announced only *)
(* where there is something to speak, and every turn that an outcome or a *)
(* start names has an id that was handed out. *)
Base(s, W, V) ==
  /\ Fits(s)
  /\ s.listenArmPending => s.listeningMode # "none"
  /\ s.announced \/ s.playing => s.speech # "idle"
  /\ s.batchGen <= s.generation
  /\ s.turn < s.nextTurnId
  /\ \A t : Ends(s, W, t) \/ Starts(s, V, t) => t \in Nat \ {0} /\ t < s.nextTurnId

(* The invariant of a session.  One activity is at work at a time, for the *)
(* turn and the generation owned now; once an outcome of the turn is under *)
(* way, or its start is queued while no output plays, none is.  In manual *)
(* mode a session that listens works on nothing. *)
Owned(s, W, V) ==
  /\ Base(s, W, V)
  /\ s.llmGen # 0 =>
       /\ s.turn # NoTurn /\ s.turnGen = s.generation /\ s.llmGen = s.generation
       /\ ~Batched(s) /\ s.speech # "finished"
  /\ Batched(s) => s.turn # NoTurn /\ s.turnGen = s.generation /\ s.speech = "idle"
  /\ s.asr # "none" => s.asrGen = s.generation /\ Idle(s)
  /\ s.asr = "finishing" =>
       s.turn # NoTurn /\ s.turnGen = s.generation /\ ~s.autoSpeechActive
  /\ s.turn = NoTurn \/ s.autoSpeechActive => Idle(s)
  /\ s.listeningMode = "manual" /\ s.phase = "Listening" => Spent(s)
  /\ Ends(s, W, s.turn) => Spent(s)
  /\ Starts(s, V, s.turn) => s.playing \/ Spent(s)

(* A session with no work left, whoever owns the turn. *)
Rest(s, W, V) ==
  /\ Base(s, W, V) /\ Spent(s)
  /\ s.asr # "none" => s.asrGen = s.generation

(* No two starts of one turn in a lane. *)
Once(q) ==
  \A i, j \in DOMAIN q :
    q[i].kind = "start" /\ q[j].kind = "start" /\ q[i].turn = q[j].turn => i = j

(* From s to r the control lane gains no stop and no start. *)
Lanes(s, r) ==
  /\ \A t : /\ Holds(r.control, "finish", t) => Holds(s.control, "finish", t)
            /\ Holds(r.control, "start", t) => Holds(s.control, "start", t)
  /\ Once(s.control) => Once(r.control)

(* From s to r the work and its owner stay as they are. *)
Same(s, r) ==
  /\ r.nextTurnId = s.nextTurnId /\ r.turn = s.turn /\ r.turnGen = s.turnGen
  /\ r.generation = s.generation /\ r.llmGen = s.llmGen /\ r.batchGen = s.batchGen
  /\ r.speech = s.speech /\ r.announced = s.announced /\ r.playing = s.playing
  /\ r.asr = s.asr /\ r.asrGen = s.asrGen
  /\ r.autoSpeechActive = s.autoSpeechActive /\ (Fits(s) => Fits(r))
  /\ (r.listenArmPending => s.listenArmPending) /\ r.listeningMode = s.listeningMode

(* From s to r neither the work nor what is under way changes. *)
Keeps(s, r) ==
  /\ r \in Session /\ Lanes(s, r) /\ Same(s, r)
  /\ \A t : Holds(r.urgent, "abort", t) => Holds(s.urgent, "abort", t)

(* From s to r work only ends, and the turn is only released. *)
Eases(s, r) ==
  /\ r \in Session /\ Lanes(s, r)
  /\ r.nextTurnId = s.nextTurnId
  /\ r.turn \in {s.turn, NoTurn} /\ r.generation >= s.generation
  /\ r.llmGen \in {s.llmGen, 0} /\ r.batchGen \in {s.batchGen, 0}
  /\ r.speech \in {s.speech, "idle"}
  /\ r.announced \/ r.playing => (s.announced \/ s.playing) /\ r.speech = s.speech
  /\ r.asr \in {s.asr, "none"}
  /\ r.autoSpeechActive => s.autoSpeechActive
  /\ Fits(s) => Fits(r)
  /\ (r.listenArmPending => s.listenArmPending) /\ r.listeningMode = s.listeningMode
  /\ \A t : Holds(r.urgent, "abort", t) =>
       Holds(s.urgent, "abort", t) \/ (t = s.turn /\ t # NoTurn)

(* A session at rest satisfies the invariant. *)
LEMMA RestIsOwned ==
  ASSUME NEW s \in Session, NEW W, NEW V, Rest(s, W, V)
  PROVE  Owned(s, W, V)
BY DEF Rest, Owned, Spent, Idle

(* Ending work twice ends work. *)
LEMMA EasesOn ==
  ASSUME NEW s \in Session, NEW r, NEW q, Eases(s, r), Eases(r, q)
  PROVE  Eases(s, q)
<1>1. s.generation \in Nat /\ r.generation \in Nat /\ q.generation \in Nat
  BY DEF Eases, Session
<1>2. Lanes(s, q)
  BY DEF Eases, Lanes
<1>3. q.speech = r.speech \/ q.speech = "idle"
  BY DEF Eases
<1>4. q.announced \/ q.playing => (s.announced \/ s.playing) /\ q.speech = s.speech
  BY DEF Eases
<1>5. \A t : Holds(q.urgent, "abort", t) =>
         Holds(s.urgent, "abort", t) \/ (t = s.turn /\ t # NoTurn)
  BY DEF Eases
<1>6. q.generation >= s.generation /\ (Fits(s) => Fits(q))
  BY <1>1 DEF Eases
<1>7. /\ q \in Session /\ q.nextTurnId = s.nextTurnId /\ q.turn \in {s.turn, NoTurn}
      /\ q.llmGen \in {s.llmGen, 0} /\ q.batchGen \in {s.batchGen, 0}
      /\ q.speech \in {s.speech, "idle"} /\ q.asr \in {s.asr, "none"}
      /\ q.autoSpeechActive => s.autoSpeechActive
      /\ (q.listenArmPending => s.listenArmPending) /\ q.listeningMode = s.listeningMode
  BY DEF Eases
<1> QED BY <1>2, <1>4, <1>5, <1>6, <1>7 DEF Eases

(* A session that has ended its work is at rest. *)
LEMMA EasedRests ==
  ASSUME NEW s \in Session, NEW r, NEW W, NEW V, Base(s, W, V), Eases(s, r), Spent(r),
         r.asr # "none" => r.asrGen = r.generation
  PROVE  Rest(r, W, V)
<1>1. /\ s.generation \in Nat /\ r.generation \in Nat /\ s.batchGen \in Nat
      /\ s.turn \in Nat /\ r.turn \in Nat /\ s.nextTurnId \in Nat
  BY DEF Eases, Session, Turns
<1>2. r.batchGen <= r.generation /\ r.turn < r.nextTurnId
  BY <1>1 DEF Eases, Base, NoTurn
<1>3. \A t : Ends(r, W, t) \/ Starts(r, V, t) => t \in Nat \ {0} /\ t < r.nextTurnId
  BY <1>1 DEF Eases, Lanes, Base, NoTurn, Ends, Starts
<1> QED BY <1>2, <1>3 DEF Eases, Base, Rest

(* Changing nothing is a way to end work. *)
LEMMA KeepsEases ==
  ASSUME NEW s \in Session, NEW r, Keeps(s, r)
  PROVE  Eases(s, r)
<1>1. s.generation \in Nat
  BY DEF Session
<1> QED BY <1>1 DEF Keeps, Same, Eases

(* Keeping twice keeps. *)
LEMMA KeepsOn ==
  ASSUME NEW s \in Session, NEW r, NEW q, Keeps(s, r), Keeps(r, q)
  PROVE  Keeps(s, q)
<1>1. Lanes(s, q) /\ (\A t : Holds(q.urgent, "abort", t) => Holds(s.urgent, "abort", t))
  BY DEF Keeps, Lanes
<1>2. Same(s, q) /\ q \in Session
  BY DEF Keeps, Same
<1> QED BY <1>1, <1>2 DEF Keeps

(* A session at rest stays at rest when nothing changes. *)
LEMMA KeptRests ==
  ASSUME NEW s \in Session, NEW r, NEW W, NEW V, Keeps(s, r), Rest(s, W, V)
  PROVE  Rest(r, W, V)
BY DEF Keeps, Same, Lanes, Rest, Base, Spent, Idle, Batched, Ends, Starts

(* What a handler or the writer does beside the work of a turn. *)
Like(s, r) ==
  /\ r.nextTurnId = s.nextTurnId /\ r.turn = s.turn /\ r.turnGen = s.turnGen
  /\ r.generation = s.generation /\ r.llmGen = s.llmGen /\ r.batchGen \in {s.batchGen, 0}
  /\ r.speech = s.speech /\ r.announced = s.announced /\ r.playing = s.playing
  /\ r.asr \in {s.asr, "none"} /\ (r.asr # "none" => r.asrGen = s.asrGen)
  /\ r.autoSpeechActive => s.autoSpeechActive
  /\ Fits(s) => Fits(r)
  /\ r.listenArmPending => r.listeningMode # "none"
  /\ r.listeningMode = "manual" /\ r.phase = "Listening" =>
       s.listeningMode = "manual" /\ s.phase = "Listening"

(* The invariant survives when work ends and outcomes and starts only move. *)
LEMMA LikeOwned ==
  ASSUME NEW s \in Session, NEW r, NEW W, NEW V, NEW X, NEW Y, Owned(s, W, V), Like(s, r),
         \A t : Ends(r, X, t) => Ends(s, W, t), \A t : Starts(r, Y, t) => Starts(s, V, t)
  PROVE  Owned(r, X, Y)
<1>1. s.generation \in Nat
  BY DEF Session
<1>2. Base(r, X, Y)
  BY <1>1 DEF Owned, Base, Like
<1>3. (Batched(r) => Batched(s)) /\ (Idle(s) => Idle(r)) /\ (Spent(s) => Spent(r))
  BY DEF Like, Spent, Idle, Batched
<1>4. Ends(r, X, r.turn) => Ends(s, W, s.turn)
  BY DEF Like
<1>5. Starts(r, Y, r.turn) => Starts(s, V, s.turn)
  BY DEF Like
<1> QED BY <1>2, <1>3, <1>4, <1>5 DEF Owned, Like

(* The invariant survives such a change when the lanes are left alone. *)
LEMMA LikeStays ==
  ASSUME NEW s \in Session, NEW r, NEW W, NEW V, Owned(s, W, V), Like(s, r),
         r.urgent = s.urgent, r.control = s.control
  PROVE  Owned(r, W, V) /\ Lanes(s, r)
BY LikeOwned DEF Ends, Starts, Lanes

(* What a handler changes beside the work of a turn. *)
LEMMA Untouched ==
  ASSUME NEW s \in Session
  PROVE
    /\ \A v \in {"Ready", "Listening", "Processing", "Speaking", "Closed"} : Keeps(s, [s EXCEPT !.phase = v])
    /\ \A v \in BOOLEAN : Keeps(s, [s EXCEPT !.ttsStarted = v])
    /\ \A v \in Nat : Keeps(s, [s EXCEPT !.rounds = v])
    /\ \A v \in {"llm", "tool", "direct"} : Keeps(s, [s EXCEPT !.origin = v])
    /\ \A v \in Nat : Keeps(s, [s EXCEPT !.packets = v])
    /\ \A v \in {NoMsg} \union Message(AudioKinds) : Keeps(s, [s EXCEPT !.pendingAudio = v])
    /\ \A v \in Turns : Keeps(s, [s EXCEPT !.pendingDelivery = v])
    /\ \A v \in Turns : Keeps(s, [s EXCEPT !.closeAfter = v])
    /\ Keeps(s, [s EXCEPT !.listenArmPending = FALSE])
    /\ \A v \in {"none", "open", "closing"} : (s.vad = "none" => v = "none") => Keeps(s, [s EXCEPT !.vad = v])
    /\ \A v \in BOOLEAN : Keeps(s, [s EXCEPT !.autoResetPending = v])
    /\ \A v \in BOOLEAN : Keeps(s, [s EXCEPT !.capturing = v])
    /\ \A v \in BOOLEAN : Keeps(s, [s EXCEPT !.segment = v])
    /\ Keeps(s, [s EXCEPT !.cycle = FALSE])
    /\ \A v \in BOOLEAN : s.listeningMode # "manual" => Keeps(s, [s EXCEPT !.vadReset = v])
    /\ \A v \in BOOLEAN : Keeps(s, [s EXCEPT !.asrCleanup = v])
    /\ \A v \in Nat : Keeps(s, [s EXCEPT !.gate = v])
    /\ \A v \in Lane(AudioKinds, AudioCap) : Keeps(s, [s EXCEPT !.audio = v])
    /\ \A v \in BOOLEAN : Keeps(s, [s EXCEPT !.shutdown = v])
    /\ \A v \in BOOLEAN : Keeps(s, [s EXCEPT !.lanesOpen = v])
<1>1. \A v \in {"Ready", "Listening", "Processing", "Speaking", "Closed"} : Keeps(s, [s EXCEPT !.phase = v])
  BY DEF Keeps, Same, Lanes, Session, Fits
<1>2. \A v \in BOOLEAN : Keeps(s, [s EXCEPT !.ttsStarted = v])
  BY DEF Keeps, Same, Lanes, Session, Fits
<1>3. \A v \in Nat : Keeps(s, [s EXCEPT !.rounds = v])
  BY DEF Keeps, Same, Lanes, Session, Fits
<1>4. \A v \in {"llm", "tool", "direct"} : Keeps(s, [s EXCEPT !.origin = v])
  BY DEF Keeps, Same, Lanes, Session, Fits
<1>5. \A v \in Nat : Keeps(s, [s EXCEPT !.packets = v])
  BY DEF Keeps, Same, Lanes, Session, Fits
<1>6. \A v \in {NoMsg} \union Message(AudioKinds) : Keeps(s, [s EXCEPT !.pendingAudio = v])
  BY DEF Keeps, Same, Lanes, Session, Fits
<1>7. \A v \in Turns : Keeps(s, [s EXCEPT !.pendingDelivery = v])
  BY DEF Keeps, Same, Lanes, Session, Fits
<1>8. \A v \in Turns : Keeps(s, [s EXCEPT !.closeAfter = v])
  BY DEF Keeps, Same, Lanes, Session, Fits
<1>9. Keeps(s, [s EXCEPT !.listenArmPending = FALSE])
  <2> DEFINE r == [s EXCEPT !.listenArmPending = FALSE]
  <2>1. r \in Session /\ ~r.listenArmPending
    BY DEF Session
  <2>2. r.urgent = s.urgent /\ r.control = s.control
    BY DEF Session
  <2>3. Same(s, r)
    BY <2>1 DEF Session, Same, Fits
  <2> QED BY <2>1, <2>2, <2>3 DEF Keeps, Lanes
<1>10. \A v \in {"none", "open", "closing"} : (s.vad = "none" => v = "none") => Keeps(s, [s EXCEPT !.vad = v])
  <2> SUFFICES ASSUME NEW v \in {"none", "open", "closing"}, s.vad = "none" => v = "none"
               PROVE  Keeps(s, [s EXCEPT !.vad = v])
    OBVIOUS
  <2>1. [s EXCEPT !.vad = v] \in Session /\ [s EXCEPT !.vad = v].vad = v
    BY DEF Session
  <2> QED BY <2>1 DEF Keeps, Same, Lanes, Session, Fits
<1>11. \A v \in BOOLEAN : Keeps(s, [s EXCEPT !.autoResetPending = v])
  BY DEF Keeps, Same, Lanes, Session, Fits
<1>12. \A v \in BOOLEAN : Keeps(s, [s EXCEPT !.capturing = v])
  BY DEF Keeps, Same, Lanes, Session, Fits
<1>13. \A v \in BOOLEAN : Keeps(s, [s EXCEPT !.segment = v])
  BY DEF Keeps, Same, Lanes, Session, Fits
<1>14. Keeps(s, [s EXCEPT !.cycle = FALSE])
  <2> DEFINE r == [s EXCEPT !.cycle = FALSE]
  <2>1. r \in Session /\ ~r.cycle
    BY DEF Session
  <2>2. Fits(s) => Fits(r)
    BY <2>1 DEF Session, Fits
  <2>3. Same(s, r)
    BY <2>2 DEF Session, Same
  <2>4. r.urgent = s.urgent /\ r.control = s.control
    BY DEF Session
  <2> QED BY <2>1, <2>3, <2>4 DEF Keeps, Lanes
<1>15. \A v \in BOOLEAN : s.listeningMode # "manual" => Keeps(s, [s EXCEPT !.vadReset = v])
  BY DEF Keeps, Same, Lanes, Session, Fits
<1>16. \A v \in BOOLEAN : Keeps(s, [s EXCEPT !.asrCleanup = v])
  BY DEF Keeps, Same, Lanes, Session, Fits
<1>17. \A v \in Nat : Keeps(s, [s EXCEPT !.gate = v])
  BY DEF Keeps, Same, Lanes, Session, Fits
<1>18. \A v \in Lane(AudioKinds, AudioCap) : Keeps(s, [s EXCEPT !.audio = v])
  BY DEF Keeps, Same, Lanes, Session, Fits
<1>19. \A v \in BOOLEAN : Keeps(s, [s EXCEPT !.shutdown = v])
  BY DEF Keeps, Same, Lanes, Session, Fits
<1>20. \A v \in BOOLEAN : Keeps(s, [s EXCEPT !.lanesOpen = v])
  BY DEF Keeps, Same, Lanes, Session, Fits
<1> QED BY <1>1, <1>2, <1>3, <1>4, <1>5, <1>6, <1>7, <1>8, <1>9, <1>10, <1>11, <1>12,
           <1>13, <1>14, <1>15, <1>16, <1>17, <1>18, <1>19, <1>20

(* Each cancelling helper only ends work. *)
LEMMA EasingSteps ==
  ASSUME NEW s \in Session
  PROVE  /\ Eases(s, s)
         /\ Keeps(s, Invalidate(s)) /\ Eases(s, AdvanceGeneration(s))
         /\ Eases(s, ReleaseActiveTurn(s)) /\ Eases(s, CancelPendingActions(s))
         /\ Eases(s, CancelLlm(s)) /\ Eases(s, CancelTools(s))
         /\ Eases(s, ForgetAsr(s)) /\ Eases(s, CancelAsr(s))
         /\ Keeps(s, CloseVad(s)) /\ Eases(s, SilenceSpeech(s))
<1>1. s.generation \in Nat /\ s.generation + 1 >= s.generation /\ s.generation >= s.generation
  BY DEF Session
<1>2. Eases(s, s)
  BY <1>1 DEF Eases, Lanes
<1>3. Keeps(s, Invalidate(s))
  <2>1. CASE s.gate < s.generation
    BY <1>1, <2>1, Untouched DEF Invalidate
  <2>2. CASE ~(s.gate < s.generation)
    <3>1. s.gate \in Nat
      BY Fields
    <3> QED BY <2>2, <3>1, Untouched DEF Invalidate
  <2> QED BY <2>1, <2>2
<1>4. Eases(s, AdvanceGeneration(s))
  BY <1>1, TurnTypes DEF Eases, Lanes, AdvanceGeneration, Session, Fits
<1>5. Eases(s, ReleaseActiveTurn(s))
  <2>1. ReleaseActiveTurn(s) \in Session
    BY TurnTypes
  <2> QED BY <1>1, <2>1 DEF Eases, Lanes, ReleaseActiveTurn, Session, Fits
<1>6. Eases(s, CancelPendingActions(s))
  <2>1. Keeps(s, [s EXCEPT !.closeAfter = NoTurn])
    BY Untouched DEF Turns, NoTurn
  <2> QED BY <1>2, <2>1, KeepsEases DEF CancelPendingActions
<1>7. Eases(s, CancelLlm(s)) /\ Eases(s, CancelTools(s))
  BY <1>1, TurnTypes DEF Eases, Lanes, CancelLlm, CancelTools, Session, Fits
<1>8. Eases(s, ForgetAsr(s))
  <2>1. ForgetAsr(s) \in Session
    BY TurnTypes
  <2> QED BY <1>1, <2>1 DEF Eases, Lanes, ForgetAsr, Session, Fits
<1>9. Eases(s, CancelAsr(s))
  <2> DEFINE gone == ForgetAsr(s)
             due  == gone.asrCleanup \/ s.asr # "none"
  <2>1. gone \in Session /\ due \in BOOLEAN
    BY TurnTypes
  <2>2. Eases(s, gone)
    BY <1>8
  <2>3. CancelAsr(s) = [gone EXCEPT !.asrCleanup = due]
    BY DEF CancelAsr
  <2> HIDE DEF gone, due
  <2>4. Keeps(gone, [gone EXCEPT !.asrCleanup = due])
    BY <2>1, Untouched
  <2> QED BY <2>1, <2>2, <2>3, <2>4, KeepsEases, EasesOn
<1>10. Keeps(s, CloseVad(s))
  <2>1. CASE s.vad = "none"
    BY <2>1, Untouched DEF CloseVad
  <2>2. CASE s.vad # "none"
    BY <2>2, Untouched DEF CloseVad
  <2> QED BY <2>1, <2>2
<1>11. Eases(s, SilenceSpeech(s))
  <2> DEFINE shut == Invalidate(s)
  <2>1. shut \in Session /\ Eases(s, shut) /\ shut.generation \in Nat
    BY <1>3, TurnTypes, KeepsEases, Fields
  <2>2. SilenceSpeech(s) \in Session
    BY TurnTypes
  <2> HIDE DEF shut
  <2>3. Eases(shut, SilenceSpeech(s))
    BY <2>1, <2>2 DEF Eases, Lanes, SilenceSpeech, shut, Session, Fits
  <2> QED BY <2>1, <2>3, EasesOn
<1> QED BY <1>2, <1>3, <1>4, <1>5, <1>6, <1>7, <1>8, <1>9, <1>10, <1>11, KeepsEases

(* try_send of a close, of a text frame, of the end or abort of a turn. *)
LEMMA Appended ==
  ASSUME NEW kinds, NEW q \in Seq(Message(kinds)), NEW m \in Message(kinds)
  PROVE  /\ \A kind, t : Holds(Append(q, m), kind, t)
                         <=> Holds(q, kind, t) \/ (m.kind = kind /\ m.turn = t)
         /\ Once(q) /\ (m.kind = "start" => ~Holds(q, "start", m.turn)) => Once(Append(q, m))
<1>1. /\ DOMAIN q = 1..Len(q) /\ Len(q) \in Nat
      /\ DOMAIN Append(q, m) = 1..(Len(q) + 1)
      /\ \A i \in 1..Len(q) : Append(q, m)[i] = q[i]
      /\ Append(q, m)[Len(q) + 1] = m
  OBVIOUS
<1>2. \A kind, t : Holds(Append(q, m), kind, t)
                  <=> Holds(q, kind, t) \/ (m.kind = kind /\ m.turn = t)
  BY <1>1 DEF Holds
<1>3. Once(q) /\ (m.kind = "start" => ~Holds(q, "start", m.turn)) => Once(Append(q, m))
  <2> SUFFICES ASSUME Once(q), m.kind = "start" => ~Holds(q, "start", m.turn),
                      NEW i \in 1..(Len(q) + 1), NEW j \in 1..(Len(q) + 1),
                      Append(q, m)[i].kind = "start", Append(q, m)[j].kind = "start",
                      Append(q, m)[i].turn = Append(q, m)[j].turn
               PROVE  i = j
    BY <1>1 DEF Once
  <2>1. CASE i \in 1..Len(q) /\ j \in 1..Len(q)
    BY <1>1, <2>1 DEF Once
  <2>2. CASE i = Len(q) + 1 /\ j \in 1..Len(q)
    BY <1>1, <2>2 DEF Holds
  <2>3. CASE j = Len(q) + 1 /\ i \in 1..Len(q)
    BY <1>1, <2>3 DEF Holds
  <2> QED BY <1>1, <2>1, <2>2, <2>3
<1> QED BY <1>2, <1>3

(* A close on the urgent lane owes nothing; an abort owes the outcome of *)
(* the turn it names, the current one. *)
LEMMA OfferedUrgent ==
  ASSUME NEW s \in Session, NEW m \in Message(UrgentKinds)
  PROVE  /\ m.kind = "close" => Keeps(s, OfferUrgent(s, m))
         /\ m.kind = "abort" /\ m.turn = s.turn /\ s.turn # NoTurn => Eases(s, OfferUrgent(s, m))
         /\ OfferUrgent(s, m).speech = s.speech
<1>1. OfferUrgent(s, m) \in Session /\ s.urgent \in Seq(Message(UrgentKinds)) /\ s.generation \in Nat
  BY OfferUrgentType, Fields DEF Lane
<1>2. \A t : Holds(Append(s.urgent, m), "abort", t)
             <=> Holds(s.urgent, "abort", t) \/ (m.kind = "abort" /\ m.turn = t)
  BY <1>1, Appended
<1>3. CASE UrgentRoom(s)
  <2>1. OfferUrgent(s, m) = [s EXCEPT !.urgent = Append(s.urgent, m)]
    BY <1>3 DEF OfferUrgent
  <2> DEFINE r == OfferUrgent(s, m)
  <2>2. /\ r.urgent = Append(s.urgent, m) /\ r.control = s.control
        /\ Same(s, r)
    BY <2>1 DEF Session, Same, Fits
  <2>3. r \in Session
    BY <1>1
  <2> HIDE DEF r
  <2>4. m.kind = "close" => Keeps(s, r)
    BY <1>2, <2>2, <2>3 DEF Keeps, Lanes, Same
  <2>5. m.kind = "abort" /\ m.turn = s.turn /\ s.turn # NoTurn => Eases(s, r)
    BY <1>1, <1>2, <2>2, <2>3 DEF Eases, Lanes, Same
  <2> QED BY <2>2, <2>4, <2>5 DEF r, Same
<1>4. CASE ~UrgentRoom(s)
  BY <1>1, <1>4 DEF OfferUrgent, Keeps, Same, Eases, Lanes
<1> QED BY <1>3, <1>4

(* A text frame on the control lane, sent or refused, changes no work. *)
LEMMA OfferedText ==
  ASSUME NEW s \in Session, NEW g \in Nat, NEW t \in Nat
  PROVE  /\ Keeps(s, OfferControl(s, Msg("text", g, t)))
         /\ OfferControl(s, Msg("text", g, t)).phase = s.phase
         /\ OfferControl(s, Msg("text", g, t)).urgent = s.urgent
<1> DEFINE m == Msg("text", g, t)
<1>1. m \in Message(ControlKinds) /\ m.kind = "text"
  BY MessageTypes DEF Turns, Msg
<1> HIDE DEF m
<1>2. OfferControl(s, m) \in Session /\ s.control \in Seq(Message(ControlKinds))
  BY <1>1, OfferControlType, Fields DEF Lane
<1>3. /\ \A k, u : Holds(Append(s.control, m), k, u)
                    <=> Holds(s.control, k, u) \/ (m.kind = k /\ m.turn = u)
      /\ Once(s.control) => Once(Append(s.control, m))
  BY <1>1, <1>2, Appended
<1>4. CASE ControlRoom(s)
  <2>1. OfferControl(s, m) = [s EXCEPT !.control = Append(s.control, m)]
    BY <1>4 DEF OfferControl
  <2> DEFINE r == OfferControl(s, m)
  <2>2. /\ r.control = Append(s.control, m) /\ r.urgent = s.urgent /\ Same(s, r)
        /\ r.phase = s.phase
    BY <2>1 DEF Session, Same, Fits
  <2>3. r \in Session
    BY <1>2
  <2> HIDE DEF r
  <2>4. Keeps(s, r)
    BY <1>1, <1>3, <2>2, <2>3 DEF Keeps, Lanes, Same
  <2> QED BY <2>2, <2>4 DEF r, m
<1>5. CASE ~ControlRoom(s)
  BY <1>2, <1>5 DEF OfferControl, Keeps, Same, Lanes
<1> QED BY <1>4, <1>5 DEF m

(* A lane that gains nothing twice gains nothing. *)
LEMMA LanesOn ==
  ASSUME NEW s, NEW r, NEW q, Lanes(s, r), Lanes(r, q)
  PROVE  Lanes(s, q)
BY DEF Lanes

(* The cancellation cascade only ever ends work (delivery.rs 663-701, *)
(* lifecycle.rs 67-87). *)
LEMMA TornDown ==
  ASSUME NEW s \in Session, NEW code \in Nat
  PROVE  Keeps(s, TearDown(s, code))
<1> DEFINE shut == CloseVad(s)
           calm == [shut EXCEPT !.autoResetPending = FALSE]
           over == [calm EXCEPT !.phase = "Closed"]
<1>1. Eases(s, shut) /\ Keeps(s, shut) /\ shut \in Session
  BY EasingSteps, KeepsEases, TurnTypes
<1> HIDE DEF shut
<1>2. Keeps(shut, calm) /\ calm \in Session
  BY <1>1, Untouched, Updates
<1> HIDE DEF calm
<1>3. Keeps(calm, over) /\ over \in Session
  BY <1>2, Untouched, Updates
<1> HIDE DEF over
<1>4. Keeps(over, OfferUrgent(over, CloseMsg(code)))
  <2>1. CloseMsg(code) \in Message(UrgentKinds) /\ CloseMsg(code).kind = "close"
    BY MessageTypes DEF CloseMsg
  <2> QED BY <1>3, <2>1, OfferedUrgent
<1>5. TearDown(s, code) = OfferUrgent(over, CloseMsg(code))
  BY DEF TearDown, over, calm, shut
<1> QED BY <1>1, <1>2, <1>3, <1>4, <1>5, KeepsOn

(* cancel_speech_delivery and fail_closed only end work, and leave no *)
(* speech. *)
LEMMA Cancels ==
  ASSUME NEW s \in Session
  PROVE  /\ Eases(s, CancelSpeechDelivery(s)) /\ CancelSpeechDelivery(s).speech = "idle"
         /\ Eases(s, FailClosedUnplayed(s))
<1>1. ASSUME NEW r \in Session
      PROVE  Eases(r, FailClosedUnplayed(r))
  <2> DEFINE a == CancelPendingActions(r)
             b == SilenceSpeech(a)
             d == ReleaseActiveTurn(b)
             e == CancelLlm(d)
             f == CancelTools(e)
             g == CancelAsr(f)
             h == AdvanceGeneration(g)
  <2>1. Eases(r, a) /\ a \in Session
    BY EasingSteps, TurnTypes
  <2> HIDE DEF a
  <2>2. Eases(a, b) /\ b \in Session
    BY <2>1, EasingSteps, TurnTypes
  <2> HIDE DEF b
  <2>3. Eases(b, d) /\ d \in Session
    BY <2>2, EasingSteps, TurnTypes
  <2> HIDE DEF d
  <2>4. Eases(d, e) /\ e \in Session
    BY <2>3, EasingSteps, TurnTypes
  <2> HIDE DEF e
  <2>5. Eases(e, f) /\ f \in Session
    BY <2>4, EasingSteps, TurnTypes
  <2> HIDE DEF f
  <2>6. Eases(f, g) /\ g \in Session
    BY <2>5, EasingSteps, TurnTypes
  <2> HIDE DEF g
  <2>7. Eases(g, h) /\ h \in Session
    BY <2>6, EasingSteps, TurnTypes
  <2> HIDE DEF h
  <2>8. Eases(h, TearDown(h, 1011))
    BY <2>7, TornDown, KeepsEases
  <2>9. Eases(r, d)
    BY <2>1, <2>2, <2>3, EasesOn
  <2>10. Eases(r, g)
    BY <2>4, <2>5, <2>6, <2>9, EasesOn
  <2>11. Eases(r, TearDown(h, 1011))
    BY <2>7, <2>8, <2>10, EasesOn
  <2>12. FailClosedUnplayed(r) = IF r.phase = "Closed" THEN r ELSE TearDown(h, 1011)
    BY DEF FailClosedUnplayed, a, b, d, e, f, g, h
  <2> QED BY <2>11, <2>12, EasingSteps
<1>2. Eases(s, CancelSpeechDelivery(s)) /\ CancelSpeechDelivery(s).speech = "idle"
  <2> DEFINE quiet == SilenceSpeech(s)
             kept  == [quiet EXCEPT !.ttsStarted = FALSE]
  <2>1. Eases(s, quiet) /\ quiet \in Session
    BY EasingSteps, TurnTypes
  <2>2. quiet.speech = "idle" /\ quiet.turn = s.turn
    <3> DEFINE shut == Invalidate(s)
    <3>1. shut \in Session /\ shut.turn = s.turn
      BY EasingSteps, TurnTypes DEF Keeps, Same
    <3>2. quiet = [shut EXCEPT !.speech = "idle", !.announced = FALSE, !.playing = FALSE,
                               !.packets = 0, !.pendingAudio = NoMsg]
      BY DEF SilenceSpeech
    <3> HIDE DEF shut, quiet
    <3> QED BY <3>1, <3>2 DEF Session
  <2> HIDE DEF quiet
  <2>3. Keeps(quiet, kept) /\ kept \in Session
    BY <2>1, Untouched, Updates
  <2>4. kept.speech = "idle" /\ kept.turn = s.turn /\ Eases(s, kept)
    BY <2>1, <2>2, <2>3, KeepsEases, EasesOn DEF Keeps, Same
  <2> HIDE DEF kept
  <2>5. CASE ~s.ttsStarted
    <3>1. CancelSpeechDelivery(s) = ReleaseActiveTurn(quiet)
      BY <2>5 DEF CancelSpeechDelivery, quiet
    <3>2. Eases(quiet, ReleaseActiveTurn(quiet))
      BY <2>1, EasingSteps
    <3>3. ReleaseActiveTurn(quiet).speech = "idle"
      BY <2>2, <3>2 DEF Eases
    <3> QED BY <2>1, <3>1, <3>2, <3>3, EasesOn
  <2>6. CASE s.ttsStarted /\ s.turn = NoTurn
    BY <2>1, <2>2, <2>6 DEF CancelSpeechDelivery, quiet
  <2>7. CASE s.ttsStarted /\ s.turn # NoTurn /\ UrgentRoom(s)
    <3> DEFINE m == Msg("abort", 0, s.turn)
    <3>1. CancelSpeechDelivery(s) = OfferUrgent(kept, m)
      BY <2>7 DEF CancelSpeechDelivery, quiet, kept
    <3>2. m \in Message(UrgentKinds) /\ m.kind = "abort" /\ m.turn = kept.turn /\ kept.turn # NoTurn
      BY <2>4, <2>7, MessageTypes, Fields DEF Turns, Msg
    <3> HIDE DEF m
    <3>3. Eases(kept, OfferUrgent(kept, m)) /\ OfferUrgent(kept, m).speech = kept.speech
      BY <2>3, <3>2, OfferedUrgent
    <3> QED BY <2>4, <3>1, <3>3, EasesOn
  <2>8. CASE s.ttsStarted /\ s.turn # NoTurn /\ ~UrgentRoom(s)
    <3> DEFINE shut == FailClosedUnplayed(kept)
               r == [shut EXCEPT !.shutdown = TRUE]
    <3>1. Eases(kept, shut) /\ shut \in Session
      BY <1>1, <2>3, CancellationTypes
    <3> HIDE DEF shut
    <3>2. Keeps(shut, r)
      BY <3>1, Untouched
    <3>3. CancelSpeechDelivery(s) = r
      BY <2>8 DEF CancelSpeechDelivery, quiet, kept, shut
    <3> HIDE DEF r
    <3>4. Eases(kept, r)
      BY <2>3, <3>1, <3>2, KeepsEases, EasesOn
    <3>5. r.speech = "idle"
      BY <2>4, <3>4 DEF Eases
    <3> QED BY <2>4, <3>3, <3>4, <3>5, EasesOn
  <2> QED BY <2>5, <2>6, <2>7, <2>8
<1> QED BY <1>1, <1>2

(* What cancelling a recognition leaves alone. *)
LEMMA AsrCancelled ==
  ASSUME NEW s \in Session
  PROVE  CancelAsr(s).asr = "none" /\ CancelAsr(s).autoSpeechActive = s.autoSpeechActive
         /\ CancelAsr(s).phase = s.phase /\ CancelAsr(s).turn = s.turn
         /\ CancelAsr(s).generation = s.generation /\ CancelAsr(s).speech = s.speech
<1> DEFINE gone == ForgetAsr(s)
           due  == gone.asrCleanup \/ s.asr # "none"
<1>1. gone \in Session
  BY TurnTypes
<1>2. gone.asr = "none" /\ gone.autoSpeechActive = s.autoSpeechActive /\ gone.phase = s.phase
      /\ gone.turn = s.turn /\ gone.generation = s.generation /\ gone.speech = s.speech
  BY DEF ForgetAsr, Session
<1>3. CancelAsr(s) = [gone EXCEPT !.asrCleanup = due]
  BY DEF CancelAsr
<1> HIDE DEF gone, due
<1> QED BY <1>1, <1>2, <1>3 DEF Session

(* cancel_asr followed by a phase touches nothing else. *)
LEMMA AsrCleared ==
  ASSUME NEW s \in Session, NEW v \in {"Ready", "Processing"}
  PROVE  LET r == [CancelAsr(s) EXCEPT !.phase = v] IN
         /\ r \in Session /\ r.phase = v /\ r.asr = "none"
         /\ r.nextTurnId = s.nextTurnId /\ r.turn = s.turn /\ r.turnGen = s.turnGen
         /\ r.generation = s.generation /\ r.llmGen = s.llmGen /\ r.batchGen = s.batchGen
         /\ r.speech = s.speech /\ r.announced = s.announced /\ r.playing = s.playing
         /\ r.autoSpeechActive = s.autoSpeechActive /\ (Fits(s) => Fits(r))
         /\ r.listenArmPending = s.listenArmPending /\ r.listeningMode = s.listeningMode
         /\ r.urgent = s.urgent /\ r.control = s.control
<1> DEFINE due == ForgetAsr(s).asrCleanup \/ s.asr # "none"
<1>1. due \in BOOLEAN
  OBVIOUS
<1>2. CancelAsr(s) = [s EXCEPT !.asr = "none", !.asrGen = 0, !.asrCleanup = due]
  BY DEF CancelAsr, ForgetAsr, Session, Fits
<1> HIDE DEF due
<1>3. [CancelAsr(s) EXCEPT !.phase = v] \in Session
  BY TurnTypes, Updates
<1> QED BY <1>2, <1>3 DEF Session, Fits

(* interrupt_active_turn leaves no work at all. *)
Workless(s) ==
  s.llmGen = 0 /\ s.batchGen = 0 /\ s.speech = "idle" /\ s.asr = "none"

(* interrupt_active_turn leaves no work at all. *)
LEMMA Interrupts ==
  ASSUME NEW s \in Session
  PROVE  Eases(s, InterruptActiveTurn(s)) /\ Workless(InterruptActiveTurn(s))
<1> DEFINE a == CancelPendingActions(s)
           b == CancelSpeechDelivery(a)
           d == CancelLlm(b)
           e == CancelTools(d)
           f == CancelAsr(e)
<1>1. Eases(s, a) /\ a \in Session
  BY EasingSteps, TurnTypes
<1> HIDE DEF a
<1>2. Eases(a, b) /\ b \in Session /\ b.speech = "idle"
  BY <1>1, Cancels, CancellationTypes
<1> HIDE DEF b
<1>3. Eases(b, d) /\ d \in Session /\ d.llmGen = 0
  BY <1>2, EasingSteps, TurnTypes DEF CancelLlm, Session
<1> HIDE DEF d
<1>4. Eases(d, e) /\ e \in Session /\ e.batchGen = 0
  BY <1>3, EasingSteps, TurnTypes DEF CancelTools, Session
<1> HIDE DEF e
<1>5. Eases(e, f) /\ f \in Session /\ f.asr = "none"
  BY <1>4, EasingSteps, TurnTypes, AsrCancelled
<1> HIDE DEF f
<1>6. Eases(s, f)
  BY <1>1, <1>2, <1>3, <1>4, <1>5, EasesOn
<1>7. Workless(f)
  BY <1>2, <1>3, <1>4, <1>5 DEF Eases, Workless
<1> QED BY <1>6, <1>7 DEF InterruptActiveTurn, a, b, d, e, f

(* Work that is over stays over, and a session without work owes nothing. *)
LEMMA RestsOn ==
  ASSUME NEW s \in Session, NEW r, NEW W, NEW V, Eases(s, r)
  PROVE  /\ Base(s, W, V) /\ Workless(r) => Rest(r, W, V)
         /\ Rest(s, W, V) /\ (r.asr # "none" => r.asrGen = r.generation) => Rest(r, W, V)
<1>1. Base(s, W, V) /\ Workless(r) => Rest(r, W, V)
  <2> SUFFICES ASSUME Base(s, W, V), Workless(r) PROVE Rest(r, W, V)
    OBVIOUS
  <2>1. Spent(r)
    BY DEF Workless, Spent, Idle, Batched
  <2> QED BY <2>1, EasedRests DEF Workless
<1>2. Rest(s, W, V) /\ (r.asr # "none" => r.asrGen = r.generation) => Rest(r, W, V)
  <2> SUFFICES ASSUME Rest(s, W, V), r.asr # "none" => r.asrGen = r.generation
               PROVE  Rest(r, W, V)
    OBVIOUS
  <2>1. Base(s, W, V) /\ s.batchGen <= s.generation /\ Spent(s)
    BY DEF Rest, Base
  <2>2. s.generation \in Nat /\ r.generation \in Nat /\ s.batchGen \in Nat
    BY DEF Eases, Session
  <2>3. Spent(r)
    BY <2>1, <2>2 DEF Eases, Spent, Idle, Batched
  <2> QED BY <2>1, <2>3, EasedRests
<1> QED BY <1>1, <1>2

(* fail_closed (lifecycle.rs 67-87). *)
LEMMA FailsClosed ==
  ASSUME NEW s \in Session, NEW W, NEW V
  PROVE  /\ Eases(s, FailClosed(s))
         /\ Owned(s, W, V) => Owned(FailClosed(s), W, V)
         /\ Rest(s, W, V) => Rest(FailClosed(s), W, V)
         /\ Base(s, W, V) /\ s.phase # "Closed" => Rest(FailClosed(s), W, V)
<1> DEFINE a == InterruptActiveTurn(s)
           b == AdvanceGeneration(a)
           d == TearDown(b, 1011)
<1>1. Eases(s, a) /\ Workless(a) /\ a \in Session
  BY Interrupts, CancellationTypes
<1> HIDE DEF a
<1>2. Eases(a, b) /\ b \in Session
  BY <1>1, EasingSteps, TurnTypes
<1> HIDE DEF b
<1>3. Eases(b, d)
  BY <1>2, TornDown, KeepsEases
<1> HIDE DEF d
<1>4. Eases(a, d) /\ Eases(s, d)
  BY <1>1, <1>2, <1>3, EasesOn
<1>5. Workless(d)
  BY <1>1, <1>4 DEF Eases, Workless
<1>6. FailClosed(s) = IF s.phase = "Closed" THEN s ELSE d
  BY DEF FailClosed, a, b, d
<1>7. Eases(s, s)
  BY EasingSteps
<1>8. Base(s, W, V) => Rest(d, W, V)
  BY <1>4, <1>5, RestsOn
<1>9. Rest(d, W, V) => Owned(d, W, V)
  BY <1>4, RestIsOwned DEF Eases
<1>10. (Owned(s, W, V) => Base(s, W, V)) /\ (Rest(s, W, V) => Base(s, W, V))
  BY DEF Owned, Rest
<1> QED BY <1>4, <1>6, <1>7, <1>8, <1>9, <1>10

-----------------------------------------------------------------------------
(* Capture and delivery leave nothing behind. *)

(* Recognition may be opened again where no work is left. *)
Resumes(s, r) ==
  /\ r \in Session /\ Lanes(s, r)
  /\ \A t : Holds(r.urgent, "abort", t) => Holds(s.urgent, "abort", t)
  /\ r.nextTurnId = s.nextTurnId /\ r.turn = s.turn /\ r.generation = s.generation
  /\ r.llmGen = s.llmGen /\ r.batchGen = s.batchGen
  /\ r.speech = s.speech /\ r.announced = s.announced /\ r.playing = s.playing
  /\ r.asr # "none" => r.asr = "open" /\ r.asrGen = r.generation
  /\ Fits(r)
  /\ r.listenArmPending => r.listeningMode # "none"

(* Reopening the capture leaves the session at rest. *)
LEMMA ResumedRests ==
  ASSUME NEW s \in Session, NEW r, NEW W, NEW V, Rest(s, W, V), Resumes(s, r)
  PROVE  Rest(r, W, V)
<1>1. \A t : (Ends(r, W, t) => Ends(s, W, t)) /\ (Starts(r, V, t) => Starts(s, V, t))
  BY DEF Resumes, Lanes, Ends, Starts
<1>2. Base(r, W, V)
  BY <1>1 DEF Rest, Base, Resumes
<1> QED BY <1>2 DEF Rest, Resumes, Spent, Idle, Batched

(* replace_listening_mode leaves the session at rest: the streams it opens *)
(* are of the generation it has just begun. *)
LEMMA ModeReplaced ==
  ASSUME NEW s \in Session, NEW mode \in Modes, mode # "none", NEW c \in Replies,
         NEW W, NEW V, Rest(s, W, V)
  PROVE  /\ Rest(ReplaceListeningMode(s, mode, c), W, V)
         /\ Lanes(s, ReplaceListeningMode(s, mode, c))
<1> DEFINE arm  == [s EXCEPT !.listenArmPending = FALSE]
           a    == CancelSpeechDelivery(arm)
           b    == AdvanceGeneration(a)
           d    == CancelLlm(b)
           e    == CancelAsr(d)
           idle == CloseVad(e)
           base == [idle EXCEPT !.autoSpeechActive = FALSE,
                           !.autoResetPending = FALSE, !.cycle = FALSE,
                           !.vadReset = FALSE, !.segment = FALSE,
                           !.listeningMode = mode]
<1>1. Eases(s, arm) /\ arm \in Session /\ ~arm.listenArmPending
  <2>1. Keeps(s, arm)
    BY Untouched
  <2>2. ~arm.listenArmPending
    BY DEF Session
  <2> HIDE DEF arm
  <2> QED BY <2>1, <2>2, KeepsEases DEF Keeps
<1> HIDE DEF arm
<1>2. Eases(arm, a) /\ a \in Session
  BY <1>1, Cancels, CancellationTypes
<1> HIDE DEF a
<1>3. Eases(a, b) /\ b \in Session
  BY <1>2, EasingSteps, TurnTypes
<1> HIDE DEF b
<1>4. Eases(b, d) /\ d \in Session
  BY <1>3, EasingSteps, TurnTypes
<1> HIDE DEF d
<1>5. Eases(d, e) /\ e \in Session /\ e.asr = "none"
  BY <1>4, EasingSteps, TurnTypes, AsrCancelled
<1> HIDE DEF e
<1>6. Eases(e, idle) /\ idle \in Session
  BY <1>5, EasingSteps, TurnTypes, KeepsEases
<1> HIDE DEF idle
<1>7. Eases(arm, idle) /\ Eases(s, idle)
  BY <1>1, <1>2, <1>3, <1>4, <1>5, <1>6, EasesOn
<1>80. Lanes(s, idle)
  BY <1>7 DEF Eases
<1>8. idle.asr = "none" /\ ~idle.listenArmPending
  BY <1>1, <1>5, <1>6, <1>7 DEF Eases
<1>9. Rest(idle, W, V)
  BY <1>7, <1>8, RestsOn
<1>10. base \in Session /\ base.generation \in Nat
  BY <1>6, Updates, Fields
<1>11. /\ base.nextTurnId = idle.nextTurnId /\ base.turn = idle.turn
       /\ base.generation = idle.generation /\ base.llmGen = idle.llmGen
       /\ base.batchGen = idle.batchGen /\ base.speech = idle.speech
       /\ base.announced = idle.announced /\ base.playing = idle.playing
       /\ base.urgent = idle.urgent /\ base.control = idle.control
       /\ base.asr = "none" /\ ~base.autoSpeechActive
       /\ ~base.listenArmPending /\ base.listeningMode = mode
       /\ ~base.cycle /\ ~base.vadReset
  BY <1>6, <1>8 DEF Session
<1> HIDE DEF base
<1>13. CASE mode = "manual" /\ c["asr"]
  <2> DEFINE r == [base EXCEPT !.asr = "open", !.asrGen = base.generation,
                               !.capturing = TRUE, !.phase = "Listening"]
  <2>1. r \in Session
    BY <1>10, Updates
  <2>2. Resumes(idle, r)
    BY <1>10, <1>11, <2>1 DEF Resumes, Lanes, Session, Fits
  <2>3. ReplaceListeningMode(s, mode, c) = r
    BY <1>13 DEF ReplaceListeningMode, base, idle, e, d, b, a, arm
  <2> HIDE DEF r
  <2>4. Rest(r, W, V)
    BY <1>6, <1>9, <2>2, ResumedRests
  <2>5. Lanes(s, r)
    BY <1>80, <2>2, LanesOn DEF Resumes
  <2> QED BY <2>3, <2>4, <2>5
<1>14. CASE mode = "manual" /\ ~c["asr"]
  <2> DEFINE r == [base EXCEPT !.phase = "Ready"]
  <2>1. r \in Session
    BY <1>10, Updates
  <2>2. Resumes(idle, r)
    BY <1>10, <1>11, <2>1 DEF Resumes, Lanes, Session, Fits
  <2>3. ReplaceListeningMode(s, mode, c) = r
    BY <1>14 DEF ReplaceListeningMode, base, idle, e, d, b, a, arm
  <2> HIDE DEF r
  <2>4. Rest(r, W, V)
    BY <1>6, <1>9, <2>2, ResumedRests
  <2>5. Lanes(s, r)
    BY <1>80, <2>2, LanesOn DEF Resumes
  <2> QED BY <2>3, <2>4, <2>5
<1>15. CASE mode # "manual" /\ c["vad"]
  <2> DEFINE r == [base EXCEPT !.vad = "open", !.cycle = TRUE, !.phase = "Listening"]
  <2>1. r \in Session
    BY <1>10, Updates
  <2>3. Resumes(idle, r)
    BY <1>10, <1>11, <1>15, <2>1 DEF Resumes, Lanes, Session, Fits
  <2>4. ReplaceListeningMode(s, mode, c) = r
    BY <1>15 DEF ReplaceListeningMode, base, idle, e, d, b, a, arm
  <2> HIDE DEF r
  <2>5. Rest(r, W, V)
    BY <1>6, <1>9, <2>3, ResumedRests
  <2>6. Lanes(s, r)
    BY <1>80, <2>3, LanesOn DEF Resumes
  <2> QED BY <2>4, <2>5, <2>6
<1>16. CASE mode # "manual" /\ ~c["vad"]
  <2> DEFINE q == [base EXCEPT !.phase = "Closed"]
             r == OfferUrgent(q, CloseMsg(1013))
  <2>1. q \in Session
    BY <1>10, Updates
  <2>2. Resumes(idle, q)
    BY <1>10, <1>11, <2>1 DEF Resumes, Lanes, Session, Fits
  <2> HIDE DEF q
  <2>3. Rest(q, W, V) /\ Lanes(s, q)
    BY <1>6, <1>7, <1>9, <2>2, ResumedRests, LanesOn DEF Eases, Resumes
  <2>4. CloseMsg(1013) \in Message(UrgentKinds) /\ CloseMsg(1013).kind = "close"
    BY MessageTypes DEF CloseMsg
  <2>5. Keeps(q, r)
    BY <2>1, <2>4, OfferedUrgent
  <2>6. ReplaceListeningMode(s, mode, c) = r
    BY <1>16 DEF ReplaceListeningMode, base, idle, e, d, b, a, arm, q
  <2> HIDE DEF r
  <2> QED BY <2>1, <2>3, <2>5, <2>6, KeptRests, LanesOn DEF Keeps
<1> QED BY <1>13, <1>14, <1>15, <1>16 DEF Replies

(* Restarting the capture cycle of the VAD leaves the session at rest. *)
LEMMA CycleReset ==
  ASSUME NEW s \in Session, NEW c, NEW W, NEW V, Rest(s, W, V), s.listeningMode # "manual"
  PROVE  Rest(ResetVadCaptureCycle(s, c), W, V) /\ Lanes(s, ResetVadCaptureCycle(s, c))
<1> DEFINE accepted == s.vad = "open" /\ ~s.vadReset /\ c["vad"]
           bare  == [s EXCEPT !.cycle = FALSE]
           asked == [bare EXCEPT !.vadReset = accepted]
           due   == [asked EXCEPT !.autoResetPending = TRUE]
<1>1. accepted \in BOOLEAN
  OBVIOUS
<1>2. ResetVadCaptureCycle(s, c) = IF accepted THEN due ELSE FailClosed(asked)
  BY DEF ResetVadCaptureCycle
<1> HIDE DEF accepted
<1>3. Keeps(s, bare) /\ bare \in Session
  BY Untouched, Updates
<1> HIDE DEF bare
<1>4. Keeps(bare, asked) /\ asked \in Session
  <2>1. bare.listeningMode # "manual"
    BY <1>3 DEF Keeps, Same
  <2> QED BY <1>1, <1>3, <2>1, Untouched, Updates
<1> HIDE DEF asked
<1>5. Keeps(asked, due)
  BY <1>4, Untouched
<1> HIDE DEF due
<1>6. Keeps(s, asked) /\ Keeps(s, due)
  BY <1>3, <1>4, <1>5, KeepsOn
<1>7. Rest(asked, W, V) /\ Rest(due, W, V)
  BY <1>6, KeptRests
<1>8. Rest(FailClosed(asked), W, V) /\ Lanes(asked, FailClosed(asked))
  BY <1>4, <1>7, FailsClosed DEF Eases
<1> QED BY <1>2, <1>6, <1>7, <1>8, LanesOn DEF Keeps

(* Releasing the turn of a session at rest leaves it at rest. *)
LEMMA TurnReleasedRests ==
  ASSUME NEW s \in Session, NEW W, NEW V, Rest(s, W, V)
  PROVE  Rest(ReleaseActiveTurn(s), W, V) /\ Lanes(s, ReleaseActiveTurn(s))
<1> DEFINE r == ReleaseActiveTurn(s)
<1>1. Eases(s, r)
  BY EasingSteps
<1>2. r.asr = s.asr /\ r.asrGen = s.asrGen /\ r.generation = s.generation
  BY DEF ReleaseActiveTurn, Session
<1> HIDE DEF r
<1>3. Rest(r, W, V)
  BY <1>1, <1>2, RestsOn DEF Rest
<1> QED BY <1>1, <1>3 DEF r, Eases

(* complete_recognition leaves a session at rest at rest. *)
LEMMA Completes ==
  ASSUME NEW s \in Session, NEW c \in Replies, NEW W, NEW V, Rest(s, W, V)
  PROVE  Rest(CompleteRecognition(s, c), W, V) /\ Lanes(s, CompleteRecognition(s, c))
<1> DEFINE free == ReleaseActiveTurn(s)
           mode == free.listeningMode
<1>1. free \in Session /\ Rest(free, W, V) /\ Lanes(s, free)
  BY TurnTypes, TurnReleasedRests
<1> HIDE DEF free
<1>2. mode \in Modes \union {"none"} /\ "none" \notin VadModes
  BY <1>1, Fields DEF VadModes
<1>3. mode \in VadModes \/ free.listenArmPending => mode # "none"
  BY <1>1, <1>2 DEF Rest, Base
<1>4. mode # "none" => /\ Rest(ReplaceListeningMode(free, mode, c), W, V)
                       /\ Lanes(s, ReplaceListeningMode(free, mode, c))
  BY <1>1, <1>2, ModeReplaced, LanesOn
<1>5. mode \in VadModes => /\ Rest(ResetVadCaptureCycle(free, c), W, V)
                           /\ Lanes(s, ResetVadCaptureCycle(free, c))
  BY <1>1, CycleReset, LanesOn DEF VadModes
<1>6. Rest([free EXCEPT !.phase = "Ready"], W, V) /\ Lanes(s, [free EXCEPT !.phase = "Ready"])
  <2>1. Keeps(free, [free EXCEPT !.phase = "Ready"])
    BY <1>1, Untouched
  <2> QED BY <1>1, <2>1, KeptRests, LanesOn DEF Keeps
<1>7. \/ CompleteRecognition(s, c) = ReplaceListeningMode(free, mode, c) /\ mode # "none"
      \/ CompleteRecognition(s, c) = ResetVadCaptureCycle(free, c) /\ mode \in VadModes
      \/ CompleteRecognition(s, c) \in {free, [free EXCEPT !.phase = "Ready"]}
  BY <1>3 DEF CompleteRecognition, free
<1> QED BY <1>1, <1>4, <1>5, <1>6, <1>7

(* fail_speech_delivery (delivery.rs 230-293). *)
LEMMA DeliveryFails ==
  ASSUME NEW s \in Session, NEW c \in Replies, NEW W, NEW V,
         Base(s, W, V), s.asr = "none"
  PROVE  Rest(FailSpeechDelivery(s, c), W, V) /\ Lanes(s, FailSpeechDelivery(s, c))
<1> DEFINE armed == IF s.ttsStarted THEN s ELSE CancelPendingActions(s)
           a == CancelSpeechDelivery(armed)
           b == CancelLlm(a)
           d == CancelTools(b)
           e == AdvanceGeneration(d)
<1>1. Eases(s, armed) /\ armed \in Session
  BY EasingSteps, TurnTypes
<1> HIDE DEF armed
<1>2. Eases(armed, a) /\ a \in Session /\ a.speech = "idle"
  BY <1>1, Cancels, CancellationTypes
<1> HIDE DEF a
<1>3. Eases(a, b) /\ b \in Session /\ b.llmGen = 0
  BY <1>2, EasingSteps, TurnTypes DEF CancelLlm, Session
<1> HIDE DEF b
<1>4. Eases(b, d) /\ d \in Session /\ d.batchGen = 0
  BY <1>3, EasingSteps, TurnTypes DEF CancelTools, Session
<1> HIDE DEF d
<1>5. Eases(d, e) /\ e \in Session
  BY <1>4, EasingSteps, TurnTypes
<1> HIDE DEF e
<1>6. Eases(s, e)
  BY <1>1, <1>2, <1>3, <1>4, <1>5, EasesOn
<1>7. e.asr = "none"
  BY <1>6 DEF Eases
<1>8. Workless(e)
  BY <1>2, <1>3, <1>4, <1>5, <1>7 DEF Eases, Workless
<1>9. Rest(e, W, V) /\ Lanes(s, e)
  BY <1>6, <1>8, RestsOn DEF Eases
<1>10. Rest(CompleteRecognition(e, c), W, V) /\ Lanes(s, CompleteRecognition(e, c))
  BY <1>5, <1>9, Completes, LanesOn
<1>11. FailSpeechDelivery(s, c) = IF s.ttsStarted THEN e ELSE CompleteRecognition(e, c)
  BY DEF FailSpeechDelivery, e, d, b, a, armed
<1> QED BY <1>9, <1>10, <1>11

(* begin_active_turn takes an id nobody has seen (mod.rs 597-620). *)
Fresh(s, W, V) ==
  /\ Base(s, W, V) /\ Idle(s) /\ s.turn # NoTurn /\ s.turnGen = s.generation
  /\ ~s.autoSpeechActive
  /\ s.listeningMode = "manual" => s.phase # "Listening"
  /\ ~Ends(s, W, s.turn) /\ ~Starts(s, V, s.turn)

(* A turn that begins has no outcome and no start under way. *)
LEMMA Begins ==
  ASSUME NEW s \in Session, NEW W, NEW V, Rest(s, W, V)
  PROVE  LET r == BeginActiveTurn(s) IN
         /\ r \in Session /\ Rest(r, W, V) /\ Lanes(s, r)
         /\ r.turn # NoTurn /\ r.turnGen = r.generation
         /\ r.phase = s.phase /\ r.autoSpeechActive = s.autoSpeechActive /\ r.asr = s.asr
         /\ r.listeningMode = s.listeningMode
         /\ ~Ends(r, W, r.turn) /\ ~Starts(r, V, r.turn)
<1> DEFINE r == BeginActiveTurn(s)
<1>1. r \in Session
  BY TurnTypes
<1>2. /\ r.turn = s.nextTurnId /\ r.turnGen = s.generation /\ r.nextTurnId = s.nextTurnId + 1
      /\ r.generation = s.generation /\ r.llmGen = s.llmGen /\ r.batchGen = s.batchGen
      /\ r.speech = s.speech /\ r.announced = s.announced /\ r.playing = s.playing
      /\ r.asr = s.asr /\ r.asrGen = s.asrGen /\ r.autoSpeechActive = s.autoSpeechActive
      /\ (Fits(s) => Fits(r)) /\ r.listenArmPending = s.listenArmPending
      /\ r.listeningMode = s.listeningMode /\ r.phase = s.phase
      /\ r.urgent = s.urgent /\ r.control = s.control
  BY DEF BeginActiveTurn, Session, Fits
<1>3. s.nextTurnId \in Nat \ {0}
  BY Fields
<1> HIDE DEF r
<1>4. \A t : (Ends(r, W, t) <=> Ends(s, W, t)) /\ (Starts(r, V, t) <=> Starts(s, V, t))
  BY <1>2 DEF Ends, Starts
<1>5. Base(r, W, V)
  BY <1>2, <1>3, <1>4 DEF Rest, Base
<1>6. Rest(r, W, V)
  BY <1>2, <1>5 DEF Rest, Spent, Idle, Batched
<1>7. ~Ends(r, W, r.turn) /\ ~Starts(r, V, r.turn)
  BY <1>2, <1>3, <1>4 DEF Rest, Base
<1> QED BY <1>1, <1>2, <1>3, <1>6, <1>7 DEF r, NoTurn, Lanes

(* start_llm_round (delivery.rs 4-60). *)
LEMMA RoundStarts ==
  ASSUME NEW s \in Session, NEW c \in Replies, NEW W, NEW V,
         Fresh(s, W, V), s.asr = "none"
  PROVE  Owned(StartLlmRound(s, c), W, V) /\ Lanes(s, StartLlmRound(s, c))
<1> DEFINE asked == [s EXCEPT !.origin = "llm"]
           r == [asked EXCEPT !.llmGen = s.generation]
           free == ReleaseActiveTurn(asked)
<1>1. Keeps(s, asked) /\ asked \in Session
  BY Untouched, Updates
<1>2. /\ asked.turn = s.turn /\ asked.turnGen = s.turnGen /\ asked.phase = s.phase
      /\ asked.asr = s.asr /\ asked.autoSpeechActive = s.autoSpeechActive
  BY DEF Session
<1>3. StartLlmRound(s, c) = IF c["llm"] THEN r ELSE CompleteRecognition(free, c)
  BY DEF StartLlmRound, Fresh
<1>4. Rest(s, W, V)
  BY DEF Fresh, Rest, Spent
<1>5. Rest(asked, W, V)
  BY <1>1, <1>4, KeptRests
<1>6. Rest(free, W, V) /\ free \in Session /\ Lanes(s, free)
  BY <1>1, <1>5, TurnReleasedRests, TurnTypes, LanesOn DEF Keeps
<1>7. Rest(CompleteRecognition(free, c), W, V) /\ Lanes(s, CompleteRecognition(free, c))
  BY <1>6, Completes, LanesOn
<1>8. Owned(CompleteRecognition(free, c), W, V)
  BY <1>6, <1>7, RestIsOwned, CompleteRecognitionType
<1>9. Owned(r, W, V) /\ Lanes(s, r)
  <2>1. s.generation \in Nat /\ r \in Session
    BY <1>1, Updates, Fields
  <2>2. /\ r.nextTurnId = s.nextTurnId /\ r.turn = s.turn /\ r.turnGen = s.turnGen
        /\ r.generation = s.generation /\ r.llmGen = s.generation /\ r.batchGen = s.batchGen
        /\ r.speech = s.speech /\ r.announced = s.announced /\ r.playing = s.playing
        /\ r.asr = s.asr /\ r.autoSpeechActive = s.autoSpeechActive /\ (Fits(s) => Fits(r))
        /\ r.listenArmPending = s.listenArmPending /\ r.listeningMode = s.listeningMode
        /\ r.phase = s.phase /\ r.urgent = s.urgent /\ r.control = s.control
    BY DEF Session, Fits
  <2> HIDE DEF r, asked
  <2>3. \A t : (Ends(r, W, t) <=> Ends(s, W, t)) /\ (Starts(r, V, t) <=> Starts(s, V, t))
    BY <2>2 DEF Ends, Starts
  <2>4. Base(r, W, V)
    BY <2>2, <2>3 DEF Fresh, Base
  <2>5. ~Batched(r) /\ r.speech = "idle"
    BY <2>2 DEF Fresh, Idle, Batched
  <2>6. ~Ends(r, W, r.turn) /\ ~Starts(r, V, r.turn)
    BY <2>2, <2>3 DEF Fresh
  <2>7. Owned(r, W, V)
    BY <2>2, <2>4, <2>5, <2>6 DEF Fresh, Owned
  <2> QED BY <2>2, <2>7 DEF Lanes
<1> QED BY <1>3, <1>7, <1>8, <1>9

(* finish_manual (delivery.rs 624-646). *)
LEMMA Finishes ==
  ASSUME NEW s \in Session, NEW c \in Replies, NEW W, NEW V,
         Rest(s, W, V), ~s.autoSpeechActive,
         s.listeningMode = "manual" => s.phase # "Listening"
  PROVE  Owned(FinishManual(s, c), W, V) /\ Lanes(s, FinishManual(s, c))
<1> DEFINE begun == BeginActiveTurn(s)
           bare  == CancelAsr(s)
           off   == CancelAsr(begun)
           free  == ReleaseActiveTurn(off)
           r     == [begun EXCEPT !.asr = "finishing"]
<1>1. /\ begun \in Session /\ Rest(begun, W, V) /\ Lanes(s, begun)
      /\ begun.turn # NoTurn /\ begun.turnGen = begun.generation
      /\ begun.phase = s.phase /\ begun.autoSpeechActive = s.autoSpeechActive
      /\ begun.asr = s.asr /\ begun.listeningMode = s.listeningMode
      /\ ~Ends(begun, W, begun.turn) /\ ~Starts(begun, V, begun.turn)
  BY Begins
<1> HIDE DEF begun
<1>2. bare \in Session /\ Rest(bare, W, V) /\ Lanes(s, bare)
  <2>1. Eases(s, bare) /\ bare.asr = "none"
    BY EasingSteps, AsrCancelled
  <2> HIDE DEF bare
  <2> QED BY <2>1, RestsOn DEF Eases
<1> HIDE DEF bare
<1>3. Rest(CompleteRecognition(bare, c), W, V) /\ Lanes(s, CompleteRecognition(bare, c))
  BY <1>2, Completes, LanesOn
<1>4. Owned(CompleteRecognition(bare, c), W, V)
  BY <1>2, <1>3, RestIsOwned, CompleteRecognitionType
<1>5. Owned(ReleaseActiveTurn(begun), W, V) /\ Lanes(s, ReleaseActiveTurn(begun))
  BY <1>1, TurnReleasedRests, RestIsOwned, TurnTypes, LanesOn
<1>6. Owned([free EXCEPT !.phase = "Ready"], W, V) /\ Lanes(s, [free EXCEPT !.phase = "Ready"])
  <2>1. Eases(begun, off) /\ off.asr = "none" /\ off \in Session
    BY <1>1, EasingSteps, AsrCancelled, TurnTypes
  <2> HIDE DEF off
  <2>2. Rest(off, W, V) /\ Lanes(s, off)
    BY <1>1, <2>1, RestsOn, LanesOn DEF Eases
  <2>3. Rest(free, W, V) /\ free \in Session /\ Lanes(s, free)
    BY <2>1, <2>2, TurnReleasedRests, TurnTypes, LanesOn
  <2> HIDE DEF free
  <2>4. Keeps(free, [free EXCEPT !.phase = "Ready"])
    BY <2>3, Untouched
  <2>5. Rest([free EXCEPT !.phase = "Ready"], W, V)
    BY <2>3, <2>4, KeptRests
  <2>6. [free EXCEPT !.phase = "Ready"] \in Session
    BY <2>3, Updates
  <2> QED BY <2>3, <2>4, <2>5, <2>6, RestIsOwned, LanesOn DEF Keeps
<1>7. s.asr # "none" => Owned(r, W, V) /\ Lanes(s, r)
  <2> SUFFICES ASSUME s.asr # "none" PROVE Owned(r, W, V) /\ Lanes(s, r)
    OBVIOUS
  <2>1. r \in Session
    BY <1>1, Updates
  <2>2. /\ r.nextTurnId = begun.nextTurnId /\ r.turn = begun.turn /\ r.turnGen = begun.turnGen
        /\ r.generation = begun.generation /\ r.llmGen = begun.llmGen
        /\ r.batchGen = begun.batchGen /\ r.speech = begun.speech
        /\ r.announced = begun.announced /\ r.playing = begun.playing
        /\ r.asr = "finishing" /\ r.asrGen = begun.asrGen
        /\ r.autoSpeechActive = begun.autoSpeechActive /\ (Fits(begun) => Fits(r))
        /\ r.listenArmPending = begun.listenArmPending
        /\ r.listeningMode = begun.listeningMode
        /\ r.phase = begun.phase /\ r.urgent = begun.urgent /\ r.control = begun.control
    BY <1>1 DEF Session, Fits
  <2> HIDE DEF r
  <2>3. \A t : /\ Ends(r, W, t) <=> Ends(begun, W, t)
               /\ Starts(r, V, t) <=> Starts(begun, V, t)
    BY <2>2 DEF Ends, Starts
  <2>4. Base(r, W, V)
    BY <1>1, <2>2, <2>3 DEF Rest, Base
  <2>5. Idle(r) /\ ~Batched(r)
    BY <1>1, <2>2 DEF Rest, Spent, Idle, Batched
  <2>6. ~Ends(r, W, r.turn) /\ ~Starts(r, V, r.turn)
    BY <1>1, <2>2, <2>3
  <2>7. r.asrGen = r.generation
    BY <1>1, <2>2 DEF Rest
  <2>8. Owned(r, W, V)
    BY <1>1, <2>2, <2>4, <2>5, <2>6, <2>7 DEF Owned, Idle
  <2> QED BY <1>1, <2>2, <2>8 DEF Lanes
<1>8. FinishManual(s, c) =
        IF ~c["permit"] THEN CompleteRecognition(bare, c)
        ELSE IF s.asr = "none" THEN ReleaseActiveTurn(begun)
        ELSE IF c["asr"] THEN r ELSE [free EXCEPT !.phase = "Ready"]
  BY DEF FinishManual, r, free, off, bare, begun
<1> QED BY <1>3, <1>4, <1>5, <1>6, <1>7, <1>8

(* open_asr_for_speech (listening.rs 601-631). *)
LEMMA SpeechOpens ==
  ASSUME NEW s \in Session, NEW c \in Replies, NEW pushed \in BOOLEAN, NEW W, NEW V,
         s.listeningMode # "manual", Rest(s, W, V)
  PROVE  Owned(OpenAsrForSpeech(s, pushed, c), W, V) /\ Lanes(s, OpenAsrForSpeech(s, pushed, c))
<1> DEFINE heard == [s EXCEPT !.autoSpeechActive = TRUE]
           open  == [heard EXCEPT !.asr = "open", !.asrGen = s.generation]
           off   == CancelAsr(open)
           r     == [off EXCEPT !.autoSpeechActive = FALSE]
<1>1. heard \in Session /\ s.generation \in Nat
  BY Updates, Fields
<1>2. open \in Session
  BY <1>1, Updates
<1>3. Resumes(s, heard)
  BY <1>1 DEF Resumes, Lanes, Session, Rest, Spent, Base, Fits
<1>4. Resumes(s, open)
  BY <1>1, <1>2 DEF Resumes, Lanes, Session, Rest, Base, Fits
<1> HIDE DEF heard, open
<1>5. Rest(heard, W, V) /\ Rest(open, W, V) /\ Lanes(s, heard) /\ Lanes(s, open)
  BY <1>3, <1>4, ResumedRests DEF Resumes
<1>6. Eases(open, off) /\ off.asr = "none" /\ off \in Session
  BY <1>2, EasingSteps, AsrCancelled, TurnTypes
<1> HIDE DEF off
<1>7. Rest(off, W, V) /\ Lanes(s, off)
  BY <1>2, <1>5, <1>6, RestsOn, LanesOn DEF Eases
<1>8. r \in Session
  BY <1>6, Updates
<1>9. Resumes(off, r)
  BY <1>6, <1>7, <1>8 DEF Resumes, Lanes, Session, Rest, Base, Fits
<1> HIDE DEF r
<1>10. Rest(r, W, V) /\ Lanes(s, r)
  BY <1>6, <1>7, <1>9, ResumedRests, LanesOn DEF Resumes
<1>11. OpenAsrForSpeech(s, pushed, c) = IF ~c["asr"] THEN heard ELSE IF pushed THEN open ELSE r
  BY DEF OpenAsrForSpeech, r, off, open, heard
<1> QED BY <1>1, <1>2, <1>5, <1>8, <1>10, <1>11, RestIsOwned

(* The capture cycle restarted for the same mode (listening.rs 177-231). *)
LEMMA CycleRestarts ==
  ASSUME NEW s \in Session, NEW c, NEW W, NEW V, Rest(s, W, V), s.listeningMode # "manual"
  PROVE  Rest(RestartCaptureCycle(s, c), W, V) /\ Lanes(s, RestartCaptureCycle(s, c))
<1> DEFINE bare  == [s EXCEPT !.autoSpeechActive = FALSE, !.segment = FALSE]
           reset == ResetVadCaptureCycle(bare, c)
<1>1. bare \in Session
  BY Updates
<1>2. Resumes(s, bare)
  BY <1>1 DEF Resumes, Lanes, Session, Rest, Spent, Base, Fits
<1> HIDE DEF bare
<1>3. Rest(bare, W, V) /\ Lanes(s, bare) /\ bare.listeningMode # "manual"
  BY <1>2, ResumedRests DEF Resumes, bare, Session
<1>4. Rest(reset, W, V) /\ Lanes(s, reset) /\ reset \in Session
  BY <1>1, <1>3, CycleReset, ResetVadCaptureCycleType, LanesOn
<1> HIDE DEF reset
<1>5. Keeps(reset, [reset EXCEPT !.phase = "Processing"])
  BY <1>4, Untouched
<1>6. /\ Rest([reset EXCEPT !.phase = "Processing"], W, V)
      /\ Lanes(s, [reset EXCEPT !.phase = "Processing"])
  BY <1>4, <1>5, KeptRests, LanesOn DEF Keeps
<1>7. RestartCaptureCycle(s, c) \in {s, [reset EXCEPT !.phase = "Processing"], reset}
  BY DEF RestartCaptureCycle, reset, bare
<1> QED BY <1>4, <1>6, <1>7 DEF Lanes

(* A turn's outcome (ingress.rs 93-155, lifecycle.rs 89-105). *)
LEMMA TurnCloses ==
  ASSUME NEW s \in Session, NEW o \in Verdict, NEW c \in Replies, NEW W, NEW V,
         Owned(s, W, V), s.turn = o.turn /\ s.turn # NoTurn => Ends(s, W, o.turn)
  PROVE  Owned(TurnClosed(s, o, c), W, V) /\ Lanes(s, TurnClosed(s, o, c))
<1> DEFINE told  == [s EXCEPT !.closeAfter = NoTurn, !.ttsStarted = FALSE,
                              !.pendingDelivery = NoTurn]
           freed == ReleaseActiveTurn(told)
           shut  == CloseVad(freed)
           over  == [shut EXCEPT !.autoResetPending = FALSE, !.phase = "Closed"]
           ended == OfferUrgent(over, CloseMsg(1000))
<1>1. CASE s.turn # o.turn
  BY <1>1 DEF TurnClosed, Lanes
<1>2. CASE s.turn = o.turn
  <2>1. Rest(s, W, V)
    <3>1. CASE s.turn = NoTurn
      BY <3>1 DEF Owned, Rest, Spent
    <3>2. CASE s.turn # NoTurn
      BY <1>2, <3>2 DEF Owned, Rest
    <3> QED BY <3>1, <3>2
  <2>2. told \in Session
    BY Updates DEF NoTurn, Turns
  <2>3. Resumes(s, told)
    BY <2>1, <2>2 DEF Resumes, Lanes, Session, Rest, Spent, Base, Fits
  <2> HIDE DEF told
  <2>4. Rest(told, W, V) /\ Lanes(s, told)
    BY <2>1, <2>3, ResumedRests DEF Resumes
  <2>5. Rest(freed, W, V) /\ Lanes(s, freed) /\ freed \in Session
    BY <2>2, <2>4, TurnReleasedRests, TurnTypes, LanesOn
  <2> HIDE DEF freed
  <2>6. Rest(CompleteRecognition(freed, c), W, V) /\ Lanes(s, CompleteRecognition(freed, c))
    BY <2>5, Completes, LanesOn
  <2>7. Rest(CloseNormally(freed), W, V) /\ Lanes(s, CloseNormally(freed))
    <3>1. Keeps(freed, shut) /\ shut \in Session
      BY <2>5, EasingSteps, TurnTypes
    <3> HIDE DEF shut
    <3>2. over \in Session
      BY <3>1, Updates
    <3>3. Keeps(shut, over)
      BY <3>1, <3>2 DEF Keeps, Same, Lanes, Session, Fits
    <3> HIDE DEF over
    <3>4. CloseMsg(1000) \in Message(UrgentKinds) /\ CloseMsg(1000).kind = "close"
      BY MessageTypes DEF CloseMsg
    <3>5. Keeps(over, ended)
      BY <3>2, <3>4, OfferedUrgent
    <3> HIDE DEF ended
    <3>6. Keeps(freed, ended)
      BY <2>5, <3>1, <3>2, <3>3, <3>5, KeepsOn
    <3>7. Rest(ended, W, V) /\ Lanes(s, ended)
      BY <2>5, <3>6, KeptRests, LanesOn DEF Keeps
    <3>8. CloseNormally(freed) = IF freed.phase = "Closed" THEN freed ELSE ended
      BY DEF CloseNormally, ended, over, shut
    <3> QED BY <2>5, <3>7, <3>8
  <2>8. TurnClosed(s, o, c) \in {s, CloseNormally(freed), CompleteRecognition(freed, c)}
    BY DEF TurnClosed, freed, told
  <2>9. TurnClosed(s, o, c) \in Session
    BY EndingTypes
  <2>10. Rest(TurnClosed(s, o, c), W, V) /\ Lanes(s, TurnClosed(s, o, c))
    BY <2>1, <2>6, <2>7, <2>8 DEF Lanes
  <2> QED BY <2>9, <2>10, RestIsOwned
<1> QED BY <1>1, <1>2

(* The actor's drop (lifecycle.rs 134-157). *)
LEMMA Drops ==
  ASSUME NEW s \in Session, NEW W, NEW V, Base(s, W, V)
  PROVE  Rest(Dropped(s), W, V) /\ Lanes(s, Dropped(s))
<1> DEFINE a == CancelAsr(s)
           b == CancelLlm(a)
           d == ReleaseActiveTurn(b)
           e == CloseVad(d)
           r == Dropped(s)
<1>1. Eases(s, a) /\ a \in Session /\ a.asr = "none"
  BY EasingSteps, TurnTypes, AsrCancelled
<1> HIDE DEF a
<1>2. Eases(a, b) /\ b \in Session /\ b.llmGen = 0
  BY <1>1, EasingSteps, TurnTypes DEF CancelLlm, Session
<1> HIDE DEF b
<1>3. Eases(b, d) /\ d \in Session
  BY <1>2, EasingSteps, TurnTypes
<1> HIDE DEF d
<1>4. Eases(d, e) /\ e \in Session
  BY <1>3, EasingSteps, TurnTypes, KeepsEases
<1> HIDE DEF e
<1>5. r = [e EXCEPT !.phase = "Closed", !.speech = "idle", !.announced = FALSE,
             !.playing = FALSE, !.packets = 0, !.pendingAudio = NoMsg, !.batchGen = 0]
  BY DEF Dropped, e, d, b, a
<1>6. r \in Session /\ e.generation \in Nat
  BY <1>4, DroppedType, Fields
<1> HIDE DEF r
<1>7. Eases(e, r) /\ r.speech = "idle" /\ r.batchGen = 0
  BY <1>4, <1>5, <1>6 DEF Eases, Lanes, Session, Fits
<1>8. Eases(s, r)
  BY <1>1, <1>2, <1>3, <1>4, <1>7, EasesOn
<1>9. Workless(r)
  BY <1>1, <1>2, <1>3, <1>4, <1>7 DEF Eases, Workless
<1>10. Rest(r, W, V) /\ Lanes(s, r)
  BY <1>8, <1>9, RestsOn DEF Eases
<1> QED BY <1>10 DEF r

(* Without a turn there is no work. *)
LEMMA TurnlessRests ==
  ASSUME NEW s \in Session, NEW W, NEW V, Owned(s, W, V), s.turn = NoTurn
  PROVE  Rest(s, W, V)
BY DEF Owned, Rest, Spent

(* Fewer outcomes and starts outside the lanes owe less. *)
LEMMA OwnedLess ==
  ASSUME NEW s, NEW W, NEW V, NEW X, NEW Y, Owned(s, W, V), X \subseteq W, Y \subseteq V
  PROVE  Owned(s, X, Y)
<1>1. \A t : (Ends(s, X, t) => Ends(s, W, t)) /\ (Starts(s, Y, t) => Starts(s, V, t))
  BY DEF Ends, Starts
<1>2. Base(s, X, Y)
  BY <1>1 DEF Owned, Base
<1> QED BY <1>1, <1>2 DEF Owned

-----------------------------------------------------------------------------
(* Work begins for a turn that has none. *)

(* A fresh turn without a recognition is at rest. *)
LEMMA FreshRests ==
  ASSUME NEW s \in Session, NEW W, NEW V, Fresh(s, W, V), s.asr = "none"
  PROVE  Rest(s, W, V)
BY DEF Fresh, Rest, Spent

(* A fresh turn stays fresh when nothing changes. *)
LEMMA FreshOn ==
  ASSUME NEW s \in Session, NEW r, NEW W, NEW V, Fresh(s, W, V), Keeps(s, r), r.phase = s.phase
  PROVE  Fresh(r, W, V)
<1>1. \A t : (Ends(r, W, t) => Ends(s, W, t)) /\ (Starts(r, V, t) => Starts(s, V, t))
  BY DEF Keeps, Lanes, Ends, Starts
<1>2. Base(r, W, V)
  BY <1>1 DEF Fresh, Base, Keeps, Same
<1> QED BY <1>1, <1>2 DEF Fresh, Keeps, Same, Idle, Batched

(* commit_user_text, then begin_speech_delivery (delivery.rs 4-20). *)
LEMMA SpeechBegins ==
  ASSUME NEW s \in Session, NEW c \in Replies, NEW W, NEW V,
         Fresh(s, W, V), s.asr = "none"
  PROVE  /\ Owned(BeginSpeechDelivery(CommitUserText(s), c), W, V)
         /\ Lanes(s, BeginSpeechDelivery(CommitUserText(s), c))
<1> DEFINE told == CommitUserText(s)
           r    == [told EXCEPT !.rounds = 0]
<1>1. Keeps(s, told) /\ told.phase = s.phase /\ told \in Session
  BY OfferedText, Fields DEF CommitUserText, Keeps
<1> HIDE DEF told
<1>2. Keeps(told, r) /\ r.phase = told.phase /\ r \in Session
  <2>1. Keeps(told, r) /\ r \in Session
    BY <1>1, Untouched, Updates
  <2>2. r.phase = told.phase
    BY <1>1 DEF Session
  <2> QED BY <2>1, <2>2
<1> HIDE DEF r
<1>3. Keeps(s, r) /\ r.phase = s.phase /\ Fresh(r, W, V) /\ r.asr = "none"
  BY <1>1, <1>2, KeepsOn, FreshOn DEF Keeps, Same
<1>4. Owned(StartLlmRound(r, c), W, V) /\ Lanes(r, StartLlmRound(r, c))
  BY <1>2, <1>3, RoundStarts
<1>5. BeginSpeechDelivery(told, c) = StartLlmRound(r, c)
  BY DEF BeginSpeechDelivery, r
<1> QED BY <1>3, <1>4, <1>5, LanesOn DEF told, Keeps

(* begin_direct_speech (delivery.rs 90-140). *)
LEMMA DirectBegins ==
  ASSUME NEW s \in Session, NEW origin \in {"tool", "direct"}, NEW W, NEW V,
         Fresh(s, W, V), s.asr = "none"
  PROVE  Owned(BeginDirectSpeech(s, origin), W, V) /\ Lanes(s, BeginDirectSpeech(s, origin))
<1> DEFINE r == BeginDirectSpeech(s, origin)
<1>1. /\ r.nextTurnId = s.nextTurnId /\ r.turn = s.turn /\ r.turnGen = s.turnGen
      /\ r.generation = s.generation /\ r.llmGen = s.llmGen /\ r.batchGen = s.batchGen
      /\ r.speech = "finished" /\ r.announced = s.announced /\ r.playing = s.playing
      /\ r.asr = s.asr /\ r.autoSpeechActive = s.autoSpeechActive /\ (Fits(s) => Fits(r))
      /\ r.listenArmPending = s.listenArmPending /\ r.listeningMode = s.listeningMode
      /\ r.phase = s.phase /\ r.urgent = s.urgent /\ r.control = s.control
  BY DEF BeginDirectSpeech, Session, Fits
<1> HIDE DEF r
<1>2. \A t : (Ends(r, W, t) <=> Ends(s, W, t)) /\ (Starts(r, V, t) <=> Starts(s, V, t))
  BY <1>1 DEF Ends, Starts
<1>3. Base(r, W, V)
  BY <1>1, <1>2 DEF Fresh, Base
<1>4. r.llmGen = 0 /\ ~Batched(r)
  BY <1>1 DEF Fresh, Idle, Batched
<1>5. ~Ends(r, W, r.turn) /\ ~Starts(r, V, r.turn)
  BY <1>1, <1>2 DEF Fresh
<1>6. Owned(r, W, V)
  BY <1>1, <1>3, <1>4, <1>5 DEF Fresh, Owned
<1> QED BY <1>1, <1>6 DEF r, Lanes

(* While a round, a batch or speech output is at work, nothing else is. *)
LEMMA AtWork ==
  ASSUME NEW s \in Session, NEW W, NEW V, Owned(s, W, V), ~Idle(s)
  PROVE  /\ Base(s, W, V) /\ s.asr = "none" /\ s.turn # NoTurn /\ ~s.autoSpeechActive
         /\ s.listeningMode = "manual" => s.phase # "Listening"
         /\ ~Ends(s, W, s.turn) /\ (Starts(s, V, s.turn) => s.playing)
BY DEF Owned, Spent

-----------------------------------------------------------------------------
(* The invariant. *)

(* Turns whose outcome is on its way, and turns started, outside the lanes. *)
Due ==
  {t \in Nat \ {0} :
     \/ writer.deferred = t
     \/ writer.frame.kind \in {"finish", "abort"} /\ writer.frame.turn = t
     \/ writer.report.turn = t
     \/ \E i \in DOMAIN mailbox : mailbox[i].turn = t /\ mailbox[i].kind # "failed"}
(* The turns whose start was sent or is in flight. *)
Started ==
  wire.starts \union {t \in Nat : writer.frame.kind = "start" /\ writer.frame.turn = t}

(* The control lane holds one start of a turn at most, and none of a turn *)
(* that was started. *)
StartsAreNew(s) ==
  Once(s.control) /\ \A t \in Started : ~Holds(s.control, "start", t)
(* The writer holds a frame exactly while it sends, and never a second *)
(* start. *)
FrameIsSent ==
  /\ writer.frame.kind # "none" <=> writer.pc = "sending"
  /\ writer.frame.kind = "start" => writer.frame.turn \notin wire.starts

(* The inductive invariant behind the theorems of this module. *)
OwnInv == Owned(sess, Due, Started) /\ StartsAreNew(sess) /\ FrameIsSent

(* A handler leaves a session like this. *)
Good(r) == Owned(r, Due, Started) /\ StartsAreNew(r)

(* A handler that queues no start and no stop leaves the starts new. *)
LEMMA LanesGood ==
  ASSUME NEW r, OwnInv, Owned(r, Due, Started), Lanes(sess, r)
  PROVE  Good(r)
BY DEF OwnInv, StartsAreNew, Good, Lanes

(* A handler may leave the session at rest. *)
LEMMA RestGood ==
  ASSUME NEW r \in Session, OwnInv, Rest(r, Due, Started), Lanes(sess, r)
  PROVE  Good(r)
BY LanesGood, RestIsOwned

(* A handler may change what is no work. *)
LEMMA LikeGood ==
  ASSUME NEW r, sess \in Session, OwnInv, Like(sess, r),
         r.urgent = sess.urgent, r.control = sess.control
  PROVE  Good(r)
BY LikeStays, LanesGood DEF OwnInv

-----------------------------------------------------------------------------
(* Every handler leaves a good session. *)

(* start_listening, in each of its four outcomes: a session that is busy in *)
(* another mode is not asked for manual listening. *)
LEMMA StartListeningGood ==
  ASSUME TypeOK, OwnInv, NEW c \in Replies, NEW mode \in Modes, StartListening(mode, c),
         mode = "manual" => ~Busy \/ sess.listeningMode = "manual"
  PROVE  Good(sess')
<1> DEFINE W == Due
           V == Started
           arm == [sess EXCEPT !.listeningMode = mode, !.listenArmPending = TRUE]
<1>1. sess \in Session /\ Owned(sess, W, V) /\ Lanes(sess, sess)
  BY DEF TypeOK, OwnInv, Lanes
<1>2. mode # "none"
  BY ModesAssumption DEF VadModes
<1>3. Good(sess)
  BY DEF OwnInv, Good
<1>4. Busy => Good(arm)
  <2> SUFFICES ASSUME Busy PROVE Good(arm)
    OBVIOUS
  <2>1. Like(sess, arm) /\ arm.urgent = sess.urgent /\ arm.control = sess.control
    BY <1>1, <1>2 DEF Like, Session, Fits
  <2> QED BY <1>1, <2>1, LikeGood
<1>5. sess.turn = NoTurn => /\ mode \in VadModes /\ sess.listeningMode = mode =>
                                 Good(RestartCaptureCycle(sess, c))
                            /\ Good(ReplaceListeningMode(sess, mode, c))
  <2> SUFFICES ASSUME sess.turn = NoTurn
               PROVE  /\ mode \in VadModes /\ sess.listeningMode = mode =>
                           Good(RestartCaptureCycle(sess, c))
                      /\ Good(ReplaceListeningMode(sess, mode, c))
    OBVIOUS
  <2>1. Rest(sess, W, V)
    BY <1>1, TurnlessRests
  <2> HIDE DEF W, V
  <2>2. mode \in VadModes /\ sess.listeningMode = mode =>
          Rest(RestartCaptureCycle(sess, c), W, V) /\ Lanes(sess, RestartCaptureCycle(sess, c))
    BY <1>1, <2>1, CycleRestarts DEF VadModes
  <2>3. /\ Rest(ReplaceListeningMode(sess, mode, c), W, V)
        /\ Lanes(sess, ReplaceListeningMode(sess, mode, c))
    BY <1>1, <1>2, <2>1, ModeReplaced
  <2>4. RestartCaptureCycle(sess, c) \in Session /\ ReplaceListeningMode(sess, mode, c) \in Session
    BY <1>1, SpeechCaptureTypes, ReplaceListeningModeType
  <2> QED BY <2>2, <2>3, <2>4, RestGood DEF W, V
<1>6. \/ sess' = sess
      \/ Busy /\ sess' = arm
      \/ /\ sess.turn = NoTurn /\ mode \in VadModes /\ sess.listeningMode = mode
         /\ sess' = RestartCaptureCycle(sess, c)
      \/ sess.turn = NoTurn /\ sess' = ReplaceListeningMode(sess, mode, c)
  BY DEF StartListening, ClientInput, Handle, Busy
<1> QED BY <1>3, <1>4, <1>5, <1>6

(* stop_listening of a manual capture, with or without an utterance. *)
LEMMA StopManualGood ==
  ASSUME TypeOK, OwnInv, NEW c \in Replies, NEW hasUtterance \in BOOLEAN,
         StopManual(hasUtterance, c)
  PROVE  Good(sess')
<1> DEFINE W == Due
           V == Started
           stopped == [sess EXCEPT !.capturing = FALSE]
           done    == [stopped EXCEPT !.phase = "Processing"]
           off     == CancelAsr(stopped)
           r       == [off EXCEPT !.phase = "Ready"]
<1>1. sess \in Session /\ Owned(sess, W, V) /\ sess.phase = "Listening"
      /\ sess.listeningMode = "manual"
  BY DEF TypeOK, OwnInv, StopManual
<1> HIDE DEF W, V
<1>2. Rest(sess, W, V) /\ ~sess.autoSpeechActive
  BY <1>1 DEF Owned, Rest, Base, Fits
<1>3. Keeps(sess, stopped) /\ stopped \in Session
  BY <1>1, Untouched, Updates
<1> HIDE DEF stopped
<1>4. Keeps(stopped, done) /\ done \in Session /\ done.phase = "Processing"
  <2>1. done.phase = "Processing"
    BY <1>3 DEF Session
  <2> QED BY <1>3, <2>1, Untouched, Updates
<1> HIDE DEF done
<1>5. Rest(done, W, V) /\ Lanes(sess, done) /\ ~done.autoSpeechActive
  BY <1>1, <1>2, <1>3, <1>4, KeptRests, LanesOn DEF Keeps, Same
<1>6. Owned(FinishManual(done, c), W, V) /\ Lanes(sess, FinishManual(done, c))
  BY <1>4, <1>5, Finishes, LanesOn
<1>7. Rest(stopped, W, V) /\ Lanes(sess, stopped)
  BY <1>1, <1>2, <1>3, KeptRests DEF Keeps
<1>8. Eases(stopped, off) /\ off.asr = "none" /\ off \in Session
  BY <1>3, EasingSteps, AsrCancelled, TurnTypes
<1> HIDE DEF off
<1>9. Rest(off, W, V) /\ Lanes(sess, off)
  BY <1>3, <1>7, <1>8, RestsOn, LanesOn DEF Eases
<1>10. Keeps(off, r) /\ r \in Session
  BY <1>8, Untouched, Updates
<1> HIDE DEF r
<1>11. Rest(r, W, V) /\ Lanes(sess, r)
  BY <1>8, <1>9, <1>10, KeptRests, LanesOn DEF Keeps
<1>12. sess' \in {FinishManual(done, c), r}
  BY DEF StopManual, ClientInput, Handle, r, off, done, stopped
<1>13. Good(FinishManual(done, c))
  BY <1>6, LanesGood DEF W, V
<1>14. Good(r)
  BY <1>10, <1>11, RestGood DEF W, V
<1> QED BY <1>12, <1>13, <1>14

(* stop_listening of a continuous mode. *)
LEMMA StopContinuousGood ==
  ASSUME TypeOK, OwnInv, StopContinuous
  PROVE  Good(sess')
<1> DEFINE off == [sess EXCEPT !.vad = "none", !.cycle = FALSE, !.vadReset = FALSE,
                !.listeningMode = "none", !.listenArmPending = FALSE,
                !.autoSpeechActive = FALSE, !.autoResetPending = FALSE,
                !.segment = FALSE]
           r == [CancelAsr(off) EXCEPT !.phase = "Ready"]
<1>1. sess \in Session
  BY DEF TypeOK
<1>2. off \in Session
  BY <1>1, Updates
<1>3. Like(sess, off) /\ off.urgent = sess.urgent /\ off.control = sess.control
  BY <1>1 DEF Like, Session, Fits
<1>4. Good(off)
  BY <1>1, <1>3, LikeGood
<1> HIDE DEF off
<1>5. Good(r)
  <2>1. Like(off, r) /\ r.urgent = off.urgent /\ r.control = off.control
    BY <1>2, <1>3, AsrCleared DEF Like
  <2>2. Owned(r, Due, Started) /\ Lanes(off, r)
    BY <1>2, <1>4, <2>1, LikeStays DEF Good
  <2> QED BY <1>4, <2>2 DEF Good, StartsAreNew, Lanes
<1>6. sess' \in {off, r}
  BY DEF StopContinuous, ClientInput, Handle, r, off
<1> QED BY <1>4, <1>5, <1>6

(* What the handlers of the remaining events end in. *)
LEMMA CompletesGood ==
  ASSUME TypeOK, OwnInv, NEW c \in Replies, NEW s \in Session,
         Rest(s, Due, Started), Lanes(sess, s)
  PROVE  Good(CompleteRecognition(s, c))
<1> DEFINE W == Due
           V == Started
<1>1. Rest(s, W, V)
  OBVIOUS
<1> HIDE DEF W, V
<1>2. /\ Rest(CompleteRecognition(s, c), W, V) /\ Lanes(s, CompleteRecognition(s, c))
  BY <1>1, Completes
<1> QED BY <1>2, CompleteRecognitionType, LanesOn, RestGood DEF W, V

(* A failed delivery completes the turn. *)
LEMMA DeliveryFailsGood ==
  ASSUME TypeOK, OwnInv, NEW c \in Replies, NEW s \in Session,
         Base(s, Due, Started), s.asr = "none", Lanes(sess, s)
  PROVE  Good(FailSpeechDelivery(s, c))
<1> DEFINE W == Due
           V == Started
<1>1. Base(s, W, V)
  OBVIOUS
<1> HIDE DEF W, V
<1>2. Rest(FailSpeechDelivery(s, c), W, V) /\ Lanes(s, FailSpeechDelivery(s, c))
  BY <1>1, DeliveryFails
<1> QED BY <1>2, DeliveryTypes, LanesOn, RestGood DEF W, V

(* fail_closed leaves a good session. *)
LEMMA FailsClosedGood ==
  ASSUME TypeOK, OwnInv, NEW s \in Session, Owned(s, Due, Started), Lanes(sess, s)
  PROVE  Good(FailClosed(s))
<1>1. Eases(s, FailClosed(s)) /\ Owned(FailClosed(s), Due, Started)
  BY FailsClosed
<1> QED BY <1>1, LanesOn, LanesGood DEF Eases

(* A committed user text begins a model round. *)
LEMMA SpeechBeginsGood ==
  ASSUME TypeOK, OwnInv, NEW c \in Replies, NEW s \in Session,
         Fresh(s, Due, Started), s.asr = "none", Lanes(sess, s)
  PROVE  Good(BeginSpeechDelivery(CommitUserText(s), c))
<1> DEFINE W == Due
           V == Started
           r == BeginSpeechDelivery(CommitUserText(s), c)
<1>1. Fresh(s, W, V)
  OBVIOUS
<1> HIDE DEF W, V
<1>2. Owned(r, W, V) /\ Lanes(s, r)
  BY <1>1, SpeechBegins
<1> HIDE DEF r
<1>3. Good(r)
  BY <1>2, LanesOn, LanesGood DEF W, V
<1> QED BY <1>3 DEF r

(* begin_active_turn, with the phase its callers set. *)
LEMMA BegunFresh ==
  ASSUME NEW s \in Session, NEW W, NEW V, Rest(s, W, V), ~s.autoSpeechActive, s.asr = "none"
  PROVE  LET r == [BeginActiveTurn(s) EXCEPT !.phase = "Processing"] IN
         r \in Session /\ Fresh(r, W, V) /\ Lanes(s, r) /\ r.asr = "none"
<1> DEFINE b == BeginActiveTurn(s)
           r == [b EXCEPT !.phase = "Processing"]
<1>1. /\ b \in Session /\ Rest(b, W, V) /\ Lanes(s, b)
      /\ b.turn # NoTurn /\ b.turnGen = b.generation
      /\ b.autoSpeechActive = s.autoSpeechActive /\ b.asr = s.asr
      /\ ~Ends(b, W, b.turn) /\ ~Starts(b, V, b.turn)
  BY Begins
<1> HIDE DEF b
<1>2. Keeps(b, r) /\ r \in Session
  BY <1>1, Untouched, Updates
<1>3. r.phase = "Processing"
  BY <1>1 DEF Session
<1> HIDE DEF r
<1>4. Rest(r, W, V)
  BY <1>1, <1>2, KeptRests
<1>5. /\ r.turn # NoTurn /\ r.turnGen = r.generation /\ ~r.autoSpeechActive /\ r.asr = "none"
      /\ Lanes(s, r)
  BY <1>1, <1>2, LanesOn DEF Keeps, Same
<1>6. ~Ends(r, W, r.turn) /\ ~Starts(r, V, r.turn)
  BY <1>1, <1>2 DEF Keeps, Same, Lanes, Ends, Starts
<1>7. Fresh(r, W, V)
  BY <1>3, <1>4, <1>5, <1>6 DEF Fresh, Rest, Spent
<1> QED BY <1>2, <1>5, <1>7 DEF r, b

(* An interrupted turn leaves nothing at work (delivery.rs 703-709). *)
LEMMA InterruptRests ==
  ASSUME NEW s \in Session, NEW W, NEW V, Base(s, W, V)
  PROVE  LET r == AdvanceGeneration(InterruptActiveTurn(s)) IN
         r \in Session /\ Rest(r, W, V) /\ Lanes(s, r) /\ r.listeningMode = s.listeningMode
<1> DEFINE i == InterruptActiveTurn(s)
           r == AdvanceGeneration(i)
<1>1. Eases(s, i) /\ Workless(i) /\ i \in Session
  BY Interrupts, CancellationTypes
<1>2. Rest(i, W, V) /\ i.asr = "none"
  BY <1>1, RestsOn DEF Workless
<1> HIDE DEF i
<1>3. Eases(i, r) /\ r \in Session
  BY <1>1, EasingSteps, TurnTypes
<1> HIDE DEF r
<1>4. Rest(r, W, V)
  BY <1>1, <1>2, <1>3, RestsOn DEF Eases
<1> QED BY <1>1, <1>3, <1>4, LanesOn DEF Eases, r, i

(* Typed text: the client has waited for the end of its turn, so the *)
(* session is at rest when the new turn begins. *)
LEMMA DetectGood ==
  ASSUME TypeOK, OwnInv, sess.turn = NoTurn, NEW c \in Replies, Detect(c)
  PROVE  Good(sess')
<1> DEFINE W == Due
           V == Started
           heard == [sess EXCEPT !.capturing = FALSE,
                       !.autoSpeechActive = @ /\ sess.listeningMode # "auto"]
           mid   == CancelAsr(heard)
           begun == [BeginActiveTurn(mid) EXCEPT !.phase = "Processing"]
           over  == [mid EXCEPT !.phase = "Ready"]
<1>1. sess \in Session /\ Owned(sess, W, V) /\ Lanes(sess, sess) /\ sess.turn = NoTurn
  BY DEF TypeOK, OwnInv, Detect, Lanes
<1>2. /\ Like(sess, heard) /\ heard.urgent = sess.urgent /\ heard.control = sess.control
      /\ heard.turn = NoTurn
      /\ heard.autoSpeechActive = (sess.autoSpeechActive /\ sess.listeningMode # "auto")
  BY <1>1 DEF Like, Session, Owned, Base, Fits
<1>3. heard \in Session
  <2>1. (sess.autoSpeechActive /\ sess.listeningMode # "auto") \in BOOLEAN
    BY <1>1 DEF Session
  <2>2. [sess EXCEPT !.capturing = FALSE] \in Session
    BY <1>1, Updates
  <2> QED BY <1>1, <2>1, <2>2, Updates
<1>4. Good(heard)
  BY <1>1, <1>2, LikeGood
<1>5. Owned(heard, W, V) /\ Lanes(sess, heard)
  BY <1>2, <1>4 DEF Good, Lanes
<1>6. sess.listeningMode \in {"manual", "auto"} => ~heard.autoSpeechActive
  BY <1>1, <1>2 DEF Owned, Base, Fits
<1> HIDE DEF heard, W, V
<1>7. Rest(heard, W, V)
  BY <1>2, <1>3, <1>5, TurnlessRests
<1>8. mid \in Session /\ Eases(heard, mid) /\ mid.asr = "none"
      /\ mid.autoSpeechActive = heard.autoSpeechActive
  BY <1>3, AsrCancelled, TurnTypes, EasingSteps
<1> HIDE DEF mid
<1>9. Rest(mid, W, V) /\ Lanes(sess, mid)
  BY <1>3, <1>5, <1>7, <1>8, RestsOn, LanesOn DEF Eases
<1>10. Good(FailClosed(heard))
  BY <1>3, <1>5, FailsClosedGood DEF W, V
<1>11. Good(over)
  <2>1. Keeps(mid, over) /\ over \in Session
    BY <1>8, Untouched, Updates
  <2> HIDE DEF over
  <2>2. Rest(over, W, V) /\ Lanes(sess, over)
    BY <1>8, <1>9, <2>1, KeptRests, LanesOn DEF Keeps
  <2> QED BY <2>1, <2>2, RestGood DEF W, V
<1>12. sess.listeningMode \in {"manual", "auto"} => Good(BeginSpeechDelivery(CommitUserText(begun), c))
  <2> SUFFICES ASSUME sess.listeningMode \in {"manual", "auto"}
               PROVE  Good(BeginSpeechDelivery(CommitUserText(begun), c))
    OBVIOUS
  <2>1. begun \in Session /\ Fresh(begun, W, V) /\ Lanes(mid, begun) /\ begun.asr = "none"
    BY <1>6, <1>8, <1>9, BegunFresh
  <2> HIDE DEF begun
  <2> QED BY <1>9, <2>1, LanesOn, SpeechBeginsGood DEF W, V
<1>13. \/ sess' \in {FailClosed(heard), heard, over}
       \/ /\ sess.listeningMode \in {"manual", "auto"}
          /\ sess' = BeginSpeechDelivery(CommitUserText(begun), c)
  BY DEF Detect, ClientInput, Handle, begun, over, mid, heard
<1> QED BY <1>4, <1>10, <1>11, <1>12, <1>13

(* The abort of the client, with and without a VAD worker. *)
LEMMA AbortGood ==
  ASSUME TypeOK, OwnInv, NEW c \in Replies, Abort(c)
  PROVE  Good(sess')
<1> DEFINE W == Due
           V == Started
           ended  == AdvanceGeneration(InterruptActiveTurn(sess))
           halted == [ended EXCEPT !.capturing = FALSE]
           quiet  == [halted EXCEPT !.autoSpeechActive = FALSE, !.segment = FALSE]
           reset  == ResetVadCaptureCycle(quiet, c)
           again  == [reset EXCEPT !.phase = "Processing"]
           shut   == CloseVad(halted)
           idle   == [shut EXCEPT !.listeningMode = "none",
                        !.listenArmPending = FALSE, !.autoResetPending = FALSE,
                        !.phase = "Ready"]
<1>1. sess \in Session /\ Base(sess, W, V)
  BY DEF TypeOK, OwnInv, Owned
<1> HIDE DEF W, V
<1>2. ended \in Session /\ Rest(ended, W, V) /\ Lanes(sess, ended)
  BY <1>1, InterruptRests
<1> HIDE DEF ended
<1>3. Keeps(ended, halted) /\ halted \in Session
  BY <1>2, Untouched, Updates
<1> HIDE DEF halted
<1>4. Rest(halted, W, V) /\ Lanes(sess, halted)
  BY <1>2, <1>3, KeptRests, LanesOn DEF Keeps
<1>5. quiet \in Session
  BY <1>3, Updates
<1>6. Rest(quiet, W, V) /\ Lanes(sess, quiet)
  <2>1. /\ Lanes(halted, quiet) /\ quiet.urgent = halted.urgent
        /\ quiet.nextTurnId = halted.nextTurnId /\ quiet.turn = halted.turn
        /\ quiet.generation = halted.generation
        /\ quiet.llmGen = halted.llmGen /\ quiet.batchGen = halted.batchGen
        /\ quiet.speech = halted.speech /\ quiet.announced = halted.announced
        /\ quiet.playing = halted.playing /\ quiet.asr = halted.asr
        /\ quiet.asrGen = halted.asrGen /\ ~quiet.autoSpeechActive /\ (Fits(halted) => Fits(quiet))
        /\ quiet.listenArmPending = halted.listenArmPending
        /\ quiet.listeningMode = halted.listeningMode
    BY <1>3 DEF Session, Lanes, Fits
  <2> HIDE DEF quiet
  <2>2. halted.asr # "none" => halted.asr = "open" /\ halted.asrGen = halted.generation
    <3>1. halted.asr \in {"none", "open", "finishing"}
      BY <1>3 DEF Session
    <3> QED BY <3>1, <1>4, <1>5 DEF Rest, Spent
  <2>3. Resumes(halted, quiet)
    BY <1>4, <1>5, <2>1, <2>2 DEF Resumes, Rest, Base
  <2> QED BY <1>3, <1>4, <2>1, <2>3, ResumedRests, LanesOn
<1> HIDE DEF quiet
<1>7. quiet.listeningMode # "manual" =>
        reset \in Session /\ Rest(reset, W, V) /\ Lanes(sess, reset)
  BY <1>5, <1>6, CycleReset, ResetVadCaptureCycleType, LanesOn
<1> HIDE DEF reset
<1>8. quiet.listeningMode # "manual" =>
        again \in Session /\ Rest(again, W, V) /\ Lanes(sess, again)
  <2> SUFFICES ASSUME quiet.listeningMode # "manual"
               PROVE  again \in Session /\ Rest(again, W, V) /\ Lanes(sess, again)
    OBVIOUS
  <2>1. Keeps(reset, again) /\ again \in Session
    BY <1>7, Untouched, Updates
  <2> HIDE DEF again
  <2> QED BY <1>7, <2>1, KeptRests, LanesOn DEF Keeps
<1>9. shut \in Session /\ Rest(shut, W, V) /\ Lanes(sess, shut)
  <2>1. Keeps(halted, shut) /\ shut \in Session
    BY <1>3, EasingSteps, TurnTypes
  <2> HIDE DEF shut
  <2> QED BY <1>3, <1>4, <2>1, KeptRests, LanesOn DEF Keeps
<1> HIDE DEF shut
<1>10. idle \in Session
  BY <1>9, Updates
<1>11. Rest(idle, W, V) /\ Lanes(sess, idle)
  <2>1. /\ Lanes(shut, idle) /\ idle.urgent = shut.urgent
        /\ idle.nextTurnId = shut.nextTurnId /\ idle.turn = shut.turn
        /\ idle.generation = shut.generation
        /\ idle.llmGen = shut.llmGen /\ idle.batchGen = shut.batchGen
        /\ idle.speech = shut.speech /\ idle.announced = shut.announced
        /\ idle.playing = shut.playing /\ idle.asr = shut.asr
        /\ idle.asrGen = shut.asrGen /\ (Fits(shut) => Fits(idle))
        /\ idle.autoSpeechActive = shut.autoSpeechActive /\ idle.listenArmPending = FALSE
    BY <1>9 DEF Session, Lanes, Fits
  <2> HIDE DEF idle
  <2>2. shut.asr # "none" => shut.asr = "open" /\ shut.asrGen = shut.generation
    <3>1. shut.asr \in {"none", "open", "finishing"}
      BY <1>9 DEF Session
    <3> QED BY <3>1, <1>9, <1>10 DEF Rest, Spent
  <2>3. Resumes(shut, idle)
    BY <1>9, <1>10, <2>1, <2>2 DEF Resumes, Rest, Base
  <2> QED BY <1>9, <2>1, <2>3, ResumedRests, LanesOn
<1>12. \/ sess' \in {idle, quiet}
       \/ halted.listeningMode \in VadModes /\ sess' \in {again, reset}
  <2> USE DEF ended, halted, quiet, reset, again, shut, idle
  <2> QED BY DEF Abort, ClientInput, Handle
<1>14. halted.listeningMode \in VadModes => quiet.listeningMode # "manual"
  BY <1>3 DEF quiet, Session, VadModes
<1> HIDE DEF idle, again
<1>13. /\ Good(idle) /\ Good(quiet)
       /\ quiet.listeningMode # "manual" => Good(again) /\ Good(reset)
  BY <1>5, <1>6, <1>7, <1>8, <1>10, <1>11, RestGood DEF W, V
<1> QED BY <1>12, <1>13, <1>14

(* Direct speech, answered, unanswered or refused by the permits. *)
LEMMA AdmitDirectSpeechGood ==
  ASSUME TypeOK, OwnInv, NEW c \in Replies, NEW answered \in BOOLEAN,
         AdmitDirectSpeech(answered, c)
  PROVE  Good(sess')
<1> DEFINE W == Due
           V == Started
           next     == AdvanceGeneration(sess)
           begun    == [BeginActiveTurn(next) EXCEPT !.phase = "Processing"]
           admitted == BeginDirectSpeech(begun, "direct")
           ended    == InterruptActiveTurn(admitted)
<1>1. sess \in Session /\ Owned(sess, W, V) /\ sess.turn = NoTurn /\ sess.asr = "none"
      /\ ~sess.autoSpeechActive
  BY DEF TypeOK, OwnInv, AdmitDirectSpeech, DirectSpeechBusy
<1> HIDE DEF W, V
<1>2. Rest(sess, W, V)
  BY <1>1, TurnlessRests
<1>3. next \in Session /\ Eases(sess, next) /\ next.asr = "none" /\ ~next.autoSpeechActive
  <2>1. next.asr = "none" /\ ~next.autoSpeechActive
    BY <1>1 DEF AdvanceGeneration, Session
  <2> QED BY <1>1, <2>1, EasingSteps, TurnTypes
<1> HIDE DEF next
<1>4. Rest(next, W, V) /\ Lanes(sess, next)
  BY <1>1, <1>2, <1>3, RestsOn DEF Eases
<1>5. begun \in Session /\ Fresh(begun, W, V) /\ Lanes(next, begun) /\ begun.asr = "none"
  BY <1>3, <1>4, BegunFresh
<1> HIDE DEF begun
<1>6. Owned(admitted, W, V) /\ Lanes(begun, admitted) /\ admitted \in Session
  BY <1>5, DirectBegins, DeliveryTypes
<1> HIDE DEF admitted
<1>7. Lanes(sess, admitted)
  BY <1>4, <1>5, <1>6, LanesOn
<1>8. Eases(admitted, ended) /\ Workless(ended) /\ ended \in Session
  BY <1>6, Interrupts, CancellationTypes
<1> HIDE DEF ended
<1>9. Rest(ended, W, V) /\ Lanes(sess, ended)
  BY <1>6, <1>7, <1>8, RestsOn, LanesOn DEF Owned, Eases
<1>10. Good(next)
  BY <1>3, <1>4, RestGood DEF W, V
<1>11. Good(admitted)
  BY <1>6, <1>7, LanesGood DEF W, V
<1>12. Good(CompleteRecognition(ended, c))
  BY <1>8, <1>9, CompletesGood DEF W, V
<1>13. sess' \in {next, admitted, CompleteRecognition(ended, c)}
  BY DEF AdmitDirectSpeech, ClientInput, Handle, ended, admitted, begun, next
<1> QED BY <1>10, <1>11, <1>12, <1>13

(* fail_closed of the session itself. *)
LEMMA SessionFailsClosed ==
  ASSUME TypeOK, OwnInv
  PROVE  Good(FailClosed(sess))
BY FailsClosedGood DEF TypeOK, OwnInv, Lanes

(* The events of a recognition: final text, silence, failure, time-out. *)
LEMMA RecognitionGood ==
  ASSUME TypeOK, OwnInv, NEW c \in Replies,
         AsrAnswers(c) \/ AsrFailed(c) \/ CleanupEvent
  PROVE  Good(sess')
<1> DEFINE W == Due
           V == Started
           ended == ForgetAsr(sess)
<1>1. sess \in Session /\ Owned(sess, W, V)
  BY DEF TypeOK, OwnInv
<1>2. ended \in Session /\ Eases(sess, ended) /\ ended.asr = "none"
  <2>1. ended.asr = "none"
    BY <1>1 DEF ForgetAsr, Session
  <2> QED BY <1>1, <2>1, EasingSteps, TurnTypes
<1> HIDE DEF W, V
<1>3. /\ ended.turn = sess.turn /\ ended.turnGen = sess.turnGen
      /\ ended.generation = sess.generation /\ ended.llmGen = sess.llmGen
      /\ ended.batchGen = sess.batchGen /\ ended.speech = sess.speech
      /\ ended.playing = sess.playing /\ ended.autoSpeechActive = sess.autoSpeechActive
      /\ ended.phase = sess.phase /\ ended.urgent = sess.urgent /\ ended.control = sess.control
      /\ ended.listeningMode = sess.listeningMode
  BY <1>1 DEF ForgetAsr, Session
<1> HIDE DEF ended
<1>4. sess.asr # "none" => Rest(ended, W, V) /\ Lanes(sess, ended)
  <2> SUFFICES ASSUME sess.asr # "none" PROVE Rest(ended, W, V) /\ Lanes(sess, ended)
    OBVIOUS
  <2>1. Base(sess, W, V) /\ Spent(ended)
    BY <1>1, <1>2, <1>3 DEF Owned, Spent, Idle, Batched
  <2> QED BY <1>1, <1>2, <2>1, EasedRests DEF Eases
<1>5. ASSUME sess.asr = "finishing"
      PROVE  Fresh(ended, W, V)
  <2>1. /\ Idle(sess) /\ sess.turn # NoTurn /\ sess.turnGen = sess.generation
        /\ ~sess.autoSpeechActive /\ ~Spent(sess)
    BY <1>1, <1>5 DEF Owned, Spent
  <2>2. /\ sess.listeningMode = "manual" => sess.phase # "Listening"
        /\ ~Ends(sess, W, sess.turn)
    BY <1>1, <2>1 DEF Owned
  <2>3. ~Starts(sess, V, sess.turn)
    BY <1>1, <2>1 DEF Owned, Base, Idle
  <2>4. Base(ended, W, V)
    BY <1>4, <1>5 DEF Rest
  <2> QED BY <1>3, <2>1, <2>2, <2>3, <2>4 DEF Fresh, Idle, Batched, Ends, Starts
<1>6. CASE AsrFinalTimedOut \/ AsrCleanupTimedOut
  BY <1>6, SessionFailsClosed DEF AsrFinalTimedOut, AsrCleanupTimedOut, Fault, Handle
<1>7. CASE AsrFailed(c)
  <2>1. sess' = CompleteRecognition(ended, c) /\ sess.asr # "none"
    BY <1>7 DEF AsrFailed, AsrCurrent, Fault, Handle, ended
  <2> QED BY <1>2, <1>4, <2>1, CompletesGood DEF W, V
<1>8. ASSUME NEW hasText \in BOOLEAN, AsrFinal(hasText, c)
      PROVE  Good(sess')
  <2>1. /\ sess.asr = "finishing"
        /\ sess' \in {BeginSpeechDelivery(CommitUserText(ended), c), CompleteRecognition(ended, c)}
    BY <1>8 DEF AsrFinal, Provider, Handle, ended
  <2>2. Good(BeginSpeechDelivery(CommitUserText(ended), c))
    BY <1>2, <1>4, <1>5, <2>1, SpeechBeginsGood DEF W, V
  <2>3. Good(CompleteRecognition(ended, c))
    BY <1>2, <1>4, <2>1, CompletesGood DEF W, V
  <2> QED BY <2>1, <2>2, <2>3
<1>9. CASE AsrCleanedUp
  <2>1. sess' = [sess EXCEPT !.asrCleanup = FALSE]
    BY <1>9 DEF AsrCleanedUp, Provider, Handle
  <2>2. Like(sess, sess') /\ sess'.urgent = sess.urgent /\ sess'.control = sess.control
    BY <1>1, <2>1 DEF Like, Session, Owned, Base, Fits
  <2> QED BY <1>1, <2>2, LikeGood
<1> QED BY <1>6, <1>7, <1>8, <1>9 DEF AsrAnswers, CleanupEvent

(* Queues that refuse a frame, and a VAD worker that fails. *)
LEMMA RefusedGood ==
  ASSUME TypeOK, OwnInv, AsrPushRefused \/ VadPushRefused \/ VadFailed
  PROVE  Good(sess')
<1>1. sess \in Session /\ Owned(sess, Due, Started)
  BY DEF TypeOK, OwnInv
<1>2. CASE VadPushRefused \/ VadFailed
  BY <1>2, SessionFailsClosed DEF VadPushRefused, VadFailed, Fault, Handle
<1>3. CASE AsrPushRefused
  <2> DEFINE off == CancelAsr(sess)
  <2>1. \/ sess' = off
        \/ sess' = [off EXCEPT !.capturing = FALSE]
        \/ sess' = [off EXCEPT !.phase = "Ready", !.capturing = sess.asr = "none"]
    BY <1>3 DEF AsrPushRefused, Fault, Handle
  <2>2. /\ Like(sess, off) /\ off.urgent = sess.urgent /\ off.control = sess.control
        /\ off \in Session
    <3>1. off \in Session
      BY <1>1, TurnTypes
    <3>2. /\ off.nextTurnId = sess.nextTurnId /\ off.turn = sess.turn
          /\ off.turnGen = sess.turnGen /\ off.generation = sess.generation
          /\ off.llmGen = sess.llmGen /\ off.batchGen = sess.batchGen
          /\ off.speech = sess.speech /\ off.announced = sess.announced
          /\ off.playing = sess.playing /\ off.asr = "none"
          /\ off.autoSpeechActive = sess.autoSpeechActive /\ (Fits(sess) => Fits(off))
          /\ off.listenArmPending = sess.listenArmPending
          /\ off.listeningMode = sess.listeningMode /\ off.phase = sess.phase
          /\ off.urgent = sess.urgent /\ off.control = sess.control
      BY <1>1 DEF CancelAsr, ForgetAsr, Session, Fits
    <3> HIDE DEF off
    <3>3. sess.listenArmPending => sess.listeningMode # "none"
      BY <1>1 DEF Owned, Base
    <3> QED BY <3>1, <3>2, <3>3 DEF Like
  <2> HIDE DEF off
  <2>3. Like(off, sess') /\ sess'.urgent = off.urgent /\ sess'.control = off.control
    <3>1. off.listenArmPending => off.listeningMode # "none"
      BY <2>2 DEF Like
    <3>2. CASE sess' = off
      BY <3>1, <3>2 DEF Like
    <3>3. CASE sess' = [off EXCEPT !.capturing = FALSE]
      BY <2>2, <3>1, <3>3 DEF Like, Session, Fits
    <3>4. CASE sess' = [off EXCEPT !.phase = "Ready", !.capturing = sess.asr = "none"]
      BY <2>2, <3>1, <3>4 DEF Like, Session, Fits
    <3> QED BY <2>1, <3>2, <3>3, <3>4
  <2>4. Good(off)
    BY <1>1, <2>2, LikeGood
  <2>5. Owned(sess', Due, Started) /\ Lanes(off, sess')
    BY <2>2, <2>3, <2>4, LikeStays DEF Good
  <2> QED BY <2>4, <2>5 DEF Good, StartsAreNew, Lanes
<1> QED BY <1>2, <1>3

(* Speech starts, as a new utterance or as barge-in. *)
LEMMA SpeechStartGood ==
  ASSUME TypeOK, OwnInv, NEW c \in Replies, NEW pushed \in BOOLEAN, SpeechStart(pushed, c)
  PROVE  Good(sess')
<1> DEFINE W == Due
           V == Started
           heard == [sess EXCEPT !.segment = TRUE]
           free  == AdvanceGeneration(InterruptActiveTurn(heard))
<1>1. sess \in Session /\ Owned(sess, W, V) /\ sess.listeningMode # "manual"
  BY DEF TypeOK, OwnInv, SpeechStart, Owned, Base, Fits
<1>2. /\ Like(sess, heard) /\ heard.urgent = sess.urgent /\ heard.control = sess.control
      /\ heard.turn = sess.turn /\ heard.listeningMode = sess.listeningMode
  BY <1>1 DEF Like, Session, Owned, Base, Fits
<1>3. heard \in Session
  BY <1>1, Updates
<1>4. Good(heard)
  BY <1>1, <1>2, LikeGood
<1>5. Owned(heard, W, V) /\ Lanes(sess, heard)
  BY <1>2, <1>4 DEF Good, Lanes
<1> HIDE DEF heard, W, V
<1>6. /\ free \in Session /\ Rest(free, W, V) /\ Lanes(heard, free)
      /\ free.listeningMode # "manual"
  BY <1>1, <1>2, <1>3, <1>5, InterruptRests DEF Owned
<1> HIDE DEF free
<1>7. Good(OpenAsrForSpeech(free, pushed, c))
  <2>1. /\ Owned(OpenAsrForSpeech(free, pushed, c), W, V)
        /\ Lanes(free, OpenAsrForSpeech(free, pushed, c))
    BY <1>1, <1>6, SpeechOpens
  <2>2. Lanes(sess, OpenAsrForSpeech(free, pushed, c))
    BY <1>5, <1>6, <2>1, LanesOn
  <2> QED BY <2>1, <2>2, LanesGood DEF W, V
<1>8. sess.turn = NoTurn => Good(OpenAsrForSpeech(heard, pushed, c))
  <2> SUFFICES ASSUME sess.turn = NoTurn PROVE Good(OpenAsrForSpeech(heard, pushed, c))
    OBVIOUS
  <2>1. Rest(heard, W, V)
    BY <1>2, <1>3, <1>5, TurnlessRests
  <2>2. /\ Owned(OpenAsrForSpeech(heard, pushed, c), W, V)
        /\ Lanes(heard, OpenAsrForSpeech(heard, pushed, c))
    BY <1>1, <1>2, <1>3, <2>1, SpeechOpens
  <2>3. Lanes(sess, OpenAsrForSpeech(heard, pushed, c))
    BY <1>5, <2>2, LanesOn
  <2> QED BY <2>2, <2>3, LanesGood DEF W, V
<1>9. \/ sess' = heard
      \/ sess.turn = NoTurn /\ sess' = OpenAsrForSpeech(heard, pushed, c)
      \/ sess' = OpenAsrForSpeech(free, pushed, c)
  BY DEF SpeechStart, Handle, free, heard
<1> QED BY <1>4, <1>7, <1>8, <1>9

(* Speech ends, with or without a recognition open. *)
LEMMA SpeechEndGood ==
  ASSUME TypeOK, OwnInv, NEW c \in Replies, SpeechEnd(c)
  PROVE  Good(sess')
<1> DEFINE W == Due
           V == Started
           over == [sess EXCEPT !.segment = FALSE]
           done == [over EXCEPT !.autoSpeechActive = FALSE, !.phase = "Processing"]
<1>1. sess \in Session /\ Owned(sess, W, V)
  BY DEF TypeOK, OwnInv
<1>2. /\ Like(sess, over) /\ over.urgent = sess.urgent /\ over.control = sess.control
      /\ over.autoSpeechActive = sess.autoSpeechActive /\ over.asr = sess.asr
  BY <1>1 DEF Like, Session, Owned, Base, Fits
<1>3. over \in Session
  BY <1>1, Updates
<1>4. Good(over)
  BY <1>1, <1>2, LikeGood
<1>5. Owned(over, W, V) /\ Lanes(sess, over)
  BY <1>2, <1>4 DEF Good, Lanes
<1> HIDE DEF over, W, V
<1>6. done \in Session
  BY <1>3, Updates
<1>7. /\ Lanes(over, done) /\ done.urgent = over.urgent
      /\ done.nextTurnId = over.nextTurnId /\ done.turn = over.turn
      /\ done.generation = over.generation
      /\ done.llmGen = over.llmGen /\ done.batchGen = over.batchGen
      /\ done.speech = over.speech /\ done.announced = over.announced
      /\ done.playing = over.playing /\ done.asr = over.asr
      /\ done.asrGen = over.asrGen /\ ~done.autoSpeechActive /\ (Fits(over) => Fits(done))
      /\ done.listenArmPending = over.listenArmPending
      /\ done.listeningMode = over.listeningMode /\ done.phase = "Processing"
  BY <1>3 DEF Session, Lanes, Fits
<1> HIDE DEF done
<1>8. sess.autoSpeechActive => Rest(done, W, V) /\ Lanes(sess, done)
  <2> SUFFICES ASSUME sess.autoSpeechActive PROVE Rest(done, W, V) /\ Lanes(sess, done)
    OBVIOUS
  <2>1. Rest(over, W, V)
    BY <1>2, <1>5 DEF Owned, Rest, Spent
  <2>2. over.asr # "none" => over.asr = "open" /\ over.asrGen = over.generation
    <3>1. over.asr \in {"none", "open", "finishing"}
      BY <1>3 DEF Session
    <3> QED BY <2>1, <3>1 DEF Rest, Spent
  <2>3. Resumes(over, done)
    BY <1>6, <1>7, <2>1, <2>2 DEF Resumes, Rest, Base
  <2> QED BY <1>3, <1>5, <1>7, <2>1, <2>3, ResumedRests, LanesOn
<1>9. sess.autoSpeechActive => Good(FinishManual(done, c))
  <2> SUFFICES ASSUME sess.autoSpeechActive PROVE Good(FinishManual(done, c))
    OBVIOUS
  <2>1. Owned(FinishManual(done, c), W, V) /\ Lanes(done, FinishManual(done, c))
    BY <1>6, <1>7, <1>8, Finishes
  <2> QED BY <1>8, <2>1, LanesOn, LanesGood DEF W, V
<1>10. sess.autoSpeechActive => Good(CompleteRecognition(done, c))
  BY <1>6, <1>8, CompletesGood DEF W, V
<1>11. \/ sess' = over
       \/ /\ sess.autoSpeechActive
          /\ sess' \in {FinishManual(done, c), CompleteRecognition(done, c)}
  BY DEF SpeechEnd, Provider, Handle, done, over
<1> QED BY <1>4, <1>9, <1>10, <1>11

(* The answers of the VAD worker. *)
LEMMA VadGood ==
  ASSUME TypeOK, OwnInv, VadAnswers
  PROVE  Good(sess')
<1>1. sess \in Session /\ Owned(sess, Due, Started)
      /\ (ResetDone => sess.listeningMode # "manual")
  BY DEF TypeOK, OwnInv, ResetDone, Owned, Base, Fits
<1>2. Like(sess, sess') /\ sess'.urgent = sess.urgent /\ sess'.control = sess.control
  <2>1. CASE ResetDone
    BY <1>1, <2>1 DEF ResetDone, Provider, Handle, Like, Session, Owned, Base, Fits
  <2>2. CASE VadClosed
    BY <1>1, <2>2 DEF VadClosed, Provider, Handle, Like, Session, Owned, Base, Fits
  <2> QED BY <2>1, <2>2 DEF VadAnswers
<1> QED BY <1>1, <1>2, LikeGood

(* The events of a model round: text, an end, a failure, tool calls. *)
LEMMA ModelRoundGood ==
  ASSUME TypeOK, OwnInv, NEW c \in Replies, LlmAnswers(c)
  PROVE  Good(sess')
<1> DEFINE W == Due
           V == Started
           ended  == [sess EXCEPT !.llmGen = 0]
           spoken == [ended EXCEPT !.speech = "finished"]
           called == [ended EXCEPT !.batchGen = sess.generation]
           first  == [sess EXCEPT !.speech = "partial"]
<1>1. sess \in Session /\ Owned(sess, W, V) /\ sess.llmGen # 0
  BY DEF TypeOK, OwnInv, LlmAnswers, LlmDelta, LlmFailed, LlmFinished, LlmCallsTools,
         LlmCurrent
<1> HIDE DEF W, V
<1>2. /\ sess.turn # NoTurn /\ sess.turnGen = sess.generation /\ ~Batched(sess)
      /\ sess.speech # "finished" /\ ~Idle(sess) /\ sess.generation \in Nat
      /\ sess.generation # 0
  BY <1>1 DEF Owned, Idle, Session
<1>3. /\ Base(sess, W, V) /\ sess.asr = "none" /\ ~sess.autoSpeechActive
      /\ sess.listeningMode = "manual" => sess.phase # "Listening"
      /\ ~Ends(sess, W, sess.turn) /\ (Starts(sess, V, sess.turn) => sess.playing)
  BY <1>1, <1>2, AtWork
<1>4. Lanes(sess, sess)
  BY DEF Lanes
<1>5. /\ ended.nextTurnId = sess.nextTurnId /\ ended.turn = sess.turn
      /\ ended.turnGen = sess.turnGen /\ ended.generation = sess.generation
      /\ ended.llmGen = 0 /\ ended.batchGen = sess.batchGen
      /\ ended.speech = sess.speech /\ ended.announced = sess.announced
      /\ ended.playing = sess.playing /\ ended.asr = sess.asr
      /\ ended.autoSpeechActive = sess.autoSpeechActive /\ (Fits(sess) => Fits(ended))
      /\ ended.listenArmPending = sess.listenArmPending
      /\ ended.listeningMode = sess.listeningMode /\ ended.phase = sess.phase
      /\ ended.urgent = sess.urgent /\ ended.control = sess.control
  BY <1>1 DEF Session, Fits
<1>6. ended \in Session
  BY <1>1, Updates
<1>7. first.speech = "partial" /\ spoken.speech = "finished" /\ called.batchGen = sess.generation
  BY <1>1 DEF Session
<1>8. /\ first.nextTurnId = sess.nextTurnId /\ first.turn = sess.turn
      /\ first.turnGen = sess.turnGen /\ first.generation = sess.generation
      /\ first.llmGen = sess.llmGen /\ first.batchGen = sess.batchGen
      /\ first.announced = sess.announced
      /\ first.playing = sess.playing /\ first.asr = sess.asr
      /\ first.autoSpeechActive = sess.autoSpeechActive /\ (Fits(sess) => Fits(first))
      /\ first.listenArmPending = sess.listenArmPending
      /\ first.listeningMode = sess.listeningMode /\ first.phase = sess.phase
      /\ first.urgent = sess.urgent /\ first.control = sess.control
  BY <1>1 DEF Session, Fits
<1>9. /\ spoken.nextTurnId = sess.nextTurnId /\ spoken.turn = sess.turn
      /\ spoken.turnGen = sess.turnGen /\ spoken.generation = sess.generation
      /\ spoken.llmGen = 0 /\ spoken.batchGen = sess.batchGen
      /\ spoken.announced = sess.announced
      /\ spoken.playing = sess.playing /\ spoken.asr = sess.asr
      /\ spoken.autoSpeechActive = sess.autoSpeechActive /\ (Fits(sess) => Fits(spoken))
      /\ spoken.listenArmPending = sess.listenArmPending
      /\ spoken.listeningMode = sess.listeningMode /\ spoken.phase = sess.phase
      /\ spoken.urgent = sess.urgent /\ spoken.control = sess.control
  BY <1>1 DEF Session, Fits
<1>10. /\ called.nextTurnId = sess.nextTurnId /\ called.turn = sess.turn
       /\ called.turnGen = sess.turnGen /\ called.generation = sess.generation
       /\ called.llmGen = 0 /\ called.speech = sess.speech
       /\ called.announced = sess.announced
       /\ called.playing = sess.playing /\ called.asr = sess.asr
       /\ called.autoSpeechActive = sess.autoSpeechActive /\ (Fits(sess) => Fits(called))
       /\ called.listenArmPending = sess.listenArmPending
       /\ called.listeningMode = sess.listeningMode /\ called.phase = sess.phase
       /\ called.urgent = sess.urgent /\ called.control = sess.control
  BY <1>1 DEF Session, Fits
<1>11. sess.speech \in {"idle", "partial", "finished"}
  BY <1>1 DEF Session
<1>12. \/ sess.speech = "idle" /\ sess' = first
       \/ sess' = spoken
       \/ sess' = FailSpeechDelivery(ended, c)
       \/ sess' = FailSpeechDelivery(sess, c)
       \/ sess.speech # "partial" /\ sess' \in {called, CompleteRecognition(ended, c)}
  BY DEF LlmAnswers, LlmDelta, LlmFailed, LlmFinished, LlmCallsTools, Provider, Fault,
         Handle, spoken, ended, called, first
<1> HIDE DEF ended, spoken, called, first
<1>13. Base(ended, W, V)
  BY <1>3, <1>5 DEF Base, Ends, Starts
<1>14. Lanes(sess, ended)
  BY <1>5 DEF Lanes
<1>15. Good(FailSpeechDelivery(ended, c)) /\ Good(FailSpeechDelivery(sess, c))
  BY <1>1, <1>3, <1>4, <1>5, <1>6, <1>13, <1>14, DeliveryFailsGood DEF W, V
<1>16. Good(first)
  <2>1. Base(first, W, V)
    BY <1>3, <1>7, <1>8 DEF Base, Ends, Starts
  <2>2. /\ ~Ends(first, W, first.turn) /\ (Starts(first, V, first.turn) => first.playing)
        /\ ~Batched(first) /\ first.llmGen = first.generation
    BY <1>1, <1>2, <1>3, <1>8 DEF Ends, Starts, Batched, Owned
  <2>3. Owned(first, W, V)
    BY <1>2, <1>3, <1>7, <1>8, <2>1, <2>2 DEF Owned
  <2>4. Lanes(sess, first)
    BY <1>8 DEF Lanes
  <2> QED BY <2>3, <2>4, LanesGood DEF W, V
<1>17. Good(spoken)
  <2>1. Base(spoken, W, V)
    BY <1>3, <1>7, <1>9 DEF Base, Ends, Starts
  <2>2. /\ ~Ends(spoken, W, spoken.turn) /\ (Starts(spoken, V, spoken.turn) => spoken.playing)
        /\ ~Batched(spoken)
    BY <1>2, <1>3, <1>9 DEF Ends, Starts, Batched
  <2>3. Owned(spoken, W, V)
    BY <1>2, <1>3, <1>7, <1>9, <2>1, <2>2 DEF Owned
  <2>4. Lanes(sess, spoken)
    BY <1>9 DEF Lanes
  <2> QED BY <2>3, <2>4, LanesGood DEF W, V
<1>18. sess.speech # "partial" => Good(called)
  <2>1. Base(called, W, V)
    BY <1>2, <1>3, <1>7, <1>10 DEF Base, Ends, Starts
  <2>2. ~Ends(called, W, called.turn) /\ (Starts(called, V, called.turn) => called.playing)
    BY <1>3, <1>10 DEF Ends, Starts
  <2>3. sess.speech # "partial" => Owned(called, W, V)
    BY <1>2, <1>3, <1>10, <1>11, <2>1, <2>2 DEF Owned
  <2>4. Lanes(sess, called)
    BY <1>10 DEF Lanes
  <2> QED BY <2>3, <2>4, LanesGood DEF W, V
<1>19. sess.speech # "partial" => Good(CompleteRecognition(ended, c))
  <2>1. sess.speech # "partial" => Rest(ended, W, V)
    BY <1>2, <1>3, <1>5, <1>11, <1>13 DEF Rest, Spent, Idle, Batched
  <2> QED BY <1>6, <1>14, <2>1, CompletesGood DEF W, V
<1> QED BY <1>12, <1>15, <1>16, <1>17, <1>18, <1>19

(* End Conversation arms the close of the turn. *)
LEMMA ArmCloseGood ==
  ASSUME TypeOK, OwnInv, ArmClose
  PROVE  Good(sess')
<1>1. sess \in Session /\ Owned(sess, Due, Started)
  BY DEF TypeOK, OwnInv
<1>2. Like(sess, sess') /\ sess'.urgent = sess.urgent /\ sess'.control = sess.control
  BY <1>1 DEF ArmClose, Provider, Handle, Like, Session, Owned, Base, Fits
<1> QED BY <1>1, <1>2, LikeGood

(* A finished batch speaks, continues, completes, or is stale. *)
LEMMA ToolBatchGood ==
  ASSUME TypeOK, OwnInv, NEW c \in Replies, ToolEvent(c)
  PROVE  Good(sess')
<1> DEFINE W == Due
           V == Started
           done == [sess EXCEPT !.batchGen = 0]
           more == [done EXCEPT !.rounds = @ + 1]
<1>1. sess \in Session /\ Owned(sess, W, V) /\ sess.batchGen # 0
  BY DEF TypeOK, OwnInv, ToolEvent, FinishToolBatch
<1>2. /\ done.nextTurnId = sess.nextTurnId /\ done.turn = sess.turn
      /\ done.turnGen = sess.turnGen /\ done.generation = sess.generation
      /\ done.llmGen = sess.llmGen /\ done.batchGen = 0
      /\ done.speech = sess.speech /\ done.announced = sess.announced
      /\ done.playing = sess.playing /\ done.asr = sess.asr /\ done.asrGen = sess.asrGen
      /\ done.autoSpeechActive = sess.autoSpeechActive /\ (Fits(sess) => Fits(done))
      /\ done.listenArmPending = sess.listenArmPending
      /\ done.listeningMode = sess.listeningMode /\ done.phase = sess.phase
      /\ done.urgent = sess.urgent /\ done.control = sess.control
  BY <1>1 DEF Session, Fits
<1>3. done \in Session /\ done.rounds \in Nat
  BY <1>1, Updates, Fields
<1>4. Good(done) /\ Lanes(sess, done)
  <2>1. Like(sess, done)
    BY <1>1, <1>2 DEF Like, Owned, Base
  <2>2. Lanes(sess, done)
    BY <1>2 DEF Lanes
  <2> QED BY <1>1, <1>2, <2>1, <2>2, LikeGood
<1>5. \/ sess' = done
      \/ /\ Batched(sess)
         /\ \/ \E origin \in {"tool"} : sess' = BeginDirectSpeech(done, origin)
            \/ sess' \in {StartLlmRound(more, c), CompleteRecognition(done, c)}
  BY <1>1 DEF ToolEvent, FinishToolBatch, Provider, Handle, Batched, more, done
<1> HIDE DEF done, W, V
<1>6. Batched(sess) => Fresh(done, W, V) /\ done.asr = "none"
  <2> SUFFICES ASSUME Batched(sess) PROVE Fresh(done, W, V) /\ done.asr = "none"
    OBVIOUS
  <2>1. /\ sess.turn # NoTurn /\ sess.turnGen = sess.generation /\ sess.speech = "idle"
        /\ ~Idle(sess) /\ sess.llmGen = 0
    BY <1>1 DEF Owned, Idle
  <2>2. /\ Base(sess, W, V) /\ sess.asr = "none" /\ ~sess.autoSpeechActive
        /\ sess.listeningMode = "manual" => sess.phase # "Listening"
        /\ ~Ends(sess, W, sess.turn) /\ ~Starts(sess, V, sess.turn)
    BY <1>1, <2>1, AtWork DEF Base
  <2>3. Base(done, W, V)
    <3>1. done.generation \in Nat
      BY <1>3, Fields
    <3> QED BY <1>2, <2>2, <3>1 DEF Base, Ends, Starts
  <2>4. Idle(done) /\ ~Ends(done, W, done.turn) /\ ~Starts(done, V, done.turn)
    BY <1>2, <2>1, <2>2 DEF Idle, Batched, Ends, Starts
  <2> QED BY <1>2, <2>1, <2>2, <2>3, <2>4 DEF Fresh
<1>7. Batched(sess) => Good(BeginDirectSpeech(done, "tool"))
  <2>1. Batched(sess) => Owned(BeginDirectSpeech(done, "tool"), W, V)
                         /\ Lanes(done, BeginDirectSpeech(done, "tool"))
    BY <1>3, <1>6, DirectBegins
  <2> QED BY <1>4, <2>1, LanesOn, LanesGood DEF W, V
<1>8. Batched(sess) => Good(StartLlmRound(more, c))
  <2>1. Keeps(done, more) /\ more \in Session
    <3>1. done.rounds + 1 \in Nat
      BY <1>3
    <3> QED BY <1>3, <3>1, Untouched, Updates
  <2>2. more.phase = done.phase
    BY <1>3 DEF Session
  <2> HIDE DEF more
  <2>3. Batched(sess) => Fresh(more, W, V) /\ more.asr = "none"
    BY <1>3, <1>6, <2>1, <2>2, FreshOn DEF Keeps, Same
  <2>4. Batched(sess) => Owned(StartLlmRound(more, c), W, V)
                         /\ Lanes(more, StartLlmRound(more, c))
    BY <2>1, <2>3, RoundStarts
  <2>5. Lanes(sess, more)
    BY <1>4, <2>1, LanesOn DEF Keeps
  <2> QED BY <2>4, <2>5, LanesOn, LanesGood DEF W, V
<1>9. Batched(sess) => Good(CompleteRecognition(done, c))
  BY <1>3, <1>4, <1>6, FreshRests, CompletesGood DEF W, V
<1> QED BY <1>4, <1>5, <1>7, <1>8, <1>9

(* The packet that waited for room is queued. *)
LEMMA FlushGood ==
  ASSUME TypeOK, OwnInv, FlushPendingAudio
  PROVE  Good(sess')
<1>1. sess \in Session /\ Owned(sess, Due, Started)
  BY DEF TypeOK, OwnInv
<1>2. \/ sess' = [[sess EXCEPT !.pendingAudio = NoMsg]
                    EXCEPT !.audio = Append(@, sess.pendingAudio)]
      \/ sess' = [sess EXCEPT !.pendingAudio = NoMsg]
  BY DEF FlushPendingAudio, Provider, Handle
<1>3. sess.listenArmPending => sess.listeningMode # "none"
  BY <1>1 DEF Owned, Base
<1>4. Like(sess, sess') /\ sess'.urgent = sess.urgent /\ sess'.control = sess.control
  <2>1. CASE sess' = [sess EXCEPT !.pendingAudio = NoMsg]
    BY <1>1, <1>3, <2>1 DEF Like, Session, Fits
  <2>2. CASE sess' = [[sess EXCEPT !.pendingAudio = NoMsg]
                        EXCEPT !.audio = Append(@, sess.pendingAudio)]
    BY <1>1, <1>3, <2>2 DEF Like, Session, Fits
  <2> QED BY <1>2, <2>1, <2>2
<1> QED BY <1>1, <1>4, LikeGood

(* A packet is queued, waits, or finds no turn. *)
LEMMA AudioGood ==
  ASSUME TypeOK, OwnInv, NEW c \in Replies, AudioPacket(c)
  PROVE  Good(sess')
<1> DEFINE W == Due
           V == Started
           sent == [sess EXCEPT !.packets = @ + 1]
<1>1. sess \in Session /\ Owned(sess, W, V) /\ sess.playing
  BY DEF TypeOK, OwnInv, AudioPacket
<1>2. Base(sess, W, V) /\ sess.asr = "none"
  <2>1. ~Idle(sess)
    BY <1>1 DEF Owned, Base, Idle
  <2> HIDE DEF W, V
  <2> QED BY <1>1, <2>1, AtWork
<1>3. CASE sess' = FailSpeechDelivery(sent, c)
  <2>1. sent \in Session /\ Keeps(sess, sent)
    <3>1. sess.packets + 1 \in Nat
      BY <1>1, Fields
    <3> QED BY <1>1, <3>1, Untouched, Updates
  <2> HIDE DEF sent
  <2>2. Base(sent, W, V) /\ sent.asr = "none" /\ Lanes(sess, sent)
    BY <1>2, <2>1 DEF Keeps, Same, Lanes, Base, Ends, Starts
  <2> QED BY <1>3, <2>1, <2>2, DeliveryFailsGood
<1>4. CASE \/ sess' = [sent EXCEPT !.audio = Append(@, Msg("binary", sess.generation, sess.turn))]
           \/ sess' = [sent EXCEPT !.pendingAudio = Msg("binary", sess.generation, sess.turn)]
           \/ sess' = sent
  <2> DEFINE packet == Msg("binary", sess.generation, sess.turn)
  <2>1. sess.listenArmPending => sess.listeningMode # "none"
    BY <1>2 DEF Base
  <2> HIDE DEF packet
  <2>2. CASE sess' = [sent EXCEPT !.audio = Append(@, packet)]
    <3>1. Like(sess, sess') /\ sess'.urgent = sess.urgent /\ sess'.control = sess.control
      BY <1>1, <2>1, <2>2 DEF Like, Session, Fits
    <3> QED BY <1>1, <3>1, LikeGood
  <2>3. CASE sess' = [sent EXCEPT !.pendingAudio = packet]
    <3>1. Like(sess, sess') /\ sess'.urgent = sess.urgent /\ sess'.control = sess.control
      BY <1>1, <2>1, <2>3 DEF Like, Session, Fits
    <3> QED BY <1>1, <3>1, LikeGood
  <2>4. CASE sess' = sent
    <3>1. Like(sess, sess') /\ sess'.urgent = sess.urgent /\ sess'.control = sess.control
      BY <1>1, <2>1, <2>4 DEF Like, Session, Fits
    <3> QED BY <1>1, <3>1, LikeGood
  <2> QED BY <1>4, <2>2, <2>3, <2>4 DEF packet
<1> QED BY <1>3, <1>4 DEF AudioPacket, Provider, Handle

(* tts:start is queued for a turn no start was ever queued or sent for. *)
LEMMA StartQueued ==
  ASSUME TypeOK, OwnInv, NEW s \in Session, Owned(s, Due, Started), StartsAreNew(s),
         s.speech # "idle", s.playing, ~Starts(s, Started, s.turn), s.turn \in Nat, s.turn # NoTurn
  PROVE  LET r == OfferControl(s, Msg("start", s.generation, s.turn)) IN
         Good(r) /\ r \in Session /\ r.asr = "none"
<1> DEFINE m == Msg("start", s.generation, s.turn)
           r == OfferControl(s, m)
           W == Due
           V == Started
<1>1. m \in Message(ControlKinds) /\ m.kind = "start" /\ m.turn = s.turn
  BY Fields, MessageTypes DEF Msg, Turns
<1>2. r \in Session
  BY <1>1, OfferControlType
<1>3. s.control \in Seq(Message(ControlKinds))
  BY Fields DEF Lane
<1>4. \A kind, t : Holds(r.control, kind, t) =>
         Holds(s.control, kind, t) \/ (kind = "start" /\ t = s.turn)
  <2>1. r.control \in {s.control, Append(s.control, m)}
    BY DEF OfferControl, Session
  <2>2. \A kind, t : Holds(Append(s.control, m), kind, t)
                     <=> Holds(s.control, kind, t) \/ (m.kind = kind /\ m.turn = t)
    BY <1>1, <1>3, Appended
  <2> HIDE DEF m, r
  <2>3. CASE r.control = s.control
    BY <2>3
  <2>4. CASE r.control = Append(s.control, m)
    <3> SUFFICES ASSUME NEW kind, NEW t, Holds(r.control, kind, t)
                 PROVE  Holds(s.control, kind, t) \/ (kind = "start" /\ t = s.turn)
      OBVIOUS
    <3>1. Holds(Append(s.control, m), kind, t)
      BY <2>4
    <3>2. Holds(s.control, kind, t) \/ (m.kind = kind /\ m.turn = t)
      BY <2>2, <3>1
    <3> QED BY <1>1, <3>2
  <2> QED BY <2>1, <2>3, <2>4
<1>5. Once(r.control)
  <2>1. r.control \in {s.control, Append(s.control, m)}
    BY DEF OfferControl, Session
  <2>2. Once(s.control) /\ ~Holds(s.control, "start", m.turn)
    BY <1>1 DEF StartsAreNew, Starts
  <2>3. Once(Append(s.control, m))
    BY <1>1, <1>3, <2>2, Appended
  <2> QED BY <2>1, <2>2, <2>3
<1>6. /\ r.nextTurnId = s.nextTurnId /\ r.turn = s.turn
      /\ r.turnGen = s.turnGen /\ r.generation = s.generation
      /\ r.llmGen = s.llmGen /\ r.batchGen = s.batchGen
      /\ r.speech = s.speech /\ r.announced = s.announced
      /\ r.playing = s.playing /\ r.asr = s.asr /\ r.asrGen = s.asrGen
      /\ r.autoSpeechActive = s.autoSpeechActive /\ (Fits(s) => Fits(r))
      /\ r.listenArmPending = s.listenArmPending
      /\ r.listeningMode = s.listeningMode /\ r.phase = s.phase
      /\ r.urgent = s.urgent
  BY DEF OfferControl, Session, Fits
<1> HIDE DEF r, m, W, V
<1>7. Base(s, W, V) /\ s.asr = "none" /\ ~Ends(s, W, s.turn)
  <2>1. ~Idle(s) /\ Owned(s, W, V)
    BY DEF Idle, W, V
  <2> QED BY <2>1, AtWork
<1>8. \A t : (Ends(r, W, t) => Ends(s, W, t)) /\ (Starts(r, V, t) => Starts(s, V, t) \/ t = s.turn)
  BY <1>4, <1>6 DEF Ends, Starts
<1>9. Base(r, W, V)
  <2>1. s.turn < s.nextTurnId /\ s.turn \in Nat \ {0}
    BY <1>7 DEF Base, NoTurn
  <2> QED BY <1>6, <1>7, <1>8, <2>1 DEF Base
<1>10. Owned(r, W, V)
  <2>1. Owned(s, W, V)
    BY DEF W, V
  <2>2. ~Ends(r, W, r.turn) /\ r.playing /\ r.asr = "none" /\ ~Idle(r) /\ r.turn # NoTurn
    BY <1>6, <1>7, <1>8 DEF Idle
  <2>3. ~Idle(s) /\ (Batched(r) <=> Batched(s))
    BY <1>6 DEF Idle, Batched
  <2> QED BY <1>6, <1>9, <2>1, <2>2, <2>3 DEF Owned, Spent
<1>11. StartsAreNew(r)
  BY <1>4, <1>5 DEF StartsAreNew, Starts
<1>12. Good(r) /\ r.asr = "none"
  BY <1>6, <1>7, <1>10, <1>11 DEF Good, W, V
<1> QED BY <1>2, <1>12 DEF r, m

(* A good session that comes to rest stays good. *)
LEMMA GoodOn ==
  ASSUME NEW s \in Session, Good(s), NEW r \in Session, Rest(r, Due, Started), Lanes(s, r)
  PROVE  Good(r)
<1>1. Owned(r, Due, Started)
  BY RestIsOwned
<1> QED BY <1>1 DEF Good, StartsAreNew, Lanes

(* A good session that changes nothing stays good. *)
LEMMA KeptGood ==
  ASSUME NEW s \in Session, Good(s), NEW r, Keeps(s, r), r.phase = s.phase
  PROVE  Good(r)
<1> DEFINE W == Due
           V == Started
<1>1. Owned(s, W, V) /\ StartsAreNew(s)
  BY DEF Good
<1>2. StartsAreNew(r)
  BY <1>1 DEF StartsAreNew, Keeps, Lanes
<1> HIDE DEF W, V
<1>3. \A t : (Ends(r, W, t) => Ends(s, W, t)) /\ (Starts(r, V, t) => Starts(s, V, t))
  BY DEF Keeps, Lanes, Ends, Starts
<1>4. Like(s, r)
  BY <1>1 DEF Keeps, Same, Like, Owned, Base
<1>5. Owned(r, W, V)
  BY <1>1, <1>3, <1>4, LikeOwned
<1> QED BY <1>2, <1>5 DEF Good, W, V

(* A good session whose delivery fails stays good. *)
LEMMA FailedGood ==
  ASSUME NEW c \in Replies, NEW s \in Session, Good(s), s.asr = "none"
  PROVE  Good(FailSpeechDelivery(s, c))
<1> DEFINE W == Due
           V == Started
<1>1. Base(s, W, V)
  BY DEF Good, Owned
<1> HIDE DEF W, V
<1>2. Rest(FailSpeechDelivery(s, c), W, V) /\ Lanes(s, FailSpeechDelivery(s, c))
  BY <1>1, DeliveryFails
<1> QED BY <1>2, DeliveryTypes, GoodOn DEF W, V

(* A segment is announced; a model turn also shows its text. *)
LEMMA SegmentGood ==
  ASSUME TypeOK, OwnInv, NEW c \in Replies, SegmentReady(c)
  PROVE  Good(sess')
<1> DEFINE W == Due
           V == Started
           said == [sess EXCEPT !.announced = TRUE]
           told == OfferControl(said, Msg("text", sess.generation, sess.turn))
<1>1. sess \in Session /\ Owned(sess, W, V) /\ sess.speech # "idle"
  BY DEF TypeOK, OwnInv, SegmentReady
<1>2. /\ said.nextTurnId = sess.nextTurnId /\ said.turn = sess.turn
      /\ said.turnGen = sess.turnGen /\ said.generation = sess.generation
      /\ said.llmGen = sess.llmGen /\ said.batchGen = sess.batchGen
      /\ said.speech = sess.speech
      /\ said.playing = sess.playing /\ said.asr = sess.asr /\ said.asrGen = sess.asrGen
      /\ said.autoSpeechActive = sess.autoSpeechActive /\ (Fits(sess) => Fits(said))
      /\ said.listenArmPending = sess.listenArmPending
      /\ said.listeningMode = sess.listeningMode /\ said.phase = sess.phase
      /\ said.urgent = sess.urgent /\ said.control = sess.control
  BY <1>1 DEF Session, Fits
<1>3. said \in Session
  BY <1>1, Updates
<1>4. sess' \in {said, told, FailSpeechDelivery(said, c)}
  BY DEF SegmentReady, Provider, Handle, told, said
<1>5. told = OfferControl(said, Msg("text", said.generation, said.turn))
  BY <1>2
<1> HIDE DEF said, told, W, V
<1>6. \A t : (Ends(said, W, t) <=> Ends(sess, W, t)) /\ (Starts(said, V, t) <=> Starts(sess, V, t))
  BY <1>2 DEF Ends, Starts
<1>7. Base(said, W, V)
  BY <1>1, <1>2, <1>6 DEF Owned, Base
<1>8. /\ (Idle(said) <=> Idle(sess)) /\ (Spent(said) <=> Spent(sess))
      /\ (Batched(said) <=> Batched(sess))
      /\ (Ends(said, W, said.turn) <=> Ends(sess, W, sess.turn))
      /\ (Starts(said, V, said.turn) <=> Starts(sess, V, sess.turn))
  BY <1>2, <1>6 DEF Idle, Spent, Batched
<1>9. Owned(said, W, V)
  BY <1>1, <1>2, <1>7, <1>8 DEF Owned
<1>10. Good(said)
  <2>1. Lanes(sess, said)
    BY <1>2 DEF Lanes
  <2> QED BY <1>9, <2>1, LanesGood DEF W, V
<1>11. Good(told)
  <2>1. said.generation \in Nat /\ said.turn \in Nat
    BY <1>3, Fields
  <2>2. Keeps(said, told) /\ told.phase = said.phase
    BY <1>3, <1>5, <2>1, OfferedText
  <2> QED BY <1>3, <1>10, <2>2, KeptGood
<1>12. said.asr = "none"
  BY <1>1, <1>2 DEF Owned, Idle
<1> QED BY <1>3, <1>4, <1>10, <1>11, <1>12, FailedGood

(* Playback starts: the one place where a start is queued. *)
LEMMA SpeechStartedGood ==
  ASSUME TypeOK, OwnInv, NEW c \in Replies, SpeechStarted(c)
  PROVE  Good(sess')
<1> DEFINE W == Due
           V == Started
           begun == [sess EXCEPT !.playing = TRUE, !.ttsStarted = TRUE,
                                 !.phase = "Speaking"]
           start == OfferControl(begun, Msg("start", sess.generation, sess.turn))
           told  == OfferControl(start, Msg("text", sess.generation, sess.turn))
<1>1. sess \in Session /\ Owned(sess, W, V) /\ sess.announced /\ ~sess.playing
  BY DEF TypeOK, OwnInv, SpeechStarted
<1>2. sess.speech # "idle"
  BY <1>1 DEF Owned, Base
<1>3. /\ begun.nextTurnId = sess.nextTurnId /\ begun.turn = sess.turn
      /\ begun.turnGen = sess.turnGen /\ begun.generation = sess.generation
      /\ begun.llmGen = sess.llmGen /\ begun.batchGen = sess.batchGen
      /\ begun.speech = sess.speech /\ begun.announced = sess.announced
      /\ begun.playing = TRUE /\ begun.asr = sess.asr /\ begun.asrGen = sess.asrGen
      /\ begun.autoSpeechActive = sess.autoSpeechActive /\ (Fits(sess) => Fits(begun))
      /\ begun.listenArmPending = sess.listenArmPending
      /\ begun.listeningMode = sess.listeningMode /\ begun.phase = "Speaking"
      /\ begun.urgent = sess.urgent /\ begun.control = sess.control
  BY <1>1 DEF Session, Fits
<1>4. begun \in Session
  BY <1>1, Updates
<1>5. sess' \in {FailSpeechDelivery(begun, c), start, told, FailSpeechDelivery(start, c)}
  BY DEF SpeechStarted, Provider, Handle, told, start, begun
<1>6. start = OfferControl(begun, Msg("start", begun.generation, begun.turn))
  BY <1>3
<1> HIDE DEF begun, W, V
<1>7. /\ Base(sess, W, V) /\ sess.asr = "none" /\ sess.turn # NoTurn
      /\ ~Ends(sess, W, sess.turn) /\ ~Starts(sess, V, sess.turn) /\ ~Idle(sess)
      /\ ~sess.autoSpeechActive
  <2>1. ~Idle(sess)
    BY <1>2 DEF Idle
  <2> QED BY <1>1, <2>1, AtWork
<1>8. \A t : (Ends(begun, W, t) <=> Ends(sess, W, t)) /\ (Starts(begun, V, t) <=> Starts(sess, V, t))
  BY <1>3 DEF Ends, Starts
<1>9. Base(begun, W, V)
  BY <1>2, <1>3, <1>7, <1>8 DEF Base
<1>10. /\ ~Idle(begun) /\ (Batched(begun) <=> Batched(sess))
       /\ ~Ends(begun, W, begun.turn) /\ ~Starts(begun, V, begun.turn)
  BY <1>2, <1>3, <1>7, <1>8 DEF Idle, Batched
<1>11. Owned(begun, W, V)
  BY <1>1, <1>3, <1>7, <1>9, <1>10 DEF Owned
<1>12. Good(begun) /\ begun.asr = "none"
  <2>1. Lanes(sess, begun)
    BY <1>3 DEF Lanes
  <2> QED BY <1>3, <1>7, <1>11, <2>1, LanesGood DEF W, V
<1>13. Good(start) /\ start \in Session /\ start.asr = "none"
  <2>1. begun.turn \in Nat
    BY <1>4, Fields
  <2>2. /\ StartsAreNew(begun) /\ Owned(begun, Due, Started)
        /\ ~Starts(begun, Started, begun.turn)
    BY <1>10, <1>12 DEF Good, V
  <2>3. begun.speech # "idle" /\ begun.playing /\ begun.turn # NoTurn
    BY <1>2, <1>3, <1>7
  <2> QED BY <1>4, <1>6, <2>1, <2>2, <2>3, StartQueued
<1> HIDE DEF start
<1>14. Good(told)
  <2>1. sess.generation \in Nat /\ sess.turn \in Nat
    BY <1>1, Fields
  <2>2. Keeps(start, told) /\ told.phase = start.phase
    BY <1>13, <2>1, OfferedText
  <2> HIDE DEF told
  <2> QED BY <1>13, <2>2, KeptGood
<1>15. Good(FailSpeechDelivery(begun, c)) /\ Good(FailSpeechDelivery(start, c))
  BY <1>4, <1>12, <1>13, FailedGood
<1> QED BY <1>5, <1>13, <1>14, <1>15

(* Playback drained: the stop is queued when no work is left. *)
LEMMA DrainedGood ==
  ASSUME TypeOK, OwnInv, NEW c \in Replies, Drained(c)
  PROVE  Good(sess')
<1> DEFINE W == Due
           V == Started
           spent == [sess EXCEPT !.speech = "idle", !.announced = FALSE,
                                 !.playing = FALSE, !.packets = 0]
           m     == Msg("finish", 0, sess.turn)
           told  == OfferControl(spent, m)
           r     == [told EXCEPT !.pendingDelivery = sess.turn]
<1>1. sess \in Session /\ Owned(sess, W, V) /\ sess.playing /\ sess.speech = "finished"
  BY DEF TypeOK, OwnInv, Drained
<1>2. /\ spent.nextTurnId = sess.nextTurnId /\ spent.turn = sess.turn
      /\ spent.turnGen = sess.turnGen /\ spent.generation = sess.generation
      /\ spent.llmGen = sess.llmGen /\ spent.batchGen = sess.batchGen
      /\ spent.speech = "idle" /\ ~spent.announced
      /\ ~spent.playing /\ spent.asr = sess.asr
      /\ spent.autoSpeechActive = sess.autoSpeechActive /\ (Fits(sess) => Fits(spent))
      /\ spent.listenArmPending = sess.listenArmPending
      /\ spent.listeningMode = sess.listeningMode
      /\ spent.urgent = sess.urgent /\ spent.control = sess.control
  BY <1>1 DEF Session, Fits
<1>3. spent \in Session
  BY <1>1, Updates
<1>4. \/ sess' = FailSpeechDelivery(spent, c)
      \/ sess.turn # NoTurn /\ sess' = r
      \/ sess' = FailClosed(spent)
  BY DEF Drained, Provider, Handle, r, told, m, spent
<1> HIDE DEF spent, W, V
<1>5. /\ Base(sess, W, V) /\ sess.asr = "none" /\ sess.turn # NoTurn
      /\ sess.llmGen = 0 /\ ~Batched(sess)
  <2>1. ~Idle(sess)
    BY <1>1 DEF Idle
  <2> QED BY <1>1, <2>1, AtWork DEF Owned
<1>6. Base(spent, W, V) /\ Lanes(sess, spent)
  BY <1>2, <1>5 DEF Base, Ends, Starts, Lanes
<1>7. Rest(spent, W, V) /\ spent.asr = "none"
  BY <1>2, <1>5, <1>6 DEF Rest, Spent, Idle, Batched
<1>8. Good(spent)
  BY <1>3, <1>6, <1>7, RestGood DEF W, V
<1>9. Good(FailSpeechDelivery(spent, c))
  BY <1>3, <1>7, <1>8, FailedGood
<1>10. Good(FailClosed(spent))
  <2>1. Owned(spent, W, V)
    BY <1>3, <1>7, RestIsOwned
  <2> QED BY <1>3, <1>6, <2>1, FailsClosedGood DEF W, V
<1>11. Good(r)
  <2>1. m \in Message(ControlKinds) /\ m.kind = "finish" /\ m.turn = sess.turn
    <3>1. sess.turn \in Nat
      BY <1>1, Fields
    <3>2. m \in Message(ControlKinds)
      BY <1>5, <3>1, MessageTypes DEF Turns
    <3> QED BY <3>2 DEF Msg
  <2> HIDE DEF m
  <2>2. told \in Session
    BY <1>3, <2>1, OfferControlType
  <2>3. told.control \in {spent.control, Append(spent.control, m)}
    BY <1>3 DEF OfferControl, Session
  <2>4. /\ told.nextTurnId = spent.nextTurnId /\ told.turn = spent.turn
        /\ told.generation = spent.generation
        /\ told.llmGen = spent.llmGen /\ told.batchGen = spent.batchGen
        /\ told.speech = spent.speech /\ told.announced = spent.announced
        /\ told.playing = spent.playing /\ told.asr = spent.asr
        /\ told.autoSpeechActive = spent.autoSpeechActive /\ (Fits(spent) => Fits(told))
        /\ told.listenArmPending = spent.listenArmPending
        /\ told.listeningMode = spent.listeningMode
        /\ told.urgent = spent.urgent
    BY <1>3 DEF OfferControl, Session, Fits
  <2> HIDE DEF told
  <2>5. Keeps(told, r) /\ r \in Session
    <3>1. sess.turn \in Turns
      BY <1>1 DEF Session
    <3> QED BY <2>2, <3>1, Untouched, Updates
  <2>6. r.phase = told.phase
    BY <2>2 DEF Session
  <2> HIDE DEF r
  <2>7. spent.control \in Seq(Message(ControlKinds))
    BY <1>3, Fields DEF Lane
  <2>8. \A kind, t : Holds(told.control, kind, t) =>
           Holds(spent.control, kind, t) \/ (kind = "finish" /\ t = sess.turn)
    <3>1. \A kind, t : Holds(Append(spent.control, m), kind, t)
                       <=> Holds(spent.control, kind, t) \/ (m.kind = kind /\ m.turn = t)
      BY <2>1, <2>7, Appended
    <3>2. CASE told.control = spent.control
      BY <3>2
    <3>3. CASE told.control = Append(spent.control, m)
      <4> SUFFICES ASSUME NEW kind, NEW t, Holds(told.control, kind, t)
                   PROVE  Holds(spent.control, kind, t) \/ (kind = "finish" /\ t = sess.turn)
        OBVIOUS
      <4>1. Holds(Append(spent.control, m), kind, t)
        BY <3>3
      <4>2. Holds(spent.control, kind, t) \/ (m.kind = kind /\ m.turn = t)
        BY <3>1, <4>1
      <4> QED BY <2>1, <4>2
    <3> QED BY <2>3, <3>2, <3>3
  <2>9. Once(told.control)
    <3>1. Once(spent.control) /\ m.kind # "start"
      BY <1>8, <2>1 DEF Good, StartsAreNew
    <3>2. Once(Append(spent.control, m))
      BY <2>1, <2>7, <3>1, Appended
    <3> QED BY <2>3, <3>1, <3>2
  <2>10. sess.turn \in Nat \ {0} /\ sess.turn < sess.nextTurnId
    BY <1>1, <1>5, Fields DEF Base, NoTurn
  <2>11. Base(told, W, V)
    <3>1. \A t : Ends(told, W, t) \/ Starts(told, V, t) =>
             Ends(spent, W, t) \/ Starts(spent, V, t) \/ t = sess.turn
      BY <2>4, <2>8 DEF Ends, Starts
    <3> QED BY <1>2, <1>6, <2>4, <2>10, <3>1 DEF Base
  <2>12. Rest(told, W, V)
    BY <1>7, <2>4, <2>11 DEF Rest, Spent, Idle, Batched
  <2>13. StartsAreNew(told)
    BY <1>8, <2>8, <2>9 DEF StartsAreNew, Good
  <2>14. Good(told)
    BY <2>2, <2>12, <2>13, RestIsOwned DEF Good, W, V
  <2> QED BY <2>2, <2>5, <2>6, <2>14, KeptGood
<1> QED BY <1>4, <1>9, <1>10, <1>11

(* Speech output fails. *)
LEMMA SpeechFailedGood ==
  ASSUME TypeOK, OwnInv, NEW c \in Replies, SpeechFailed(c)
  PROVE  Good(sess')
<1>1. sess \in Session /\ Owned(sess, Due, Started) /\ sess.speech # "idle" /\ Good(sess)
  BY DEF TypeOK, OwnInv, SpeechFailed, Good
<1>2. sess.asr = "none"
  BY <1>1 DEF Owned, Idle
<1>3. sess' = FailSpeechDelivery(sess, c)
  BY DEF SpeechFailed, Fault, Handle
<1> QED BY <1>1, <1>2, <1>3, FailedGood

(* An outcome is applied; it leaves the mailbox with it. *)
LEMMA OutcomeGood ==
  ASSUME TypeOK, OwnInv, NEW c \in Replies, OnWriterEvent(c)
  PROVE  Good(sess')
<1> DEFINE W == Due
           V == Started
           o == Head(mailbox)
<1>1. sess \in Session /\ Owned(sess, W, V)
  BY DEF TypeOK, OwnInv
<1>2. mailbox # <<>> /\ mailbox \in Mailbox /\ o \in Verdict
  BY MailboxTail DEF TypeOK, OnWriterEvent
<1>3. o = mailbox[1] /\ 1 \in DOMAIN mailbox
  BY <1>2 DEF Mailbox
<1>4. CASE o.kind = "failed"
  BY <1>4, SessionFailsClosed DEF OnWriterEvent
<1>5. CASE o.kind # "failed"
  <2>1. sess' = TurnClosed(sess, o, c)
    BY <1>5 DEF OnWriterEvent
  <2>2. sess.turn = o.turn /\ sess.turn # NoTurn => Ends(sess, W, o.turn)
    <3>1. sess.turn \in Nat
      BY <1>1, Fields
    <3> QED BY <1>3, <1>5, <3>1 DEF Ends, Due, NoTurn
  <2> HIDE DEF W, V, o
  <2>3. Owned(TurnClosed(sess, o, c), W, V) /\ Lanes(sess, TurnClosed(sess, o, c))
    BY <1>1, <1>2, <2>2, TurnCloses
  <2> QED BY <2>1, <2>3, LanesGood DEF W, V
<1> QED BY <1>4, <1>5

-----------------------------------------------------------------------------
(* The writer moves an outcome or a start from a lane to its own state, and *)
(* the teardown ends work. *)

(* What a step of the writer may change. *)
LEMMA Moved ==
  ASSUME NEW s \in Session, NEW r, NEW W, NEW V, NEW X, NEW Y, Owned(s, W, V), Like(s, r),
         \A t : t \in X \/ Holds(r.urgent, "abort", t) \/ Holds(r.control, "finish", t)
                  => Ends(s, W, t),
         \A t : t \in Y \/ Holds(r.control, "start", t) => Starts(s, V, t)
  PROVE  Owned(r, X, Y)
<1>1. \A t : (Ends(r, X, t) => Ends(s, W, t)) /\ (Starts(r, Y, t) => Starts(s, V, t))
  BY DEF Ends, Starts
<1> QED BY <1>1, LikeOwned

(* What the tail of a lane still holds. *)
LEMMA Popped ==
  ASSUME NEW kinds, NEW q \in Seq(Message(kinds)), q # <<>>
  PROVE  /\ \A kind, t : Holds(Tail(q), kind, t) => Holds(q, kind, t)
         /\ Holds(q, Head(q).kind, Head(q).turn)
         /\ Once(q) => Once(Tail(q))
         /\ Once(q) /\ Head(q).kind = "start" => ~Holds(Tail(q), "start", Head(q).turn)
<1>1. /\ Tail(q) \in Seq(Message(kinds)) /\ Len(q) \in Nat \ {0} /\ Len(Tail(q)) = Len(q) - 1
      /\ DOMAIN q = 1 .. Len(q) /\ DOMAIN Tail(q) = 1 .. Len(Tail(q))
      /\ Head(q) = q[1]
  OBVIOUS
<1>2. \A i \in DOMAIN Tail(q) : i + 1 \in DOMAIN q /\ Tail(q)[i] = q[i + 1]
  OBVIOUS
<1>3. 1 \in DOMAIN q
  BY <1>1
<1>4. \A kind, t : Holds(Tail(q), kind, t) => Holds(q, kind, t)
  BY <1>2 DEF Holds
<1>5. Holds(q, Head(q).kind, Head(q).turn)
  BY <1>1, <1>3 DEF Holds
<1>6. Once(q) => Once(Tail(q))
  <2> SUFFICES ASSUME Once(q), NEW i \in DOMAIN Tail(q), NEW j \in DOMAIN Tail(q),
                      Tail(q)[i].kind = "start", Tail(q)[j].kind = "start",
                      Tail(q)[i].turn = Tail(q)[j].turn
               PROVE  i = j
    BY DEF Once
  <2>1. i + 1 = j + 1
    BY <1>2 DEF Once
  <2> QED BY <1>1, <2>1
<1>7. Once(q) /\ Head(q).kind = "start" => ~Holds(Tail(q), "start", Head(q).turn)
  <2> SUFFICES ASSUME Once(q), Head(q).kind = "start", NEW i \in DOMAIN Tail(q),
                      Tail(q)[i].kind = "start", Tail(q)[i].turn = Head(q).turn
               PROVE  FALSE
    BY DEF Holds
  <2>1. i + 1 = 1
    BY <1>1, <1>2, <1>3 DEF Once
  <2> QED BY <1>1, <2>1
<1> QED BY <1>4, <1>5, <1>6, <1>7

(* The invariant survives when the writer moves outcomes and starts. *)
LEMMA WriterOwned ==
  ASSUME TypeOK, OwnInv, Like(sess, sess'), FrameIsSent', Once(sess'.control),
         \A t \in Due' : t \in Due \/ Holds(sess.urgent, "abort", t) \/ Holds(sess.control, "finish", t),
         \A t \in Started' : t \in Started \/ Holds(sess.control, "start", t),
         \A t \in Started' : ~Holds(sess'.control, "start", t),
         \A kind, t : Holds(sess'.urgent, kind, t) => Holds(sess.urgent, kind, t),
         \A kind, t : Holds(sess'.control, kind, t) => Holds(sess.control, kind, t)
  PROVE  OwnInv'
<1> DEFINE W == Due
           V == Started
           X == Due'
           Y == Started'
<1>1. sess \in Session /\ Owned(sess, W, V)
  BY DEF TypeOK, OwnInv
<1> HIDE DEF W, V, X, Y
<1>2. \A t : t \in X \/ Holds(sess'.urgent, "abort", t) \/ Holds(sess'.control, "finish", t)
               => Ends(sess, W, t)
  BY DEF Ends, W, X
<1>3. \A t : t \in Y \/ Holds(sess'.control, "start", t) => Starts(sess, V, t)
  BY DEF Starts, V, Y
<1>4. Owned(sess', X, Y)
  BY <1>1, <1>2, <1>3, Moved
<1>5. StartsAreNew(sess)'
  BY DEF StartsAreNew
<1> QED BY <1>4, <1>5 DEF OwnInv, X, Y

(* Taking a frame from a lane, or closing the lanes, is no work. *)
LEMMA LikeAlso ==
  ASSUME TypeOK, OwnInv
  PROVE  /\ Like(sess, sess) /\ \A q : Like(sess, [sess EXCEPT !.urgent = q])
         /\ \A q : Like(sess, [sess EXCEPT !.control = q])
         /\ \A q : Like(sess, [sess EXCEPT !.audio = q])
         /\ \A b : Like(sess, [sess EXCEPT !.lanesOpen = b])
<1>1. sess \in Session /\ (sess.listenArmPending => sess.listeningMode # "none")
  BY DEF TypeOK, OwnInv, Owned, Base
<1>2. Like(sess, sess)
  BY <1>1 DEF Like
<1>3. \A q : Like(sess, [sess EXCEPT !.urgent = q])
  BY <1>1 DEF Like, Session, Fits
<1>4. \A q : Like(sess, [sess EXCEPT !.control = q])
  BY <1>1 DEF Like, Session, Fits
<1>5. \A q : Like(sess, [sess EXCEPT !.audio = q])
  BY <1>1 DEF Like, Session, Fits
<1>6. \A b : Like(sess, [sess EXCEPT !.lanesOpen = b])
  BY <1>1 DEF Like, Session, Fits
<1> QED BY <1>2, <1>3, <1>4, <1>5, <1>6

(* An abort becomes a frame in flight or an outcome to report. *)
LEMMA UrgentTaken ==
  ASSUME TypeOK, OwnInv, TakeUrgent
  PROVE  OwnInv'
<1> DEFINE m == Head(sess.urgent)
<1>1. /\ sess.urgent \in Seq(Message(UrgentKinds)) /\ sess.urgent # <<>>
      /\ sess' = [sess EXCEPT !.urgent = Tail(sess.urgent)] /\ UNCHANGED <<mailbox, wire>>
      /\ writer.pc = "idle" /\ sess \in Session /\ m.kind \in {"abort", "close"}
  BY UrgentMove DEF TypeOK
<1>2. /\ \A kind, t : Holds(Tail(sess.urgent), kind, t) => Holds(sess.urgent, kind, t)
      /\ Holds(sess.urgent, m.kind, m.turn)
  BY <1>1, Popped
<1>4. Like(sess, sess') /\ sess'.urgent = Tail(sess.urgent) /\ sess'.control = sess.control
  BY <1>1, LikeAlso DEF Session
<1>5. writer.frame.kind = "none"
  BY <1>1 DEF OwnInv, FrameIsSent
<1>6. \/ /\ m.kind = "abort" /\ writer'.frame = writer.frame /\ writer'.pc = "reporting"
         /\ writer'.deferred = writer.deferred /\ writer'.report.turn = m.turn
      \/ /\ writer'.frame = m /\ writer'.pc = "sending"
         /\ writer'.deferred \in {writer.deferred, NoTurn} /\ writer'.report = writer.report
  BY UrgentMove DEF Becomes, Outcome
<1> HIDE DEF m
<1>8. FrameIsSent'
  BY <1>1, <1>5, <1>6 DEF FrameIsSent
<1>9. \A t \in Due' : t \in Due \/ Holds(sess.urgent, "abort", t) \/ Holds(sess.control, "finish", t)
  BY <1>1, <1>2, <1>5, <1>6 DEF Due, NoTurn
<1>10. \A t \in Started' : t \in Started
  BY <1>1, <1>5, <1>6 DEF Started
<1>11. Once(sess.control) /\ \A t \in Started : ~Holds(sess.control, "start", t)
  BY DEF OwnInv, StartsAreNew
<1> QED BY <1>2, <1>4, <1>8, <1>9, <1>10, <1>11, WriterOwned

(* A deferred stop becomes the frame in flight. *)
LEMMA DeferredTaken ==
  ASSUME TypeOK, OwnInv, TakeDeferredFinish
  PROVE  OwnInv'
<1>1. UNCHANGED <<sess, mailbox, wire>> /\ writer.pc = "idle" /\ sess \in Session
  BY DeferredMove DEF TypeOK
<1>2. /\ writer'.pc = "sending" /\ writer'.deferred = NoTurn /\ writer'.report = writer.report
      /\ writer'.frame = Msg("finish", 0, writer.deferred)
  BY DeferredMove DEF Becomes
<1>3. writer'.frame.kind = "finish" /\ writer'.frame.turn = writer.deferred
  BY <1>2 DEF Msg
<1>4. writer.frame.kind = "none"
  BY <1>1 DEF OwnInv, FrameIsSent
<1>5. FrameIsSent'
  BY <1>2, <1>3 DEF FrameIsSent
<1>6. \A t \in Due' : t \in Due
  BY <1>1, <1>2, <1>3 DEF Due, NoTurn
<1>7. \A t \in Started' : t \in Started
  BY <1>1, <1>3 DEF Started
<1>8. Once(sess.control) /\ \A t \in Started : ~Holds(sess.control, "start", t)
  BY DEF OwnInv, StartsAreNew
<1>9. Like(sess, sess')
  BY <1>1, LikeAlso
<1> QED BY <1>1, <1>5, <1>6, <1>7, <1>8, <1>9, WriterOwned

(* A start is sent or dropped; a stop is sent, deferred or reported. *)
LEMMA ControlTaken ==
  ASSUME TypeOK, OwnInv, TakeControl
  PROVE  OwnInv'
<1> DEFINE m == Head(sess.control)
<1>1. /\ sess.control \in Seq(Message(ControlKinds)) /\ sess.control # <<>>
      /\ sess' = [sess EXCEPT !.control = Tail(sess.control)] /\ UNCHANGED <<mailbox, wire>>
      /\ writer.pc = "idle" /\ sess \in Session
      /\ m.kind \in {"start", "text", "finish"} /\ m.turn \in Nat
  BY ControlMove DEF TypeOK
<1>2. Once(sess.control) /\ \A t \in Started : ~Holds(sess.control, "start", t)
  BY DEF OwnInv, StartsAreNew
<1>3. /\ \A kind, t : Holds(Tail(sess.control), kind, t) => Holds(sess.control, kind, t)
      /\ Holds(sess.control, m.kind, m.turn) /\ Once(Tail(sess.control))
      /\ m.kind = "start" => ~Holds(Tail(sess.control), "start", m.turn)
  BY <1>1, <1>2, Popped
<1>5. Like(sess, sess') /\ sess'.urgent = sess.urgent /\ sess'.control = Tail(sess.control)
  BY <1>1, LikeAlso DEF Session
<1>6. writer.frame.kind = "none"
  BY <1>1 DEF OwnInv, FrameIsSent
<1>7. \/ writer' = writer
      \/ /\ m.kind = "finish" /\ writer'.frame = writer.frame /\ writer'.pc = "reporting"
         /\ writer'.deferred = writer.deferred /\ writer'.report.turn = m.turn
      \/ /\ m.kind = "finish" /\ writer'.frame = writer.frame /\ writer'.pc = "idle"
         /\ writer'.deferred = m.turn /\ writer'.report = writer.report
      \/ /\ writer'.frame = m /\ writer'.pc = "sending"
         /\ writer'.deferred = writer.deferred /\ writer'.report = writer.report
  BY ControlMove DEF Becomes, Outcome
<1> HIDE DEF m
<1>9. FrameIsSent'
  <2>1. wire.starts \subseteq Started
    BY DEF Started
  <2>2. m.kind = "start" => m.turn \notin wire.starts
    BY <1>2, <1>3, <2>1
  <2> QED BY <1>1, <1>6, <1>7, <2>2 DEF FrameIsSent
<1>10. \A t \in Due' : t \in Due \/ Holds(sess.urgent, "abort", t) \/ Holds(sess.control, "finish", t)
  BY <1>1, <1>3, <1>6, <1>7 DEF Due
<1>11. \A t \in Started' : t \in Started \/ (m.kind = "start" /\ t = m.turn)
  BY <1>1, <1>6, <1>7 DEF Started
<1>12. \A t \in Started' : t \in Started \/ Holds(sess.control, "start", t)
  BY <1>3, <1>11
<1>13. \A t \in Started' : ~Holds(sess'.control, "start", t)
  BY <1>2, <1>3, <1>5, <1>11
<1> QED BY <1>3, <1>5, <1>9, <1>10, <1>12, <1>13, WriterOwned

(* An audio frame carries neither an outcome nor a start. *)
LEMMA AudioTaken ==
  ASSUME TypeOK, OwnInv, TakeAudio
  PROVE  OwnInv'
<1> DEFINE m == Head(sess.audio)
<1>1. /\ sess' = [sess EXCEPT !.audio = Tail(sess.audio)] /\ UNCHANGED <<mailbox, wire>>
      /\ writer.pc = "idle" /\ sess \in Session /\ m.kind = "binary"
  BY AudioMove DEF TypeOK
<1>3. Like(sess, sess') /\ sess'.urgent = sess.urgent /\ sess'.control = sess.control
  BY <1>1, LikeAlso DEF Session
<1>4. writer.frame.kind = "none"
  BY <1>1 DEF OwnInv, FrameIsSent
<1>5. \/ writer' = writer
      \/ /\ writer'.frame = m /\ writer'.pc = "sending"
         /\ writer'.deferred = writer.deferred /\ writer'.report = writer.report
  BY AudioMove DEF Becomes
<1> HIDE DEF m
<1>7. FrameIsSent'
  BY <1>1, <1>4, <1>5 DEF FrameIsSent
<1>8. \A t \in Due' : t \in Due
  BY <1>1, <1>5 DEF Due
<1>9. \A t \in Started' : t \in Started
  BY <1>1, <1>5 DEF Started
<1>10. Once(sess.control) /\ \A t \in Started : ~Holds(sess.control, "start", t)
  BY DEF OwnInv, StartsAreNew
<1> QED BY <1>3, <1>7, <1>8, <1>9, <1>10, WriterOwned

(* A frame that was sent becomes an outcome, or a start that was heard. *)
LEMMA SentOwned ==
  ASSUME TypeOK, OwnInv, Sent
  PROVE  OwnInv'
<1> DEFINE m == writer.frame
<1>1. writer.pc = "sending" /\ UNCHANGED mailbox /\ sess \in Session /\ m.turn \in Nat
  BY SentMove DEF TypeOK
<1>2. /\ Like(sess, sess') /\ sess'.urgent = sess.urgent /\ sess'.control = sess.control
  <2>1. CASE sess' = sess
    BY <2>1, LikeAlso DEF TypeOK
  <2>2. CASE sess' = [sess EXCEPT !.lanesOpen = FALSE]
    BY <1>1, <2>2, LikeAlso DEF Session
  <2> QED BY <2>1, <2>2, SentMove
<1>3. /\ writer'.frame.kind = "none" /\ writer'.pc # "sending"
      /\ writer'.deferred = writer.deferred
      /\ \/ writer'.report = writer.report
         \/ m.kind \in {"finish", "abort"} /\ writer'.report.turn = m.turn
      /\ \/ wire'.starts = wire.starts
         \/ m.kind = "start" /\ wire'.starts = wire.starts \union {m.turn}
  BY SentMove DEF Becomes, Outcome, NoMsg, Msg
<1>4. FrameIsSent'
  BY <1>3 DEF FrameIsSent
<1>5. \A t \in Due' : t \in Due
  BY <1>1, <1>3 DEF Due
<1>6. \A t \in Started' : t \in Started
  BY <1>1, <1>3 DEF Started
<1>7. Once(sess.control) /\ \A t \in Started : ~Holds(sess.control, "start", t)
  BY DEF OwnInv, StartsAreNew
<1> QED BY <1>2, <1>4, <1>5, <1>6, <1>7, WriterOwned

(* The writer gives up a frame, reports or stops: an outcome only moves. *)
LEMMA ReportedOwned ==
  ASSUME TypeOK, OwnInv, SendFailed \/ ReportClosed \/ ReportFailed \/ WriterStops
  PROVE  OwnInv'
<1>1. sess \in Session /\ mailbox \in Seq(Verdict) /\ UNCHANGED wire
  BY EndMoves DEF TypeOK, Mailbox
<1>2. /\ Like(sess, sess') /\ sess'.urgent = sess.urgent /\ sess'.control = sess.control
  <2>1. sess' = sess \/ sess' = [sess EXCEPT !.lanesOpen = FALSE]
    BY DEF SendFailed, ReportClosed, ReportFailed, WriterStops, WriterStep
  <2>2. CASE sess' = sess
    BY <2>2, LikeAlso
  <2>3. CASE sess' = [sess EXCEPT !.lanesOpen = FALSE]
    BY <1>1, <2>3, LikeAlso DEF Session
  <2> QED BY <2>1, <2>2, <2>3
<1>3. Once(sess.control) /\ \A t \in Started : ~Holds(sess.control, "start", t)
  BY DEF OwnInv, StartsAreNew
<1>4. writer.frame.kind # "none" <=> writer.pc = "sending"
  BY DEF OwnInv, FrameIsSent
<1>5. /\ writer'.frame.kind = "none" /\ writer'.pc # "sending"
      /\ writer'.deferred = writer.deferred
      /\ \/ mailbox' = mailbox /\ writer'.report = writer.report
         \/ /\ mailbox' \in {mailbox, Append(mailbox, writer.report)}
            /\ writer'.report.turn = NoTurn
         \/ /\ \E o : o.kind = "failed" /\ mailbox' \in {mailbox, Append(mailbox, o)}
            /\ writer'.report = writer.report
  BY <1>4, EndMoves DEF Deliver, Becomes, Outcome, NoMsg, Msg
<1>6. FrameIsSent'
  BY <1>5 DEF FrameIsSent
<1>7. \A o : \A i \in DOMAIN Append(mailbox, o) :
         (i \in DOMAIN mailbox /\ Append(mailbox, o)[i] = mailbox[i]) \/ Append(mailbox, o)[i] = o
  BY <1>1
<1>8. \A t \in Due' : t \in Due
  <2> SUFFICES ASSUME NEW t \in Nat \ {0},
                      \/ writer'.deferred = t
                      \/ writer'.frame.kind \in {"finish", "abort"} /\ writer'.frame.turn = t
                      \/ writer'.report.turn = t
                      \/ \E i \in DOMAIN mailbox' : mailbox'[i].turn = t /\ mailbox'[i].kind # "failed"
               PROVE  t \in Due
    BY DEF Due
  <2>1. CASE writer'.deferred = t \/ writer'.report.turn = t
    BY <1>5, <2>1 DEF Due, NoTurn
  <2>2. ASSUME NEW i \in DOMAIN mailbox', mailbox'[i].turn = t, mailbox'[i].kind # "failed"
        PROVE  t \in Due
    <3>1. \/ i \in DOMAIN mailbox /\ mailbox'[i] = mailbox[i]
          \/ mailbox'[i] = writer.report
          \/ mailbox'[i].kind = "failed"
      BY <1>5, <1>7
    <3> QED BY <2>2, <3>1 DEF Due
  <2> QED BY <1>5, <2>1, <2>2
<1>9. \A t \in Started' : t \in Started
  BY <1>1, <1>5 DEF Started
<1> QED BY <1>2, <1>3, <1>6, <1>8, <1>9, WriterOwned

(* Every way the session ends leaves a good session. *)
LEMMA TeardownGood ==
  ASSUME TypeOK, OwnInv, Teardown
  PROVE  Good(sess')
<1> DEFINE W == Due
           V == Started
           close == CloseMsg(tasks.code)
           told  == OfferUrgent(sess, close)
           free  == AdvanceGeneration(InterruptActiveTurn(sess))
           shut  == CloseVad(free)
           calm  == [shut EXCEPT !.autoResetPending = FALSE]
           over  == [calm EXCEPT !.phase = "Closed"]
<1>1. sess \in Session /\ Owned(sess, W, V) /\ Good(sess)
  BY DEF TypeOK, OwnInv, Good
<1>2. close \in Message(UrgentKinds) /\ close.kind = "close"
  BY MessageTypes DEF TypeOK, TaskState, CloseMsg
<1>3. \/ sess' = sess \/ sess' = told
      \/ sess' = over
      \/ sess' = Dropped(told) \/ sess' = Dropped(sess)
  BY TeardownMoves DEF TypeOK
<1> HIDE DEF W, V, close
<1>4. Keeps(sess, told) /\ told \in Session /\ told.phase = sess.phase
  <2>1. told.phase = sess.phase
    BY <1>1 DEF OfferUrgent, Session
  <2> QED BY <1>1, <1>2, <2>1, OfferedUrgent, OfferUrgentType
<1> HIDE DEF told
<1>5. Good(told)
  BY <1>1, <1>4, KeptGood
<1>6. free \in Session /\ Rest(free, W, V) /\ Lanes(sess, free)
  BY <1>1, InterruptRests DEF Owned
<1> HIDE DEF free
<1>7. Keeps(free, shut) /\ shut \in Session
  BY <1>6, EasingSteps, TurnTypes
<1> HIDE DEF shut
<1>8. Keeps(shut, calm) /\ calm \in Session
  BY <1>7, Untouched, Updates
<1> HIDE DEF calm
<1>9. Keeps(calm, over) /\ over \in Session
  BY <1>8, Untouched, Updates
<1> HIDE DEF over
<1>10. Keeps(free, over)
  BY <1>6, <1>7, <1>8, <1>9, KeepsOn
<1>11. Good(over)
  <2>1. Rest(over, W, V) /\ Lanes(sess, over)
    BY <1>6, <1>10, KeptRests, LanesOn DEF Keeps
  <2> QED BY <1>9, <2>1, RestGood DEF W, V
<1>12. Good(Dropped(told)) /\ Good(Dropped(sess))
  <2>1. ASSUME NEW s \in Session, Good(s) PROVE Good(Dropped(s))
    <3>1. Base(s, W, V)
      BY <2>1 DEF Good, Owned, W, V
    <3>2. Rest(Dropped(s), W, V) /\ Lanes(s, Dropped(s))
      BY <3>1, Drops
    <3> QED BY <2>1, <3>2, DroppedType, GoodOn DEF W, V
  <2> QED BY <1>1, <1>4, <1>5, <2>1
<1> QED BY <1>1, <1>3, <1>5, <1>11, <1>12

(* Every step that is not of the writer leaves a good session. *)
LEMMA ActorGood ==
  ASSUME TypeOK, OwnInv, Next => Considerate, [Next]_vars, ~Writer
  PROVE  Good(sess')
<1>1. Good(sess)
  BY DEF OwnInv, Good
<1>2. ASSUME NEW c \in Replies,
             \/ Client(c) \/ AsrAnswers(c) \/ AsrFailed(c) \/ Utterance(c)
             \/ SpeechEnd(c) \/ LlmAnswers(c) \/ ToolEvent(c)
             \/ SpeechProgress(c) \/ SpeechFailed(c) \/ OnWriterEvent(c)
      PROVE  Good(sess')
  <2>1. CASE Client(c)
    <3>1. Considerate
      BY <1>2 DEF Next
    <3>2. ASSUME NEW mode \in Modes, StartListening(mode, c) PROVE Good(sess')
      <4>1. mode = "manual" => ~Busy \/ sess.listeningMode = "manual"
        BY <3>1, <3>2 DEF Considerate, SwitchesToManual
      <4> QED BY <3>2, <4>1, StartListeningGood
    <3>3. CASE Detect(c)
      <4>1. sess.turn = NoTurn
        BY <3>1, <3>3 DEF Considerate, TypesOverTurn
      <4> QED BY <3>3, <4>1, DetectGood
    <3> QED BY <2>1, <3>2, <3>3, StopManualGood, StopContinuousGood, AbortGood,
               AdmitDirectSpeechGood DEF Client
  <2>2. CASE AsrAnswers(c) \/ AsrFailed(c)
    BY <2>2, RecognitionGood
  <2>3. CASE Utterance(c) \/ SpeechEnd(c)
    BY <2>3, SpeechStartGood, RefusedGood, SpeechEndGood DEF Utterance
  <2>4. CASE LlmAnswers(c) \/ ToolEvent(c)
    BY <2>4, ModelRoundGood, ToolBatchGood
  <2>5. CASE SpeechProgress(c) \/ SpeechFailed(c) \/ OnWriterEvent(c)
    BY <2>5, FlushGood, SegmentGood, SpeechStartedGood, AudioGood, DrainedGood,
       SpeechFailedGood, OutcomeGood DEF SpeechProgress
  <2> QED BY <1>2, <2>1, <2>2, <2>3, <2>4, <2>5
<1>3. CASE CleanupEvent \/ VadAnswers \/ VadFailed \/ ArmClose
  <2>1. [r \in Runtimes |-> TRUE] \in Replies
    BY DEF Replies
  <2> QED BY <1>3, <2>1, RecognitionGood, VadGood, RefusedGood, ArmCloseGood
<1>4. CASE Teardown
  BY <1>4, TeardownGood
<1>5. CASE UNCHANGED vars
  BY <1>1, <1>5 DEF vars, Good, Due, Started, StartsAreNew
<1> QED BY <1>2, <1>3, <1>4, <1>5 DEF Next, Teardown, Terminated

(* Every step preserves the invariant. *)
LEMMA OwnStep ==
  ASSUME TypeOK, OwnInv, Next => Considerate, [Next]_vars
  PROVE  OwnInv'
<1>1. CASE Writer
  BY <1>1, UrgentTaken, DeferredTaken, ControlTaken, AudioTaken, SentOwned, ReportedOwned
     DEF Writer, TakeLane, EndSend
<1>2. CASE ~Writer
  <2>1. Good(sess')
    BY <1>2, ActorGood
  <2>2. UNCHANGED <<writer, wire>> /\ (mailbox' = mailbox \/ \E c \in Replies : OnWriterEvent(c))
    BY <1>2, QuietSteps
  <2>3. mailbox' = mailbox \/ (mailbox \in Seq(Verdict) /\ mailbox # <<>> /\ mailbox' = Tail(mailbox))
    BY <2>2 DEF OnWriterEvent, TypeOK, Mailbox
  <2>4. \A i \in DOMAIN mailbox' : \E j \in DOMAIN mailbox : mailbox'[i] = mailbox[j]
    <3>1. CASE mailbox' = mailbox
      BY <3>1
    <3>2. CASE mailbox \in Seq(Verdict) /\ mailbox # <<>> /\ mailbox' = Tail(mailbox)
      <4>1. \A i \in DOMAIN mailbox' : i + 1 \in DOMAIN mailbox /\ mailbox'[i] = mailbox[i + 1]
        BY <3>2
      <4> QED BY <4>1
    <3> QED BY <2>3, <3>1, <3>2
  <2>5. Due' \subseteq Due
    BY <2>2, <2>4 DEF Due
  <2>6. Started' = Started
    BY <2>2 DEF Started
  <2>7. Owned(sess', Due', Started')
    <3> DEFINE W == Due
               V == Started
               X == Due'
               Y == Started'
    <3>1. Owned(sess', W, V) /\ X \subseteq W /\ Y \subseteq V
      BY <2>1, <2>5, <2>6 DEF Good
    <3> HIDE DEF W, V, X, Y
    <3>2. Owned(sess', X, Y)
      BY <3>1, OwnedLess
    <3> QED BY <3>2 DEF X, Y
  <2>8. StartsAreNew(sess)'
    BY <2>1, <2>6 DEF Good, StartsAreNew
  <2>9. FrameIsSent'
    BY <2>2 DEF OwnInv, FrameIsSent
  <2> QED BY <2>7, <2>8, <2>9 DEF OwnInv
<1> QED BY <1>1, <1>2

(* The invariant holds initially. *)
LEMMA OwnInit == Init => OwnInv
<1> SUFFICES ASSUME Init PROVE OwnInv
  OBVIOUS
<1>1. /\ sess.phase = "Ready" /\ sess.generation = 0 /\ sess.nextTurnId = 1
      /\ sess.turn = 0 /\ sess.turnGen = 0 /\ sess.llmGen = 0 /\ sess.batchGen = 0
      /\ sess.speech = "idle" /\ ~sess.announced /\ ~sess.playing
      /\ sess.listeningMode = "none" /\ ~sess.listenArmPending
      /\ ~sess.autoSpeechActive /\ sess.vad = "none" /\ sess.asr = "none"
      /\ sess.urgent = <<>> /\ sess.control = <<>>
  BY DEF Init, NoTurn
<1>2. /\ mailbox = <<>> /\ wire.starts = {} /\ writer.pc = "idle" /\ writer.deferred = 0
      /\ writer.frame.kind = "none" /\ writer.report.turn = 0
  BY DEF Init, NoTurn, NoMsg, Msg, Outcome
<1>3. Due = {} /\ Started = {}
  BY <1>2 DEF Due, Started
<1>4. \A kind, t : ~Holds(sess.urgent, kind, t) /\ ~Holds(sess.control, kind, t)
  BY <1>1 DEF Holds
<1>5. Owned(sess, Due, Started)
  BY <1>1, <1>3, <1>4 DEF Owned, Base, Fits, Idle, Spent, Batched, Ends, Starts, NoTurn
<1>6. StartsAreNew(sess)
  BY <1>1, <1>3 DEF StartsAreNew, Once
<1> QED BY <1>2, <1>5, <1>6 DEF OwnInv, FrameIsSent

-----------------------------------------------------------------------------
(* The theorems. *)

(* The history of the client changes nothing of the session. *)
LEMMA Follows == PatientSpec => Spec
<1>1. PatientInit => Init
  BY DEF PatientInit
<1>2. [PatientNext]_allVars => [Next]_vars
  BY DEF PatientNext, allVars
<1> QED BY <1>1, <1>2, PTL DEF PatientSpec, Spec

(* A client that is patient after a step was so before, and the step was *)
(* considerate. *)
LEMMA PatientStep ==
  ASSUME [PatientNext]_allVars, patient'
  PROVE  /\ patient /\ [Next]_vars
         /\ UNCHANGED vars \/ (Next /\ Considerate)
BY DEF PatientNext, allVars

(* The invariant holds for as long as the client is patient. *)
LEMMA Owns == PatientSpec => [](patient => OwnInv)
<1>1. PatientInit => (patient => OwnInv)
  BY OwnInit DEF PatientInit
<1>2. TypeOK /\ (patient => OwnInv) /\ [PatientNext]_allVars => (patient => OwnInv)'
  <2> SUFFICES ASSUME TypeOK, patient => OwnInv, [PatientNext]_allVars, patient'
               PROVE  OwnInv'
    OBVIOUS
  <2>1. OwnInv /\ (UNCHANGED vars \/ (Next /\ Considerate))
    BY PatientStep
  <2>2. CASE UNCHANGED vars
    BY <2>1, <2>2 DEF vars, OwnInv, Due, Started, StartsAreNew, FrameIsSent
  <2>3. CASE Next /\ Considerate
    BY <2>1, <2>3, OwnStep
  <2> QED BY <2>1, <2>2, <2>3
<1> QED BY <1>1, <1>2, Follows, TypeCorrect, PTL DEF PatientSpec

(* A model round in flight belongs to the turn and the generation the actor *)
(* owns, so its events are never dropped as stale while nothing else would *)
(* end it (delivery.rs, handle_llm_event's identity check): in every *)
(* behaviour, for as long as the client has neither typed over its turn nor *)
(* asked a session busy in another mode for manual listening.  From then on *)
(* the code may give a round up without ending it. *)
THEOREM RoundOwned == PatientSpec => [](patient => LlmOwned)
<1>1. OwnInv => LlmOwned
  BY DEF OwnInv, Owned, LlmOwned
<1> QED BY <1>1, Owns, PTL

(* A recognition the actor holds is of the current generation: none is left *)
(* behind that keeps start_listening and direct speech refused for ever *)
(* (listening.rs, handle_asr_event), for as long as the client is patient. *)
THEOREM RecognitionOwned == PatientSpec => [](patient => AsrOwned)
<1>1. OwnInv => AsrOwned
  BY DEF OwnInv, Owned, AsrOwned
<1> QED BY <1>1, Owns, PTL

(* The socket never carries a second tts:start of one turn, although the *)
(* writer forgets a turn as soon as its stop is sent: the actor never *)
(* queues one (delivery.rs, drain_speech_output; writer.rs, admits_begin), *)
(* for as long as the client is patient. *)
THEOREM StartedAtMostOnce == PatientSpec => [](patient => StartedOnce)
<1>1. OwnInv => StartedOnce
  BY DEF OwnInv, FrameIsSent, StartedOnce, SendingKind
<1> QED BY <1>1, Owns, PTL

-----------------------------------------------------------------------------
(***************************************************************************)
(* Cancellation: no start and no audio is handed to the socket for a turn  *)
(* the actor no longer owns, and the close of End Conversation finds the   *)
(* device silent.                                                          *)
(*                                                                         *)
(* A session either has nothing under way that the writer would let be     *)
(* heard (Hushed), or it is within a delivery (Spoken), and then whatever  *)
(* could be heard is of its own turn.  W is again the set of turns whose   *)
(* outcome is under way beyond the lanes, A the set of turns on air: the   *)
(* writer's active turn and the one whose start is in flight.              *)
(***************************************************************************)

(* What waits, in a lane or for room in one, to be heard: starts and audio. *)
Queued(s) ==
  {m \in {s.control[i] : i \in DOMAIN s.control} : m.kind = "start"} \union
  {m \in {s.audio[i] : i \in DOMAIN s.audio} \union {s.pendingAudio} : m.kind = "binary"}

(* It names a turn, and a cancellation now would refuse it: no frame is of *)
(* a generation to come. *)
Meant(s) == \A m \in Queued(s) : m.gen <= s.generation /\ m.turn # NoTurn

(* No delivery goes on: the gate refuses every start, and audio unless its *)
(* turn is off air. *)
Hushed(s, A) ==
  /\ ~s.ttsStarted /\ ~s.playing
  /\ \A m \in Queued(s) : m.gen > s.gate => m.kind = "binary" /\ m.turn \notin A

(* A delivery goes on: its output plays, or its stop is under way and *)
(* awaited; what the gate lets through is the turn's own; and no start of *)
(* it is left behind an outcome. *)
Spoken(s, W, A) ==
  /\ s.ttsStarted /\ s.turn # NoTurn /\ s.phase \notin {"Listening", "Closed"}
  /\ s.asr = "none" /\ ~s.autoSpeechActive
  /\ s.playing \/ (Ends(s, W, s.turn) /\ s.pendingDelivery = s.turn)
  /\ \A m \in Queued(s) : m.gen > s.gate =>
       /\ m.kind = "start" \/ m.turn \in A => m.turn = s.turn
       /\ m.kind = "start" => s.turn \notin W /\ ~Holds(s.urgent, "abort", s.turn)
  /\ \A i, j \in DOMAIN s.control :
       i < j /\ s.control[i].kind = "finish" /\ s.control[j].kind = "start"
         /\ s.control[i].turn = s.control[j].turn => s.control[j].gen <= s.gate

Voiced(s, W, A) == Meant(s) /\ (Hushed(s, A) \/ Spoken(s, W, A))

(* The close of End Conversation, and whether it is queued. *)
Parting(m) == m.kind = "close" /\ m.code = 1000
Parts(s)   == \E i \in DOMAIN s.urgent : Parting(s.urgent[i])

(* From s to r nothing is queued to be heard and no delivery begins. *)
Fades(s, r) ==
  /\ r.gate >= s.gate /\ r.generation >= s.generation
  /\ Queued(r) \subseteq Queued(s)
  /\ (r.ttsStarted => s.ttsStarted) /\ (r.playing => s.playing)

(* From s to r a turn is only released or begun, and no session parts. *)
Steady(s, r) ==
  /\ r.nextTurnId >= s.nextTurnId
  /\ r.turn \in {s.turn, NoTurn} \/ r.turn >= s.nextTurnId
  /\ Parts(r) => Parts(s)

Quiet(s, r) == r \in Session /\ Fades(s, r) /\ Steady(s, r)

(* From s to r no part of the delivery changes. *)
Alike(s, r) ==
  /\ r.gate = s.gate /\ r.generation = s.generation /\ r.urgent = s.urgent
  /\ r.control = s.control /\ r.audio = s.audio /\ r.pendingAudio = s.pendingAudio
  /\ r.ttsStarted = s.ttsStarted /\ r.playing = s.playing
  /\ r.turn = s.turn /\ r.nextTurnId = s.nextTurnId

(* A delivery that can be cut: cancelling it reaches the writer's gate. *)
Calm(s, A) ==
  /\ Meant(s)
  /\ Hushed(s, A) \/ (s.ttsStarted /\ s.turn # NoTurn /\ s.phase # "Closed")

(* What waits to be heard is a command of its lane. *)
LEMMA QueuedTypes ==
  ASSUME NEW s \in Session, NEW m \in Queued(s)
  PROVE  m.gen \in Nat /\ m.turn \in Nat /\ m.kind \in {"start", "binary"}
<1>1. /\ s.control \in Seq(Message(ControlKinds)) /\ s.audio \in Seq(Message(AudioKinds))
      /\ s.pendingAudio \in {NoMsg} \union Message(AudioKinds)
  BY Fields DEF Lane
<1>2. m \in Message(ControlKinds) \/ m \in Message(AudioKinds) \/ m = NoMsg
  BY <1>1 DEF Queued
<1>3. m.kind \in {"start", "binary"}
  BY DEF Queued
<1>4. CASE m \in Message(ControlKinds) \/ m \in Message(AudioKinds)
  BY <1>3, <1>4 DEF Message, Turns
<1>5. CASE m = NoMsg
  BY <1>3, <1>5 DEF NoMsg, Msg
<1> QED BY <1>2, <1>4, <1>5

(* Fading twice fades. *)
LEMMA QuietOn ==
  ASSUME NEW s \in Session, NEW r, NEW q, Quiet(s, r), Quiet(r, q)
  PROVE  Quiet(s, q)
<1>1. /\ s.gate \in Nat /\ r.gate \in Nat /\ q.gate \in Nat
      /\ s.generation \in Nat /\ r.generation \in Nat /\ q.generation \in Nat
      /\ s.nextTurnId \in Nat /\ r.nextTurnId \in Nat /\ q.nextTurnId \in Nat
      /\ s.turn \in Nat /\ r.turn \in Nat /\ q.turn \in Nat
  BY DEF Quiet, Session, Turns
<1>2. Fades(s, q)
  BY <1>1 DEF Quiet, Fades
<1>3. q.nextTurnId >= s.nextTurnId /\ (Parts(q) => Parts(s))
  BY <1>1 DEF Quiet, Steady
<1>4. q.turn \in {s.turn, NoTurn} \/ q.turn >= s.nextTurnId
  BY <1>1 DEF Quiet, Steady
<1> QED BY <1>2, <1>3, <1>4 DEF Quiet, Steady

(* What is silent stays silent. *)
LEMMA HushedOn ==
  ASSUME NEW s \in Session, NEW r, NEW A, Quiet(s, r), Meant(s)
  PROVE  Meant(r) /\ (Hushed(s, A) => Hushed(r, A))
<1>1. /\ s.gate \in Nat /\ r.gate \in Nat /\ s.generation \in Nat /\ r.generation \in Nat
      /\ r.gate >= s.gate /\ r.generation >= s.generation /\ Queued(r) \subseteq Queued(s)
  BY DEF Quiet, Fades, Session
<1>2. \A m \in Queued(s) : m.gen \in Nat
  BY QueuedTypes
<1>3. Meant(r)
  BY <1>1, <1>2 DEF Meant
<1>4. Hushed(s, A) => Hushed(r, A)
  <2>1. (r.ttsStarted => s.ttsStarted) /\ (r.playing => s.playing)
    BY DEF Quiet, Fades
  <2> QED BY <1>1, <1>2, <2>1 DEF Hushed
<1> QED BY <1>3, <1>4

(* A change beside the delivery. *)
LEMMA AlikeQuiet ==
  ASSUME NEW s \in Session, NEW r \in Session, Alike(s, r)
  PROVE  Quiet(s, r) /\ Queued(r) = Queued(s) /\ Parts(r) = Parts(s)
<1>1. s.gate \in Nat /\ s.generation \in Nat /\ s.nextTurnId \in Nat
  BY DEF Session
<1>2. Queued(r) = Queued(s) /\ Parts(r) = Parts(s)
  BY DEF Alike, Queued, Parts
<1> QED BY <1>1, <1>2 DEF Alike, Quiet, Fades, Steady

(* The fields that are no part of the delivery. *)
LEMMA Beside ==
  ASSUME NEW s \in Session
  PROVE
    /\ Alike(s, s)
    /\ \A v : Alike(s, [s EXCEPT !.phase = v])
    /\ \A v : Alike(s, [s EXCEPT !.turnGen = v])
    /\ \A v : Alike(s, [s EXCEPT !.llmGen = v])
    /\ \A v : Alike(s, [s EXCEPT !.batchGen = v])
    /\ \A v : Alike(s, [s EXCEPT !.rounds = v])
    /\ \A v : Alike(s, [s EXCEPT !.origin = v])
    /\ \A v : Alike(s, [s EXCEPT !.speech = v])
    /\ \A v : Alike(s, [s EXCEPT !.announced = v])
    /\ \A v : Alike(s, [s EXCEPT !.packets = v])
    /\ \A v : Alike(s, [s EXCEPT !.closeAfter = v])
    /\ \A v : Alike(s, [s EXCEPT !.pendingDelivery = v])
    /\ \A v : Alike(s, [s EXCEPT !.listeningMode = v])
    /\ \A v : Alike(s, [s EXCEPT !.listenArmPending = v])
    /\ \A v : Alike(s, [s EXCEPT !.autoSpeechActive = v])
    /\ \A v : Alike(s, [s EXCEPT !.autoResetPending = v])
    /\ \A v : Alike(s, [s EXCEPT !.capturing = v])
    /\ \A v : Alike(s, [s EXCEPT !.segment = v])
    /\ \A v : Alike(s, [s EXCEPT !.vad = v])
    /\ \A v : Alike(s, [s EXCEPT !.cycle = v])
    /\ \A v : Alike(s, [s EXCEPT !.vadReset = v])
    /\ \A v : Alike(s, [s EXCEPT !.asr = v])
    /\ \A v : Alike(s, [s EXCEPT !.asrGen = v])
    /\ \A v : Alike(s, [s EXCEPT !.asrCleanup = v])
    /\ \A v : Alike(s, [s EXCEPT !.shutdown = v])
    /\ \A v : Alike(s, [s EXCEPT !.lanesOpen = v])
<1>0. Alike(s, s)
  BY DEF Alike
<1>1. \A v : Alike(s, [s EXCEPT !.phase = v])
  BY DEF Alike, Session
<1>2. \A v : Alike(s, [s EXCEPT !.turnGen = v])
  BY DEF Alike, Session
<1>3. \A v : Alike(s, [s EXCEPT !.llmGen = v])
  BY DEF Alike, Session
<1>4. \A v : Alike(s, [s EXCEPT !.batchGen = v])
  BY DEF Alike, Session
<1>5. \A v : Alike(s, [s EXCEPT !.rounds = v])
  BY DEF Alike, Session
<1>6. \A v : Alike(s, [s EXCEPT !.origin = v])
  BY DEF Alike, Session
<1>7. \A v : Alike(s, [s EXCEPT !.speech = v])
  BY DEF Alike, Session
<1>8. \A v : Alike(s, [s EXCEPT !.announced = v])
  BY DEF Alike, Session
<1>9. \A v : Alike(s, [s EXCEPT !.packets = v])
  BY DEF Alike, Session
<1>10. \A v : Alike(s, [s EXCEPT !.closeAfter = v])
  BY DEF Alike, Session
<1>11. \A v : Alike(s, [s EXCEPT !.pendingDelivery = v])
  BY DEF Alike, Session
<1>12. \A v : Alike(s, [s EXCEPT !.listeningMode = v])
  BY DEF Alike, Session
<1>13. \A v : Alike(s, [s EXCEPT !.listenArmPending = v])
  BY DEF Alike, Session
<1>14. \A v : Alike(s, [s EXCEPT !.autoSpeechActive = v])
  BY DEF Alike, Session
<1>15. \A v : Alike(s, [s EXCEPT !.autoResetPending = v])
  BY DEF Alike, Session
<1>16. \A v : Alike(s, [s EXCEPT !.capturing = v])
  BY DEF Alike, Session
<1>17. \A v : Alike(s, [s EXCEPT !.segment = v])
  BY DEF Alike, Session
<1>18. \A v : Alike(s, [s EXCEPT !.vad = v])
  BY DEF Alike, Session
<1>19. \A v : Alike(s, [s EXCEPT !.cycle = v])
  BY DEF Alike, Session
<1>20. \A v : Alike(s, [s EXCEPT !.vadReset = v])
  BY DEF Alike, Session
<1>21. \A v : Alike(s, [s EXCEPT !.asr = v])
  BY DEF Alike, Session
<1>22. \A v : Alike(s, [s EXCEPT !.asrGen = v])
  BY DEF Alike, Session
<1>23. \A v : Alike(s, [s EXCEPT !.asrCleanup = v])
  BY DEF Alike, Session
<1>24. \A v : Alike(s, [s EXCEPT !.shutdown = v])
  BY DEF Alike, Session
<1>25. \A v : Alike(s, [s EXCEPT !.lanesOpen = v])
  BY DEF Alike, Session
<1> QED BY <1>0, <1>1, <1>2, <1>3, <1>4, <1>5, <1>6, <1>7, <1>8, <1>9, <1>10, <1>11, <1>12, <1>13, <1>14, <1>15, <1>16, <1>17, <1>18, <1>19, <1>20, <1>21, <1>22, <1>23, <1>24, <1>25

(* Whatever ends work, of a turn, a round, a recognition or speech, fades. *)
LEMMA FadingSteps ==
  ASSUME NEW s \in Session
  PROVE  /\ Quiet(s, s)
         /\ Quiet(s, Invalidate(s)) /\ Quiet(s, AdvanceGeneration(s))
         /\ Quiet(s, BeginActiveTurn(s))
         /\ Quiet(s, ReleaseActiveTurn(s)) /\ Quiet(s, CancelPendingActions(s))
         /\ Quiet(s, CancelLlm(s)) /\ Quiet(s, CancelTools(s))
         /\ Quiet(s, ForgetAsr(s)) /\ Quiet(s, CancelAsr(s))
         /\ Quiet(s, CloseVad(s)) /\ Quiet(s, SilenceSpeech(s))
<1>1. /\ s.generation \in Nat /\ s.gate \in Nat /\ s.nextTurnId \in Nat /\ s.turn \in Nat
  BY Fields
<1>2. Quiet(s, s)
  BY Beside, AlikeQuiet
<1>3. Quiet(s, Invalidate(s))
  <2> DEFINE r == Invalidate(s)
  <2>1. r \in Session
    BY TurnTypes
  <2>2. /\ r.gate >= s.gate /\ r.generation = s.generation /\ r.urgent = s.urgent
        /\ r.control = s.control /\ r.audio = s.audio /\ r.pendingAudio = s.pendingAudio
        /\ r.ttsStarted = s.ttsStarted /\ r.playing = s.playing
        /\ r.turn = s.turn /\ r.nextTurnId = s.nextTurnId
    BY <1>1 DEF Invalidate, Session
  <2> HIDE DEF r
  <2>3. Queued(r) = Queued(s) /\ Parts(r) = Parts(s)
    BY <2>2 DEF Queued, Parts
  <2> QED BY <1>1, <2>1, <2>2, <2>3 DEF Quiet, Fades, Steady, r
<1>4. Quiet(s, AdvanceGeneration(s))
  <2> DEFINE r == AdvanceGeneration(s)
  <2>1. r \in Session
    BY TurnTypes
  <2>2. /\ r.gate = s.gate /\ r.generation = s.generation + 1 /\ r.urgent = s.urgent
        /\ r.control = s.control /\ r.audio = s.audio /\ r.pendingAudio = s.pendingAudio
        /\ r.ttsStarted = s.ttsStarted /\ r.playing = s.playing
        /\ r.turn = s.turn /\ r.nextTurnId = s.nextTurnId
    BY <1>1 DEF AdvanceGeneration, Session
  <2> HIDE DEF r
  <2>3. Queued(r) = Queued(s) /\ Parts(r) = Parts(s)
    BY <2>2 DEF Queued, Parts
  <2> QED BY <1>1, <2>1, <2>2, <2>3 DEF Quiet, Fades, Steady, r
<1>5. Quiet(s, BeginActiveTurn(s))
  <2> DEFINE r == BeginActiveTurn(s)
  <2>1. r \in Session
    BY TurnTypes
  <2>2. /\ r.gate = s.gate /\ r.generation = s.generation /\ r.urgent = s.urgent
        /\ r.control = s.control /\ r.audio = s.audio /\ r.pendingAudio = s.pendingAudio
        /\ r.ttsStarted = s.ttsStarted /\ r.playing = s.playing
        /\ r.turn = s.nextTurnId /\ r.nextTurnId = s.nextTurnId + 1
    BY <1>1 DEF BeginActiveTurn, Session
  <2> HIDE DEF r
  <2>3. Queued(r) = Queued(s) /\ Parts(r) = Parts(s)
    BY <2>2 DEF Queued, Parts
  <2> QED BY <1>1, <2>1, <2>2, <2>3 DEF Quiet, Fades, Steady, r
<1>6. Quiet(s, ReleaseActiveTurn(s))
  <2> DEFINE r == ReleaseActiveTurn(s)
  <2>1. r \in Session
    BY TurnTypes
  <2>2. /\ r.gate = s.gate /\ r.generation = s.generation /\ r.urgent = s.urgent
        /\ r.control = s.control /\ r.audio = s.audio /\ r.pendingAudio = s.pendingAudio
        /\ r.ttsStarted = s.ttsStarted /\ r.playing = s.playing
        /\ r.turn = NoTurn /\ r.nextTurnId = s.nextTurnId
    BY <1>1 DEF ReleaseActiveTurn, Session
  <2> HIDE DEF r
  <2>3. Queued(r) = Queued(s) /\ Parts(r) = Parts(s)
    BY <2>2 DEF Queued, Parts
  <2> QED BY <1>1, <2>1, <2>2, <2>3 DEF Quiet, Fades, Steady, r
<1>7. Quiet(s, CancelPendingActions(s))
  BY <1>2, Beside, AlikeQuiet, TurnTypes DEF CancelPendingActions
<1>8. Quiet(s, CancelLlm(s)) /\ Quiet(s, CancelTools(s)) /\ Quiet(s, CloseVad(s))
  BY Beside, AlikeQuiet, TurnTypes DEF CancelLlm, CancelTools, CloseVad
<1>9. Alike(s, ForgetAsr(s))
  BY DEF Alike, ForgetAsr, Session
<1>10. Alike(s, CancelAsr(s))
  <2> DEFINE gone == ForgetAsr(s)
             due  == gone.asrCleanup \/ s.asr # "none"
  <2>1. gone \in Session /\ Alike(s, gone)
    BY <1>9, TurnTypes
  <2>2. CancelAsr(s) = [gone EXCEPT !.asrCleanup = due]
    BY DEF CancelAsr
  <2> HIDE DEF gone, due
  <2>3. Alike(gone, [gone EXCEPT !.asrCleanup = due])
    BY <2>1, Beside
  <2> QED BY <2>1, <2>2, <2>3 DEF Alike
<1>11. Quiet(s, SilenceSpeech(s))
  <2> DEFINE shut == Invalidate(s)
             r    == SilenceSpeech(s)
  <2>1. shut \in Session /\ Quiet(s, shut) /\ r \in Session
    BY <1>3, TurnTypes
  <2>2. r = [shut EXCEPT !.speech = "idle", !.announced = FALSE, !.playing = FALSE,
                         !.packets = 0, !.pendingAudio = NoMsg]
    BY DEF SilenceSpeech
  <2> HIDE DEF shut, r
  <2>3. /\ r.gate = shut.gate /\ r.generation = shut.generation /\ r.urgent = shut.urgent
        /\ r.control = shut.control /\ r.audio = shut.audio /\ r.pendingAudio = NoMsg
        /\ r.ttsStarted = shut.ttsStarted /\ ~r.playing
        /\ r.turn = shut.turn /\ r.nextTurnId = shut.nextTurnId
    BY <2>1, <2>2 DEF Session
  <2>4. Queued(r) \subseteq Queued(shut) /\ Parts(r) = Parts(shut)
    BY <2>3 DEF Queued, Parts, NoMsg, Msg
  <2>5. shut.gate \in Nat /\ shut.generation \in Nat /\ shut.nextTurnId \in Nat
    BY <2>1, Fields
  <2>6. Quiet(shut, r)
    BY <2>1, <2>3, <2>4, <2>5 DEF Quiet, Fades, Steady
  <2> QED BY <2>1, <2>6, QuietOn DEF r
<1> QED BY <1>2, <1>3, <1>4, <1>5, <1>6, <1>7, <1>8, <1>9, <1>10, <1>11, AlikeQuiet, TurnTypes

(* What a lane holds after try_send. *)
LEMMA AppendedAt ==
  ASSUME NEW S, NEW q \in Seq(S), NEW m \in S
  PROVE  /\ {Append(q, m)[i] : i \in DOMAIN Append(q, m)} = {q[i] : i \in DOMAIN q} \union {m}
         /\ DOMAIN Append(q, m) = 1..(Len(q) + 1) /\ DOMAIN q = 1..Len(q) /\ Len(q) \in Nat
         /\ \A i \in DOMAIN q : Append(q, m)[i] = q[i]
         /\ Append(q, m)[Len(q) + 1] = m
<1>1. /\ DOMAIN Append(q, m) = 1..(Len(q) + 1) /\ DOMAIN q = 1..Len(q) /\ Len(q) \in Nat
      /\ \A i \in DOMAIN q : Append(q, m)[i] = q[i]
      /\ Append(q, m)[Len(q) + 1] = m
  OBVIOUS
<1>2. \A i \in DOMAIN Append(q, m) : i \in DOMAIN q \/ i = Len(q) + 1
  BY <1>1
<1>3. DOMAIN q \subseteq DOMAIN Append(q, m) /\ Len(q) + 1 \in DOMAIN Append(q, m)
  BY <1>1
<1> QED BY <1>1, <1>2, <1>3

(* An urgent command other than the parting close, and a text or a stop, *)
(* let nothing be heard. *)
LEMMA OffersQuietly ==
  ASSUME NEW s \in Session
  PROVE  /\ \A m \in Message(UrgentKinds) : ~Parting(m) => Quiet(s, OfferUrgent(s, m))
         /\ \A m \in Message(ControlKinds) : m.kind # "start" => Quiet(s, OfferControl(s, m))
<1>1. /\ s.urgent \in Seq(Message(UrgentKinds)) /\ s.control \in Seq(Message(ControlKinds))
      /\ s.gate \in Nat /\ s.generation \in Nat /\ s.nextTurnId \in Nat
  BY Fields DEF Lane
<1>2. Quiet(s, s)
  BY FadingSteps
<1>3. ASSUME NEW m \in Message(UrgentKinds), ~Parting(m), UrgentRoom(s)
      PROVE  Quiet(s, OfferUrgent(s, m))
  <2> DEFINE r == OfferUrgent(s, m)
             q == Append(s.urgent, m)
  <2>1. r \in Session
    BY OfferUrgentType
  <2>2. r = [s EXCEPT !.urgent = q]
    BY <1>3 DEF OfferUrgent
  <2>3. \A i \in DOMAIN q : (i \in DOMAIN s.urgent /\ q[i] = s.urgent[i]) \/ q[i] = m
    BY <1>1
  <2> HIDE DEF q, r
  <2>4. /\ r.gate = s.gate /\ r.generation = s.generation /\ r.urgent = q
        /\ r.control = s.control /\ r.audio = s.audio /\ r.pendingAudio = s.pendingAudio
        /\ r.ttsStarted = s.ttsStarted /\ r.playing = s.playing
        /\ r.turn = s.turn /\ r.nextTurnId = s.nextTurnId
    BY <2>2 DEF Session
  <2>5. Queued(r) = Queued(s)
    BY <2>4 DEF Queued
  <2>6. Parts(r) => Parts(s)
    BY <1>3, <2>3, <2>4 DEF Parts
  <2> QED BY <1>1, <2>1, <2>4, <2>5, <2>6 DEF Quiet, Fades, Steady, r
<1>4. ASSUME NEW m \in Message(ControlKinds), m.kind # "start", ControlRoom(s)
      PROVE  Quiet(s, OfferControl(s, m))
  <2> DEFINE r == OfferControl(s, m)
             q == Append(s.control, m)
  <2>1. r \in Session
    BY OfferControlType
  <2>2. r = [s EXCEPT !.control = q]
    BY <1>4 DEF OfferControl
  <2>3. {q[i] : i \in DOMAIN q} = {s.control[i] : i \in DOMAIN s.control} \union {m}
    BY <1>1, AppendedAt, SMTT(30)
  <2> HIDE DEF q, r
  <2>4. /\ r.gate = s.gate /\ r.generation = s.generation /\ r.urgent = s.urgent
        /\ r.control = q /\ r.audio = s.audio /\ r.pendingAudio = s.pendingAudio
        /\ r.ttsStarted = s.ttsStarted /\ r.playing = s.playing
        /\ r.turn = s.turn /\ r.nextTurnId = s.nextTurnId
    BY <2>2 DEF Session
  <2>5. Queued(r) \subseteq Queued(s)
    BY <1>4, <2>3, <2>4 DEF Queued
  <2>6. Parts(r) => Parts(s)
    BY <2>4 DEF Parts
  <2> QED BY <1>1, <2>1, <2>4, <2>5, <2>6 DEF Quiet, Fades, Steady, r
<1>5. \A m : ~UrgentRoom(s) => OfferUrgent(s, m) = s
  BY DEF OfferUrgent
<1>6. \A m : ~ControlRoom(s) => OfferControl(s, m) = s
  BY DEF OfferControl
<1> QED BY <1>2, <1>3, <1>4, <1>5, <1>6

(* The commands the handlers offer are of that kind. *)
LEMMA CommandsQuiet ==
  ASSUME NEW s \in Session
  PROVE  /\ \A code \in Nat \ {1000} : Quiet(s, OfferUrgent(s, CloseMsg(code)))
         /\ \A t \in Nat : Quiet(s, OfferUrgent(s, Msg("abort", 0, t)))
         /\ \A g \in Nat, t \in Nat : Quiet(s, OfferControl(s, Msg("text", g, t)))
<1>1. \A code \in Nat \ {1000} : ~Parting(CloseMsg(code)) /\ CloseMsg(code) \in Message(UrgentKinds)
  BY MessageTypes DEF Parting, CloseMsg
<1>2. \A t \in Nat : ~Parting(Msg("abort", 0, t)) /\ Msg("abort", 0, t) \in Message(UrgentKinds)
  BY MessageTypes DEF Parting, Msg, Turns
<1>3. \A g \in Nat, t \in Nat :
        Msg("text", g, t).kind # "start" /\ Msg("text", g, t) \in Message(ControlKinds)
  BY MessageTypes DEF Msg, Turns
<1> QED BY <1>1, <1>2, <1>3, OffersQuietly

(* A change of the fields beside the delivery, in a chain of updates. *)
LEMMA BesideQuiet ==
  ASSUME NEW s \in Session, NEW r \in Session, NEW q \in Session,
         Quiet(s, r), Alike(r, q)
  PROVE  Quiet(s, q)
<1>1. r \in Session
  BY DEF Quiet
<1> QED BY <1>1, AlikeQuiet, QuietOn

(* The teardown that cancellation and failure end in. *)
LEMMA TearsDownQuietly ==
  ASSUME NEW s \in Session, NEW code \in Nat \ {1000}
  PROVE  Quiet(s, TearDown(s, code))
<1> DEFINE shut == CloseVad(s)
           over == [shut EXCEPT !.autoResetPending = FALSE, !.phase = "Closed"]
<1>1. Quiet(s, shut) /\ shut \in Session
  BY FadingSteps, TurnTypes
<1> HIDE DEF shut
<1>2. over \in Session
  <2>1. [shut EXCEPT !.autoResetPending = FALSE] \in Session
    BY <1>1, Updates
  <2> QED BY <2>1, Updates
<1>3. Alike(shut, over)
  BY <1>1 DEF Alike, Session
<1> HIDE DEF over
<1>4. Quiet(s, over)
  BY <1>1, <1>2, <1>3, BesideQuiet
<1>5. Quiet(over, OfferUrgent(over, CloseMsg(code)))
  BY <1>2, CommandsQuiet
<1>6. TearDown(s, code) = OfferUrgent(over, CloseMsg(code))
  BY DEF TearDown, over, shut
<1> QED BY <1>4, <1>5, <1>6, QuietOn

(* Cancelling never lets anything be heard (delivery.rs, *)
(* cancel_speech_delivery; lifecycle.rs, fail_closed). *)
LEMMA CancelsQuietly ==
  ASSUME NEW s \in Session
  PROVE  /\ Quiet(s, FailClosedUnplayed(s)) /\ Quiet(s, CancelSpeechDelivery(s))
         /\ Quiet(s, InterruptActiveTurn(s)) /\ Quiet(s, FailClosed(s))
<1>1. ASSUME NEW r \in Session
      PROVE  Quiet(r, FailClosedUnplayed(r))
  <2> DEFINE a == CancelPendingActions(r)
             b == SilenceSpeech(a)
             d == ReleaseActiveTurn(b)
             e == CancelLlm(d)
             f == CancelTools(e)
             g == CancelAsr(f)
             h == AdvanceGeneration(g)
  <2>1. Quiet(r, a) /\ a \in Session
    BY FadingSteps, TurnTypes
  <2> HIDE DEF a
  <2>2. Quiet(a, b) /\ b \in Session
    BY <2>1, FadingSteps, TurnTypes
  <2> HIDE DEF b
  <2>3. Quiet(b, d) /\ d \in Session
    BY <2>2, FadingSteps, TurnTypes
  <2> HIDE DEF d
  <2>4. Quiet(d, e) /\ e \in Session
    BY <2>3, FadingSteps, TurnTypes
  <2> HIDE DEF e
  <2>5. Quiet(e, f) /\ f \in Session
    BY <2>4, FadingSteps, TurnTypes
  <2> HIDE DEF f
  <2>6. Quiet(f, g) /\ g \in Session
    BY <2>5, FadingSteps, TurnTypes
  <2> HIDE DEF g
  <2>7. Quiet(g, h) /\ h \in Session
    BY <2>6, FadingSteps, TurnTypes
  <2> HIDE DEF h
  <2>8. Quiet(h, TearDown(h, 1011))
    BY <2>7, TearsDownQuietly
  <2>9. Quiet(r, d)
    BY <2>1, <2>2, <2>3, QuietOn
  <2>10. Quiet(r, g)
    BY <2>4, <2>5, <2>6, <2>9, QuietOn
  <2>11. Quiet(r, TearDown(h, 1011))
    BY <2>7, <2>8, <2>10, QuietOn
  <2>12. FailClosedUnplayed(r) = IF r.phase = "Closed" THEN r ELSE TearDown(h, 1011)
    BY DEF FailClosedUnplayed, a, b, d, e, f, g, h
  <2> QED BY <2>11, <2>12, FadingSteps
<1>2. ASSUME NEW r \in Session
      PROVE  Quiet(r, CancelSpeechDelivery(r))
  <2> DEFINE quiet == SilenceSpeech(r)
             kept  == [quiet EXCEPT !.ttsStarted = FALSE]
             shut  == FailClosedUnplayed(kept)
             over  == [shut EXCEPT !.shutdown = TRUE]
  <2>1. Quiet(r, quiet) /\ quiet \in Session
    BY FadingSteps, TurnTypes
  <2> HIDE DEF quiet
  <2>2. Quiet(r, ReleaseActiveTurn(quiet))
    BY <2>1, FadingSteps, QuietOn
  <2>3. kept \in Session
    BY <2>1, Updates
  <2>4. Quiet(quiet, kept)
    <3>1. /\ kept.gate = quiet.gate /\ kept.generation = quiet.generation
          /\ kept.urgent = quiet.urgent /\ kept.control = quiet.control
          /\ kept.audio = quiet.audio /\ kept.pendingAudio = quiet.pendingAudio
          /\ ~kept.ttsStarted /\ kept.playing = quiet.playing
          /\ kept.turn = quiet.turn /\ kept.nextTurnId = quiet.nextTurnId
      BY <2>1 DEF Session
    <3>2. quiet.gate \in Nat /\ quiet.generation \in Nat /\ quiet.nextTurnId \in Nat
      BY <2>1, Fields
    <3> HIDE DEF kept
    <3>3. Queued(kept) = Queued(quiet) /\ Parts(kept) = Parts(quiet)
      BY <3>1 DEF Queued, Parts
    <3> QED BY <2>3, <3>1, <3>2, <3>3 DEF Quiet, Fades, Steady
  <2> HIDE DEF kept
  <2>5. Quiet(r, kept)
    BY <2>1, <2>4, QuietOn
  <2>6. Quiet(r, OfferUrgent(kept, Msg("abort", 0, r.turn)))
    <3>1. r.turn \in Nat
      BY Fields
    <3> QED BY <2>3, <2>5, <3>1, CommandsQuiet, QuietOn
  <2>7. Quiet(r, shut) /\ shut \in Session
    BY <1>1, <2>3, <2>5, CancellationTypes, QuietOn
  <2> HIDE DEF shut
  <2>8. Quiet(r, over)
    <3>1. Alike(shut, over) /\ over \in Session
      BY <2>7, Beside, Updates
    <3> HIDE DEF over
    <3> QED BY <2>7, <3>1, BesideQuiet
  <2> HIDE DEF over
  <2>9. CancelSpeechDelivery(r) \in {ReleaseActiveTurn(quiet), quiet,
          OfferUrgent(kept, Msg("abort", 0, r.turn)), over}
    BY DEF CancelSpeechDelivery, quiet, kept, shut, over
  <2> QED BY <2>1, <2>2, <2>6, <2>8, <2>9
<1>3. Quiet(s, InterruptActiveTurn(s)) /\ InterruptActiveTurn(s) \in Session
  <2> DEFINE a == CancelPendingActions(s)
             b == CancelSpeechDelivery(a)
             d == CancelLlm(b)
             e == CancelTools(d)
  <2>1. Quiet(s, a) /\ a \in Session
    BY FadingSteps, TurnTypes
  <2> HIDE DEF a
  <2>2. Quiet(a, b) /\ b \in Session
    BY <1>2, <2>1, CancellationTypes
  <2> HIDE DEF b
  <2>3. Quiet(b, d) /\ d \in Session
    BY <2>2, FadingSteps, TurnTypes
  <2> HIDE DEF d
  <2>4. Quiet(d, e) /\ e \in Session
    BY <2>3, FadingSteps, TurnTypes
  <2> HIDE DEF e
  <2>5. Quiet(e, CancelAsr(e)) /\ CancelAsr(e) \in Session
    BY <2>4, FadingSteps, TurnTypes
  <2>6. InterruptActiveTurn(s) = CancelAsr(e)
    BY DEF InterruptActiveTurn, a, b, d, e
  <2>7. Quiet(s, d)
    BY <2>1, <2>2, <2>3, QuietOn
  <2> QED BY <2>4, <2>5, <2>6, <2>7, QuietOn
<1>4. Quiet(s, FailClosed(s))
  <2> DEFINE a == InterruptActiveTurn(s)
             b == AdvanceGeneration(a)
  <2>1. Quiet(s, a) /\ a \in Session
    BY <1>3
  <2> HIDE DEF a
  <2>2. Quiet(a, b) /\ b \in Session
    BY <2>1, FadingSteps, TurnTypes
  <2> HIDE DEF b
  <2>3. Quiet(b, TearDown(b, 1011))
    BY <2>2, TearsDownQuietly
  <2>4. Quiet(s, TearDown(b, 1011))
    BY <2>1, <2>2, <2>3, QuietOn
  <2>5. FailClosed(s) = IF s.phase = "Closed" THEN s ELSE TearDown(b, 1011)
    BY DEF FailClosed, a, b
  <2> QED BY <2>4, <2>5, FadingSteps
<1> QED BY <1>1, <1>2, <1>3, <1>4

(* After cancel_speech_delivery the gate refuses whatever is queued: it is *)
(* invalidated up to the current generation before speech output is *)
(* emptied, and the delivery is given up in the same call. *)
LEMMA Silences ==
  ASSUME NEW s \in Session, NEW A, Meant(s), s.ttsStarted => s.turn # NoTurn
  PROVE  Meant(CancelSpeechDelivery(s)) /\ Hushed(CancelSpeechDelivery(s), A)
<1> DEFINE shut  == Invalidate(s)
           quiet == SilenceSpeech(s)
           kept  == [quiet EXCEPT !.ttsStarted = FALSE]
<1>1. shut \in Session /\ quiet \in Session /\ Quiet(s, quiet) /\ kept \in Session
  BY FadingSteps, TurnTypes, Updates
<1>2. s.generation \in Nat /\ s.gate \in Nat
  BY Fields
<1>3. shut.gate >= s.generation /\ shut.ttsStarted = s.ttsStarted
  BY <1>2 DEF Invalidate, Session
<1>4. quiet = [shut EXCEPT !.speech = "idle", !.announced = FALSE, !.playing = FALSE,
                           !.packets = 0, !.pendingAudio = NoMsg]
  BY DEF SilenceSpeech
<1> HIDE DEF shut
<1>5. quiet.gate = shut.gate /\ ~quiet.playing /\ quiet.ttsStarted = s.ttsStarted
  BY <1>1, <1>3, <1>4 DEF Session
<1> HIDE DEF quiet
<1>6. \A m \in Queued(quiet) : m.gen <= quiet.gate
  <2>1. Queued(quiet) \subseteq Queued(s)
    BY <1>1 DEF Quiet, Fades
  <2>2. \A m \in Queued(s) : m.gen \in Nat
    BY QueuedTypes
  <2>3. quiet.gate \in Nat
    BY <1>1, Fields
  <2> QED BY <1>2, <1>3, <1>5, <2>1, <2>2, <2>3 DEF Meant
<1>7. Meant(quiet)
  BY <1>1, HushedOn
<1>8. /\ ~kept.ttsStarted /\ ~kept.playing /\ kept.gate = quiet.gate
      /\ kept.generation = quiet.generation
      /\ kept.control = quiet.control /\ kept.audio = quiet.audio
      /\ kept.pendingAudio = quiet.pendingAudio
  BY <1>1, <1>5 DEF Session
<1> HIDE DEF kept
<1>9. Meant(kept) /\ Hushed(kept, A)
  <2>1. Queued(kept) = Queued(quiet)
    BY <1>8 DEF Queued
  <2>2. \A m \in Queued(quiet) : m.gen \in Nat
    BY <1>1, QueuedTypes
  <2>3. quiet.gate \in Nat
    BY <1>1, Fields
  <2> QED BY <1>6, <1>7, <1>8, <2>1, <2>2, <2>3 DEF Meant, Hushed
<1>10. CASE ~s.ttsStarted
  <2>1. CancelSpeechDelivery(s) = ReleaseActiveTurn(quiet)
    BY <1>10 DEF CancelSpeechDelivery, quiet
  <2>2. Hushed(quiet, A)
    <3>1. \A m \in Queued(quiet) : m.gen \in Nat
      BY <1>1, QueuedTypes
    <3>2. quiet.gate \in Nat
      BY <1>1, Fields
    <3> QED BY <1>5, <1>6, <1>10, <3>1, <3>2 DEF Hushed
  <2>3. Quiet(quiet, ReleaseActiveTurn(quiet))
    BY <1>1, FadingSteps
  <2> QED BY <1>1, <1>7, <2>1, <2>2, <2>3, HushedOn
<1>11. CASE s.ttsStarted /\ UrgentRoom(s)
  <2>1. CancelSpeechDelivery(s) = OfferUrgent(kept, Msg("abort", 0, s.turn))
    BY <1>11 DEF CancelSpeechDelivery, quiet, kept
  <2>2. s.turn \in Nat
    BY Fields
  <2>3. Quiet(kept, OfferUrgent(kept, Msg("abort", 0, s.turn)))
    BY <1>1, <2>2, CommandsQuiet
  <2> QED BY <1>1, <1>9, <2>1, <2>3, HushedOn
<1>12. CASE s.ttsStarted /\ ~UrgentRoom(s)
  <2> DEFINE over == FailClosedUnplayed(kept)
             r    == [over EXCEPT !.shutdown = TRUE]
  <2>1. CancelSpeechDelivery(s) = r
    BY <1>12 DEF CancelSpeechDelivery, quiet, kept
  <2>2. Quiet(kept, over) /\ over \in Session
    BY <1>1, CancelsQuietly, CancellationTypes
  <2> HIDE DEF over
  <2>3. Alike(over, r) /\ r \in Session
    BY <2>2, Beside, Updates
  <2> HIDE DEF r
  <2>4. Quiet(kept, r)
    BY <1>1, <2>2, <2>3, BesideQuiet
  <2> QED BY <1>1, <1>9, <2>1, <2>4, HushedOn
<1> QED BY <1>10, <1>11, <1>12

(* What hushed stays calm, and so does a delivery that an update beside it *)
(* leaves open. *)
LEMMA CalmOn ==
  ASSUME NEW s \in Session, NEW r \in Session, NEW A, Calm(s, A), Alike(s, r),
         r.phase = "Closed" => s.phase = "Closed"
  PROVE  Calm(r, A)
<1>1. Quiet(s, r)
  BY AlikeQuiet
<1>2. Meant(r) /\ (Hushed(s, A) => Hushed(r, A))
  BY <1>1, HushedOn DEF Calm
<1> QED BY <1>2 DEF Calm, Alike

(* Every cancellation from a calm session silences it. *)
LEMMA CalmSilences ==
  ASSUME NEW s \in Session, NEW A, Calm(s, A)
  PROVE  /\ Meant(CancelSpeechDelivery(s)) /\ Hushed(CancelSpeechDelivery(s), A)
         /\ Meant(InterruptActiveTurn(s)) /\ Hushed(InterruptActiveTurn(s), A)
         /\ Meant(FailClosed(s)) /\ Hushed(FailClosed(s), A)
<1>1. Meant(s) /\ (s.ttsStarted => s.turn # NoTurn)
  BY DEF Calm, Hushed
<1>2. Meant(CancelSpeechDelivery(s)) /\ Hushed(CancelSpeechDelivery(s), A)
  BY <1>1, Silences
<1>3. Meant(InterruptActiveTurn(s)) /\ Hushed(InterruptActiveTurn(s), A)
  <2> DEFINE a == CancelPendingActions(s)
             b == CancelSpeechDelivery(a)
             d == CancelLlm(b)
             e == CancelTools(d)
  <2>1. a \in Session /\ Alike(s, a)
    BY Beside, TurnTypes DEF CancelPendingActions
  <2> HIDE DEF a
  <2>2. Meant(a) /\ (a.ttsStarted => a.turn # NoTurn)
    BY <1>1, <2>1, AlikeQuiet, HushedOn DEF Alike
  <2>3. Meant(b) /\ Hushed(b, A) /\ b \in Session
    BY <2>1, <2>2, Silences, CancellationTypes
  <2> HIDE DEF b
  <2>4. Quiet(b, d) /\ d \in Session
    BY <2>3, FadingSteps, TurnTypes
  <2> HIDE DEF d
  <2>5. Quiet(d, e) /\ e \in Session
    BY <2>4, FadingSteps, TurnTypes
  <2> HIDE DEF e
  <2>6. Quiet(b, CancelAsr(e))
    BY <2>3, <2>4, <2>5, FadingSteps, QuietOn
  <2>7. InterruptActiveTurn(s) = CancelAsr(e)
    BY DEF InterruptActiveTurn, a, b, d, e
  <2> QED BY <2>3, <2>6, <2>7, HushedOn
<1>4. Meant(FailClosed(s)) /\ Hushed(FailClosed(s), A)
  <2>1. CASE s.phase = "Closed"
    BY <2>1 DEF FailClosed, Calm
  <2>2. CASE s.phase # "Closed"
    <3> DEFINE a == InterruptActiveTurn(s)
               b == AdvanceGeneration(a)
    <3>1. a \in Session /\ Meant(a) /\ Hushed(a, A)
      BY <1>3, CancellationTypes
    <3> HIDE DEF a
    <3>2. Quiet(a, b) /\ b \in Session
      BY <3>1, FadingSteps, TurnTypes
    <3> HIDE DEF b
    <3>3. Quiet(a, TearDown(b, 1011))
      BY <3>1, <3>2, TearsDownQuietly, QuietOn
    <3>4. FailClosed(s) = TearDown(b, 1011)
      BY <2>2 DEF FailClosed, a, b
    <3> QED BY <3>1, <3>3, <3>4, HushedOn
  <2> QED BY <2>1, <2>2
<1> QED BY <1>2, <1>3, <1>4

(* The same, for a chain of calls. *)
LEMMA FadesOn ==
  ASSUME NEW s \in Session, NEW r, Quiet(s, r)
  PROVE  /\ r \in Session
         /\ Quiet(s, AdvanceGeneration(r)) /\ Quiet(s, BeginActiveTurn(r))
         /\ Quiet(s, ReleaseActiveTurn(r)) /\ Quiet(s, CancelPendingActions(r))
         /\ Quiet(s, CancelLlm(r)) /\ Quiet(s, CancelTools(r))
         /\ Quiet(s, ForgetAsr(r)) /\ Quiet(s, CancelAsr(r))
         /\ Quiet(s, CloseVad(r)) /\ Quiet(s, CancelSpeechDelivery(r))
         /\ Quiet(s, InterruptActiveTurn(r)) /\ Quiet(s, FailClosed(r))
         /\ \A code \in Nat \ {1000} : Quiet(s, OfferUrgent(r, CloseMsg(code)))
         /\ \A g \in Nat, t \in Nat : Quiet(s, OfferControl(r, Msg("text", g, t)))
         /\ \A q \in Session : Alike(r, q) => Quiet(s, q)
<1>1. r \in Session
  BY DEF Quiet
<1>2. \A q : Quiet(r, q) => Quiet(s, q)
  BY QuietOn
<1>3. /\ Quiet(s, AdvanceGeneration(r)) /\ Quiet(s, BeginActiveTurn(r))
      /\ Quiet(s, ReleaseActiveTurn(r)) /\ Quiet(s, CancelPendingActions(r))
      /\ Quiet(s, CancelLlm(r)) /\ Quiet(s, CancelTools(r))
      /\ Quiet(s, ForgetAsr(r)) /\ Quiet(s, CancelAsr(r)) /\ Quiet(s, CloseVad(r))
  BY <1>1, <1>2, FadingSteps
<1>4. /\ Quiet(s, CancelSpeechDelivery(r))
      /\ Quiet(s, InterruptActiveTurn(r)) /\ Quiet(s, FailClosed(r))
  BY <1>1, <1>2, CancelsQuietly
<1>5. /\ \A code \in Nat \ {1000} : Quiet(s, OfferUrgent(r, CloseMsg(code)))
      /\ \A g \in Nat, t \in Nat : Quiet(s, OfferControl(r, Msg("text", g, t)))
  BY <1>1, <1>2, CommandsQuiet
<1>6. \A q \in Session : Alike(r, q) => Quiet(s, q)
  BY <1>1, <1>2, AlikeQuiet
<1> QED BY <1>1, <1>3, <1>4, <1>5, <1>6

(* replace_listening_mode starts no delivery (listening.rs 88-173). *)
LEMMA ModeReplacedQuietly ==
  ASSUME NEW s \in Session, NEW mode \in Modes \union {"none"}, NEW c
  PROVE  Quiet(s, ReplaceListeningMode(s, mode, c))
<1> DEFINE first == [s EXCEPT !.listenArmPending = FALSE]
           idle == CloseVad(CancelAsr(CancelLlm(AdvanceGeneration(CancelSpeechDelivery(first)))))
           base == [idle EXCEPT !.autoSpeechActive = FALSE,
                           !.autoResetPending = FALSE, !.cycle = FALSE,
                           !.vadReset = FALSE, !.segment = FALSE,
                           !.listeningMode = mode]
           heard == [base EXCEPT !.asr = "open", !.asrGen = base.generation,
                             !.capturing = TRUE, !.phase = "Listening"]
           ready == [base EXCEPT !.phase = "Ready"]
           armed == [base EXCEPT !.vad = "open", !.cycle = TRUE, !.phase = "Listening"]
           shut  == [base EXCEPT !.phase = "Closed"]
<1>1. Quiet(s, first)
  BY Beside, AlikeQuiet, Updates
<1> HIDE DEF first
<1>2. Quiet(s, CancelSpeechDelivery(first))
  BY <1>1, FadesOn
<1>3. Quiet(s, CancelLlm(AdvanceGeneration(CancelSpeechDelivery(first))))
  BY <1>2, FadesOn
<1>4. Quiet(s, idle) /\ idle \in Session
  BY <1>3, FadesOn
<1> HIDE DEF idle
<1>5. base \in Session
  BY <1>4, Updates
<1>6. Alike(idle, base) /\ base.generation \in Nat
  BY <1>4, <1>5, Fields DEF Alike, Session
<1> HIDE DEF base
<1>7. heard \in Session /\ ready \in Session /\ armed \in Session /\ shut \in Session
  BY <1>5, <1>6, Updates
<1>8. Alike(base, heard) /\ Alike(base, armed)
  BY <1>5 DEF Alike, Session
<1>9. Alike(base, ready) /\ Alike(base, shut)
  BY <1>5, Beside
<1>10. ReplaceListeningMode(s, mode, c) \in {heard, ready, armed, OfferUrgent(shut, CloseMsg(1013))}
  BY DEF ReplaceListeningMode, heard, ready, armed, shut, base, idle, first
<1> HIDE DEF heard, ready, armed, shut
<1>11. Quiet(s, base)
  BY <1>4, <1>5, <1>6, FadesOn
<1>12. Quiet(s, heard) /\ Quiet(s, ready) /\ Quiet(s, armed) /\ Quiet(s, shut)
  BY <1>7, <1>8, <1>9, <1>11, FadesOn
<1>13. Quiet(s, OfferUrgent(shut, CloseMsg(1013)))
  <2>1. 1013 \in Nat \ {1000}
    OBVIOUS
  <2>2. \A code \in Nat \ {1000} : Quiet(s, OfferUrgent(shut, CloseMsg(code)))
    BY <1>12, FadesOn
  <2> QED BY <2>1, <2>2
<1> QED BY <1>10, <1>12, <1>13

(* reset_vad_capture_cycle and the end of a recognition start no delivery *)
(* either (listening.rs, finish_asr_recognition). *)
LEMMA RecognitionEndsQuietly ==
  ASSUME NEW s \in Session, NEW c
  PROVE  Quiet(s, ResetVadCaptureCycle(s, c)) /\ Quiet(s, CompleteRecognition(s, c))
<1>1. ASSUME NEW q \in Session
      PROVE  Quiet(q, ResetVadCaptureCycle(q, c))
  <2> DEFINE accepted == q.vad = "open" /\ ~q.vadReset /\ c["vad"]
             asked == [q EXCEPT !.cycle = FALSE, !.vadReset = accepted]
             reset == [asked EXCEPT !.autoResetPending = TRUE]
  <2>1. accepted \in BOOLEAN
    OBVIOUS
  <2>2. ResetVadCaptureCycle(q, c) \in {reset, FailClosed(asked)}
    BY DEF ResetVadCaptureCycle
  <2> HIDE DEF accepted
  <2>3. asked \in Session /\ Alike(q, asked)
    <3>1. asked \in Session
      BY <2>1, Updates
    <3>2. Alike(q, asked)
      BY DEF Alike, Session
    <3> QED BY <3>1, <3>2
  <2> HIDE DEF asked
  <2>4. reset \in Session /\ Alike(asked, reset)
    BY <2>3, Beside, Updates
  <2> HIDE DEF reset
  <2>5. Quiet(q, asked)
    BY <2>3, AlikeQuiet
  <2>6. Quiet(q, reset) /\ Quiet(q, FailClosed(asked))
    BY <2>4, <2>5, FadesOn
  <2> QED BY <2>2, <2>6
<1>2. Quiet(s, CompleteRecognition(s, c))
  <2> DEFINE free  == ReleaseActiveTurn(s)
             ready == [free EXCEPT !.phase = "Ready"]
  <2>1. Quiet(s, free) /\ free \in Session
    BY FadingSteps, TurnTypes
  <2>2. free.listeningMode \in Modes \union {"none"}
    BY <2>1, Fields
  <2>3. CompleteRecognition(s, c) \in {ReplaceListeningMode(free, free.listeningMode, c), free,
                                       ResetVadCaptureCycle(free, c), ready}
    BY DEF CompleteRecognition
  <2> HIDE DEF free
  <2>4. ready \in Session /\ Alike(free, ready)
    BY <2>1, Beside, Updates
  <2> HIDE DEF ready
  <2>5. Quiet(s, ready)
    BY <2>1, <2>4, FadesOn
  <2>6. Quiet(s, ReplaceListeningMode(free, free.listeningMode, c))
    BY <2>1, <2>2, ModeReplacedQuietly, QuietOn
  <2>7. Quiet(s, ResetVadCaptureCycle(free, c))
    BY <1>1, <2>1, QuietOn
  <2> QED BY <2>1, <2>3, <2>5, <2>6, <2>7
<1> QED BY <1>1, <1>2

(* fail_speech_delivery fades, and from a calm session it silences *)
(* (delivery.rs, fail_speech_delivery). *)
LEMMA DeliveryFailsQuietly ==
  ASSUME NEW s \in Session, NEW c
  PROVE  /\ Quiet(s, FailSpeechDelivery(s, c))
         /\ \A A : Calm(s, A) => /\ Meant(FailSpeechDelivery(s, c))
                                 /\ Hushed(FailSpeechDelivery(s, c), A)
<1> DEFINE armed  == IF s.ttsStarted THEN s ELSE CancelPendingActions(s)
           cut    == CancelSpeechDelivery(armed)
           failed == AdvanceGeneration(CancelTools(CancelLlm(cut)))
<1>1. armed \in Session /\ Alike(s, armed)
  BY Beside, TurnTypes DEF CancelPendingActions
<1>2. armed.phase = s.phase
  BY DEF CancelPendingActions, Session
<1>3. FailSpeechDelivery(s, c) \in {failed, CompleteRecognition(failed, c)}
  BY DEF FailSpeechDelivery
<1> HIDE DEF armed
<1>4. Quiet(s, armed)
  BY <1>1, AlikeQuiet
<1>5. Quiet(s, cut) /\ cut \in Session
  BY <1>4, FadesOn
<1>6. \A A : Calm(s, A) => Meant(cut) /\ Hushed(cut, A)
  <2> SUFFICES ASSUME NEW A, Calm(s, A) PROVE Meant(cut) /\ Hushed(cut, A)
    OBVIOUS
  <2>1. Calm(armed, A)
    BY <1>1, <1>2, CalmOn
  <2> QED BY <1>1, <2>1, CalmSilences
<1> HIDE DEF cut
<1>7. Quiet(cut, CancelTools(CancelLlm(cut)))
  BY <1>5, FadingSteps, TurnTypes, QuietOn
<1>8. Quiet(cut, failed) /\ failed \in Session
  BY <1>5, <1>7, FadesOn
<1> HIDE DEF failed
<1>9. Quiet(cut, CompleteRecognition(failed, c))
  BY <1>5, <1>8, RecognitionEndsQuietly, QuietOn
<1>10. Quiet(cut, FailSpeechDelivery(s, c))
  BY <1>3, <1>8, <1>9
<1>11. Quiet(s, FailSpeechDelivery(s, c))
  BY <1>5, <1>10, QuietOn
<1> QED BY <1>5, <1>6, <1>10, <1>11, HushedOn

(* commit_user_text, start_llm_round and begin_direct_speech only begin the *)
(* work of a turn; nothing of it can be heard yet. *)
LEMMA RoundStartsQuietly ==
  ASSUME NEW s \in Session, NEW c
  PROVE  /\ Quiet(s, CommitUserText(s)) /\ Quiet(s, BeginSpeechDelivery(s, c))
         /\ Quiet(s, StartLlmRound(s, c))
         /\ \A origin \in {"tool", "direct"} : Quiet(s, BeginDirectSpeech(s, origin))
<1>1. Quiet(s, CommitUserText(s))
  BY CommandsQuiet, Fields DEF CommitUserText
<1>2. ASSUME NEW q \in Session
      PROVE  Quiet(q, StartLlmRound(q, c))
  <2> DEFINE asked == [q EXCEPT !.origin = "llm"]
             r     == [asked EXCEPT !.llmGen = q.generation]
             free  == ReleaseActiveTurn(asked)
  <2>1. asked \in Session /\ Alike(q, asked) /\ q.generation \in Nat
    BY Beside, Updates, Fields
  <2>2. StartLlmRound(q, c) \in {FailClosed(q), r, CompleteRecognition(free, c)}
    BY DEF StartLlmRound
  <2> HIDE DEF asked
  <2>3. Quiet(q, asked)
    BY <2>1, AlikeQuiet
  <2>4. r \in Session /\ Alike(asked, r)
    BY <2>1, Beside, Updates
  <2> HIDE DEF r
  <2>5. Quiet(q, r)
    BY <2>3, <2>4, FadesOn
  <2>6. Quiet(q, free) /\ free \in Session
    BY <2>3, FadesOn
  <2> HIDE DEF free
  <2>7. Quiet(q, CompleteRecognition(free, c))
    BY <2>6, RecognitionEndsQuietly, QuietOn
  <2> QED BY <2>2, <2>5, <2>7, CancelsQuietly
<1>3. Quiet(s, BeginSpeechDelivery(s, c))
  <2> DEFINE none == [s EXCEPT !.rounds = 0]
  <2>1. none \in Session /\ Alike(s, none)
    BY Beside, Updates
  <2>2. BeginSpeechDelivery(s, c) = StartLlmRound(none, c)
    BY DEF BeginSpeechDelivery
  <2> HIDE DEF none
  <2> QED BY <1>2, <2>1, <2>2, AlikeQuiet, QuietOn
<1>4. ASSUME NEW origin \in {"tool", "direct"}
      PROVE  Quiet(s, BeginDirectSpeech(s, origin))
  <2>1. BeginDirectSpeech(s, origin) \in Session
    BY DeliveryTypes
  <2>2. Alike(s, BeginDirectSpeech(s, origin))
    BY DEF BeginDirectSpeech, Alike, Session
  <2> QED BY <2>1, <2>2, AlikeQuiet
<1> QED BY <1>1, <1>2, <1>3, <1>4

(* finish_manual, the recognition an utterance opens, and a new capture *)
(* cycle. *)
LEMMA CaptureQuiet ==
  ASSUME NEW s \in Session, NEW c, NEW pushed \in BOOLEAN
  PROVE  /\ Quiet(s, FinishManual(s, c)) /\ Quiet(s, OpenAsrForSpeech(s, pushed, c))
         /\ Quiet(s, RestartCaptureCycle(s, c))
<1>0. Quiet(s, s)
  BY FadingSteps
<1>1. Quiet(s, FinishManual(s, c))
  <2> DEFINE begun == BeginActiveTurn(s)
             r     == [begun EXCEPT !.asr = "finishing"]
             free  == ReleaseActiveTurn(CancelAsr(begun))
             ready == [free EXCEPT !.phase = "Ready"]
  <2>1. Quiet(s, begun) /\ begun \in Session
    BY FadingSteps, TurnTypes
  <2>2. FinishManual(s, c) \in {CompleteRecognition(CancelAsr(s), c), ReleaseActiveTurn(begun), r, ready}
    BY DEF FinishManual
  <2> HIDE DEF begun
  <2>3. Alike(begun, r) /\ r \in Session
    BY <2>1, Beside, Updates
  <2> HIDE DEF r
  <2>4. Quiet(s, CancelAsr(begun))
    BY <2>1, FadesOn
  <2>5. Quiet(s, free) /\ free \in Session
    BY <2>4, FadesOn
  <2> HIDE DEF free
  <2>6. Alike(free, ready) /\ ready \in Session
    BY <2>5, Beside, Updates
  <2> HIDE DEF ready
  <2>7. Quiet(s, r) /\ Quiet(s, ready) /\ Quiet(s, ReleaseActiveTurn(begun))
    BY <2>1, <2>3, <2>5, <2>6, FadesOn
  <2>8. CancelAsr(s) \in Session /\ Quiet(s, CancelAsr(s))
    BY FadingSteps, TurnTypes
  <2>9. Quiet(s, CompleteRecognition(CancelAsr(s), c))
    BY <2>8, RecognitionEndsQuietly, QuietOn
  <2> QED BY <2>2, <2>7, <2>9
<1>2. Quiet(s, OpenAsrForSpeech(s, pushed, c))
  <2> DEFINE heard == [s EXCEPT !.autoSpeechActive = TRUE]
             open  == [heard EXCEPT !.asr = "open", !.asrGen = s.generation]
             gone  == CancelAsr(open)
             r     == [gone EXCEPT !.autoSpeechActive = FALSE]
  <2>1. heard \in Session /\ Alike(s, heard) /\ s.generation \in Nat
    BY Beside, Updates, Fields
  <2>2. OpenAsrForSpeech(s, pushed, c) \in {heard, open, r}
    BY DEF OpenAsrForSpeech
  <2> HIDE DEF heard
  <2>3. open \in Session
    BY <2>1, Updates
  <2>4. Alike(heard, open)
    BY <2>1 DEF Alike, Session
  <2> HIDE DEF open
  <2>5. Quiet(s, heard)
    BY <2>1, AlikeQuiet
  <2>6. Quiet(s, open)
    BY <2>3, <2>4, <2>5, FadesOn
  <2>7. Quiet(s, gone) /\ gone \in Session
    BY <2>6, FadesOn
  <2> HIDE DEF gone
  <2>8. r \in Session /\ Alike(gone, r)
    BY <2>7, Beside, Updates
  <2> HIDE DEF r
  <2>9. Quiet(s, r)
    BY <2>7, <2>8, FadesOn
  <2> QED BY <2>2, <2>5, <2>6, <2>9
<1>3. Quiet(s, RestartCaptureCycle(s, c))
  <2> DEFINE still == [s EXCEPT !.autoSpeechActive = FALSE, !.segment = FALSE]
             reset == ResetVadCaptureCycle(still, c)
             r     == [reset EXCEPT !.phase = "Processing"]
  <2>1. still \in Session
    BY Updates
  <2>2. Alike(s, still)
    BY DEF Alike, Session
  <2>3. RestartCaptureCycle(s, c) \in {s, r, reset}
    BY DEF RestartCaptureCycle
  <2> HIDE DEF still
  <2>4. Quiet(s, still)
    BY <2>1, <2>2, AlikeQuiet
  <2>5. Quiet(s, reset) /\ reset \in Session
    BY <2>1, <2>4, RecognitionEndsQuietly, ResetVadCaptureCycleType, QuietOn
  <2> HIDE DEF reset
  <2>6. r \in Session /\ Alike(reset, r)
    BY <2>5, Beside, Updates
  <2> HIDE DEF r
  <2>7. Quiet(s, r)
    BY <2>5, <2>6, FadesOn
  <2> QED BY <1>0, <2>3, <2>5, <2>7
<1> QED BY <1>1, <1>2, <1>3

(* The actor that is dropped leaves its lanes to the writer. *)
LEMMA DropsQuietly ==
  ASSUME NEW s \in Session
  PROVE  Quiet(s, Dropped(s))
<1> DEFINE free == CloseVad(ReleaseActiveTurn(CancelLlm(CancelAsr(s))))
           r    == Dropped(s)
<1>1. Quiet(s, CancelAsr(s)) /\ r \in Session
  BY FadingSteps, DroppedType
<1>2. Quiet(s, ReleaseActiveTurn(CancelLlm(CancelAsr(s))))
  BY <1>1, FadesOn
<1>3. Quiet(s, free) /\ free \in Session
  BY <1>2, FadesOn
<1>4. r = [free EXCEPT !.phase = "Closed", !.speech = "idle", !.announced = FALSE,
     !.playing = FALSE, !.packets = 0, !.pendingAudio = NoMsg, !.batchGen = 0]
  BY DEF Dropped
<1> HIDE DEF free, r
<1>5. /\ r.gate = free.gate /\ r.generation = free.generation /\ r.urgent = free.urgent
      /\ r.control = free.control /\ r.audio = free.audio /\ r.pendingAudio = NoMsg
      /\ r.ttsStarted = free.ttsStarted /\ ~r.playing
      /\ r.turn = free.turn /\ r.nextTurnId = free.nextTurnId
  BY <1>3, <1>4 DEF Session
<1>6. Queued(r) \subseteq Queued(free) /\ Parts(r) = Parts(free)
  BY <1>5 DEF Queued, Parts, NoMsg, Msg
<1>7. free.gate \in Nat /\ free.generation \in Nat /\ free.nextTurnId \in Nat
  BY <1>3, Fields
<1>8. Quiet(free, r)
  BY <1>1, <1>5, <1>6, <1>7 DEF Quiet, Fades, Steady, r
<1> QED BY <1>3, <1>8, QuietOn DEF r

(* close_normally parts, and lets nothing be heard. *)
LEMMA ClosesNormally ==
  ASSUME NEW s \in Session, NEW A, Meant(s), Hushed(s, A)
  PROVE  LET r == CloseNormally(s) IN
         r \in Session /\ Meant(r) /\ Hushed(r, A) /\ r.turn = s.turn
         /\ r.nextTurnId = s.nextTurnId
<1> DEFINE shut == CloseVad(s)
           over == [shut EXCEPT !.autoResetPending = FALSE, !.phase = "Closed"]
           q    == Append(over.urgent, CloseMsg(1000))
           r    == [over EXCEPT !.urgent = q]
<1>1. shut \in Session /\ over \in Session
  BY TurnTypes, Updates
<1>2. Alike(s, shut)
  BY Beside DEF CloseVad
<1>3. Alike(shut, over)
  BY <1>1 DEF Alike, Session
<1>4. CloseNormally(s) \in {s, over, r}
  BY DEF CloseNormally, OfferUrgent
<1>5. CloseNormally(s) \in Session
  <2>1. CloseMsg(1000) \in Message(UrgentKinds)
    BY MessageTypes
  <2> QED BY <1>1, <2>1, OfferUrgentType DEF CloseNormally
<1> HIDE DEF shut, q
<1>6. /\ r.gate = over.gate /\ r.generation = over.generation
      /\ r.control = over.control /\ r.audio = over.audio /\ r.pendingAudio = over.pendingAudio
      /\ r.ttsStarted = over.ttsStarted /\ r.playing = over.playing
      /\ r.turn = over.turn /\ r.nextTurnId = over.nextTurnId
  BY <1>1 DEF Session
<1> HIDE DEF over, r
<1>7. /\ over.gate = s.gate /\ over.generation = s.generation
      /\ over.control = s.control /\ over.audio = s.audio /\ over.pendingAudio = s.pendingAudio
      /\ over.ttsStarted = s.ttsStarted /\ over.playing = s.playing
      /\ over.turn = s.turn /\ over.nextTurnId = s.nextTurnId
  BY <1>2, <1>3 DEF Alike
<1>8. Queued(r) = Queued(s) /\ Queued(over) = Queued(s)
  BY <1>6, <1>7 DEF Queued
<1>9. /\ Meant(r) /\ Hushed(r, A) /\ r.turn = s.turn /\ r.nextTurnId = s.nextTurnId
      /\ Meant(over) /\ Hushed(over, A) /\ over.turn = s.turn /\ over.nextTurnId = s.nextTurnId
  BY <1>6, <1>7, <1>8 DEF Meant, Hushed
<1> QED BY <1>4, <1>5, <1>9

(* Within a delivery there is nothing to recognize, to batch or to *)
(* announce; as long as the output plays there is something to speak. *)
LEMMA SpokenOwned ==
  ASSUME NEW s \in Session, NEW W, NEW V, NEW A, Owned(s, W, V), Spoken(s, W, A)
  PROVE  /\ ~Batched(s) /\ (s.announced => s.playing)
         /\ s.llmGen # 0 => s.playing /\ s.speech = "partial"
         /\ s.playing => ~Ends(s, W, s.turn)
<1>1. s.speech \in {"idle", "partial", "finished"}
  BY DEF Session
<1>2. s.playing => s.speech # "idle" /\ ~Ends(s, W, s.turn)
  BY DEF Owned, Base, Spent, Idle
<1>3. ~s.playing => Spent(s)
  BY DEF Spoken, Owned
<1>4. s.announced => s.speech # "idle"
  BY DEF Owned, Base
<1>5. Batched(s) => s.speech = "idle"
  BY DEF Owned
<1> QED BY <1>1, <1>2, <1>3, <1>4, <1>5 DEF Spent, Idle, Owned

(* A change beside the delivery leaves it going on. *)
LEMMA SpokenOn ==
  ASSUME NEW s \in Session, NEW r \in Session, NEW W, NEW A, Meant(s), Spoken(s, W, A),
         Alike(s, r), r.phase \in {s.phase, "Speaking"}, r.asr = "none", ~r.autoSpeechActive,
         r.pendingDelivery = s.pendingDelivery
  PROVE  Meant(r) /\ Spoken(r, W, A)
<1>1. Meant(r) /\ Queued(r) = Queued(s)
  BY AlikeQuiet, HushedOn
<1>2. Ends(r, W, r.turn) = Ends(s, W, s.turn)
  BY DEF Alike, Ends
<1> QED BY <1>1, <1>2 DEF Alike, Spoken

-----------------------------------------------------------------------------
(* Every handler leaves a delivery apt: silent, or going on for the turn. *)

(* The turns on air. *)
Onair ==
  {t \in Nat \ {0} :
     writer.active = t \/ (writer.frame.kind = "start" /\ writer.frame.turn = t)}

(* A handler leaves a session like this. *)
Apt(r) == r \in Session /\ Voiced(r, Due, Onair) /\ Steady(sess, r)

(* Three ways to leave one: nothing was heard and nothing begins, the *)
(* delivery was silenced, or it is left alone. *)
LEMMA AptWays ==
  ASSUME TypeOK, Voiced(sess, Due, Onair)
  PROVE  /\ Calm(sess, Onair) /\ Quiet(sess, sess)
         /\ \A r : Quiet(sess, r) /\ Hushed(sess, Onair) => Apt(r)
         /\ \A r : Quiet(sess, r) /\ Meant(r) /\ Hushed(r, Onair) => Apt(r)
         /\ \A r \in Session : /\ Spoken(sess, Due, Onair) /\ Alike(sess, r)
                               /\ r.phase \in {sess.phase, "Speaking"} /\ r.asr = "none"
                               /\ ~r.autoSpeechActive /\ r.pendingDelivery = sess.pendingDelivery
                               => Apt(r)
<1> DEFINE W == Due
           A == Onair
<1>1. sess \in Session /\ Meant(sess) /\ (Hushed(sess, A) \/ Spoken(sess, W, A))
  BY DEF TypeOK, Voiced
<1> HIDE DEF W, A
<1>2. Calm(sess, A) /\ Quiet(sess, sess)
  BY <1>1, FadingSteps DEF Calm, Spoken
<1>3. ASSUME NEW r, Quiet(sess, r), Meant(r), Hushed(r, A) PROVE Apt(r)
  BY <1>3 DEF Apt, Voiced, Quiet, A
<1>4. ASSUME NEW r, Quiet(sess, r), Hushed(sess, A) PROVE Apt(r)
  BY <1>1, <1>3, <1>4, HushedOn
<1>5. ASSUME NEW r \in Session, Spoken(sess, W, A), Alike(sess, r),
             r.phase \in {sess.phase, "Speaking"}, r.asr = "none",
             ~r.autoSpeechActive, r.pendingDelivery = sess.pendingDelivery
      PROVE  Apt(r)
  <2>1. Meant(r) /\ Spoken(r, W, A)
    BY <1>1, <1>5, SpokenOn
  <2>2. Steady(sess, r)
    BY <1>1, <1>5, AlikeQuiet DEF Quiet
  <2> QED BY <1>5, <2>1, <2>2 DEF Apt, Voiced, W, A
<1> QED BY <1>2, <1>3, <1>4, <1>5 DEF W, A

(* The failures of a handler silence the delivery. *)
LEMMA FailuresApt ==
  ASSUME TypeOK, Voiced(sess, Due, Onair), NEW s, Quiet(sess, s), Calm(s, Onair)
  PROVE  /\ Apt(FailClosed(s))
         /\ \A c : Apt(FailSpeechDelivery(s, c))
         /\ Quiet(sess, InterruptActiveTurn(s)) /\ Meant(InterruptActiveTurn(s))
         /\ Hushed(InterruptActiveTurn(s), Onair)
<1>1. s \in Session /\ sess \in Session
  BY DEF Quiet, TypeOK
<1>2. Quiet(sess, FailClosed(s)) /\ Quiet(sess, InterruptActiveTurn(s))
  BY <1>1, CancelsQuietly, QuietOn
<1>3. \A c : Quiet(sess, FailSpeechDelivery(s, c))
  BY <1>1, DeliveryFailsQuietly, QuietOn
<1>4. /\ Meant(FailClosed(s)) /\ Hushed(FailClosed(s), Onair)
      /\ Meant(InterruptActiveTurn(s)) /\ Hushed(InterruptActiveTurn(s), Onair)
  BY <1>1, CalmSilences
<1>5. \A c : Meant(FailSpeechDelivery(s, c)) /\ Hushed(FailSpeechDelivery(s, c), Onair)
  BY <1>1, DeliveryFailsQuietly
<1> QED BY <1>2, <1>3, <1>4, <1>5, AptWays

(* A step on from a silenced session. *)
LEMMA SilencedOn ==
  ASSUME TypeOK, Voiced(sess, Due, Onair), NEW s, Quiet(sess, s), Meant(s), Hushed(s, Onair),
         NEW r, Quiet(s, r)
  PROVE  Apt(r)
<1>1. s \in Session /\ sess \in Session
  BY DEF Quiet, TypeOK
<1>2. Meant(r) /\ Hushed(r, Onair)
  BY <1>1, HushedOn
<1>3. Quiet(sess, r)
  BY <1>1, QuietOn
<1> QED BY <1>2, <1>3, AptWays

(* start_listening: while a delivery goes on it only arms. *)
LEMMA StartListeningApt ==
  ASSUME TypeOK, Voiced(sess, Due, Onair), NEW c \in Replies, NEW mode \in Modes,
         StartListening(mode, c)
  PROVE  Apt(sess')
<1> DEFINE arm == [sess EXCEPT !.listeningMode = mode, !.listenArmPending = TRUE]
<1>1. sess \in Session /\ (Hushed(sess, Onair) \/ Spoken(sess, Due, Onair))
  BY DEF TypeOK, Voiced
<1>2. arm \in Session
  BY <1>1, Updates
<1>3. Alike(sess, arm)
  BY <1>1 DEF Alike, Session
<1>4. arm.phase = sess.phase /\ arm.asr = sess.asr /\ arm.pendingDelivery = sess.pendingDelivery
      /\ arm.autoSpeechActive = sess.autoSpeechActive
  BY <1>1 DEF Session
<1>5. \/ sess' \in {sess, arm}
      \/ sess.turn = NoTurn /\ sess' \in {RestartCaptureCycle(sess, c), ReplaceListeningMode(sess, mode, c)}
  BY DEF StartListening, ClientInput, Handle
<1> HIDE DEF arm
<1>6. Quiet(sess, sess) /\ Quiet(sess, arm)
  BY <1>1, <1>2, <1>3, FadingSteps, AlikeQuiet
<1>7. Quiet(sess, RestartCaptureCycle(sess, c)) /\ Quiet(sess, ReplaceListeningMode(sess, mode, c))
  BY <1>1, CaptureQuiet, ModeReplacedQuietly
<1>8. CASE Hushed(sess, Onair)
  BY <1>5, <1>6, <1>7, <1>8, AptWays
<1>9. CASE Spoken(sess, Due, Onair)
  <2>1. sess.turn # NoTurn /\ sess.asr = "none" /\ ~sess.autoSpeechActive
    BY <1>9 DEF Spoken
  <2>2. Alike(sess, sess)
    BY DEF Alike
  <2>3. sess' \in {sess, arm}
    BY <1>5, <2>1
  <2> QED BY <1>1, <1>2, <1>3, <1>4, <1>9, <2>1, <2>2, <2>3, AptWays
<1> QED BY <1>1, <1>8, <1>9

(* stop_listening of a manual capture ends no delivery: none goes on while *)
(* the session listens. *)
LEMMA StopManualApt ==
  ASSUME TypeOK, Voiced(sess, Due, Onair), NEW c \in Replies, NEW hasUtterance \in BOOLEAN,
         StopManual(hasUtterance, c)
  PROVE  Apt(sess')
<1> DEFINE stopped == [sess EXCEPT !.capturing = FALSE]
           done    == [stopped EXCEPT !.phase = "Processing"]
           off     == CancelAsr(stopped)
           r       == [off EXCEPT !.phase = "Ready"]
<1>1. sess \in Session /\ Hushed(sess, Onair)
  BY DEF TypeOK, Voiced, Spoken, StopManual
<1>2. stopped \in Session /\ Alike(sess, stopped)
  BY <1>1, Beside, Updates
<1>3. sess' \in {FinishManual(done, c), r}
  BY DEF StopManual, ClientInput, Handle
<1> HIDE DEF stopped
<1>4. Quiet(sess, stopped)
  BY <1>1, <1>2, AlikeQuiet
<1>5. done \in Session /\ Alike(stopped, done)
  BY <1>2, Beside, Updates
<1> HIDE DEF done
<1>6. Quiet(sess, done)
  BY <1>1, <1>4, <1>5, FadesOn
<1>7. Quiet(sess, FinishManual(done, c))
  BY <1>1, <1>5, <1>6, CaptureQuiet, QuietOn
<1>8. Quiet(sess, off) /\ off \in Session
  BY <1>1, <1>4, FadesOn
<1> HIDE DEF off
<1>9. r \in Session /\ Alike(off, r)
  BY <1>8, Beside, Updates
<1> HIDE DEF r
<1>10. Quiet(sess, r)
  BY <1>1, <1>8, <1>9, FadesOn
<1> QED BY <1>1, <1>3, <1>7, <1>10, AptWays

(* stop_listening of a continuous mode leaves a delivery going on. *)
LEMMA StopContinuousApt ==
  ASSUME TypeOK, Voiced(sess, Due, Onair), StopContinuous
  PROVE  Apt(sess')
<1> DEFINE off == [sess EXCEPT !.vad = "none", !.cycle = FALSE, !.vadReset = FALSE,
                !.listeningMode = "none", !.listenArmPending = FALSE,
                !.autoSpeechActive = FALSE, !.autoResetPending = FALSE,
                !.segment = FALSE]
           gone == CancelAsr(off)
           r    == [gone EXCEPT !.phase = "Ready"]
<1>1. sess \in Session /\ (Hushed(sess, Onair) \/ Spoken(sess, Due, Onair))
  BY DEF TypeOK, Voiced
<1>2. off \in Session
  BY <1>1, Updates
<1>3. Alike(sess, off)
  BY <1>1 DEF Alike, Session
<1>4. off.phase = sess.phase /\ off.asr = sess.asr /\ off.pendingDelivery = sess.pendingDelivery
      /\ ~off.autoSpeechActive
  BY <1>1 DEF Session
<1>5. sess' = IF sess.turn = NoTurn THEN r ELSE off
  BY DEF StopContinuous, ClientInput, Handle
<1> HIDE DEF off
<1>6. Quiet(sess, off)
  BY <1>1, <1>2, <1>3, AlikeQuiet
<1>7. CASE Hushed(sess, Onair)
  <2>1. Quiet(sess, gone) /\ gone \in Session
    BY <1>1, <1>6, FadesOn
  <2> HIDE DEF gone
  <2>2. r \in Session /\ Alike(gone, r)
    BY <2>1, Beside, Updates
  <2> HIDE DEF r
  <2>3. Quiet(sess, r)
    BY <1>1, <2>1, <2>2, FadesOn
  <2> QED BY <1>5, <1>6, <1>7, <2>3, AptWays
<1>8. CASE Spoken(sess, Due, Onair)
  <2>1. sess.turn # NoTurn /\ sess.asr = "none"
    BY <1>8 DEF Spoken
  <2>2. sess' = off
    BY <1>5, <2>1
  <2> QED BY <1>2, <1>3, <1>4, <1>8, <2>1, <2>2, AptWays
<1> QED BY <1>1, <1>7, <1>8

(* detect, between two turns: nothing is being delivered. *)
LEMMA DetectApt ==
  ASSUME TypeOK, Voiced(sess, Due, Onair), sess.turn = NoTurn, NEW c \in Replies, Detect(c)
  PROVE  Apt(sess')
<1> DEFINE still == [sess EXCEPT !.capturing = FALSE]
           flag  == sess.autoSpeechActive /\ sess.listeningMode # "auto"
           heard == [still EXCEPT !.autoSpeechActive = flag]
           off   == CancelAsr(heard)
           fresh == BeginActiveTurn(off)
           begun == [fresh EXCEPT !.phase = "Processing"]
           said  == CommitUserText(begun)
           ready == [off EXCEPT !.phase = "Ready"]
<1>1. sess \in Session /\ Hushed(sess, Onair)
  BY DEF TypeOK, Voiced, Spoken, Detect
<1>2. flag \in BOOLEAN
  OBVIOUS
<1>3. heard = [sess EXCEPT !.capturing = FALSE,
                     !.autoSpeechActive = @ /\ sess.listeningMode # "auto"]
  BY <1>1 DEF Session
<1>4. sess' \in {FailClosed(heard), heard, BeginSpeechDelivery(said, c), ready}
  BY <1>3 DEF Detect, ClientInput, Handle
<1> HIDE DEF flag
<1>5. still \in Session /\ Alike(sess, still)
  BY <1>1, Beside, Updates
<1> HIDE DEF still
<1>6. heard \in Session /\ Alike(still, heard)
  BY <1>2, <1>5, Beside, Updates
<1> HIDE DEF heard
<1>7. Quiet(sess, heard)
  BY <1>1, <1>5, <1>6, AlikeQuiet, FadesOn
<1>8. Quiet(sess, off) /\ off \in Session
  BY <1>1, <1>7, FadesOn
<1> HIDE DEF off
<1>9. Quiet(sess, fresh) /\ fresh \in Session
  BY <1>1, <1>8, FadesOn
<1> HIDE DEF fresh
<1>10. begun \in Session /\ Alike(fresh, begun) /\ ready \in Session /\ Alike(off, ready)
  BY <1>8, <1>9, Beside, Updates
<1> HIDE DEF begun, ready
<1>11. Quiet(sess, begun) /\ Quiet(sess, ready)
  BY <1>1, <1>8, <1>9, <1>10, FadesOn
<1>12. Quiet(sess, said) /\ said \in Session
  BY <1>1, <1>10, <1>11, RoundStartsQuietly, QuietOn, DeliveryTypes
<1> HIDE DEF said
<1>13. Quiet(sess, BeginSpeechDelivery(said, c)) /\ Quiet(sess, FailClosed(heard))
  BY <1>1, <1>7, <1>12, RoundStartsQuietly, QuietOn, FadesOn
<1> QED BY <1>1, <1>4, <1>7, <1>11, <1>13, AptWays

(* abort silences, whatever goes on. *)
LEMMA AbortApt ==
  ASSUME TypeOK, Voiced(sess, Due, Onair), NEW c \in Replies, Abort(c)
  PROVE  Apt(sess')
<1> DEFINE cut    == InterruptActiveTurn(sess)
           next   == AdvanceGeneration(cut)
           halted == [next EXCEPT !.capturing = FALSE]
           quiet  == [halted EXCEPT !.autoSpeechActive = FALSE, !.segment = FALSE]
           reset  == ResetVadCaptureCycle(quiet, c)
           busy   == [reset EXCEPT !.phase = "Processing"]
           shut   == CloseVad(halted)
           idle   == [shut EXCEPT !.listeningMode = "none",
                        !.listenArmPending = FALSE, !.autoResetPending = FALSE,
                        !.phase = "Ready"]
<1>1. sess \in Session /\ Quiet(sess, sess) /\ Calm(sess, Onair)
  BY AptWays DEF TypeOK
<1>2. Quiet(sess, cut) /\ Meant(cut) /\ Hushed(cut, Onair) /\ cut \in Session
  BY <1>1, FailuresApt, CancellationTypes
<1>3. sess' \in {idle, quiet, busy, reset}
  BY DEF Abort, ClientInput, Handle
<1> HIDE DEF cut
<1>4. Quiet(cut, next) /\ next \in Session
  BY <1>2, FadingSteps, TurnTypes
<1> HIDE DEF next
<1>5. halted \in Session /\ Alike(next, halted)
  BY <1>4, Beside, Updates
<1> HIDE DEF halted
<1>6. Quiet(cut, halted)
  BY <1>2, <1>4, <1>5, FadesOn
<1>7. Quiet(cut, shut) /\ shut \in Session
  BY <1>2, <1>6, FadesOn
<1> HIDE DEF shut
<1>8. idle \in Session /\ quiet \in Session
  BY <1>5, <1>7, Updates
<1>9. Alike(shut, idle) /\ Alike(halted, quiet)
  BY <1>5, <1>7 DEF Alike, Session
<1> HIDE DEF idle, quiet
<1>10. Quiet(cut, idle) /\ Quiet(cut, quiet)
  BY <1>2, <1>6, <1>7, <1>8, <1>9, FadesOn
<1>11. Quiet(cut, reset) /\ reset \in Session
  BY <1>2, <1>8, <1>10, RecognitionEndsQuietly, QuietOn, ResetVadCaptureCycleType
<1> HIDE DEF reset
<1>12. busy \in Session /\ Alike(reset, busy)
  BY <1>11, Beside, Updates
<1> HIDE DEF busy
<1>13. Quiet(cut, busy)
  BY <1>2, <1>11, <1>12, FadesOn
<1> QED BY <1>2, <1>3, <1>10, <1>11, <1>13, SilencedOn

(* Direct speech is admitted between two deliveries; so is its undo. *)
LEMMA AdmitDirectSpeechApt ==
  ASSUME TypeOK, Voiced(sess, Due, Onair), NEW c \in Replies, NEW answered \in BOOLEAN,
         AdmitDirectSpeech(answered, c)
  PROVE  Apt(sess')
<1> DEFINE next     == AdvanceGeneration(sess)
           fresh    == BeginActiveTurn(next)
           begun    == [fresh EXCEPT !.phase = "Processing"]
           admitted == BeginDirectSpeech(begun, "direct")
           undone   == InterruptActiveTurn(admitted)
<1>1. sess \in Session /\ Hushed(sess, Onair)
  BY DEF TypeOK, Voiced, Spoken, AdmitDirectSpeech, DirectSpeechBusy
<1>2. sess' \in {next, admitted, CompleteRecognition(undone, c)}
  BY DEF AdmitDirectSpeech, ClientInput, Handle
<1>3. Quiet(sess, next)
  BY <1>1, FadingSteps
<1> HIDE DEF next
<1>4. Quiet(sess, fresh) /\ fresh \in Session
  BY <1>1, <1>3, FadesOn
<1> HIDE DEF fresh
<1>5. begun \in Session /\ Alike(fresh, begun)
  BY <1>4, Beside, Updates
<1> HIDE DEF begun
<1>6. Quiet(sess, begun)
  BY <1>1, <1>4, <1>5, FadesOn
<1>7. Quiet(sess, admitted)
  BY <1>1, <1>5, <1>6, RoundStartsQuietly, QuietOn
<1> HIDE DEF admitted
<1>8. Quiet(sess, undone) /\ undone \in Session
  BY <1>1, <1>7, FadesOn
<1> HIDE DEF undone
<1>9. Quiet(sess, CompleteRecognition(undone, c))
  BY <1>1, <1>8, RecognitionEndsQuietly, QuietOn
<1> QED BY <1>1, <1>2, <1>3, <1>7, <1>9, AptWays

(* The answers of a recognition come when no delivery goes on; its cleanup *)
(* may come at any time. *)
LEMMA RecognitionApt ==
  ASSUME TypeOK, Voiced(sess, Due, Onair), NEW c \in Replies,
         AsrAnswers(c) \/ AsrFailed(c) \/ CleanupEvent
  PROVE  Apt(sess')
<1> DEFINE ended == ForgetAsr(sess)
           clean == [sess EXCEPT !.asrCleanup = FALSE]
           said  == CommitUserText(ended)
<1>1. sess \in Session /\ Quiet(sess, sess) /\ Calm(sess, Onair)
  BY AptWays DEF TypeOK
<1>2. Quiet(sess, ended) /\ ended \in Session
  BY <1>1, FadingSteps, TurnTypes
<1>3. CASE AsrFinalTimedOut \/ AsrCleanupTimedOut
  <2>1. sess' = FailClosed(sess)
    BY <1>3 DEF AsrFinalTimedOut, AsrCleanupTimedOut, Fault, Handle
  <2> QED BY <1>1, <2>1, FailuresApt
<1>4. CASE AsrFailed(c) \/ \E hasText \in BOOLEAN : AsrFinal(hasText, c)
  <2>1. Hushed(sess, Onair)
    BY <1>4 DEF AsrFailed, AsrFinal, AsrCurrent, Voiced, Spoken
  <2>2. sess' \in {BeginSpeechDelivery(said, c), CompleteRecognition(ended, c)}
    BY <1>4 DEF AsrFailed, AsrFinal, Provider, Fault, Handle
  <2> HIDE DEF ended
  <2>3. Quiet(sess, said) /\ said \in Session
    BY <1>1, <1>2, RoundStartsQuietly, QuietOn, DeliveryTypes
  <2> HIDE DEF said
  <2>4. Quiet(sess, BeginSpeechDelivery(said, c)) /\ Quiet(sess, CompleteRecognition(ended, c))
    BY <1>1, <1>2, <2>3, RoundStartsQuietly, RecognitionEndsQuietly, QuietOn
  <2> QED BY <2>1, <2>2, <2>4, AptWays
<1>5. CASE AsrCleanedUp
  <2>1. sess' = clean
    BY <1>5 DEF AsrCleanedUp, Provider, Handle
  <2>2. clean \in Session /\ Alike(sess, clean)
    BY <1>1, Beside, Updates
  <2>3. /\ clean.phase = sess.phase /\ clean.asr = sess.asr
        /\ clean.autoSpeechActive = sess.autoSpeechActive
        /\ clean.pendingDelivery = sess.pendingDelivery
    BY <1>1 DEF Session
  <2> HIDE DEF clean
  <2>4. CASE Hushed(sess, Onair)
    BY <1>1, <2>1, <2>2, <2>4, AlikeQuiet, AptWays
  <2>5. CASE Spoken(sess, Due, Onair)
    <3>1. sess.asr = "none" /\ ~sess.autoSpeechActive
      BY <2>5 DEF Spoken
    <3> QED BY <2>1, <2>2, <2>3, <2>5, <3>1, AptWays
  <2> QED BY <2>4, <2>5 DEF Voiced
<1> QED BY <1>3, <1>4, <1>5 DEF AsrAnswers, CleanupEvent

(* A refused frame costs a recognition, or the session. *)
LEMMA RefusedApt ==
  ASSUME TypeOK, Voiced(sess, Due, Onair), AsrPushRefused \/ VadPushRefused \/ VadFailed
  PROVE  Apt(sess')
<1> DEFINE off   == CancelAsr(sess)
           deaf  == [off EXCEPT !.capturing = FALSE]
           none  == sess.asr = "none"
           ready == [off EXCEPT !.phase = "Ready"]
           r     == [ready EXCEPT !.capturing = none]
<1>1. sess \in Session /\ Quiet(sess, sess) /\ Calm(sess, Onair)
  BY AptWays DEF TypeOK
<1>2. CASE VadPushRefused \/ VadFailed
  <2>1. sess' = FailClosed(sess)
    BY <1>2 DEF VadPushRefused, VadFailed, Fault, Handle
  <2> QED BY <1>1, <2>1, FailuresApt
<1>3. CASE AsrPushRefused
  <2>1. Hushed(sess, Onair)
    BY <1>3 DEF AsrPushRefused, Voiced, Spoken
  <2>2. off \in Session /\ Quiet(sess, off)
    BY <1>1, FadingSteps, TurnTypes
  <2>3. [off EXCEPT !.phase = "Ready", !.capturing = none] = r
    BY <2>2 DEF Session
  <2>4. sess' \in {off, deaf, r}
    BY <1>3, <2>3 DEF AsrPushRefused, Fault, Handle
  <2>5. none \in BOOLEAN
    OBVIOUS
  <2> HIDE DEF off, none
  <2>6. deaf \in Session /\ Alike(off, deaf) /\ ready \in Session /\ Alike(off, ready)
    BY <2>2, Beside, Updates
  <2> HIDE DEF deaf, ready
  <2>7. r \in Session /\ Alike(ready, r)
    BY <2>5, <2>6, Beside, Updates
  <2> HIDE DEF r
  <2>8. Quiet(sess, deaf) /\ Quiet(sess, ready)
    BY <1>1, <2>2, <2>6, FadesOn
  <2>9. Quiet(sess, r)
    BY <1>1, <2>7, <2>8, FadesOn
  <2> QED BY <2>1, <2>2, <2>4, <2>8, <2>9, AptWays
<1> QED BY <1>2, <1>3

(* Speech that begins over a delivery cuts it, or is not heard. *)
LEMMA SpeechStartApt ==
  ASSUME TypeOK, Voiced(sess, Due, Onair), NEW c \in Replies, NEW pushed \in BOOLEAN,
         SpeechStart(pushed, c)
  PROVE  Apt(sess')
<1> DEFINE heard == [sess EXCEPT !.segment = TRUE]
           cut   == InterruptActiveTurn(heard)
           next  == AdvanceGeneration(cut)
<1>1. sess \in Session /\ Quiet(sess, sess) /\ Calm(sess, Onair)
  BY AptWays DEF TypeOK
<1>2. heard \in Session /\ Alike(sess, heard)
  BY <1>1, Beside, Updates
<1>3. /\ heard.phase = sess.phase /\ heard.asr = sess.asr
      /\ heard.autoSpeechActive = sess.autoSpeechActive
      /\ heard.pendingDelivery = sess.pendingDelivery
  BY <1>1 DEF Session
<1>4. \/ sess' = heard
      \/ sess' = OpenAsrForSpeech(heard, pushed, c) /\ sess.turn = NoTurn
      \/ sess' = OpenAsrForSpeech(next, pushed, c)
  BY DEF SpeechStart, Handle
<1> HIDE DEF heard
<1>5. Quiet(sess, heard) /\ Calm(heard, Onair)
  BY <1>1, <1>2, <1>3, AlikeQuiet, CalmOn
<1>6. Quiet(sess, cut) /\ Meant(cut) /\ Hushed(cut, Onair) /\ cut \in Session
  BY <1>2, <1>5, FailuresApt, CancellationTypes
<1> HIDE DEF cut
<1>7. Quiet(cut, next) /\ next \in Session
  BY <1>6, FadingSteps, TurnTypes
<1> HIDE DEF next
<1>8. Quiet(cut, OpenAsrForSpeech(next, pushed, c))
  BY <1>6, <1>7, CaptureQuiet, QuietOn
<1>9. Apt(OpenAsrForSpeech(next, pushed, c))
  BY <1>6, <1>8, SilencedOn
<1>10. Quiet(sess, OpenAsrForSpeech(heard, pushed, c))
  BY <1>1, <1>2, <1>5, CaptureQuiet, QuietOn
<1>11. CASE Hushed(sess, Onair)
  BY <1>4, <1>5, <1>9, <1>10, <1>11, AptWays
<1>12. CASE Spoken(sess, Due, Onair)
  <2>1. sess.turn # NoTurn /\ sess.asr = "none" /\ ~sess.autoSpeechActive
    BY <1>12 DEF Spoken
  <2>2. Apt(heard)
    BY <1>2, <1>3, <1>12, <2>1, AptWays
  <2> QED BY <1>4, <1>9, <2>1, <2>2
<1> QED BY <1>11, <1>12 DEF Voiced

(* Speech that ends within a delivery was not heard. *)
LEMMA SpeechEndApt ==
  ASSUME TypeOK, Voiced(sess, Due, Onair), NEW c \in Replies, SpeechEnd(c)
  PROVE  Apt(sess')
<1> DEFINE over == [sess EXCEPT !.segment = FALSE]
           done == [over EXCEPT !.autoSpeechActive = FALSE, !.phase = "Processing"]
<1>1. sess \in Session /\ Quiet(sess, sess) /\ Calm(sess, Onair)
  BY AptWays DEF TypeOK
<1>2. over \in Session /\ Alike(sess, over)
  BY <1>1, Beside, Updates
<1>3. /\ over.phase = sess.phase /\ over.asr = sess.asr
      /\ over.autoSpeechActive = sess.autoSpeechActive
      /\ over.pendingDelivery = sess.pendingDelivery
  BY <1>1 DEF Session
<1>4. \/ sess' = over
      \/ sess.autoSpeechActive /\ sess' \in {FinishManual(done, c), CompleteRecognition(done, c)}
  BY DEF SpeechEnd, Provider, Handle
<1> HIDE DEF over
<1>5. Quiet(sess, over)
  BY <1>1, <1>2, AlikeQuiet
<1>6. CASE Hushed(sess, Onair)
  <2>1. done \in Session
    BY <1>2, Updates
  <2>2. Alike(over, done)
    BY <1>2 DEF Alike, Session
  <2> HIDE DEF done
  <2>3. Quiet(sess, done)
    BY <1>1, <1>5, <2>1, <2>2, FadesOn
  <2>4. Quiet(sess, FinishManual(done, c)) /\ Quiet(sess, CompleteRecognition(done, c))
    BY <1>1, <2>1, <2>3, CaptureQuiet, RecognitionEndsQuietly, QuietOn
  <2> QED BY <1>4, <1>5, <1>6, <2>4, AptWays
<1>7. CASE Spoken(sess, Due, Onair)
  <2>1. sess.asr = "none" /\ ~sess.autoSpeechActive
    BY <1>7 DEF Spoken
  <2> QED BY <1>2, <1>3, <1>4, <1>7, <2>1, AptWays
<1> QED BY <1>6, <1>7 DEF Voiced

(* The VAD worker answers; a playback keeps its phase. *)
LEMMA VadApt ==
  ASSUME TypeOK, Voiced(sess, Due, Onair), VadAnswers
  PROVE  Apt(sess')
<1> DEFINE ph  == IF sess.llmGen = 0 /\ ~sess.ttsStarted THEN "Listening" ELSE sess.phase
           ans == [sess EXCEPT !.autoResetPending = FALSE, !.cycle = TRUE,
                     !.vadReset = FALSE, !.segment = FALSE, !.phase = ph]
           off == [sess EXCEPT !.vad = "none"]
<1>1. sess \in Session /\ Quiet(sess, sess)
  BY AptWays DEF TypeOK
<1>2. ph \in {"Listening", sess.phase} /\ (sess.ttsStarted => ph = sess.phase)
      /\ ph \in {"Ready", "Listening", "Processing", "Speaking", "Closed"}
  BY <1>1 DEF Session
<1>3. sess' \in {ans, off}
  BY DEF VadAnswers, ResetDone, VadClosed, Provider, Handle
<1> HIDE DEF ph
<1>4. ans \in Session /\ off \in Session
  BY <1>1, <1>2, Updates
<1>5. Alike(sess, ans)
  BY <1>1 DEF Alike, Session
<1>6. Alike(sess, off)
  BY <1>1, Beside
<1>7. /\ ans.phase = ph /\ ans.asr = sess.asr /\ ans.autoSpeechActive = sess.autoSpeechActive
      /\ ans.pendingDelivery = sess.pendingDelivery
  BY <1>1 DEF Session
<1>8. /\ off.phase = sess.phase /\ off.asr = sess.asr
      /\ off.autoSpeechActive = sess.autoSpeechActive
      /\ off.pendingDelivery = sess.pendingDelivery
  BY <1>1 DEF Session
<1> HIDE DEF ans, off
<1>9. CASE Hushed(sess, Onair)
  BY <1>1, <1>3, <1>4, <1>5, <1>6, <1>9, AlikeQuiet, AptWays
<1>10. CASE Spoken(sess, Due, Onair)
  <2>1. sess.asr = "none" /\ ~sess.autoSpeechActive /\ sess.ttsStarted
    BY <1>10 DEF Spoken
  <2>2. Apt(ans)
    BY <1>2, <1>4, <1>5, <1>7, <1>10, <2>1, AptWays
  <2>3. Apt(off)
    BY <1>4, <1>6, <1>8, <1>10, <2>1, AptWays
  <2> QED BY <1>3, <2>2, <2>3
<1> QED BY <1>9, <1>10 DEF Voiced

(* A handler may change what is no part of the delivery. *)
LEMMA AsideApt ==
  ASSUME TypeOK, Voiced(sess, Due, Onair), NEW r \in Session, Alike(sess, r),
         r.phase = sess.phase, r.asr = sess.asr, r.autoSpeechActive = sess.autoSpeechActive,
         r.pendingDelivery = sess.pendingDelivery
  PROVE  Apt(r) /\ Quiet(sess, r) /\ Calm(r, Onair)
<1>1. sess \in Session /\ Calm(sess, Onair) /\ (Hushed(sess, Onair) \/ Spoken(sess, Due, Onair))
  BY AptWays DEF TypeOK, Voiced
<1>2. Quiet(sess, r) /\ Calm(r, Onair)
  BY <1>1, AlikeQuiet, CalmOn
<1>3. CASE Hushed(sess, Onair)
  BY <1>2, <1>3, AptWays
<1>4. CASE Spoken(sess, Due, Onair)
  <2>1. r.asr = "none" /\ ~r.autoSpeechActive
    BY <1>4 DEF Spoken
  <2>2. r.phase \in {sess.phase, "Speaking"}
    OBVIOUS
  <2>3. Apt(r)
    BY <1>4, <2>1, <2>2, AptWays
  <2> QED BY <1>2, <2>3
<1> QED BY <1>1, <1>2, <1>3, <1>4

(* The answers of a model round: text to speak, calls, or the end of the *)
(* delivery. *)
LEMMA ModelRoundApt ==
  ASSUME TypeOK, OwnInv, Voiced(sess, Due, Onair), NEW c \in Replies, LlmAnswers(c)
  PROVE  Apt(sess')
<1> DEFINE ended  == [sess EXCEPT !.llmGen = 0]
           asked  == [ended EXCEPT !.batchGen = sess.generation]
           told   == [ended EXCEPT !.speech = "finished"]
           spoken == [sess EXCEPT !.speech = "partial"]
<1>1. sess \in Session /\ Quiet(sess, sess) /\ Calm(sess, Onair) /\ sess.generation \in Nat
      /\ Owned(sess, Due, Started)
  BY AptWays, Fields DEF TypeOK, OwnInv
<1>2. /\ ended \in Session /\ Alike(sess, ended)
      /\ spoken \in Session /\ Alike(sess, spoken)
  BY <1>1, Beside, Updates
<1>3. /\ ended.phase = sess.phase /\ ended.asr = sess.asr
      /\ ended.autoSpeechActive = sess.autoSpeechActive
      /\ ended.pendingDelivery = sess.pendingDelivery
      /\ spoken.phase = sess.phase /\ spoken.asr = sess.asr
      /\ spoken.autoSpeechActive = sess.autoSpeechActive
      /\ spoken.pendingDelivery = sess.pendingDelivery
  BY <1>1 DEF Session
<1>4. /\ sess.llmGen # 0
      /\ \/ sess' \in {spoken, told, asked, FailSpeechDelivery(ended, c), FailSpeechDelivery(sess, c)}
         \/ sess' = CompleteRecognition(ended, c) /\ sess.speech # "partial"
  BY DEF LlmAnswers, LlmDelta, LlmFinished, LlmFailed, LlmCallsTools, LlmCurrent,
         Provider, Fault, Handle
<1> HIDE DEF ended, spoken
<1>5. /\ told \in Session /\ Alike(ended, told) /\ asked \in Session /\ Alike(ended, asked)
  BY <1>1, <1>2, Beside, Updates
<1>6. /\ told.phase = ended.phase /\ told.asr = ended.asr
      /\ told.autoSpeechActive = ended.autoSpeechActive
      /\ told.pendingDelivery = ended.pendingDelivery
      /\ asked.phase = ended.phase /\ asked.asr = ended.asr
      /\ asked.autoSpeechActive = ended.autoSpeechActive
      /\ asked.pendingDelivery = ended.pendingDelivery
  BY <1>2 DEF Session
<1> HIDE DEF told, asked
<1>7. Alike(sess, told) /\ Alike(sess, asked)
  BY <1>2, <1>5 DEF Alike
<1>8. Apt(spoken) /\ Apt(told) /\ Apt(asked) /\ Quiet(sess, ended) /\ Calm(ended, Onair)
  BY <1>2, <1>3, <1>5, <1>6, <1>7, AsideApt
<1>9. Apt(FailSpeechDelivery(ended, c)) /\ Apt(FailSpeechDelivery(sess, c))
  BY <1>1, <1>8, FailuresApt
<1>10. sess.speech # "partial" => Apt(CompleteRecognition(ended, c))
  <2> SUFFICES ASSUME sess.speech # "partial" PROVE Apt(CompleteRecognition(ended, c))
    OBVIOUS
  <2>1. Hushed(sess, Onair)
    BY <1>1, <1>4, SpokenOwned DEF Voiced
  <2>2. Quiet(sess, CompleteRecognition(ended, c))
    BY <1>1, <1>2, <1>8, RecognitionEndsQuietly, QuietOn
  <2> QED BY <2>1, <2>2, AptWays
<1> QED BY <1>4, <1>8, <1>9, <1>10

(* Arming the close and finishing a batch are beside a delivery. *)
LEMMA ToolsApt ==
  ASSUME TypeOK, OwnInv, Voiced(sess, Due, Onair), NEW c \in Replies, ArmClose \/ ToolEvent(c)
  PROVE  Apt(sess')
<1> DEFINE armed == [sess EXCEPT !.closeAfter = sess.turn]
           done  == [sess EXCEPT !.batchGen = 0]
           next  == done.rounds + 1
           again == [done EXCEPT !.rounds = next]
<1>1. sess \in Session /\ Quiet(sess, sess) /\ Calm(sess, Onair) /\ sess.turn \in Turns
      /\ Owned(sess, Due, Started)
  BY AptWays, Fields DEF TypeOK, OwnInv, Turns
<1>2. /\ armed \in Session /\ Alike(sess, armed) /\ done \in Session /\ Alike(sess, done)
  BY <1>1, Beside, Updates
<1>3. /\ armed.phase = sess.phase /\ armed.asr = sess.asr
      /\ armed.autoSpeechActive = sess.autoSpeechActive
      /\ armed.pendingDelivery = sess.pendingDelivery
      /\ done.phase = sess.phase /\ done.asr = sess.asr
      /\ done.autoSpeechActive = sess.autoSpeechActive
      /\ done.pendingDelivery = sess.pendingDelivery
  BY <1>1 DEF Session
<1>4. Apt(armed) /\ Apt(done) /\ Quiet(sess, done)
  BY <1>2, <1>3, AsideApt
<1>5. CASE ArmClose
  BY <1>4, <1>5 DEF ArmClose, Provider, Handle
<1>6. CASE ToolEvent(c)
  <2>1. \/ sess' = done
        \/ /\ Batched(sess)
           /\ sess' \in {BeginDirectSpeech(done, "tool"), StartLlmRound(again, c),
                         CompleteRecognition(done, c)}
    BY <1>6 DEF ToolEvent, FinishToolBatch, Provider, Handle, Batched
  <2>2. Batched(sess) => Hushed(sess, Onair)
    BY <1>1, SpokenOwned DEF Voiced
  <2>3. done.rounds \in Nat /\ next \in Nat
    <3>1. done.rounds \in Nat
      BY <1>2 DEF Session
    <3> QED BY <3>1
  <2> HIDE DEF done, next
  <2>4. again \in Session /\ Alike(done, again)
    BY <1>2, <2>3, Beside, Updates
  <2> HIDE DEF again
  <2>5. Quiet(sess, again)
    BY <1>1, <1>4, <2>4, FadesOn
  <2>6. /\ Quiet(sess, BeginDirectSpeech(done, "tool")) /\ Quiet(sess, StartLlmRound(again, c))
        /\ Quiet(sess, CompleteRecognition(done, c))
    BY <1>1, <1>2, <1>4, <2>4, <2>5, RoundStartsQuietly, RecognitionEndsQuietly, QuietOn
  <2> QED BY <1>4, <2>1, <2>2, <2>6, AptWays
<1> QED BY <1>5, <1>6

(* Text that accompanies a delivery leaves it going on. *)
LEMMA TextSpoken ==
  ASSUME NEW s \in Session, NEW g \in Nat, NEW t \in Nat, NEW W, NEW A,
         Meant(s), Spoken(s, W, A)
  PROVE  LET r == OfferControl(s, Msg("text", g, t)) IN Meant(r) /\ Spoken(r, W, A)
<1> DEFINE m == Msg("text", g, t)
           q == Append(s.control, m)
           r == [s EXCEPT !.control = q]
<1>1. m \in Message(ControlKinds) /\ m.kind = "text"
  BY MessageTypes DEF Turns, Msg
<1>2. OfferControl(s, m) \in {s, r}
  BY DEF OfferControl
<1>3. s.control \in Seq(Message(ControlKinds))
  BY Fields DEF Lane
<1> HIDE DEF m
<1>4. /\ {q[i] : i \in DOMAIN q} = {s.control[i] : i \in DOMAIN s.control} \union {m}
      /\ DOMAIN q = 1..(Len(s.control) + 1) /\ DOMAIN s.control = 1..Len(s.control)
      /\ Len(s.control) \in Nat
      /\ \A i \in DOMAIN s.control : q[i] = s.control[i]
      /\ q[Len(s.control) + 1] = m
  BY <1>1, <1>3, AppendedAt
<1>5. \A k, u : Holds(q, k, u) <=> Holds(s.control, k, u) \/ (m.kind = k /\ m.turn = u)
  BY <1>1, <1>3, Appended
<1> HIDE DEF q
<1>6. /\ r.control = q /\ r.urgent = s.urgent /\ r.gate = s.gate /\ r.generation = s.generation
      /\ r.audio = s.audio /\ r.pendingAudio = s.pendingAudio
      /\ r.ttsStarted = s.ttsStarted /\ r.playing = s.playing /\ r.turn = s.turn
      /\ r.phase = s.phase /\ r.asr = s.asr /\ r.autoSpeechActive = s.autoSpeechActive
      /\ r.pendingDelivery = s.pendingDelivery
  BY DEF Session
<1> HIDE DEF r
<1>7. Queued(r) = Queued(s)
  BY <1>1, <1>4, <1>6 DEF Queued
<1>8. \A i, j \in DOMAIN q :
        i < j /\ q[i].kind = "finish" /\ q[j].kind = "start" /\ q[i].turn = q[j].turn => q[j].gen <= s.gate
  <2> SUFFICES ASSUME NEW i \in DOMAIN q, NEW j \in DOMAIN q, i < j, q[i].kind = "finish",
                      q[j].kind = "start", q[i].turn = q[j].turn
               PROVE  q[j].gen <= s.gate
    OBVIOUS
  <2>1. i \in DOMAIN s.control /\ j \in DOMAIN s.control
    BY <1>1, <1>4
  <2> QED BY <1>4, <2>1 DEF Spoken
<1>9. Ends(r, W, r.turn) <=> Ends(s, W, s.turn)
  BY <1>1, <1>5, <1>6 DEF Ends
<1>10. Meant(r) /\ Spoken(r, W, A)
  BY <1>6, <1>7, <1>8, <1>9 DEF Meant, Spoken
<1> QED BY <1>2, <1>10 DEF m

(* The packet that waited is the same packet in the audio lane. *)
LEMMA FlushApt ==
  ASSUME TypeOK, Voiced(sess, Due, Onair), FlushPendingAudio
  PROVE  Apt(sess')
<1> DEFINE p     == sess.pendingAudio
           taken == [sess EXCEPT !.pendingAudio = NoMsg]
           q     == Append(sess.audio, p)
           r     == [taken EXCEPT !.audio = q]
<1>1. sess \in Session /\ sess.generation \in Nat /\ sess.gate \in Nat /\ sess.nextTurnId \in Nat
  BY Fields DEF TypeOK
<1>2. p \in Message(AudioKinds) /\ sess.audio \in Lane(AudioKinds, AudioCap)
  BY <1>1, Fields DEF FlushPendingAudio, Polled
<1>3. sess' = (IF sess.lanesOpen THEN r ELSE taken) /\ (sess.lanesOpen => Len(sess.audio) < AudioCap)
  <2>1. taken.audio = sess.audio
    BY <1>1 DEF Session
  <2> QED BY <2>1 DEF FlushPendingAudio, AudioRoom, Provider, Handle
<1>4. {q[i] : i \in DOMAIN q} = {sess.audio[i] : i \in DOMAIN sess.audio} \union {p}
  BY <1>2, AppendedAt DEF Lane
<1>5. sess.lanesOpen => q \in Lane(AudioKinds, AudioCap)
  BY <1>2, <1>3, LaneAppend, LimitsAssumption
<1>6. /\ taken \in Session /\ taken.pendingAudio = NoMsg /\ taken.audio = sess.audio
      /\ taken.gate = sess.gate /\ taken.generation = sess.generation /\ taken.urgent = sess.urgent
      /\ taken.control = sess.control /\ taken.ttsStarted = sess.ttsStarted
      /\ taken.playing = sess.playing /\ taken.turn = sess.turn
      /\ taken.nextTurnId = sess.nextTurnId /\ taken.phase = sess.phase
      /\ taken.asr = sess.asr /\ taken.autoSpeechActive = sess.autoSpeechActive
      /\ taken.pendingDelivery = sess.pendingDelivery
  <2>1. taken \in Session
    BY <1>1, MessageTypes, Updates
  <2> QED BY <1>1, <2>1 DEF Session
<1> HIDE DEF taken, q
<1>7. /\ r.pendingAudio = NoMsg /\ r.audio = q
      /\ r.gate = sess.gate /\ r.generation = sess.generation /\ r.urgent = sess.urgent
      /\ r.control = sess.control /\ r.ttsStarted = sess.ttsStarted
      /\ r.playing = sess.playing /\ r.turn = sess.turn
      /\ r.nextTurnId = sess.nextTurnId /\ r.phase = sess.phase
      /\ r.asr = sess.asr /\ r.autoSpeechActive = sess.autoSpeechActive
      /\ r.pendingDelivery = sess.pendingDelivery
  BY <1>6 DEF Session
<1>8. sess.lanesOpen => r \in Session
  BY <1>5, <1>6, Updates
<1>9. NoMsg.kind # "binary"
  BY DEF NoMsg, Msg
<1> HIDE DEF r, p
<1>10. Queued(taken) \subseteq Queued(sess)
  BY <1>6, <1>9 DEF Queued
<1>11. Queued(r) \subseteq Queued(sess)
  BY <1>4, <1>7, <1>9 DEF Queued, p
<1>12. ASSUME NEW z \in Session, Queued(z) \subseteq Queued(sess), 
              z.gate = sess.gate, z.generation = sess.generation, z.urgent = sess.urgent,
              z.control = sess.control, z.ttsStarted = sess.ttsStarted,
              z.playing = sess.playing, z.turn = sess.turn,
              z.nextTurnId = sess.nextTurnId, z.phase = sess.phase,
              z.asr = sess.asr, z.autoSpeechActive = sess.autoSpeechActive,
              z.pendingDelivery = sess.pendingDelivery
       PROVE  Apt(z)
  <2> DEFINE W == Due
             A == Onair
  <2>1. Meant(sess) /\ (Hushed(sess, A) \/ Spoken(sess, W, A))
    BY DEF Voiced
  <2> HIDE DEF W, A
  <2>2. Meant(z)
    BY <1>12, <2>1 DEF Meant
  <2>3. Hushed(sess, A) => Hushed(z, A)
    BY <1>12 DEF Hushed
  <2>4. Spoken(sess, W, A) => Spoken(z, W, A)
    <3>1. Ends(z, W, z.turn) <=> Ends(sess, W, sess.turn)
      BY <1>12 DEF Ends
    <3> QED BY <1>12, <3>1 DEF Spoken
  <2>5. Steady(sess, z)
    BY <1>1, <1>12 DEF Steady, Parts
  <2> QED BY <2>1, <2>2, <2>3, <2>4, <2>5 DEF Apt, Voiced, W, A
<1> QED BY <1>3, <1>6, <1>7, <1>8, <1>10, <1>11, <1>12

(* A turn is only released or begun, twice. *)
LEMMA SteadyOn ==
  ASSUME NEW s \in Session, NEW r \in Session, NEW q \in Session, Steady(s, r), Steady(r, q)
  PROVE  Steady(s, q)
<1>1. /\ s.nextTurnId \in Nat /\ r.nextTurnId \in Nat /\ q.nextTurnId \in Nat
      /\ s.turn \in Nat /\ r.turn \in Nat /\ q.turn \in Nat
  BY DEF Session, Turns
<1>2. q.nextTurnId >= s.nextTurnId /\ (Parts(q) => Parts(s))
  BY <1>1 DEF Steady
<1>3. q.turn \in {s.turn, NoTurn} \/ q.turn >= s.nextTurnId
  BY <1>1 DEF Steady
<1> QED BY <1>2, <1>3 DEF Steady

(* Text offered to an apt session leaves it apt. *)
LEMMA TextApt ==
  ASSUME TypeOK, NEW s, Apt(s), NEW g \in Nat, NEW t \in Nat
  PROVE  Apt(OfferControl(s, Msg("text", g, t)))
<1> DEFINE r == OfferControl(s, Msg("text", g, t))
           W == Due
           A == Onair
<1>1. s \in Session /\ sess \in Session /\ Meant(s) /\ (Hushed(s, A) \/ Spoken(s, W, A))
      /\ Steady(sess, s)
  BY DEF Apt, Voiced, TypeOK
<1> HIDE DEF W, A
<1>2. Quiet(s, r)
  BY <1>1, CommandsQuiet
<1>3. Hushed(s, A) => Meant(r) /\ Hushed(r, A)
  BY <1>1, <1>2, HushedOn
<1>4. Spoken(s, W, A) => Meant(r) /\ Spoken(r, W, A)
  BY <1>1, TextSpoken
<1> HIDE DEF r
<1>5. r \in Session /\ Steady(sess, r)
  BY <1>1, <1>2, SteadyOn DEF Quiet
<1>6. Apt(r)
  BY <1>1, <1>3, <1>4, <1>5 DEF Apt, Voiced, W, A
<1> QED BY <1>6 DEF r

(* A delivery that fails after it was begun is silenced. *)
LEMMA FailedApt ==
  ASSUME TypeOK, NEW s \in Session, Steady(sess, s), Calm(s, Onair), NEW c
  PROVE  Apt(FailSpeechDelivery(s, c))
<1> DEFINE r == FailSpeechDelivery(s, c)
<1>1. Quiet(s, r) /\ Meant(r) /\ Hushed(r, Onair)
  BY DeliveryFailsQuietly
<1> HIDE DEF r
<1>2. sess \in Session /\ r \in Session /\ Steady(s, r)
  BY <1>1 DEF Quiet, TypeOK
<1>3. Steady(sess, r)
  BY <1>2, SteadyOn
<1>4. Apt(r)
  BY <1>1, <1>2, <1>3 DEF Apt, Voiced
<1> QED BY <1>4 DEF r

(* A segment is announced; a model turn also shows its text. *)
LEMMA SegmentApt ==
  ASSUME TypeOK, Voiced(sess, Due, Onair), NEW c \in Replies, SegmentReady(c)
  PROVE  Apt(sess')
<1> DEFINE said == [sess EXCEPT !.announced = TRUE]
           told == OfferControl(said, Msg("text", sess.generation, sess.turn))
<1>1. sess \in Session /\ sess.generation \in Nat /\ sess.turn \in Nat
  BY Fields DEF TypeOK
<1>2. said \in Session /\ Alike(sess, said)
  BY <1>1, Beside, Updates
<1>3. /\ said.phase = sess.phase /\ said.asr = sess.asr
      /\ said.autoSpeechActive = sess.autoSpeechActive
      /\ said.pendingDelivery = sess.pendingDelivery
  BY <1>1 DEF Session
<1>4. sess' \in {said, told, FailSpeechDelivery(said, c)}
  BY DEF SegmentReady, Provider, Handle
<1> HIDE DEF said
<1>5. Apt(said) /\ Quiet(sess, said) /\ Calm(said, Onair)
  BY <1>2, <1>3, AsideApt
<1>6. Apt(told)
  BY <1>1, <1>5, TextApt
<1>7. Apt(FailSpeechDelivery(said, c))
  BY <1>5, FailuresApt
<1> QED BY <1>4, <1>5, <1>6, <1>7

(* The first start of a turn with no outcome under way is its own delivery. *)
LEMMA StartSpoken ==
  ASSUME NEW s \in Session, NEW W, NEW A, Meant(s),
         s.ttsStarted, s.playing, s.turn # NoTurn, s.phase = "Speaking",
         s.asr = "none", ~s.autoSpeechActive, ~Ends(s, W, s.turn),
         \A m \in Queued(s) : m.gen > s.gate => m.kind = "binary" /\ m.turn \notin A
  PROVE  LET r == OfferControl(s, Msg("start", s.generation, s.turn)) IN
         r \in Session /\ Meant(r) /\ Spoken(r, W, A) /\ Alike([s EXCEPT !.control = r.control], r)
<1> DEFINE m == Msg("start", s.generation, s.turn)
           q == Append(s.control, m)
           r == [s EXCEPT !.control = q]
<1>1. /\ m \in Message(ControlKinds) /\ m.kind = "start" /\ m.gen = s.generation
      /\ m.turn = s.turn /\ s.generation \in Nat /\ s.gate \in Nat
  <2>1. s.generation \in Nat /\ s.turn \in Nat /\ s.gate \in Nat
    BY Fields
  <2> QED BY <2>1, MessageTypes DEF Turns, Msg
<1>2. OfferControl(s, m) \in {s, r} /\ OfferControl(s, m) \in Session
  BY <1>1, OfferControlType DEF OfferControl
<1>3. s.control \in Seq(Message(ControlKinds))
  BY Fields DEF Lane
<1> HIDE DEF m
<1>4. /\ {q[i] : i \in DOMAIN q} = {s.control[i] : i \in DOMAIN s.control} \union {m}
      /\ DOMAIN q = 1..(Len(s.control) + 1) /\ DOMAIN s.control = 1..Len(s.control)
      /\ Len(s.control) \in Nat
      /\ \A i \in DOMAIN s.control : q[i] = s.control[i]
      /\ q[Len(s.control) + 1] = m
  BY <1>1, <1>3, AppendedAt
<1>5. \A k, u : Holds(q, k, u) <=> Holds(s.control, k, u) \/ (m.kind = k /\ m.turn = u)
  BY <1>1, <1>3, Appended
<1> HIDE DEF q
<1>6. /\ r.control = q /\ r.urgent = s.urgent /\ r.gate = s.gate /\ r.generation = s.generation
      /\ r.audio = s.audio /\ r.pendingAudio = s.pendingAudio
      /\ r.ttsStarted = s.ttsStarted /\ r.playing = s.playing /\ r.turn = s.turn
      /\ r.phase = s.phase /\ r.asr = s.asr /\ r.autoSpeechActive = s.autoSpeechActive
      /\ r.pendingDelivery = s.pendingDelivery
  BY DEF Session
<1>7. Alike([s EXCEPT !.control = s.control], s) /\ Alike([s EXCEPT !.control = r.control], r)
  BY DEF Alike, Session
<1> HIDE DEF r
<1>8. Queued(r) = Queued(s) \union {m}
  BY <1>1, <1>4, <1>6 DEF Queued
<1>9. \A j \in DOMAIN s.control : s.control[j].kind = "start" => s.control[j].gen <= s.gate
  <2> SUFFICES ASSUME NEW j \in DOMAIN s.control, s.control[j].kind = "start"
               PROVE  s.control[j].gen <= s.gate
    OBVIOUS
  <2>1. s.control[j] \in Queued(s)
    BY DEF Queued
  <2>2. s.control[j].gen \in Nat
    BY <2>1, QueuedTypes
  <2> QED BY <1>1, <2>1, <2>2
<1>10. s.turn \notin W /\ ~Holds(s.urgent, "abort", s.turn) /\ ~Holds(s.control, "finish", s.turn)
  BY DEF Ends
<1>11. Spoken(s, W, A)
  BY <1>9, <1>10 DEF Spoken
<1>12. \A i, j \in DOMAIN q :
         i < j /\ q[i].kind = "finish" /\ q[j].kind = "start" /\ q[i].turn = q[j].turn => q[j].gen <= s.gate
  <2> SUFFICES ASSUME NEW i \in DOMAIN q, NEW j \in DOMAIN q, i < j, q[i].kind = "finish",
                      q[j].kind = "start", q[i].turn = q[j].turn
               PROVE  q[j].gen <= s.gate
    OBVIOUS
  <2>1. i \in DOMAIN s.control /\ q[i] = s.control[i]
    BY <1>4
  <2>2. j \in DOMAIN s.control
    BY <1>1, <1>4, <1>10, <2>1 DEF Holds
  <2> QED BY <1>4, <1>9, <2>2
<1>13. Meant(r)
  BY <1>1, <1>6, <1>8 DEF Meant
<1>14. Spoken(r, W, A)
  BY <1>1, <1>6, <1>8, <1>10, <1>12 DEF Spoken
<1> QED BY <1>2, <1>7, <1>11, <1>13, <1>14 DEF m

(* Playback starts into silence. *)
LEMMA SpeechStartedApt ==
  ASSUME TypeOK, OwnInv, Voiced(sess, Due, Onair), NEW c \in Replies, SpeechStarted(c)
  PROVE  Apt(sess')
<1> DEFINE W == Due
           V == Started
           A == Onair
           begun == [sess EXCEPT !.playing = TRUE, !.ttsStarted = TRUE,
                                 !.phase = "Speaking"]
           start == OfferControl(begun, Msg("start", sess.generation, sess.turn))
           told  == OfferControl(start, Msg("text", sess.generation, sess.turn))
<1>1. /\ sess \in Session /\ Owned(sess, W, V) /\ sess.announced /\ ~sess.playing
      /\ Meant(sess) /\ (Hushed(sess, A) \/ Spoken(sess, W, A))
      /\ sess.generation \in Nat /\ sess.turn \in Nat /\ sess.nextTurnId \in Nat
  BY Fields DEF TypeOK, OwnInv, SpeechStarted, Voiced
<1>2. sess.speech # "idle"
  BY <1>1 DEF Owned, Base
<1>3. /\ begun.nextTurnId = sess.nextTurnId /\ begun.turn = sess.turn
      /\ begun.generation = sess.generation /\ begun.gate = sess.gate
      /\ begun.playing = TRUE /\ begun.asr = sess.asr /\ begun.ttsStarted = TRUE
      /\ begun.autoSpeechActive = sess.autoSpeechActive
      /\ begun.phase = "Speaking" /\ begun.audio = sess.audio
      /\ begun.pendingAudio = sess.pendingAudio
      /\ begun.urgent = sess.urgent /\ begun.control = sess.control
  BY <1>1 DEF Session
<1>4. begun \in Session
  BY <1>1, Updates
<1>5. sess' \in {FailSpeechDelivery(begun, c), start, told, FailSpeechDelivery(start, c)}
  BY DEF SpeechStarted, Provider, Handle
<1>6. start = OfferControl(begun, Msg("start", begun.generation, begun.turn))
  BY <1>3
<1> HIDE DEF begun, W, V, A
<1>7. Hushed(sess, A)
  BY <1>1, SpokenOwned
<1>8. /\ sess.asr = "none" /\ sess.turn # NoTurn
      /\ ~Ends(sess, W, sess.turn) /\ ~sess.autoSpeechActive
  <2>1. ~Idle(sess)
    BY <1>2 DEF Idle
  <2> QED BY <1>1, <2>1, AtWork
<1>9. Queued(begun) = Queued(sess) /\ (Ends(begun, W, begun.turn) <=> Ends(sess, W, sess.turn))
  BY <1>3 DEF Queued, Ends
<1>10. Meant(begun) /\ Calm(begun, A) /\ Steady(sess, begun)
  BY <1>1, <1>3, <1>8, <1>9 DEF Meant, Calm, Steady, Parts
<1>11. \A m \in Queued(begun) : m.gen > begun.gate => m.kind = "binary" /\ m.turn \notin A
  BY <1>3, <1>7, <1>9 DEF Hushed
<1>12. /\ start \in Session /\ Meant(start) /\ Spoken(start, W, A)
       /\ Alike([begun EXCEPT !.control = start.control], start)
  <2>1. /\ Meant(begun) /\ begun.ttsStarted /\ begun.playing /\ begun.turn # NoTurn
        /\ begun.phase = "Speaking" /\ begun.asr = "none" /\ ~begun.autoSpeechActive
        /\ ~Ends(begun, W, begun.turn)
    BY <1>3, <1>8, <1>9, <1>10
  <2> HIDE DEF start
  <2>2. LET r == OfferControl(begun, Msg("start", begun.generation, begun.turn)) IN
         r \in Session /\ Meant(r) /\ Spoken(r, W, A)
           /\ Alike([begun EXCEPT !.control = r.control], r)
    BY <1>4, <1>11, <2>1, StartSpoken
  <2> QED BY <1>6, <2>2
<1> HIDE DEF start
<1>13. Apt(start) /\ Calm(start, A)
  <2>1. /\ start.urgent = begun.urgent /\ start.turn = begun.turn
        /\ start.nextTurnId = begun.nextTurnId
    BY <1>4, <1>12 DEF Alike, Session
  <2>2. Steady(sess, start)
    BY <1>1, <1>3, <2>1 DEF Steady, Parts
  <2> QED BY <1>12, <2>2 DEF Apt, Voiced, Calm, Spoken, W, A
<1>14. Apt(told)
  BY <1>1, <1>13, TextApt
<1>15. Apt(FailSpeechDelivery(begun, c))
  BY <1>4, <1>10, FailedApt DEF A
<1>16. Apt(FailSpeechDelivery(start, c))
  BY <1>12, <1>13, FailedApt DEF Apt, A
<1> QED BY <1>5, <1>13, <1>14, <1>15, <1>16

(* A packet is of the turn and the generation the delivery is. *)
LEMMA AudioApt ==
  ASSUME TypeOK, TypeOK', Voiced(sess, Due, Onair), NEW c \in Replies, AudioPacket(c)
  PROVE  Apt(sess')
<1> DEFINE W == Due
           A == Onair
           packet == Msg("binary", sess.generation, sess.turn)
           sent   == [sess EXCEPT !.packets = @ + 1]
           q      == Append(sess.audio, packet)
           r1     == [sent EXCEPT !.audio = q]
           r2     == [sent EXCEPT !.pendingAudio = packet]
<1>1. /\ sess \in Session /\ sess' \in Session /\ sess.playing
      /\ Meant(sess) /\ (Hushed(sess, A) \/ Spoken(sess, W, A))
      /\ sess.generation \in Nat /\ sess.turn \in Nat /\ sess.gate \in Nat /\ sess.packets \in Nat
      /\ sess.nextTurnId \in Nat /\ sess.audio \in Seq(Message(AudioKinds))
  BY Fields DEF TypeOK, Voiced, AudioPacket, Lane
<1>2. Spoken(sess, W, A)
  BY <1>1 DEF Hushed
<1>3. sent \in Session /\ Alike(sess, sent)
  <2>1. sess.packets + 1 \in Nat
    BY <1>1
  <2> QED BY <1>1, <2>1, Beside, Updates
<1>4. /\ sent.phase = sess.phase /\ sent.asr = sess.asr
      /\ sent.autoSpeechActive = sess.autoSpeechActive
      /\ sent.pendingDelivery = sess.pendingDelivery
  BY <1>1 DEF Session
<1>5. \/ sess' \in {FailSpeechDelivery(sent, c), sent}
      \/ sess.turn # NoTurn /\ sess' \in {r1, r2}
  <2>1. sent.audio = sess.audio
    BY <1>3 DEF Alike
  <2> QED BY <2>1 DEF AudioPacket, Provider, Handle
<1> HIDE DEF sent
<1>6. Apt(sent) /\ Apt(FailSpeechDelivery(sent, c))
  <2>1. Apt(sent) /\ Quiet(sess, sent) /\ Calm(sent, Onair)
    BY <1>3, <1>4, AsideApt
  <2> QED BY <2>1, FailuresApt
<1>7. /\ packet \in Message(AudioKinds) /\ packet.kind = "binary" /\ packet.turn = sess.turn
      /\ packet.gen = sess.generation
  <2>1. packet \in Message(AudioKinds)
    BY <1>1, MessageTypes DEF Turns
  <2> QED BY <2>1 DEF Msg
<1> HIDE DEF packet
<1>8. {q[i] : i \in DOMAIN q} = {sess.audio[i] : i \in DOMAIN sess.audio} \union {packet}
  <2>1. sess.audio \in Seq(Message(AudioKinds)) /\ packet \in Message(AudioKinds)
    BY <1>1, <1>7
  <2> QED BY <2>1, AppendedAt
<1> HIDE DEF q
<1>9. ASSUME NEW r \in {r1, r2}
      PROVE  /\ Queued(r) \subseteq Queued(sess) \union {packet}
             /\ r.gate = sess.gate /\ r.generation = sess.generation /\ r.urgent = sess.urgent
             /\ r.control = sess.control /\ r.ttsStarted = sess.ttsStarted
             /\ r.playing = sess.playing /\ r.turn = sess.turn
             /\ r.nextTurnId = sess.nextTurnId /\ r.phase = sess.phase
             /\ r.asr = sess.asr /\ r.autoSpeechActive = sess.autoSpeechActive
             /\ r.pendingDelivery = sess.pendingDelivery
  <2>1. /\ r1.audio = q /\ r1.pendingAudio = sent.pendingAudio
        /\ r2.audio = sent.audio /\ r2.pendingAudio = packet
    BY <1>3 DEF Session
  <2>2. /\ r.gate = sent.gate /\ r.generation = sent.generation /\ r.urgent = sent.urgent
        /\ r.control = sent.control /\ r.ttsStarted = sent.ttsStarted
        /\ r.playing = sent.playing /\ r.turn = sent.turn
        /\ r.nextTurnId = sent.nextTurnId /\ r.phase = sent.phase
        /\ r.asr = sent.asr /\ r.autoSpeechActive = sent.autoSpeechActive
        /\ r.pendingDelivery = sent.pendingDelivery
    BY <1>3, <1>9 DEF Session
  <2>3. /\ sent.audio = sess.audio /\ sent.pendingAudio = sess.pendingAudio
    BY <1>3 DEF Alike
  <2> HIDE DEF r1, r2
  <2>4. Queued(r) \subseteq Queued(sess) \union {packet}
    <3>1. r.control = sess.control
      BY <1>3, <2>2 DEF Alike
    <3>2. CASE r = r1
      BY <1>8, <2>1, <2>3, <3>1, <3>2 DEF Queued
    <3>3. CASE r = r2
      BY <2>1, <2>3, <3>1, <3>3 DEF Queued
    <3> QED BY <1>9, <3>2, <3>3
  <2> QED BY <1>3, <1>4, <2>2, <2>4 DEF Alike
<1>10. ASSUME NEW r \in {r1, r2}, sess' = r, sess.turn # NoTurn PROVE Apt(r)
  <2>1. /\ Queued(r) \subseteq Queued(sess) \union {packet}
        /\ r.gate = sess.gate /\ r.generation = sess.generation /\ r.urgent = sess.urgent
        /\ r.control = sess.control /\ r.ttsStarted = sess.ttsStarted
        /\ r.playing = sess.playing /\ r.turn = sess.turn
        /\ r.nextTurnId = sess.nextTurnId /\ r.phase = sess.phase
        /\ r.asr = sess.asr /\ r.autoSpeechActive = sess.autoSpeechActive
        /\ r.pendingDelivery = sess.pendingDelivery
    BY <1>9
  <2> HIDE DEF r1, r2, W, A
  <2>2. Meant(r)
    BY <1>1, <1>7, <1>10, <2>1 DEF Meant
  <2>3. Ends(r, W, r.turn) <=> Ends(sess, W, sess.turn)
    BY <2>1 DEF Ends
  <2>4. Spoken(r, W, A)
    BY <1>2, <1>7, <2>1, <2>3 DEF Spoken
  <2>5. Steady(sess, r)
    BY <1>1, <2>1 DEF Steady, Parts
  <2> QED BY <1>1, <1>10, <2>2, <2>4, <2>5 DEF Apt, Voiced, W, A
<1> QED BY <1>5, <1>6, <1>10

(* Playback drained: from here on the stop is awaited. *)
LEMMA DrainedApt ==
  ASSUME TypeOK, TypeOK', OwnInv, Voiced(sess, Due, Onair), NEW c \in Replies, Drained(c)
  PROVE  Apt(sess')
<1> DEFINE W == Due
           A == Onair
           spent == [sess EXCEPT !.speech = "idle", !.announced = FALSE,
                                 !.playing = FALSE, !.packets = 0]
           m     == Msg("finish", 0, sess.turn)
           q     == Append(sess.control, m)
           r     == [[spent EXCEPT !.control = q] EXCEPT !.pendingDelivery = sess.turn]
<1>1. /\ sess \in Session /\ sess' \in Session /\ sess.playing /\ Owned(sess, W, Started)
      /\ Meant(sess) /\ (Hushed(sess, A) \/ Spoken(sess, W, A))
      /\ sess.generation \in Nat /\ sess.turn \in Nat /\ sess.gate \in Nat
      /\ sess.nextTurnId \in Nat /\ sess.control \in Seq(Message(ControlKinds))
  BY Fields DEF TypeOK, OwnInv, Voiced, Drained, Lane
<1>2. Spoken(sess, W, A)
  BY <1>1 DEF Hushed
<1>3. /\ spent.nextTurnId = sess.nextTurnId /\ spent.turn = sess.turn
      /\ spent.generation = sess.generation /\ spent.gate = sess.gate
      /\ ~spent.playing /\ spent.asr = sess.asr /\ spent.ttsStarted = sess.ttsStarted
      /\ spent.autoSpeechActive = sess.autoSpeechActive
      /\ spent.phase = sess.phase /\ spent.audio = sess.audio
      /\ spent.pendingAudio = sess.pendingAudio
      /\ spent.urgent = sess.urgent /\ spent.control = sess.control
      /\ spent.lanesOpen = sess.lanesOpen
  BY <1>1 DEF Session
<1>4. spent \in Session
  BY <1>1, Updates
<1>5. sess.turn # NoTurn /\ sess.phase # "Closed"
  BY <1>2 DEF Spoken
<1>6. sess' \in {FailSpeechDelivery(spent, c), FailClosed(spent), r}
  <2>1. ControlRoom(sess) => OfferControl(spent, m) = [spent EXCEPT !.control = q]
    BY <1>3 DEF OfferControl, ControlRoom
  <2> HIDE DEF m, q
  <2> QED BY <2>1 DEF Drained, Provider, Handle, m
<1> HIDE DEF spent, W, A
<1>7. Queued(spent) = Queued(sess)
  BY <1>3 DEF Queued
<1>8. Quiet(sess, spent) /\ Calm(spent, A)
  <2>1. Fades(sess, spent) /\ Steady(sess, spent)
    BY <1>1, <1>3, <1>7 DEF Fades, Steady, Parts
  <2>2. Calm(spent, A)
    BY <1>1, <1>2, <1>3, <1>5, <1>7 DEF Calm, Meant, Spoken
  <2> QED BY <1>4, <2>1, <2>2 DEF Quiet
<1>9. Apt(FailSpeechDelivery(spent, c)) /\ Apt(FailClosed(spent))
  BY <1>8, FailuresApt DEF A
<1>10. m \in Message(ControlKinds) /\ m.kind = "finish" /\ m.turn = sess.turn
  <2>1. m \in Message(ControlKinds)
    BY <1>1, <1>5, MessageTypes DEF Turns
  <2> QED BY <2>1 DEF Msg
<1> HIDE DEF m
<1>11. /\ {q[i] : i \in DOMAIN q} = {sess.control[i] : i \in DOMAIN sess.control} \union {m}
       /\ DOMAIN q = 1..(Len(sess.control) + 1) /\ DOMAIN sess.control = 1..Len(sess.control)
       /\ Len(sess.control) \in Nat
       /\ \A i \in DOMAIN sess.control : q[i] = sess.control[i]
       /\ q[Len(sess.control) + 1] = m
  BY <1>1, <1>10, AppendedAt
<1>12. Holds(q, "finish", sess.turn)
  BY <1>1, <1>10, Appended
<1> HIDE DEF q
<1>13. /\ r.control = q /\ r.urgent = sess.urgent /\ r.gate = sess.gate
       /\ r.generation = sess.generation
       /\ r.audio = sess.audio /\ r.pendingAudio = sess.pendingAudio
       /\ r.ttsStarted = sess.ttsStarted /\ ~r.playing /\ r.turn = sess.turn
       /\ r.phase = sess.phase /\ r.asr = sess.asr /\ r.autoSpeechActive = sess.autoSpeechActive
       /\ r.pendingDelivery = sess.turn /\ r.nextTurnId = sess.nextTurnId
  BY <1>3, <1>4 DEF Session
<1> HIDE DEF r
<1>14. Queued(r) = Queued(sess)
  BY <1>10, <1>11, <1>13 DEF Queued
<1>15. \A i, j \in DOMAIN q :
         i < j /\ q[i].kind = "finish" /\ q[j].kind = "start" /\ q[i].turn = q[j].turn => q[j].gen <= sess.gate
  <2> SUFFICES ASSUME NEW i \in DOMAIN q, NEW j \in DOMAIN q, i < j, q[i].kind = "finish",
                      q[j].kind = "start", q[i].turn = q[j].turn
               PROVE  q[j].gen <= sess.gate
    OBVIOUS
  <2>1. i \in DOMAIN sess.control /\ j \in DOMAIN sess.control
    BY <1>10, <1>11
  <2> QED BY <1>2, <1>11, <2>1 DEF Spoken
<1>16. Meant(r)
  BY <1>1, <1>13, <1>14 DEF Meant
<1>17. Ends(r, W, r.turn)
  BY <1>12, <1>13 DEF Ends
<1>18. Spoken(r, W, A)
  BY <1>2, <1>13, <1>14, <1>15, <1>17 DEF Spoken
<1>19. Steady(sess, r)
  BY <1>1, <1>13 DEF Steady, Parts
<1>20. r \in Session => Apt(r)
  BY <1>16, <1>18, <1>19 DEF Apt, Voiced, W, A
<1> QED BY <1>1, <1>6, <1>9, <1>20

(* Speech output fails. *)
LEMMA SpeechFailedApt ==
  ASSUME TypeOK, Voiced(sess, Due, Onair), NEW c \in Replies, SpeechFailed(c)
  PROVE  Apt(sess')
<1>1. Quiet(sess, sess) /\ Calm(sess, Onair)
  BY AptWays
<1>2. sess' = FailSpeechDelivery(sess, c)
  BY DEF SpeechFailed, Fault, Handle
<1> QED BY <1>1, <1>2, FailuresApt

-----------------------------------------------------------------------------
(* The invariant of cancellation. *)

(* The outcomes the writer holds or has reported. *)
Verdicts == {writer.report} \union {mailbox[i] : i \in DOMAIN mailbox}

(* An outcome is told when its turn is off air, and a normal one, until the *)
(* actor has applied it, while nothing is. *)
Told ==
  /\ \A o \in Verdicts : o.kind # "failed" => o.turn \notin Onair
  /\ \A o \in Verdicts : o.kind = "normal" =>
       o.turn # NoTurn /\ (o.turn = sess.turn => Onair = {})
  /\ writer.report.kind # "failed"
  /\ writer.pc # "reporting" => writer.report.turn = NoTurn /\ writer.report.kind = "none"

(* The parting close waits behind no sound: when it is queued, and until it *)
(* is sent, nothing is on air and some turn was heard in full. *)
Farewell ==
  /\ writer.pc \notin {"failing", "done"} /\ Parts(sess) => Onair = {} /\ wire.stops # {}
  /\ Parting(writer.frame) => Onair = {} /\ wire.stops # {}
  /\ wire.closed = 1000 => writer.pc = "done" /\ wire.playing = NoTurn /\ wire.stops # {}
  /\ tasks.code # 1000

(* Both ends of the lanes go on. *)
Alive == tasks.actor # "done" /\ writer.pc \notin {"failing", "done"}

(* The inductive invariant, on top of OwnInv. *)
VoiceInv == Farewell /\ (Alive => Voiced(sess, Due, Onair) /\ Told)

(* What a handler may do to the turn and to the urgent lane. *)
Leaves(r) ==
  /\ r.turn \in {sess.turn, NoTurn} \/ r.turn >= sess.nextTurnId
  /\ Parts(r) => Parts(sess) \/ (Onair = {} /\ wire.stops # {})

(* The outcome of a turn is applied: either it is not awaited and changes *)
(* nothing, or its turn is off air and so the session is silent. *)
LEMMA OutcomeApt ==
  ASSUME TypeOK, OwnInv, HeardInv, Voiced(sess, Due, Onair), Told,
         NEW c \in Replies, OnWriterEvent(c)
  PROVE  sess' \in Session /\ Voiced(sess', Due', Onair) /\ Leaves(sess')
<1> DEFINE W == Due
           X == Due'
           A == Onair
           o == Head(mailbox)
           bare  == [sess EXCEPT !.closeAfter = NoTurn, !.ttsStarted = FALSE,
                                 !.pendingDelivery = NoTurn]
           freed == ReleaseActiveTurn(bare)
<1>1. /\ sess \in Session /\ Owned(sess, W, Started) /\ Meant(sess)
      /\ Hushed(sess, A) \/ Spoken(sess, W, A)
      /\ sess.gate \in Nat /\ sess.generation \in Nat /\ sess.nextTurnId \in Nat /\ sess.turn \in Nat
  BY Fields DEF TypeOK, OwnInv, Voiced
<1>2. mailbox # <<>> /\ mailbox \in Mailbox /\ o \in Verdict /\ mailbox' = Tail(mailbox)
      /\ writer' = writer
  BY MailboxTail DEF TypeOK, OnWriterEvent
<1>3. o = mailbox[1] /\ 1 \in DOMAIN mailbox /\ 1 \in 1..Len(mailbox)
  BY <1>2 DEF Mailbox
<1>4. \A i \in DOMAIN mailbox : i = 1 \/ (i - 1 \in DOMAIN mailbox' /\ mailbox'[i - 1] = mailbox[i])
  BY <1>2 DEF Mailbox
<1>5. \A i \in DOMAIN mailbox' : \E j \in DOMAIN mailbox : mailbox'[i] = mailbox[j]
  <2>1. \A i \in DOMAIN mailbox' : i + 1 \in DOMAIN mailbox /\ mailbox'[i] = mailbox[i + 1]
    BY <1>2 DEF Mailbox
  <2> QED BY <2>1
<1>6. X \subseteq W /\ \A t \in W : t \in X \/ t = o.turn
  <2>1. X \subseteq W
    BY <1>2, <1>5 DEF Due
  <2>2. ASSUME NEW t \in W, t # o.turn PROVE t \in X
    <3>1. CASE \E i \in DOMAIN mailbox : mailbox[i].turn = t /\ mailbox[i].kind # "failed"
      BY <1>3, <1>4, <2>2, <3>1 DEF Due
    <3>2. CASE ~\E i \in DOMAIN mailbox : mailbox[i].turn = t /\ mailbox[i].kind # "failed"
      BY <1>2, <2>2, <3>2 DEF Due
    <3> QED BY <3>1, <3>2
  <2> QED BY <2>1, <2>2
<1>7. o \in Verdicts
  BY <1>3 DEF Verdicts
<1>8. o.kind = "normal" => wire.stops # {}
  BY <1>3 DEF HeardInv
<1>9. \A r : Quiet(sess, r) /\ Meant(r) /\ Hushed(r, A) => r \in Session /\ Voiced(r, X, A) /\ Leaves(r)
  BY DEF Quiet, Steady, Leaves, Voiced
<1>10. CASE o.kind = "failed"
  <2>1. sess' = FailClosed(sess)
    BY <1>10 DEF OnWriterEvent
  <2>2. Calm(sess, A)
    BY AptWays
  <2> HIDE DEF A, X
  <2>3. Quiet(sess, FailClosed(sess)) /\ Meant(FailClosed(sess)) /\ Hushed(FailClosed(sess), A)
    BY <1>1, <2>2, CancelsQuietly, CalmSilences
  <2> QED BY <1>9, <2>1, <2>3 DEF A, X
<1>11. CASE o.kind # "failed" /\ (sess.turn # o.turn \/ sess.pendingDelivery \notin {NoTurn, o.turn})
  <2>1. sess' = sess
    BY <1>11 DEF OnWriterEvent, TurnClosed
  <2> HIDE DEF W, X, A, o
  <2>2. Spoken(sess, W, A) => Spoken(sess, X, A)
    <3> SUFFICES ASSUME Spoken(sess, W, A) PROVE Spoken(sess, X, A)
      OBVIOUS
    <3>1. sess.playing \/ (Ends(sess, X, sess.turn) /\ sess.pendingDelivery = sess.turn)
      BY <1>6, <1>11 DEF Spoken, Ends
    <3> QED BY <1>6, <3>1 DEF Spoken
  <2>3. Leaves(sess)
    BY DEF Leaves
  <2> QED BY <1>1, <2>1, <2>2, <2>3 DEF Voiced, X, A
<1>12. CASE o.kind # "failed" /\ sess.turn = o.turn /\ sess.pendingDelivery \in {NoTurn, o.turn}
  <2>1. sess' \in {CloseNormally(freed), CompleteRecognition(freed, c)}
        /\ (sess' # CompleteRecognition(freed, c) => o.kind = "normal")
    BY <1>12 DEF OnWriterEvent, TurnClosed
  <2>2. bare \in Session
    BY <1>1, Updates DEF Turns, NoTurn
  <2>3. /\ bare.gate = sess.gate /\ bare.generation = sess.generation /\ bare.urgent = sess.urgent
        /\ bare.control = sess.control /\ bare.audio = sess.audio
        /\ bare.pendingAudio = sess.pendingAudio /\ ~bare.ttsStarted /\ bare.playing = sess.playing
        /\ bare.turn = sess.turn /\ bare.nextTurnId = sess.nextTurnId
    BY <1>1 DEF Session
  <2> HIDE DEF bare
  <2>4. Queued(bare) = Queued(sess)
    BY <2>3 DEF Queued
  <2>5. Quiet(sess, bare)
    BY <1>1, <2>2, <2>3, <2>4 DEF Quiet, Fades, Steady, Parts
  <2>6. ~sess.playing /\ \A m \in Queued(sess) : m.gen > sess.gate => m.kind = "binary" /\ m.turn \notin A
    <3>1. CASE Hushed(sess, A)
      BY <3>1 DEF Hushed
    <3>2. CASE Spoken(sess, W, A)
      <4>1. sess.turn \in W /\ sess.turn \notin A
        <5>1. sess.turn # 0
          BY <3>2 DEF Spoken, NoTurn
        <5> QED BY <1>1, <1>3, <1>7, <1>12, <5>1 DEF Due, Told
      <4> HIDE DEF W, A
      <4>2. ~sess.playing
        BY <1>1, <3>2, <4>1, SpokenOwned DEF Ends
      <4>3. \A m \in Queued(sess) : m.kind \in {"start", "binary"}
        BY <1>1, QueuedTypes
      <4> QED BY <3>2, <4>1, <4>2, <4>3 DEF Spoken
    <3> QED BY <1>1, <3>1, <3>2
  <2>7. Meant(bare) /\ Hushed(bare, A)
    BY <1>1, <2>3, <2>4, <2>6 DEF Meant, Hushed
  <2>8. Quiet(sess, freed) /\ Meant(freed) /\ Hushed(freed, A) /\ freed \in Session
    <3> HIDE DEF A
    <3>1. Quiet(bare, freed) /\ Quiet(sess, freed)
      BY <1>1, <2>2, <2>5, FadingSteps, FadesOn
    <3> HIDE DEF freed
    <3> QED BY <2>2, <2>7, <3>1, HushedOn DEF Quiet
  <2> HIDE DEF freed
  <2>9. CASE sess' = CompleteRecognition(freed, c)
    <3> DEFINE r == CompleteRecognition(freed, c)
    <3> HIDE DEF A, X
    <3>1. Quiet(freed, r)
      BY <2>8, RecognitionEndsQuietly
    <3> HIDE DEF r
    <3>2. Quiet(sess, r) /\ Meant(r) /\ Hushed(r, A)
      BY <1>1, <2>8, <3>1, QuietOn, HushedOn
    <3> QED BY <1>9, <2>9, <3>2 DEF r, A, X
  <2>10. CASE sess' = CloseNormally(freed) /\ o.kind = "normal"
    <3>1. Onair = {} /\ wire.stops # {}
      BY <1>7, <1>8, <1>12, <2>10 DEF Told
    <3> HIDE DEF A, X
    <3>2. /\ sess' \in Session /\ Meant(sess') /\ Hushed(sess', A) /\ sess'.turn = freed.turn
      BY <2>8, <2>10, ClosesNormally
    <3>3. Leaves(sess')
      BY <2>8, <3>1, <3>2 DEF Leaves, Quiet, Steady
    <3> QED BY <3>2, <3>3 DEF Voiced, A, X
  <2> QED BY <2>1, <2>9, <2>10
<1> QED BY <1>10, <1>11, <1>12

(* A close from the reader leaves a delivery going on. *)
LEMMA CloseSpoken ==
  ASSUME NEW s \in Session, NEW code \in Nat, NEW W, NEW A, Meant(s), Spoken(s, W, A)
  PROVE  LET r == OfferUrgent(s, CloseMsg(code)) IN Meant(r) /\ Spoken(r, W, A)
<1> DEFINE m == CloseMsg(code)
           q == Append(s.urgent, m)
           r == [s EXCEPT !.urgent = q]
<1>1. m \in Message(UrgentKinds) /\ m.kind = "close"
  BY MessageTypes DEF CloseMsg
<1>2. OfferUrgent(s, m) \in {s, r}
  BY DEF OfferUrgent
<1>3. s.urgent \in Seq(Message(UrgentKinds))
  BY Fields DEF Lane
<1> HIDE DEF m
<1>4. \A t : Holds(q, "abort", t) <=> Holds(s.urgent, "abort", t)
  BY <1>1, <1>3, Appended
<1> HIDE DEF q
<1>5. /\ r.urgent = q /\ r.control = s.control /\ r.gate = s.gate /\ r.generation = s.generation
      /\ r.audio = s.audio /\ r.pendingAudio = s.pendingAudio
      /\ r.ttsStarted = s.ttsStarted /\ r.playing = s.playing /\ r.turn = s.turn
      /\ r.phase = s.phase /\ r.asr = s.asr /\ r.autoSpeechActive = s.autoSpeechActive
      /\ r.pendingDelivery = s.pendingDelivery
  BY DEF Session
<1> HIDE DEF r
<1>6. Queued(r) = Queued(s)
  BY <1>5 DEF Queued
<1>7. Ends(r, W, r.turn) <=> Ends(s, W, s.turn)
  BY <1>4, <1>5 DEF Ends
<1>8. Meant(r) /\ Spoken(r, W, A)
  BY <1>4, <1>5, <1>6, <1>7 DEF Meant, Spoken
<1> QED BY <1>2, <1>8 DEF m

(* No way the session ends lets anything be heard, or parts. *)
LEMMA TeardownQuiet ==
  ASSUME TypeOK, Teardown, tasks.code # 1000
  PROVE  /\ Quiet(sess, sess') /\ tasks'.code # 1000
         /\ \/ sess' = sess
            \/ sess' = OfferUrgent(sess, CloseMsg(tasks.code))
            \/ ApplicationShutdown
            \/ tasks'.actor = "done"
<1> DEFINE close == CloseMsg(tasks.code)
           told  == OfferUrgent(sess, close)
           cut   == InterruptActiveTurn(sess)
           free  == AdvanceGeneration(cut)
           shut  == CloseVad(free)
           over  == [shut EXCEPT !.autoResetPending = FALSE, !.phase = "Closed"]
<1>1. sess \in Session /\ tasks \in TaskState /\ tasks.code \in Nat \ {1000}
  BY DEF TypeOK, TaskState
<1>2. \/ sess' = sess
      \/ sess' = told
      \/ sess' = over /\ ApplicationShutdown
      \/ sess' \in {Dropped(told), Dropped(sess)} /\ tasks'.actor = "done"
  BY <1>1, TeardownMoves
<1>3. tasks'.code # 1000
  BY <1>1, TeardownMoves
<1>4. Quiet(sess, told) /\ told \in Session /\ Quiet(sess, sess)
  <2>1. Quiet(sess, told)
    BY <1>1, CommandsQuiet
  <2> QED BY <1>1, <2>1, FadingSteps DEF Quiet
<1>5. Quiet(sess, Dropped(told)) /\ Quiet(sess, Dropped(sess))
  <2> HIDE DEF told
  <2>1. Quiet(told, Dropped(told)) /\ Quiet(sess, Dropped(sess))
    BY <1>1, <1>4, DropsQuietly
  <2> QED BY <1>1, <1>4, <2>1, QuietOn
<1>6. Quiet(sess, over)
  <2>1. Quiet(sess, cut)
    BY <1>1, CancelsQuietly
  <2> HIDE DEF cut
  <2>2. Quiet(sess, free)
    BY <1>1, <2>1, FadesOn
  <2> HIDE DEF free
  <2>3. Quiet(sess, shut) /\ shut \in Session
    BY <1>1, <2>2, FadesOn
  <2> HIDE DEF shut
  <2>4. over \in Session /\ Alike(shut, over)
    <3>1. over \in Session
      BY <2>3, Updates
    <3> QED BY <2>3, <3>1 DEF Alike, Session
  <2> HIDE DEF over
  <2> QED BY <1>1, <2>3, <2>4, FadesOn
<1> QED BY <1>2, <1>3, <1>4, <1>5, <1>6

(* As long as the actor goes on, a teardown step leaves the delivery apt. *)
LEMMA TeardownApt ==
  ASSUME TypeOK, Voiced(sess, Due, Onair), Teardown, tasks.code # 1000, tasks'.actor # "done"
  PROVE  Apt(sess')
<1> DEFINE W == Due
           A == Onair
           cut   == InterruptActiveTurn(sess)
           free  == AdvanceGeneration(cut)
           shut  == CloseVad(free)
           over  == [shut EXCEPT !.autoResetPending = FALSE, !.phase = "Closed"]
<1>1. /\ sess \in Session /\ tasks.code \in Nat /\ Meant(sess)
      /\ Hushed(sess, A) \/ Spoken(sess, W, A)
  BY DEF TypeOK, TaskState, Voiced
<1>2. Quiet(sess, sess') /\ \/ sess' = sess
                            \/ sess' = OfferUrgent(sess, CloseMsg(tasks.code))
                            \/ ApplicationShutdown
  BY TeardownQuiet
<1>3. sess' \in Session /\ Steady(sess, sess')
  BY <1>2 DEF Quiet
<1>4. CASE sess' = sess
  BY <1>3, <1>4 DEF Apt
<1>5. CASE sess' = OfferUrgent(sess, CloseMsg(tasks.code))
  <2> HIDE DEF W, A
  <2>1. Hushed(sess, A) => Meant(sess') /\ Hushed(sess', A)
    BY <1>1, <1>2, HushedOn
  <2>2. Spoken(sess, W, A) => Meant(sess') /\ Spoken(sess', W, A)
    BY <1>1, <1>5, CloseSpoken
  <2> QED BY <1>1, <1>3, <2>1, <2>2 DEF Apt, Voiced, W, A
<1>6. CASE ApplicationShutdown /\ sess' # sess
  <2>1. sess' = over
    BY <1>6 DEF ApplicationShutdown
  <2>2. Quiet(sess, cut) /\ Meant(cut) /\ Hushed(cut, Onair) /\ cut \in Session
    <3>1. Quiet(sess, sess) /\ Calm(sess, Onair)
      BY AptWays
    <3> QED BY <1>1, <3>1, FailuresApt, CancellationTypes
  <2> HIDE DEF cut
  <2>3. Quiet(cut, free)
    BY <2>2, FadingSteps
  <2> HIDE DEF free
  <2>4. Quiet(cut, shut) /\ shut \in Session
    BY <2>2, <2>3, FadesOn
  <2> HIDE DEF shut
  <2>5. over \in Session /\ Alike(shut, over)
    <3>1. over \in Session
      BY <2>4, Updates
    <3> QED BY <2>4, <3>1 DEF Alike, Session
  <2> HIDE DEF over
  <2>6. Quiet(cut, over)
    BY <2>2, <2>4, <2>5, FadesOn
  <2> QED BY <2>1, <2>2, <2>6, SilencedOn
<1> QED BY <1>2, <1>4, <1>5, <1>6

(* Every handler but on_writer_event leaves the delivery apt. *)
LEMMA HandlersApt ==
  ASSUME TypeOK, TypeOK', OwnInv, Voiced(sess, Due, Onair),
         sess.turn # NoTurn => ~\E d \in Replies : Detect(d),
         NEW c \in Replies,
         \/ Client(c) \/ AsrAnswers(c) \/ AsrFailed(c) \/ Utterance(c)
         \/ SpeechEnd(c) \/ LlmAnswers(c) \/ ToolEvent(c)
         \/ SpeechProgress(c) \/ SpeechFailed(c)
         \/ CleanupEvent \/ VadAnswers \/ VadFailed \/ ArmClose
  PROVE  Apt(sess')
<1>1. CASE Client(c)
  BY <1>1, StartListeningApt, StopManualApt, StopContinuousApt, DetectApt,
     AbortApt, AdmitDirectSpeechApt DEF Client
<1>2. CASE AsrAnswers(c) \/ AsrFailed(c) \/ CleanupEvent
  BY <1>2, RecognitionApt
<1>3. CASE Utterance(c) \/ SpeechEnd(c)
  BY <1>3, SpeechStartApt, RefusedApt, SpeechEndApt DEF Utterance
<1>4. CASE VadAnswers \/ VadFailed
  BY <1>4, VadApt, RefusedApt
<1>5. CASE LlmAnswers(c) \/ ToolEvent(c) \/ ArmClose
  BY <1>5, ModelRoundApt, ToolsApt
<1>6. CASE SpeechProgress(c) \/ SpeechFailed(c)
  BY <1>6, FlushApt, SegmentApt, SpeechStartedApt, AudioApt, DrainedApt,
     SpeechFailedApt DEF SpeechProgress
<1> QED BY <1>1, <1>2, <1>3, <1>4, <1>5, <1>6

(* What the tail of a lane lacks is its head. *)
LEMMA PoppedAt ==
  ASSUME NEW S, NEW q \in Seq(S), q # <<>>
  PROVE  /\ \A i \in DOMAIN Tail(q) : i \in Nat \ {0} /\ i + 1 \in DOMAIN q /\ Tail(q)[i] = q[i + 1]
         /\ {Tail(q)[i] : i \in DOMAIN Tail(q)} \subseteq {q[i] : i \in DOMAIN q}
         /\ 1 \in DOMAIN q /\ q[1] = Head(q) /\ Head(q) \in S
         /\ \A kind, t : Holds(q, kind, t) =>
              Holds(Tail(q), kind, t) \/ (Head(q).kind = kind /\ Head(q).turn = t)
<1>1. \A i \in DOMAIN Tail(q) : i \in Nat \ {0} /\ i + 1 \in DOMAIN q /\ Tail(q)[i] = q[i + 1]
  OBVIOUS
<1>2. 1 \in DOMAIN q /\ q[1] = Head(q) /\ Head(q) \in S
  OBVIOUS
<1>3. {Tail(q)[i] : i \in DOMAIN Tail(q)} \subseteq {q[i] : i \in DOMAIN q}
  BY <1>1
<1>4. \A i \in DOMAIN q : i = 1 \/ (i - 1 \in DOMAIN Tail(q) /\ Tail(q)[i - 1] = q[i])
  OBVIOUS
<1>5. \A kind, t : Holds(q, kind, t) =>
        Holds(Tail(q), kind, t) \/ (Head(q).kind = kind /\ Head(q).turn = t)
  BY <1>2, <1>4 DEF Holds
<1> QED BY <1>1, <1>2, <1>3, <1>5

(* From s to r only the lanes change. *)
OnlyLanes(s, r) ==
  /\ r.gate = s.gate /\ r.generation = s.generation /\ r.ttsStarted = s.ttsStarted
  /\ r.playing = s.playing /\ r.turn = s.turn /\ r.phase = s.phase /\ r.asr = s.asr
  /\ r.autoSpeechActive = s.autoSpeechActive /\ r.pendingDelivery = s.pendingDelivery
  /\ r.pendingAudio = s.pendingAudio

(* What the writer may do to a delivery: it takes from the lanes, it moves *)
(* outcomes, and it puts on air no turn but the delivery's own. *)
LEMMA VoicedOn ==
  ASSUME NEW s \in Session, NEW r, NEW W, NEW X, NEW A, NEW B, Voiced(s, W, A),
         OnlyLanes(s, r), Queued(r) \subseteq Queued(s),
         \A i, j \in DOMAIN r.control : i < j =>
           \E k, l \in DOMAIN s.control :
             k < l /\ s.control[k] = r.control[i] /\ s.control[l] = r.control[j],
         Spoken(s, W, A) /\ Ends(s, W, s.turn) => Ends(r, X, s.turn),
         \A m \in Queued(r) :
           Spoken(s, W, A) /\ m.kind = "start" /\ m.gen > s.gate =>
             s.turn \notin X /\ ~Holds(r.urgent, "abort", s.turn),
         \A t \in B : t \in A \/ (Spoken(s, W, A) /\ t = s.turn)
  PROVE  Voiced(r, X, B)
<1> USE DEF OnlyLanes
<1>1. Meant(s) /\ (Hushed(s, A) \/ Spoken(s, W, A))
  BY DEF Voiced
<1>2. Meant(r)
  BY <1>1 DEF Meant
<1>3. CASE Hushed(s, A)
  <2>1. ~Spoken(s, W, A)
    BY <1>3 DEF Hushed, Spoken
  <2>2. Hushed(r, B)
    BY <1>3, <2>1 DEF Hushed
  <2> QED BY <1>2, <2>2 DEF Voiced
<1>4. CASE Spoken(s, W, A)
  <2>1. \A m \in Queued(r) : m.gen > r.gate =>
          /\ m.kind = "start" \/ m.turn \in B => m.turn = r.turn
          /\ m.kind = "start" => r.turn \notin X /\ ~Holds(r.urgent, "abort", r.turn)
    BY <1>4 DEF Spoken
  <2>2. \A i, j \in DOMAIN r.control :
          i < j /\ r.control[i].kind = "finish" /\ r.control[j].kind = "start"
            /\ r.control[i].turn = r.control[j].turn => r.control[j].gen <= r.gate
    <3> SUFFICES ASSUME NEW i \in DOMAIN r.control, NEW j \in DOMAIN r.control, i < j,
                        r.control[i].kind = "finish", r.control[j].kind = "start",
                        r.control[i].turn = r.control[j].turn
                 PROVE  r.control[j].gen <= r.gate
      OBVIOUS
    <3>1. PICK k \in DOMAIN s.control, l \in DOMAIN s.control :
            k < l /\ s.control[k] = r.control[i] /\ s.control[l] = r.control[j]
      OBVIOUS
    <3> QED BY <1>4, <3>1 DEF Spoken
  <2>3. r.playing \/ (Ends(r, X, r.turn) /\ r.pendingDelivery = r.turn)
    BY <1>4 DEF Spoken
  <2>4. Spoken(r, X, B)
    BY <1>4, <2>1, <2>2, <2>3 DEF Spoken
  <2> QED BY <1>2, <2>4 DEF Voiced
<1> QED BY <1>1, <1>3, <1>4

(* The farewell outlives a step of a writer that goes on. *)
LEMMA FarewellOn ==
  ASSUME Farewell, tasks' = tasks, wire'.closed # 1000, wire.stops \subseteq wire'.stops,
         writer.pc \notin {"failing", "done"}, Parts(sess') => Parts(sess),
         Parting(writer'.frame) => Parting(writer.frame) \/ Parts(sess),
         Parts(sess) \/ Parting(writer.frame) => (Onair = {} => Onair' = {})
  PROVE  Farewell'
BY DEF Farewell

(* A writer that ends, other than by a close, parts no more. *)
LEMMA FarewellEnds ==
  ASSUME Farewell, tasks' = tasks, wire' = wire, writer.pc # "done",
         writer'.pc \in {"failing", "done"}, ~Parting(writer'.frame)
  PROVE  Farewell'
BY DEF Farewell

(* A writer that is idle has nothing in flight. *)
LEMMA WriterIsIdle ==
  ASSUME TypeOK, OwnInv, Farewell, writer.pc = "idle"
  PROVE  /\ writer.frame.kind = "none" /\ ~Parting(writer.frame) /\ wire.closed # 1000
         /\ Onair = {t \in Nat \ {0} : writer.active = t}
         /\ \A t \in Nat \ {0} : t \in Due <=>
              \/ writer.deferred = t \/ writer.report.turn = t
              \/ \E i \in DOMAIN mailbox : mailbox[i].turn = t /\ mailbox[i].kind # "failed"
<1>1. writer.frame.kind = "none" /\ wire.closed # 1000
  BY DEF OwnInv, FrameIsSent, Farewell
<1>2. ~Parting(writer.frame)
  BY <1>1 DEF Parting
<1>3. Onair = {t \in Nat \ {0} : writer.active = t}
  BY <1>1 DEF Onair
<1>4. \A t \in Nat \ {0} : t \in Due <=>
              \/ writer.deferred = t \/ writer.report.turn = t
              \/ \E i \in DOMAIN mailbox : mailbox[i].turn = t /\ mailbox[i].kind # "failed"
  BY <1>1 DEF Due
<1> QED BY <1>1, <1>2, <1>3, <1>4

(* An update of a lane, or closing the lanes, leaves the rest alone. *)
LEMMA LaneUpdates ==
  ASSUME NEW s \in Session
  PROVE  /\ \A q : LET r == [s EXCEPT !.urgent = q] IN
              OnlyLanes(s, r) /\ r.urgent = q /\ r.control = s.control /\ r.audio = s.audio
         /\ \A q : LET r == [s EXCEPT !.control = q] IN
              OnlyLanes(s, r) /\ r.urgent = s.urgent /\ r.control = q /\ r.audio = s.audio
         /\ \A q : LET r == [s EXCEPT !.audio = q] IN
              OnlyLanes(s, r) /\ r.urgent = s.urgent /\ r.control = s.control /\ r.audio = q
<1>1. \A q : LET r == [s EXCEPT !.urgent = q] IN
        OnlyLanes(s, r) /\ r.urgent = q /\ r.control = s.control /\ r.audio = s.audio
  BY DEF Session, OnlyLanes
<1>2. \A q : LET r == [s EXCEPT !.control = q] IN
        OnlyLanes(s, r) /\ r.urgent = s.urgent /\ r.control = q /\ r.audio = s.audio
  BY DEF Session, OnlyLanes
<1>3. \A q : LET r == [s EXCEPT !.audio = q] IN
        OnlyLanes(s, r) /\ r.urgent = s.urgent /\ r.control = s.control /\ r.audio = q
  BY DEF Session, OnlyLanes
<1> QED BY <1>1, <1>2, <1>3

(* An urgent command is taken: an abort clears the air, a close changes it *)
(* not. *)
LEMMA UrgentVoiced ==
  ASSUME TypeOK, OwnInv, ArbiterInv, VoiceInv, TakeUrgent
  PROVE  VoiceInv'
<1> DEFINE m == Head(sess.urgent)
           W == Due
           X == Due'
           A == Onair
           B == Onair'
<1>1. /\ sess.urgent \in Seq(Message(UrgentKinds)) /\ sess.urgent # <<>>
      /\ sess' = [sess EXCEPT !.urgent = Tail(sess.urgent)]
      /\ UNCHANGED <<mailbox, wire, tasks>> /\ writer.pc = "idle" /\ sess \in Session
      /\ m.kind \in {"abort", "close"} /\ m.turn \in Nat
  BY UrgentMove DEF TypeOK
<1>2. /\ {Tail(sess.urgent)[i] : i \in DOMAIN Tail(sess.urgent)}
           \subseteq {sess.urgent[i] : i \in DOMAIN sess.urgent}
      /\ 1 \in DOMAIN sess.urgent /\ sess.urgent[1] = m /\ m \in Message(UrgentKinds)
      /\ \A kind, t : Holds(sess.urgent, kind, t) =>
           Holds(Tail(sess.urgent), kind, t) \/ (m.kind = kind /\ m.turn = t)
      /\ \A kind, t : Holds(Tail(sess.urgent), kind, t) => Holds(sess.urgent, kind, t)
      /\ Holds(sess.urgent, m.kind, m.turn)
  BY <1>1, PoppedAt, Popped
<1>3. /\ writer.frame.kind = "none" /\ ~Parting(writer.frame) /\ wire.closed # 1000
      /\ A = {t \in Nat \ {0} : writer.active = t}
      /\ \A t \in Nat \ {0} : t \in W <=>
           \/ writer.deferred = t \/ writer.report.turn = t
           \/ \E i \in DOMAIN mailbox : mailbox[i].turn = t /\ mailbox[i].kind # "failed"
  BY <1>1, WriterIsIdle DEF VoiceInv
<1>4. \/ /\ m.kind = "abort" /\ writer.active # m.turn
         /\ writer'.frame = writer.frame /\ writer'.pc = "reporting" /\ writer'.active = writer.active
         /\ writer'.deferred = writer.deferred /\ writer'.report = Outcome("aborted", m.turn)
      \/ /\ m.kind = "abort" /\ writer.active = m.turn
         /\ writer'.frame = m /\ writer'.pc = "sending" /\ writer'.active = NoTurn
         /\ writer'.deferred = NoTurn /\ writer'.report = writer.report
      \/ /\ m.kind # "abort"
         /\ writer'.frame = m /\ writer'.pc = "sending" /\ writer'.active = writer.active
         /\ writer'.deferred = writer.deferred /\ writer'.report = writer.report
  BY UrgentMove DEF Becomes
<1>5. /\ OnlyLanes(sess, sess') /\ sess'.turn = sess.turn
      /\ sess'.urgent = Tail(sess.urgent) /\ sess'.control = sess.control
      /\ sess'.audio = sess.audio /\ sess'.pendingAudio = sess.pendingAudio
  BY <1>1, LaneUpdates DEF OnlyLanes
<1>6. Queued(sess') = Queued(sess)
  BY <1>5 DEF Queued
<1> HIDE DEF m
<1>8. B \subseteq A
  BY <1>1, <1>3, <1>4 DEF Onair, NoTurn
<1>9. Farewell'
  <2>1. Parts(sess') => Parts(sess)
    BY <1>2, <1>5 DEF Parts
  <2>2. Parting(writer'.frame) => Parting(writer.frame) \/ Parts(sess)
    BY <1>2, <1>4 DEF Parts
  <2>3. A = {} => B = {}
    BY <1>8
  <2> QED BY <1>1, <1>3, <2>1, <2>2, <2>3, FarewellOn DEF VoiceInv
<1>10. ASSUME Alive' PROVE Voiced(sess', X, B) /\ Told'
  <2>1. Voiced(sess, W, A) /\ Told
    BY <1>1, <1>10 DEF VoiceInv, Alive
  <2>2. writer.report.turn = NoTurn /\ writer.report.kind = "none"
    BY <1>1, <2>1 DEF Told
  <2>3. \A t \in Nat \ {0} : t \in X <=> t \in W \/ (m.kind = "abort" /\ t = m.turn)
    <3> SUFFICES ASSUME NEW t \in Nat \ {0}
                 PROVE  t \in X <=> t \in W \/ (m.kind = "abort" /\ t = m.turn)
      OBVIOUS
    <3>1. t \in X <=> \/ writer'.deferred = t
                      \/ writer'.frame.kind \in {"finish", "abort"} /\ writer'.frame.turn = t
                      \/ writer'.report.turn = t
                      \/ \E i \in DOMAIN mailbox : mailbox[i].turn = t /\ mailbox[i].kind # "failed"
      BY <1>1 DEF Due
    <3>2. writer.deferred \in {NoTurn, writer.active}
      BY DEF ArbiterInv
    <3> QED BY <1>1, <1>3, <1>4, <2>2, <3>1, <3>2 DEF NoTurn, Outcome
  <2>4. X \subseteq Nat \ {0} /\ W \subseteq Nat \ {0} /\ sess.turn \in Nat
    BY <1>1, Fields DEF Due
  <2>5. Told'
    <3>1. \A v \in Verdicts' : v \in Verdicts \/ v = Outcome("aborted", m.turn)
      BY <1>1, <1>4 DEF Verdicts
    <3>2. \A v \in Verdicts' : v.kind # "failed" => v.turn \notin B
      <4>1. m.turn \notin B \/ writer'.report = writer.report
        <5>1. m.turn \in B => writer.active = m.turn
          BY <1>3, <1>8
        <5> QED BY <1>4, <5>1
      <4>2. \A v \in Verdicts' : v \in Verdicts \/ v = writer'.report
        BY <1>1 DEF Verdicts
      <4>3. writer.report \in Verdicts
        BY DEF Verdicts
      <4>4. \A v \in Verdicts' : v \in Verdicts \/ (v.turn = m.turn /\ m.turn \notin B)
        BY <1>4, <4>1, <4>2, <4>3 DEF Outcome
      <4> QED BY <1>8, <2>1, <4>4 DEF Told
    <3>3. \A v \in Verdicts' : v.kind = "normal" => v.turn # NoTurn /\ (v.turn = sess'.turn => B = {})
      <4>1. \A v \in Verdicts' : v.kind = "normal" => v \in Verdicts
        BY <3>1 DEF Outcome
      <4> QED BY <1>5, <1>8, <2>1, <4>1 DEF Told
    <3>4. writer'.report.kind # "failed"
          /\ (writer'.pc # "reporting" => writer'.report.turn = NoTurn /\ writer'.report.kind = "none")
      BY <1>4, <2>2 DEF Outcome
    <3> QED BY <3>2, <3>3, <3>4 DEF Told
  <2> HIDE DEF W, X, A, B
  <2>6. Spoken(sess, W, A) => sess.turn # 0
    BY DEF Spoken, NoTurn
  <2>7. Spoken(sess, W, A) /\ Ends(sess, W, sess.turn) => Ends(sess', X, sess.turn)
    BY <1>2, <1>5, <2>3, <2>4, <2>6 DEF Ends
  <2>8. \A q \in Queued(sess') : Spoken(sess, W, A) /\ q.kind = "start" /\ q.gen > sess.gate =>
          sess.turn \notin X /\ ~Holds(sess'.urgent, "abort", sess.turn)
    <3>1. \A q \in Queued(sess') : Spoken(sess, W, A) /\ q.kind = "start" /\ q.gen > sess.gate =>
            sess.turn \notin W /\ ~Holds(sess.urgent, "abort", sess.turn)
      BY <1>6 DEF Spoken
    <3> QED BY <1>2, <1>5, <2>3, <2>4, <3>1
  <2>9. Voiced(sess', X, B)
    <3>1. \A i, j \in DOMAIN sess'.control : i < j =>
            \E k, l \in DOMAIN sess.control :
              k < l /\ sess.control[k] = sess'.control[i] /\ sess.control[l] = sess'.control[j]
      BY <1>5
    <3>2. \A t \in B : t \in A \/ (Spoken(sess, W, A) /\ t = sess.turn)
      BY <1>8
    <3>3. sess \in Session /\ Voiced(sess, W, A) /\ Queued(sess') \subseteq Queued(sess)
      BY <1>1, <1>6, <2>1
    <3> QED BY <1>5, <2>7, <2>8, <3>1, <3>2, <3>3, VoicedOn
  <2> QED BY <2>5, <2>9 DEF X, B
<1> QED BY <1>9, <1>10 DEF VoiceInv

(* A deferred stop is on its way before and after it is taken. *)
LEMMA DeferredVoiced ==
  ASSUME TypeOK, OwnInv, VoiceInv, TakeDeferredFinish
  PROVE  VoiceInv'
<1>1. UNCHANGED <<sess, mailbox, wire, tasks>> /\ writer.pc = "idle"
  BY DeferredMove
<1>2. /\ writer'.pc = "sending" /\ writer'.deferred = NoTurn /\ writer'.report = writer.report
      /\ writer'.frame = Msg("finish", 0, writer.deferred) /\ writer'.active = writer.active
  BY DeferredMove DEF Becomes
<1>3. writer'.frame.kind = "finish" /\ writer'.frame.turn = writer.deferred
  BY <1>2 DEF Msg
<1>4. writer.frame.kind = "none" /\ ~Parting(writer.frame) /\ wire.closed # 1000
  BY <1>1, WriterIsIdle DEF VoiceInv
<1>5. Due' = Due
  BY <1>1, <1>2, <1>3, <1>4 DEF Due, NoTurn
<1>6. Onair' = Onair /\ Verdicts' = Verdicts
  BY <1>1, <1>2, <1>3, <1>4 DEF Onair, Verdicts
<1>7. Farewell'
  <2>1. ~Parting(writer'.frame)
    BY <1>3 DEF Parting
  <2> QED BY <1>1, <1>4, <1>6, <2>1, FarewellOn DEF VoiceInv
<1>8. ASSUME Alive' PROVE Voiced(sess', Due', Onair') /\ Told'
  <2>1. Voiced(sess, Due, Onair) /\ Told
    BY <1>1, <1>8 DEF VoiceInv, Alive
  <2>2. Told'
    BY <1>1, <1>2, <1>6, <2>1 DEF Told
  <2> QED BY <1>1, <1>5, <1>6, <2>1, <2>2
<1> QED BY <1>7, <1>8 DEF VoiceInv

(* A frame of the control lane is taken: only a start of the delivery's own *)
(* turn is admitted, and a stop that is taken leaves no start behind it. *)
LEMMA ControlVoiced ==
  ASSUME TypeOK, OwnInv, ArbiterInv, VoiceInv, TakeControl
  PROVE  VoiceInv'
<1> DEFINE m == Head(sess.control)
           W == Due
           X == Due'
           A == Onair
           B == Onair'
<1>1. /\ sess.control \in Seq(Message(ControlKinds)) /\ sess.control # <<>>
      /\ sess' = [sess EXCEPT !.control = Tail(sess.control)]
      /\ UNCHANGED <<mailbox, wire, tasks>> /\ writer.pc = "idle" /\ sess \in Session
  BY ControlMove DEF TypeOK
<1>2. /\ {Tail(sess.control)[i] : i \in DOMAIN Tail(sess.control)}
           \subseteq {sess.control[i] : i \in DOMAIN sess.control}
      /\ \A i \in DOMAIN Tail(sess.control) :
           i \in Nat \ {0} /\ i + 1 \in DOMAIN sess.control
             /\ Tail(sess.control)[i] = sess.control[i + 1]
      /\ 1 \in DOMAIN sess.control /\ sess.control[1] = m /\ m \in Message(ControlKinds)
      /\ \A kind, t : Holds(sess.control, kind, t) =>
           Holds(Tail(sess.control), kind, t) \/ (m.kind = kind /\ m.turn = t)
  BY <1>1, PoppedAt
<1>3. /\ writer.frame.kind = "none" /\ ~Parting(writer.frame) /\ wire.closed # 1000
      /\ A = {t \in Nat \ {0} : writer.active = t}
      /\ \A t \in Nat \ {0} : t \in W <=>
           \/ writer.deferred = t \/ writer.report.turn = t
           \/ \E i \in DOMAIN mailbox : mailbox[i].turn = t /\ mailbox[i].kind # "failed"
  BY <1>1, WriterIsIdle DEF VoiceInv
<1>4. \/ writer' = writer /\ m.kind # "finish"
      \/ /\ m.kind = "start" /\ writer.active = NoTurn /\ m.gen > sess.gate
         /\ writer'.frame = m /\ writer'.pc = "sending" /\ writer'.active = writer.active
         /\ writer'.deferred = writer.deferred /\ writer'.report = writer.report
      \/ /\ m.kind = "text"
         /\ writer'.frame = m /\ writer'.pc = "sending" /\ writer'.active = writer.active
         /\ writer'.deferred = writer.deferred /\ writer'.report = writer.report
      \/ /\ m.kind = "finish" /\ writer.active # m.turn
         /\ writer'.frame = writer.frame /\ writer'.pc = "reporting" /\ writer'.active = writer.active
         /\ writer'.deferred = writer.deferred /\ writer'.report = Outcome("aborted", m.turn)
      \/ /\ m.kind = "finish" /\ writer.active = m.turn
         /\ writer'.frame = writer.frame /\ writer'.pc = "idle" /\ writer'.active = writer.active
         /\ writer'.deferred = m.turn /\ writer'.report = writer.report
      \/ /\ m.kind = "finish" /\ writer.active = m.turn
         /\ writer'.frame = m /\ writer'.pc = "sending" /\ writer'.active = writer.active
         /\ writer'.deferred = writer.deferred /\ writer'.report = writer.report
  BY ControlMove DEF Becomes, Admits
<1>5. /\ OnlyLanes(sess, sess') /\ sess'.turn = sess.turn /\ sess'.gate = sess.gate
      /\ sess'.control = Tail(sess.control) /\ sess'.urgent = sess.urgent
      /\ sess'.audio = sess.audio /\ sess'.pendingAudio = sess.pendingAudio
  BY <1>1, LaneUpdates DEF OnlyLanes
<1>6. Queued(sess') \subseteq Queued(sess)
  BY <1>2, <1>5 DEF Queued
<1>7. m.kind \in {"start", "text", "finish"} /\ m.turn \in Nat /\ m.gen \in Nat
      /\ (m.kind = "finish" => m.turn # 0) /\ sess.urgent = <<>> /\ sess.turn \in Nat
  BY <1>1, ControlMove, Fields DEF NoTurn, TakeControl
<1> HIDE DEF m
<1>8. ~Parts(sess) /\ ~Parts(sess')
  BY <1>5, <1>7 DEF Parts
<1>9. Farewell'
  <2>1. ~Parting(writer'.frame)
    BY <1>3, <1>4, <1>7 DEF Parting
  <2> QED BY <1>1, <1>3, <1>8, <2>1, FarewellOn DEF VoiceInv
<1>10. ASSUME Alive' PROVE Voiced(sess', X, B) /\ Told'
  <2>1. Voiced(sess, W, A) /\ Told
    BY <1>1, <1>10 DEF VoiceInv, Alive
  <2>2. writer.report.turn = NoTurn /\ writer.report.kind = "none"
    BY <1>1, <2>1 DEF Told
  <2>3. \A t \in Nat \ {0} : t \in X <=> t \in W \/ (m.kind = "finish" /\ t = m.turn)
    <3> SUFFICES ASSUME NEW t \in Nat \ {0}
                 PROVE  t \in X <=> t \in W \/ (m.kind = "finish" /\ t = m.turn)
      OBVIOUS
    <3>1. t \in X <=> \/ writer'.deferred = t
                      \/ writer'.frame.kind \in {"finish", "abort"} /\ writer'.frame.turn = t
                      \/ writer'.report.turn = t
                      \/ \E i \in DOMAIN mailbox : mailbox[i].turn = t /\ mailbox[i].kind # "failed"
      BY <1>1 DEF Due
    <3>2. writer.deferred \in {NoTurn, writer.active}
      BY DEF ArbiterInv
    <3> QED BY <1>3, <1>4, <1>7, <2>2, <3>1, <3>2 DEF NoTurn, Outcome
  <2>4. \A t \in B : t \in A \/ (m.kind = "start" /\ t = m.turn /\ m.gen > sess.gate /\ A = {}
                                 /\ writer'.report = writer.report)
    BY <1>3, <1>4, <1>7 DEF Onair, NoTurn
  <2>5. X \subseteq Nat \ {0} /\ W \subseteq Nat \ {0}
    BY DEF Due
  <2>6. m.kind = "start" => m \in Queued(sess)
    BY <1>2 DEF Queued
  <2>7. \A v \in Verdicts : v.kind # "failed" => v.turn = 0 \/ v.turn \in W
    <3> SUFFICES ASSUME NEW v \in Verdicts, v.kind # "failed" PROVE v.turn = 0 \/ v.turn \in W
      OBVIOUS
    <3>1. CASE v = writer.report
      BY <2>2, <3>1 DEF NoTurn
    <3>2. CASE \E i \in DOMAIN mailbox : v = mailbox[i]
      <4>1. PICK i \in DOMAIN mailbox : v = mailbox[i]
        BY <3>2
      <4>2. mailbox \in Seq(Verdict)
        BY DEF TypeOK, Mailbox
      <4>3. mailbox[i] \in Verdict
        BY <4>1, <4>2
      <4>4. v.turn \in Nat
        BY <4>1, <4>3 DEF Verdict, Turns
      <4> HIDE DEF W
      <4> QED BY <1>3, <4>1, <4>4
    <3> QED BY <3>1, <3>2 DEF Verdicts
  <2> HIDE DEF W, X, A, B
  <2>8. Spoken(sess, W, A) => sess.turn # 0
    BY DEF Spoken, NoTurn
  <2>9. m.kind = "start" /\ m.gen > sess.gate => Spoken(sess, W, A) /\ m.turn = sess.turn /\ sess.turn \notin W
    <3> SUFFICES ASSUME m.kind = "start", m.gen > sess.gate
                 PROVE  Spoken(sess, W, A) /\ m.turn = sess.turn /\ sess.turn \notin W
      OBVIOUS
    <3>1. ~Hushed(sess, A)
      BY <2>6 DEF Hushed
    <3>2. Spoken(sess, W, A)
      BY <2>1, <3>1 DEF Voiced
    <3> QED BY <2>6, <3>2 DEF Spoken
  <2>10. \A t \in B : t \in A \/ (Spoken(sess, W, A) /\ t = sess.turn /\ t \notin W /\ A = {}
                                   /\ writer'.report = writer.report)
    BY <2>4, <2>9
  <2>11. Told'
    <3>1. \A v \in Verdicts' : v \in Verdicts \/ (v = writer'.report /\ writer'.report = Outcome("aborted", m.turn)
                                                   /\ m.turn \notin A /\ m.kind = "finish")
      <4>1. \A v \in Verdicts' : v \in Verdicts \/ v = writer'.report
        BY <1>1 DEF Verdicts
      <4>2. writer.report \in Verdicts
        BY DEF Verdicts
      <4>3. m.turn \in A => writer.active = m.turn
        BY <1>3 DEF A
      <4> QED BY <1>4, <4>1, <4>2, <4>3
    <3>2. \A v \in Verdicts' : v.kind # "failed" => v.turn \notin B
      <4> SUFFICES ASSUME NEW v \in Verdicts', v.kind # "failed", v.turn \in B PROVE FALSE
        OBVIOUS
      <4>1. CASE v \in Verdicts
        <5>1. v.turn \notin A
          BY <2>1, <4>1 DEF Told, A
        <5>2. v.turn \notin W /\ v.turn # 0
          BY <2>8, <2>10, <5>1
        <5> QED BY <2>7, <4>1, <5>2
      <4>2. CASE v \notin Verdicts
        <5>1. v.turn = m.turn /\ m.turn \notin A /\ m.kind = "finish"
          BY <3>1, <4>2 DEF Outcome
        <5> QED BY <2>4, <5>1
      <4> QED BY <4>1, <4>2
    <3>3. \A v \in Verdicts' : v.kind = "normal" => v.turn # NoTurn /\ (v.turn = sess'.turn => B = {})
      <4>1. \A v \in Verdicts' : v.kind = "normal" => v \in Verdicts
        BY <3>1 DEF Outcome
      <4> SUFFICES ASSUME NEW v \in Verdicts, v.kind = "normal"
                   PROVE  v.turn # NoTurn /\ (v.turn = sess.turn => B = {})
        BY <1>5, <4>1
      <4>2. v.turn # NoTurn /\ (v.turn = sess.turn => A = {})
        BY <2>1 DEF Told, A
      <4>3. v.turn \in W
        BY <2>7, <4>2 DEF NoTurn
      <4> QED BY <2>10, <4>2, <4>3
    <3>4. writer'.report.kind # "failed"
          /\ (writer'.pc # "reporting" => writer'.report.turn = NoTurn /\ writer'.report.kind = "none")
      BY <1>4, <2>2 DEF Outcome
    <3> QED BY <3>2, <3>3, <3>4 DEF Told, B
  <2>12. Spoken(sess, W, A) /\ Ends(sess, W, sess.turn) => Ends(sess', X, sess.turn)
    BY <1>2, <1>5, <1>7, <2>3, <2>8 DEF Ends
  <2>13. \A i, j \in DOMAIN sess'.control : i < j =>
            \E k, l \in DOMAIN sess.control :
              k < l /\ sess.control[k] = sess'.control[i] /\ sess.control[l] = sess'.control[j]
    <3> SUFFICES ASSUME NEW i \in DOMAIN sess'.control, NEW j \in DOMAIN sess'.control, i < j
                 PROVE  \E k, l \in DOMAIN sess.control :
                          k < l /\ sess.control[k] = sess'.control[i]
                                /\ sess.control[l] = sess'.control[j]
      OBVIOUS
    <3>1. i + 1 \in DOMAIN sess.control /\ j + 1 \in DOMAIN sess.control /\ i + 1 < j + 1
      BY <1>2, <1>5
    <3> QED BY <1>2, <1>5, <3>1
  <2>14. \A q \in Queued(sess') : Spoken(sess, W, A) /\ q.kind = "start" /\ q.gen > sess.gate =>
          sess.turn \notin X /\ ~Holds(sess'.urgent, "abort", sess.turn)
    <3> SUFFICES ASSUME NEW q \in Queued(sess'), Spoken(sess, W, A), q.kind = "start", q.gen > sess.gate
                 PROVE  sess.turn \notin X /\ ~Holds(sess'.urgent, "abort", sess.turn)
      OBVIOUS
    <3>1. sess.turn \notin W /\ ~Holds(sess.urgent, "abort", sess.turn) /\ q.turn = sess.turn
      BY <1>6 DEF Spoken
    <3>2. m.kind = "finish" => m.turn # sess.turn
      <4> SUFFICES ASSUME m.kind = "finish", m.turn = sess.turn PROVE FALSE
        OBVIOUS
      <4>1. \E j \in DOMAIN sess'.control : q = sess'.control[j]
        <5>1. sess'.audio \in Seq(Message(AudioKinds)) /\ sess'.pendingAudio \in {NoMsg} \union Message(AudioKinds)
          BY <1>1, <1>5, Fields DEF Lane
        <5> QED BY DEF Queued
      <4>2. PICK j \in DOMAIN sess'.control : q = sess'.control[j]
        BY <4>1
      <4>3. j \in Nat \ {0} /\ j + 1 \in DOMAIN sess.control /\ sess.control[j + 1] = q
        BY <1>2, <1>5, <4>2
      <4>4. 1 < j + 1
        BY <4>3
      <4>5. q.gen <= sess.gate
        BY <1>2, <3>1, <4>3, <4>4 DEF Spoken
      <4>6. q.gen \in Nat /\ sess.gate \in Nat
        BY <1>1, <1>6, QueuedTypes DEF Session
      <4> QED BY <4>5, <4>6
    <3> QED BY <1>5, <1>7, <2>3, <2>8, <3>1, <3>2
  <2>15. Voiced(sess', X, B)
    <3>1. \A t \in B : t \in A \/ (Spoken(sess, W, A) /\ t = sess.turn)
      BY <2>10
    <3>2. sess \in Session /\ Voiced(sess, W, A) /\ Queued(sess') \subseteq Queued(sess)
      BY <1>1, <1>6, <2>1
    <3>3. OnlyLanes(sess, sess')
      BY <1>5
    <3> QED BY <2>12, <2>13, <2>14, <3>1, <3>2, <3>3, VoicedOn
  <2> QED BY <2>11, <2>15 DEF X, B
<1> QED BY <1>9, <1>10 DEF VoiceInv

(* Audio is taken; it changes neither what is on air nor what is due. *)
LEMMA AudioVoiced ==
  ASSUME TypeOK, OwnInv, VoiceInv, TakeAudio
  PROVE  VoiceInv'
<1> DEFINE m == Head(sess.audio)
           W == Due
           A == Onair
<1>1. /\ sess.audio \in Seq(Message(AudioKinds)) /\ sess.audio # <<>>
      /\ sess' = [sess EXCEPT !.audio = Tail(sess.audio)]
      /\ UNCHANGED <<mailbox, wire, tasks>> /\ writer.pc = "idle" /\ sess \in Session
      /\ m.kind = "binary"
  BY AudioMove DEF TypeOK
<1>2. /\ {Tail(sess.audio)[i] : i \in DOMAIN Tail(sess.audio)}
           \subseteq {sess.audio[i] : i \in DOMAIN sess.audio}
      /\ m \in Message(AudioKinds)
  BY <1>1, PoppedAt
<1>4. writer.frame.kind = "none" /\ ~Parting(writer.frame) /\ wire.closed # 1000
  BY <1>1, WriterIsIdle DEF VoiceInv
<1>5. /\ writer'.active = writer.active /\ writer'.deferred = writer.deferred
      /\ writer'.report = writer.report
      /\ \/ writer'.frame = writer.frame /\ writer'.pc = "idle"
         \/ writer'.frame = m /\ writer'.pc = "sending"
  BY <1>1, AudioMove DEF Becomes
<1> HIDE DEF m
<1>6. Due' = W /\ Onair' = A /\ Verdicts' = Verdicts
  BY <1>1, <1>4, <1>5 DEF Due, Onair, Verdicts
<1>7. /\ OnlyLanes(sess, sess') /\ sess'.turn = sess.turn
      /\ sess'.control = sess.control /\ sess'.urgent = sess.urgent
      /\ sess'.audio = Tail(sess.audio) /\ sess'.pendingAudio = sess.pendingAudio
  BY <1>1, LaneUpdates DEF OnlyLanes
<1>8. Queued(sess') \subseteq Queued(sess) /\ Parts(sess') = Parts(sess)
  BY <1>2, <1>7 DEF Queued, Parts
<1>9. Farewell'
  <2>1. ~Parting(writer'.frame)
    BY <1>1, <1>4, <1>5 DEF Parting
  <2> QED BY <1>1, <1>4, <1>6, <1>8, <2>1, FarewellOn DEF VoiceInv
<1>10. ASSUME Alive' PROVE Voiced(sess', W, A) /\ Told'
  <2>1. Voiced(sess, W, A) /\ Told
    BY <1>1, <1>10 DEF VoiceInv, Alive
  <2>2. Told'
    BY <1>1, <1>5, <1>6, <1>7, <2>1 DEF Told
  <2> HIDE DEF W, A
  <2>3. Voiced(sess', W, A)
    <3>1. \A i, j \in DOMAIN sess'.control : i < j =>
            \E k, l \in DOMAIN sess.control :
              k < l /\ sess.control[k] = sess'.control[i] /\ sess.control[l] = sess'.control[j]
      BY <1>7
    <3>2. Spoken(sess, W, A) /\ Ends(sess, W, sess.turn) => Ends(sess', W, sess.turn)
      BY <1>7 DEF Ends
    <3>3. \A q \in Queued(sess') : Spoken(sess, W, A) /\ q.kind = "start" /\ q.gen > sess.gate =>
            sess.turn \notin W /\ ~Holds(sess'.urgent, "abort", sess.turn)
      BY <1>7, <1>8 DEF Spoken
    <3>4. sess \in Session
      BY <1>1
    <3> QED BY <1>7, <1>8, <2>1, <3>1, <3>2, <3>3, <3>4, VoicedOn
  <2> QED BY <2>2, <2>3
<1> QED BY <1>6, <1>9, <1>10 DEF VoiceInv

(* What is off air leaves the delivery alone. *)
LEMMA VoicedLess ==
  ASSUME NEW s, NEW W, NEW A, NEW B, Voiced(s, W, A), B \subseteq A
  PROVE  Voiced(s, W, B)
BY DEF Voiced, Hushed, Spoken

(* A frame was sent: its turn is on air from now on, or off air and due, *)
(* and the parting close found silence. *)
LEMMA SentVoiced ==
  ASSUME TypeOK, OwnInv, ArbiterInv, VoiceInv, Sent
  PROVE  VoiceInv'
<1> DEFINE m == writer.frame
           W == Due
           X == Due'
           A == Onair
           B == Onair'
<1>1. writer.pc = "sending" /\ UNCHANGED <<mailbox, tasks>> /\ sess \in Session /\ writer \in WriterState
  BY SentMove DEF TypeOK
<1>3. m.turn \in Nat /\ NoMsg.kind = "none" /\ writer.active \in Nat /\ (m.kind = "finish" => m.turn # 0)
  BY <1>1, SentMove DEF WriterState, Turns, NoMsg, Msg, NoTurn
<1>4. /\ sess'.urgent = sess.urgent /\ (m.kind # "close" => sess' = sess)
  <2>1. sess' = sess \/ (m.kind = "close" /\ sess' = [sess EXCEPT !.lanesOpen = FALSE])
    BY SentMove
  <2> QED BY <1>1, <2>1 DEF Session
<1>5. /\ writer'.frame = NoMsg /\ writer'.deferred = writer.deferred
      /\ \/ /\ m.kind = "start" /\ writer'.pc = "idle" /\ writer'.active = m.turn
            /\ writer'.report = writer.report
            /\ wire'.closed = wire.closed /\ wire'.stops = wire.stops
         \/ /\ m.kind = "finish" /\ writer'.pc = "reporting" /\ writer'.active = NoTurn
            /\ writer'.report = Outcome("normal", m.turn)
            /\ wire'.closed = wire.closed /\ wire.stops \subseteq wire'.stops
         \/ /\ m.kind = "abort" /\ writer'.pc = "reporting" /\ writer'.active = writer.active
            /\ writer'.report = Outcome("aborted", m.turn)
            /\ wire'.closed = wire.closed /\ wire'.stops = wire.stops
         \/ /\ m.kind = "close" /\ writer'.pc = "done" /\ writer'.active = writer.active
            /\ writer'.report = writer.report
            /\ wire'.closed = m.code /\ wire'.stops = wire.stops /\ wire'.playing = wire.playing
         \/ /\ m.kind \notin {"start", "finish", "abort", "close"}
            /\ writer'.pc = "idle" /\ writer'.active = writer.active
            /\ writer'.report = writer.report
            /\ wire'.closed = wire.closed /\ wire'.stops = wire.stops
  BY SentMove DEF Becomes
<1>6. wire.playing = writer.active \/ m.kind = "abort"
  BY <1>1 DEF ArbiterInv
<1>7. (m.kind = "start" \/ m.kind = "abort" => writer.active = NoTurn)
      /\ (m.kind = "finish" => writer.deferred = NoTurn)
  BY <1>1 DEF ArbiterInv, SendingKind
<1>8. B \subseteq A /\ (m.kind \in {"finish", "abort"} => B = {})
  BY <1>3, <1>5, <1>7 DEF Onair, NoTurn
<1>9. Farewell'
  <2>1. ~Parting(writer'.frame) /\ (Parts(sess') => Parts(sess))
    BY <1>3, <1>4, <1>5 DEF Parting, Parts
  <2>2. CASE m.kind # "close"
    <3>1. wire'.closed # 1000 /\ wire.stops \subseteq wire'.stops
      BY <1>1, <1>5, <2>2 DEF VoiceInv, Farewell
    <3>2. A = {} => B = {}
      BY <1>8
    <3> QED BY <1>1, <2>1, <3>1, <3>2, FarewellOn DEF VoiceInv
  <2>3. CASE m.kind = "close"
    <3>1. writer'.pc = "done" /\ wire'.closed = m.code /\ wire'.playing = writer.active
          /\ wire'.stops = wire.stops
      BY <1>5, <1>6, <2>3
    <3>2. m.code = 1000 => A = {} /\ wire.stops # {}
      BY <2>3 DEF VoiceInv, Farewell, Parting
    <3>3. A = {} => writer.active = NoTurn
      BY <1>3 DEF Onair, NoTurn
    <3> QED BY <1>1, <2>1, <3>1, <3>2, <3>3 DEF VoiceInv, Farewell
  <2> QED BY <2>2, <2>3
<1>10. ASSUME Alive' PROVE Voiced(sess', X, B) /\ Told'
  <2>1. Voiced(sess, W, A) /\ Told
    BY <1>1, <1>10 DEF VoiceInv, Alive
  <2>2. m.kind # "close" /\ sess' = sess
    BY <1>4, <1>5, <1>10 DEF Alive
  <2>3. writer.report.turn = NoTurn /\ writer.report.kind = "none"
    BY <1>1, <2>1 DEF Told
  <2>4. X = W
    <3>1. \A t \in Nat \ {0} : t \in X <=>
            \/ writer'.deferred = t
            \/ writer'.frame.kind \in {"finish", "abort"} /\ writer'.frame.turn = t
            \/ writer'.report.turn = t
            \/ \E i \in DOMAIN mailbox : mailbox[i].turn = t /\ mailbox[i].kind # "failed"
      BY <1>1 DEF Due
    <3>2. \A t \in Nat \ {0} : t \in W <=>
            \/ writer.deferred = t
            \/ writer.frame.kind \in {"finish", "abort"} /\ writer.frame.turn = t
            \/ writer.report.turn = t
            \/ \E i \in DOMAIN mailbox : mailbox[i].turn = t /\ mailbox[i].kind # "failed"
      BY DEF Due
    <3>3. X \subseteq Nat \ {0} /\ W \subseteq Nat \ {0}
      BY DEF Due
    <3> HIDE DEF W, X, A, B
    <3>4. \A t \in Nat \ {0} : t \in X <=> t \in W
      BY <1>3, <1>5, <2>2, <2>3, <3>1, <3>2 DEF NoTurn, Outcome
    <3> QED BY <3>3, <3>4
  <2>5. Voiced(sess', X, B)
    <3> HIDE DEF W, X, A, B
    <3> QED BY <1>8, <2>1, <2>2, <2>4, VoicedLess
  <2>6. Told'
    <3>1. \A v \in Verdicts' : v \in Verdicts \/ v = writer'.report
      BY <1>1 DEF Verdicts
    <3>2. writer.report \in Verdicts
      BY DEF Verdicts
    <3>3. \A v \in Verdicts' :
            v \in Verdicts \/ (B = {} /\ (v.kind = "normal" => v.turn # NoTurn))
      <4> HIDE DEF W, X, A, B
      <4> QED BY <1>3, <1>5, <1>8, <2>2, <3>1, <3>2 DEF Outcome, NoTurn
    <3>4. \A v \in Verdicts' : v.kind # "failed" => v.turn \notin B
      BY <1>8, <2>1, <3>3 DEF Told
    <3>5. \A v \in Verdicts' : v.kind = "normal" => v.turn # NoTurn /\ (v.turn = sess'.turn => B = {})
      BY <1>8, <2>1, <2>2, <3>3 DEF Told
    <3>6. writer'.report.kind # "failed"
          /\ (writer'.pc # "reporting" => writer'.report.turn = NoTurn /\ writer'.report.kind = "none")
      BY <1>5, <2>3 DEF Outcome
    <3> QED BY <3>4, <3>5, <3>6 DEF Told
  <2> QED BY <2>5, <2>6 DEF X, B
<1> QED BY <1>9, <1>10 DEF VoiceInv

(* A writer that gives up a frame, reports the failure or stops lets *)
(* nothing more be heard; an outcome it reports only moves. *)
LEMMA ReportedVoiced ==
  ASSUME TypeOK, OwnInv, VoiceInv, SendFailed \/ ReportClosed \/ ReportFailed \/ WriterStops
  PROVE  VoiceInv'
<1> DEFINE W == Due
           X == Due'
           A == Onair
           B == Onair'
<1>1. mailbox \in Seq(Verdict) /\ UNCHANGED <<wire, tasks>>
  BY EndMoves DEF TypeOK, Mailbox
<1>2. writer.frame.kind # "none" <=> writer.pc = "sending"
  BY DEF OwnInv, FrameIsSent
<1>3. CASE SendFailed \/ ReportFailed \/ WriterStops
  <2>1. writer.pc # "done" /\ writer'.pc \in {"failing", "done"} /\ ~Parting(writer'.frame)
    BY <1>2, <1>3, EndMoves DEF Becomes, Parting, NoMsg, Msg
  <2> QED BY <1>1, <2>1, FarewellEnds DEF VoiceInv, Alive
<1>4. CASE ReportClosed
  <2>1. /\ writer.pc = "reporting" /\ sess' = sess
        /\ tasks.actor # "done" => mailbox' = Append(mailbox, writer.report)
    BY <1>4, EndMoves DEF Deliver
  <2>2. /\ writer'.pc = "idle" /\ writer'.frame = writer.frame /\ writer'.active = writer.active
        /\ writer'.deferred = writer.deferred /\ writer'.report = Outcome("none", NoTurn)
    BY <1>4, EndMoves DEF Becomes
  <2>3. B = A
    BY <2>2 DEF Onair
  <2>4. Farewell'
    <3>1. wire'.closed # 1000 /\ wire.stops \subseteq wire'.stops
      BY <1>1, <2>1 DEF VoiceInv, Farewell
    <3>2. Parts(sess') => Parts(sess)
      BY <2>1
    <3> QED BY <1>1, <2>1, <2>2, <2>3, <3>1, <3>2, FarewellOn DEF VoiceInv
  <2>5. ASSUME Alive' PROVE Voiced(sess', X, B) /\ Told'
    <3>1. Voiced(sess, W, A) /\ Told /\ tasks.actor # "done"
      BY <1>1, <2>1, <2>5 DEF VoiceInv, Alive
    <3>2. mailbox' = Append(mailbox, writer.report) /\ writer.report.kind # "failed"
      BY <2>1, <3>1 DEF Told
    <3>3. /\ \A i \in DOMAIN mailbox' : mailbox'[i] = writer.report
                \/ (i \in DOMAIN mailbox /\ mailbox'[i] = mailbox[i])
          /\ \A i \in DOMAIN mailbox : i \in DOMAIN mailbox' /\ mailbox'[i] = mailbox[i]
          /\ \E i \in DOMAIN mailbox' : mailbox'[i] = writer.report
      <4>1. /\ \A i \in DOMAIN mailbox' : mailbox'[i] = writer.report
                  \/ (i \in DOMAIN mailbox /\ mailbox'[i] = mailbox[i])
            /\ \A i \in DOMAIN mailbox : i \in DOMAIN mailbox' /\ mailbox'[i] = mailbox[i]
        BY <1>1, <3>2
      <4>2. Len(mailbox) + 1 \in DOMAIN mailbox' /\ mailbox'[Len(mailbox) + 1] = writer.report
        BY <1>1, <3>2
      <4> QED BY <4>1, <4>2
    <3>4. X = W
      <4>1. \A t \in Nat \ {0} : t \in X <=>
              \/ writer'.deferred = t
              \/ writer'.frame.kind \in {"finish", "abort"} /\ writer'.frame.turn = t
              \/ writer'.report.turn = t
              \/ \E i \in DOMAIN mailbox' : mailbox'[i].turn = t /\ mailbox'[i].kind # "failed"
        BY DEF Due
      <4>2. \A t \in Nat \ {0} : t \in W <=>
              \/ writer.deferred = t
              \/ writer.frame.kind \in {"finish", "abort"} /\ writer.frame.turn = t
              \/ writer.report.turn = t
              \/ \E i \in DOMAIN mailbox : mailbox[i].turn = t /\ mailbox[i].kind # "failed"
        BY DEF Due
      <4>3. X \subseteq Nat \ {0} /\ W \subseteq Nat \ {0} /\ Outcome("none", NoTurn).turn = 0
        BY DEF Due, Outcome, NoTurn
      <4>4. \A t : (\E i \in DOMAIN mailbox' : mailbox'[i].turn = t /\ mailbox'[i].kind # "failed") <=>
               \/ writer.report.turn = t
               \/ \E i \in DOMAIN mailbox : mailbox[i].turn = t /\ mailbox[i].kind # "failed"
        BY <3>2, <3>3
      <4> HIDE DEF W, X, A, B
      <4>5. \A t \in Nat \ {0} : t \in X <=> t \in W
        BY <2>2, <4>1, <4>2, <4>3, <4>4
      <4> QED BY <4>3, <4>5
    <3>5. Voiced(sess', X, B)
      <4> HIDE DEF W, X, A, B
      <4> QED BY <2>1, <2>3, <3>1, <3>4
    <3>6. Told'
      <4>1. \A v \in Verdicts' : v \in Verdicts \/ v = Outcome("none", NoTurn)
        BY <2>2, <3>3 DEF Verdicts
      <4>2. \A v \in Verdicts' : v.kind # "failed" => v.turn \notin B
        <5>1. NoTurn \notin B
          BY DEF Onair, NoTurn
        <5> QED BY <2>3, <3>1, <4>1, <5>1 DEF Told, Outcome
      <4>3. \A v \in Verdicts' : v.kind = "normal" => v.turn # NoTurn /\ (v.turn = sess'.turn => B = {})
        BY <2>1, <2>3, <3>1, <4>1 DEF Told, Outcome
      <4>4. writer'.report.turn = NoTurn /\ writer'.report.kind = "none"
        BY <2>2 DEF Outcome
      <4> QED BY <4>2, <4>3, <4>4 DEF Told
    <3> QED BY <3>5, <3>6 DEF X, B
  <2> QED BY <2>4, <2>5 DEF VoiceInv
<1> QED BY <1>3, <1>4

(* What a step of the actor or the reader has to leave behind: an outcome *)
(* under way names a turn already begun, so none of them is told of a turn *)
(* the step begins. *)
LEMMA LeftVoiced ==
  ASSUME TypeOK, OwnInv, VoiceInv, UNCHANGED <<writer, wire>>, tasks'.code # 1000,
         \A i \in DOMAIN mailbox' : \E j \in DOMAIN mailbox : mailbox'[i] = mailbox[j],
         writer.pc \in {"failing", "done"} \/ Leaves(sess'),
         Alive' => Alive, Alive' => Voiced(sess', Due', Onair)
  PROVE  VoiceInv'
<1>1. Onair' = Onair
  BY DEF Onair
<1>2. Farewell'
  BY <1>1 DEF VoiceInv, Farewell, Leaves
<1>3. ASSUME Alive' PROVE Told'
  <2>1. Told /\ Leaves(sess')
    BY <1>3 DEF VoiceInv, Alive
  <2>2. \A v \in Verdicts' : v \in Verdicts
    BY DEF Verdicts
  <2>3. ASSUME NEW v \in Verdicts, v.kind = "normal", v.turn = sess'.turn PROVE v.turn = sess.turn
    <3>1. writer.report \in Verdict /\ mailbox \in Seq(Verdict)
      BY DEF TypeOK, WriterState, Mailbox
    <3>2. v \in Verdict
      BY <3>1 DEF Verdicts
    <3>3. v.turn \in Nat \ {0}
      BY <2>1, <2>3, <3>2 DEF Told, Verdict, Turns, NoTurn
    <3>4. v.turn \in Due
      BY <2>3, <3>3 DEF Due, Verdicts
    <3>5. sess \in Session /\ sess.nextTurnId \in Nat
      BY Fields DEF TypeOK
    <3>6. v.turn < sess.nextTurnId
      <4> DEFINE W == Due
      <4>1. v.turn \in W /\ Base(sess, W, Started)
        BY <3>4 DEF OwnInv, Owned
      <4> HIDE DEF W
      <4> QED BY <4>1 DEF Base, Ends
    <3>7. v.turn # NoTurn /\ ~(v.turn >= sess.nextTurnId)
      BY <3>3, <3>5, <3>6 DEF NoTurn
    <3> QED BY <2>1, <2>3, <3>7 DEF Leaves
  <2> QED BY <1>1, <2>1, <2>2, <2>3 DEF Told
<1> QED BY <1>1, <1>2, <1>3 DEF VoiceInv

(* Every step preserves the invariant of cancellation. *)
LEMMA VoiceStep ==
  ASSUME TypeOK, OwnInv, HeardInv, ArbiterInv, VoiceInv, Next => Considerate, [Next]_vars
  PROVE  VoiceInv'
<1>1. CASE Writer
  BY <1>1, UrgentVoiced, DeferredVoiced, ControlVoiced, AudioVoiced, SentVoiced, ReportedVoiced
     DEF Writer, TakeLane, EndSend
<1>2. ASSUME ~Writer,
             NEW c \in Replies,
             \/ Client(c) \/ AsrAnswers(c) \/ AsrFailed(c) \/ Utterance(c)
             \/ SpeechEnd(c) \/ LlmAnswers(c) \/ ToolEvent(c)
             \/ SpeechProgress(c) \/ SpeechFailed(c)
             \/ CleanupEvent \/ VadAnswers \/ VadFailed \/ ArmClose
      PROVE  VoiceInv'
  <2>1. UNCHANGED <<mailbox, writer, wire, tasks>> /\ tasks.actor # "done" /\ Due' = Due
    <3>1. UNCHANGED <<mailbox, writer, wire, tasks>> /\ Running
      BY <1>2, ActorSteps
    <3> QED BY <3>1 DEF Running, Due
  <2>2. tasks'.code # 1000 /\ (Alive' <=> Alive)
    BY <2>1 DEF VoiceInv, Farewell, Alive
  <2>3. ASSUME writer.pc \notin {"failing", "done"} PROVE Leaves(sess') /\ Voiced(sess', Due, Onair)
    <3>1. Voiced(sess, Due, Onair)
      BY <2>1, <2>3 DEF VoiceInv, Alive
    <3>2. TypeOK'
      BY NextType
    <3>3. Next
      BY <1>2 DEF Next
    <3>4. sess.turn # NoTurn => ~\E d \in Replies : Detect(d)
      BY <3>3 DEF Considerate, TypesOverTurn
    <3>5. Apt(sess')
      BY <1>2, <3>1, <3>2, <3>4, HandlersApt
    <3> QED BY <3>5 DEF Apt, Steady, Leaves
  <2> QED BY <2>1, <2>2, <2>3, LeftVoiced DEF Alive
<1>3. ASSUME NEW c \in Replies, OnWriterEvent(c) PROVE VoiceInv'
  <2>1. UNCHANGED <<writer, wire, tasks>> /\ tasks.actor # "done"
    BY <1>3 DEF OnWriterEvent, Running
  <2>2. tasks'.code # 1000 /\ (Alive' <=> Alive)
    BY <2>1 DEF VoiceInv, Farewell, Alive
  <2>3. \A i \in DOMAIN mailbox' : \E j \in DOMAIN mailbox : mailbox'[i] = mailbox[j]
    <3>1. mailbox \in Seq(Verdict) /\ mailbox # <<>> /\ mailbox' = Tail(mailbox)
      BY <1>3 DEF OnWriterEvent, TypeOK, Mailbox
    <3>2. \A i \in DOMAIN mailbox' : i + 1 \in DOMAIN mailbox /\ mailbox'[i] = mailbox[i + 1]
      BY <3>1
    <3> QED BY <3>2
  <2>4. ASSUME writer.pc \notin {"failing", "done"} PROVE Leaves(sess') /\ Voiced(sess', Due', Onair)
    <3>1. Voiced(sess, Due, Onair) /\ Told
      BY <2>1, <2>4 DEF VoiceInv, Alive
    <3>2. Onair' = Onair
      BY <2>1 DEF Onair
    <3> QED BY <1>3, <3>1, <3>2, OutcomeApt
  <2> QED BY <2>1, <2>2, <2>3, <2>4, LeftVoiced DEF Alive
<1>4. ASSUME ~Writer, Teardown PROVE VoiceInv'
  <2>1. UNCHANGED <<mailbox, writer, wire>> /\ Due' = Due
    BY <1>4, TeardownMoves DEF TypeOK, TaskStep, Due
  <2>2. tasks.code # 1000
    BY DEF VoiceInv, Farewell
  <2>3. tasks'.code # 1000 /\ Quiet(sess, sess')
    BY <1>4, <2>2, TeardownQuiet
  <2>4. Leaves(sess')
    BY <2>3 DEF Quiet, Steady, Leaves
  <2>5. Alive' => Alive
    BY <1>4, <2>1, TeardownMoves DEF TypeOK, Alive
  <2>6. ASSUME Alive' PROVE Voiced(sess', Due, Onair)
    <3>1. Voiced(sess, Due, Onair) /\ tasks'.actor # "done"
      BY <2>5, <2>6 DEF VoiceInv, Alive
    <3>2. Apt(sess')
      BY <1>4, <2>2, <3>1, TeardownApt
    <3> QED BY <3>2 DEF Apt
  <2> QED BY <2>1, <2>3, <2>4, <2>5, <2>6, LeftVoiced
<1>5. CASE UNCHANGED vars
  <2>1. /\ UNCHANGED <<sess, mailbox, writer, wire, tasks>>
        /\ Onair' = Onair /\ Due' = Due /\ Verdicts' = Verdicts
    BY <1>5 DEF vars, Onair, Due, Verdicts
  <2> QED BY <2>1 DEF VoiceInv, Farewell, Alive, Told
<1>6. [r \in Runtimes |-> TRUE] \in Replies
  BY DEF Replies
<1> QED BY <1>1, <1>2, <1>3, <1>4, <1>5, <1>6 DEF Next, Teardown, Terminated

(* The invariant of cancellation holds initially. *)
LEMMA VoiceInit == Init => VoiceInv
<1> SUFFICES ASSUME Init PROVE VoiceInv
  OBVIOUS
<1>1. /\ ~sess.ttsStarted /\ ~sess.playing /\ sess.pendingAudio.kind = "none"
      /\ sess.urgent = <<>> /\ sess.control = <<>> /\ sess.audio = <<>>
      /\ mailbox = <<>> /\ writer.pc = "idle" /\ writer.active = 0
      /\ writer.frame.kind = "none" /\ writer.report = Outcome("none", NoTurn)
      /\ wire.closed = 0 /\ tasks.code = 0
  BY DEF Init, NoTurn, NoMsg, Msg
<1>2. Queued(sess) = {} /\ Onair = {} /\ ~Parts(sess)
  BY <1>1 DEF Queued, Onair, Parts
<1>3. Verdicts = {Outcome("none", NoTurn)}
  BY <1>1 DEF Verdicts
<1>4. Farewell
  BY <1>1, <1>2 DEF Farewell, Parting
<1>5. Voiced(sess, Due, Onair)
  BY <1>1, <1>2 DEF Voiced, Meant, Hushed
<1>6. Told
  BY <1>1, <1>2, <1>3 DEF Told, Outcome
<1> QED BY <1>4, <1>5, <1>6 DEF VoiceInv

(* The invariants hold for as long as the client is patient. *)
LEMMA Voices ==
  PatientSpec => [](TypeOK /\ (patient => OwnInv /\ HeardInv /\ ArbiterInv /\ VoiceInv))
<1>1. PatientInit => HeardInv /\ ArbiterInv /\ VoiceInv
  BY VoiceInit
     DEF PatientInit, Init, HeardInv, HeardBeforeCommitted, Outcome, ArbiterInv, SendingKind, NoTurn
<1>2. /\ TypeOK /\ (patient => OwnInv /\ HeardInv /\ ArbiterInv /\ VoiceInv)
      /\ [PatientNext]_allVars
      => (patient => HeardInv /\ ArbiterInv /\ VoiceInv)'
  <2> SUFFICES ASSUME TypeOK, patient => OwnInv /\ HeardInv /\ ArbiterInv /\ VoiceInv,
                      [PatientNext]_allVars, patient'
               PROVE  HeardInv' /\ ArbiterInv' /\ VoiceInv'
    OBVIOUS
  <2>1. /\ OwnInv /\ HeardInv /\ ArbiterInv /\ VoiceInv
        /\ [Next]_vars /\ (UNCHANGED vars \/ (Next /\ Considerate))
    BY PatientStep
  <2>2. HeardInv' /\ ArbiterInv'
    BY <2>1, HeardStep, ArbiterStep
  <2>3. CASE UNCHANGED vars
    <3>1. /\ UNCHANGED <<sess, mailbox, writer, wire, tasks>>
          /\ Onair' = Onair /\ Due' = Due /\ Verdicts' = Verdicts
      BY <2>3 DEF vars, Onair, Due, Verdicts
    <3> QED BY <2>1, <2>2, <3>1 DEF VoiceInv, Farewell, Alive, Told
  <2>4. CASE Next /\ Considerate
    BY <2>1, <2>2, <2>4, VoiceStep
  <2> QED BY <2>1, <2>2, <2>3, <2>4
<1> QED BY <1>1, <1>2, Owns, Follows, TypeCorrect, PTL DEF PatientSpec

(* What the writer hands to the socket is of the turn the actor owns. *)
LEMMA HandsOver ==
  ASSUME TypeOK, OwnInv, VoiceInv, [Next]_vars,
         writer'.pc = "sending", writer'.frame # writer.frame,
         writer'.frame.kind \in {"start", "binary"}, tasks.actor # "done"
  PROVE  writer'.frame.turn = sess.turn
<1>1. sess \in Session
  BY DEF TypeOK
<1>2. ASSUME writer.pc = "idle", NEW m \in Queued(sess), m.gen > sess.gate,
             m.kind = "start" \/ m.turn = writer.active
      PROVE  m.turn = sess.turn
  <2>1. Voiced(sess, Due, Onair)
    BY <1>2 DEF VoiceInv, Alive
  <2>2. m.turn \in Nat \ {0}
    BY <1>1, <2>1, QueuedTypes DEF Voiced, Meant, NoTurn
  <2>3. m.kind = "start" \/ m.turn \in Onair
    BY <1>2, <2>2 DEF Onair
  <2>4. ~Hushed(sess, Onair)
    BY <1>2, <2>3 DEF Hushed
  <2> QED BY <1>2, <2>1, <2>3, <2>4 DEF Voiced, Spoken
<1>3. CASE TakeControl
  <2> DEFINE m == Head(sess.control)
  <2>1. /\ m \in {sess.control[i] : i \in DOMAIN sess.control}
        /\ writer'.frame = m /\ writer.pc = "idle" /\ m.kind = "start" /\ m.gen > sess.gate
    BY <1>3, ControlMove, PoppedAt DEF Becomes, Admits
  <2> QED BY <1>2, <2>1 DEF Queued
<1>4. CASE TakeAudio
  <2> DEFINE m == Head(sess.audio)
  <2>1. /\ m \in {sess.audio[i] : i \in DOMAIN sess.audio} /\ m.turn = writer.active
        /\ writer'.frame = m /\ writer.pc = "idle" /\ m.kind = "binary" /\ m.gen > sess.gate
    BY <1>4, AudioMove, PoppedAt DEF Becomes, Admits
  <2> HIDE DEF m
  <2>2. m \in Queued(sess)
    BY <2>1 DEF Queued
  <2> QED BY <1>2, <2>1, <2>2
<1>5. CASE TakeUrgent \/ TakeDeferredFinish
  BY <1>5, UrgentMove, DeferredMove DEF Becomes, Msg
<1>6. CASE Sent
  BY <1>6, SentMove DEF Becomes, NoMsg, Msg
<1>7. CASE SendFailed \/ ReportClosed \/ ReportFailed \/ WriterStops
  BY <1>7, EndMoves DEF Becomes, NoMsg, Msg
<1>8. CASE ~Writer
  BY <1>8, QuietSteps
<1> QED BY <1>3, <1>4, <1>5, <1>6, <1>7, <1>8 DEF Writer, TakeLane, EndSend

(* A cancelled turn is never started and never spoken again: what the *)
(* writer hands to the socket is of the turn the actor owns, however the *)
(* lanes raced with the cancellation (delivery.rs, cancel_speech_delivery; *)
(* outbound/writer.rs, is_stale_or_inactive), for as long as the client is *)
(* patient. *)
THEOREM NothingStale == PatientSpec => [][patient => HandedIsOwned]_allVars
<1>1. TypeOK /\ (patient => OwnInv /\ HeardInv /\ ArbiterInv /\ VoiceInv)
        /\ [PatientNext]_allVars
      => [patient => HandedIsOwned]_allVars
  BY HandsOver DEF PatientNext, HandedIsOwned
<1> QED BY <1>1, Voices, PTL DEF PatientSpec

(* The close of End Conversation never cuts a turn that still plays and *)
(* never comes before some turn was heard in full (ingress.rs, *)
(* take_close_for; lifecycle.rs, close_normally), for as long as the client *)
(* is patient. *)
THEOREM QuietClose == PatientSpec => [](patient => NormalCloseIsQuiet)
<1>1. VoiceInv => NormalCloseIsQuiet
  BY DEF VoiceInv, Farewell, NormalCloseIsQuiet
<1> QED BY <1>1, Voices, PTL

=============================================================================
