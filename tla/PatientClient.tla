--------------------------- MODULE PatientClient ----------------------------
(***************************************************************************)
(* A Voice Session together with what its client has done so far.  The     *)
(* variable patient is a history: it follows the steps of VoiceTurn, none  *)
(* of which reads it, so every behaviour of VoiceTurn is one of this       *)
(* module, with exactly one value of patient in each state.                *)
(*                                                                         *)
(* Two things a client may do make the actor give up work that goes on:    *)
(* typing while a turn is active (accept_detect does not look at the turn) *)
(* and asking for manual listening while the session is busy in another    *)
(* mode (start_listening stores the mode, the VAD capture goes on, and the *)
(* manual utterance that follows begins a turn over the active one).  A    *)
(* client is patient until it does one of the two.                         *)
(***************************************************************************)
EXTENDS VoiceTurn

VARIABLE patient

allVars == <<vars, patient>>

(* Where start_listening only stores the new mode.                          *)
Busy == sess.turn # NoTurn \/ sess.phase \in {"Processing", "Speaking"}

TypesOverTurn == sess.turn # NoTurn /\ \E c \in Replies : Detect(c)
SwitchesToManual ==
  /\ Busy /\ sess.listeningMode # "manual"
  /\ \E c \in Replies : "manual" \in Modes /\ StartListening("manual", c)
Considerate == ~TypesOverTurn /\ ~SwitchesToManual

PatientInit == Init /\ patient = TRUE
PatientNext == Next /\ patient' = (patient /\ Considerate)
PatientSpec == PatientInit /\ [][PatientNext]_allVars

-----------------------------------------------------------------------------
(* What holds for as long as the client is patient, with any modes, inputs, *)
(* faults and capacities: see the properties of VoiceTurn.                  *)

(* A model round in flight is of the turn and generation owned now.         *)
RoundOwnedSoFar == patient => LlmOwned
(* A recognition stream the actor holds is of the current generation.       *)
RecognitionOwnedSoFar == patient => AsrOwned
(* No turn is started twice.                                                *)
StartedOnceSoFar == patient => StartedOnce
(* The close of End Conversation cuts nothing that plays.                   *)
QuietCloseSoFar == patient => NormalCloseIsQuiet
(* No start and no audio of a turn the actor gave up reaches the socket.    *)
NothingStaleSoFar == [][patient => HandedIsOwned]_allVars

=============================================================================
