----------------------------- MODULE MCVoiceTurn -----------------------------
(* The instances of VoiceTurn that TLC checks: every constant is a number, a *)
(* flag or a set of strings, so the configurations give the values directly. *)
EXTENDS VoiceTurn
=============================================================================
