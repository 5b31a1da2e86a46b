---------------------------- MODULE TurnDelivery ----------------------------
(***************************************************************************)
(* What a Voice Session promises about the speech of its turns, whatever   *)
(* its lanes, its gate, its arbiter and its cancellations do inside: turns *)
(* are played one after the other, each ends by a stop or is cut short,    *)
(* only what was played to its stop is remembered as said, and the end of  *)
(* the connection ends it all.                                             *)
(***************************************************************************)
CONSTANT NoTurn

VARIABLES
  playing,  (* the turn the device is playing                              *)
  stops,    (* the turns it was told to have finished                      *)
  heard,    (* the turns whose text entered Dialogue History               *)
  gone      (* nothing is sent any more                                    *)

vars == <<playing, stops, heard, gone>>

Init == playing = NoTurn /\ stops = {} /\ heard = {} /\ gone = FALSE

Start ==
  /\ ~gone /\ playing = NoTurn /\ playing' # NoTurn
  /\ UNCHANGED <<stops, heard, gone>>

Stop ==
  /\ ~gone /\ playing # NoTurn /\ playing' = NoTurn
  /\ stops' = stops \union {playing}
  /\ UNCHANGED <<heard, gone>>

Cut ==
  /\ ~gone /\ playing # NoTurn /\ playing' = NoTurn
  /\ UNCHANGED <<stops, heard, gone>>

(* A session may remember what was said after its connection has gone.     *)
Remember ==
  /\ \E t \in stops : heard' = heard \union {t}
  /\ UNCHANGED <<playing, stops, gone>>

Leave == ~gone /\ gone' = TRUE /\ UNCHANGED <<playing, stops, heard>>

Next == Start \/ Stop \/ Cut \/ Remember \/ Leave

Spec == Init /\ [][Next]_vars
=============================================================================
