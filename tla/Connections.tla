---------------------------- MODULE Connections ----------------------------
(***************************************************************************)
(* Connections of the server from their upgrade request to the end of the  *)
(* socket task, the drain registry and the gate they pass, the registry of *)
(* the current session of each device, and the ordered shutdown            *)
(* (lifecycle.rs, app/transport/websocket, app/enrollment/socket.rs,       *)
(* services/device/active_sessions.rs).                                    *)
(*                                                                         *)
(* register and unregister change the map under its lock and publish the   *)
(* length they computed after they released it: two steps each.            *)
(***************************************************************************)
EXTENDS Naturals, FiniteSets

CONSTANTS
  Conn,       (* connections                                               *)
  Device,     (* devices with a row                                        *)
  None,
  DeviceOf    (* the device of a physical connection; None for an          *)
              (* enrollment socket and for the Web Assistant               *)

ASSUME ConnectionsAssumption ==
  /\ IsFiniteSet(Conn) /\ None \notin Device \union Conn
  /\ DeviceOf \in [Conn -> Device \union {None}]

VARIABLES
  phase,      (* per connection: how far its handler or socket task is     *)
  len,        (* per connection: the length register or unregister computed*)
  sessions,   (* DrainRegistry.sessions                                    *)
  active,     (* DrainRegistry.active, the published length                *)
  entries,    (* ActiveDeviceSessions: current connection per device       *)
  replaced,   (* connections whose replacement token is cancelled          *)
  closed,     (* connections whose drain token is cancelled                *)
  gate,       (* AdmissionGate.open                                        *)
  stopping,   (* the lifecycle's stopping token                            *)
  shut        (* how far RuntimeLifecycle::shutdown is                     *)
connVars == <<phase, len, sessions, active, entries, replaced>>
lifeVars == <<closed, gate, stopping, shut>>
vars == <<phase, len, sessions, active, entries, replaced,
          closed, gate, stopping, shut>>

Init ==
  /\ phase = [c \in Conn |-> "new"]
  /\ len = [c \in Conn |-> 0]
  /\ sessions = {} /\ active = 0
  /\ entries = [d \in Device |-> None]
  /\ replaced = {} /\ closed = {}
  /\ gate = TRUE /\ stopping = FALSE /\ shut = "running"

Becomes(c, p) == phase' = [phase EXCEPT ![c] = p]

-----------------------------------------------------------------------------
(* The drain registry.                                                     *)

(* register: the handler does this before it looks at the gate.            *)
Register(c) ==
  /\ phase[c] = "new"
  /\ sessions' = sessions \union {c}
  /\ len' = [len EXCEPT ![c] = Cardinality(sessions')]
  /\ Becomes(c, "counting")
  /\ UNCHANGED <<active, entries, replaced>> /\ UNCHANGED lifeVars

Registered(c) ==
  /\ phase[c] = "counting"
  /\ active' = len[c] /\ len' = [len EXCEPT ![c] = 0]
  /\ Becomes(c, "registered")
  /\ UNCHANGED <<sessions, entries, replaced>> /\ UNCHANGED lifeVars

(* unregister, when the registration is dropped.                           *)
UnregisterKeepsToken(c) ==
  /\ phase[c] = "dropping"
  /\ len' = [len EXCEPT ![c] = Cardinality(sessions \ {c})]
  /\ Becomes(c, "uncounting")
  /\ UNCHANGED <<sessions, active, entries, replaced>> /\ UNCHANGED lifeVars
Unregister(c) ==
  /\ phase[c] = "dropping"
  /\ sessions' = sessions \ {c}
  /\ len' = [len EXCEPT ![c] = Cardinality(sessions')]
  /\ Becomes(c, "uncounting")
  /\ UNCHANGED <<active, entries, replaced>> /\ UNCHANGED lifeVars

Unregistered(c) ==
  /\ phase[c] = "uncounting"
  /\ active' = len[c] /\ len' = [len EXCEPT ![c] = 0]
  /\ Becomes(c, "gone")
  /\ UNCHANGED <<sessions, entries, replaced>> /\ UNCHANGED lifeVars

-----------------------------------------------------------------------------
(* The handler and the socket task.                                        *)

(* admit: the gate first; a request may be refused for other reasons.      *)
Admit(c) ==
  /\ phase[c] = "registered"
  /\ \/ gate /\ Becomes(c, "admitted")
     \/ Becomes(c, "dropping")
  /\ UNCHANGED <<len, sessions, active, entries, replaced>>
  /\ UNCHANGED lifeVars

(* The upgrade fails, no hello comes in time, a signal fires before it.    *)
LeaveEarly(c) ==
  /\ phase[c] = "admitted"
  /\ Becomes(c, "dropping")
  /\ UNCHANGED <<len, sessions, active, entries, replaced>>
  /\ UNCHANGED lifeVars

(* The hello is answered; a physical connection takes its device's entry   *)
(* and tells the one that had it.                                          *)
Greet(c) ==
  /\ phase[c] = "admitted"
  /\ Becomes(c, "open")
  /\ IF DeviceOf[c] = None THEN UNCHANGED <<entries, replaced>>
     ELSE /\ replaced' = replaced \union ({entries[DeviceOf[c]]} \ {None})
          /\ entries' = [entries EXCEPT ![DeviceOf[c]] = c]
  /\ UNCHANGED <<len, sessions, active>> /\ UNCHANGED lifeVars

(* The loop ends, for the peer, an idle transport or a signal; unregister  *)
(* removes an entry of its own only.                                       *)
WithoutAnyEntry(c) == [d \in Device |-> IF d = DeviceOf[c] THEN None ELSE entries[d]]
WithoutEntry(c) == [d \in Device |-> IF entries[d] = c THEN None ELSE entries[d]]
LoopEnds(c) ==
  /\ phase[c] = "open"
  /\ Becomes(c, "ending")
  /\ entries' = WithoutEntry(c)
  /\ UNCHANGED <<len, sessions, active, replaced>> /\ UNCHANGED lifeVars

(* Actor, reminder worker and writer are joined.                           *)
TasksEnd(c) ==
  /\ phase[c] = "ending"
  /\ Becomes(c, "dropping")
  /\ UNCHANGED <<len, sessions, active, entries, replaced>>
  /\ UNCHANGED lifeVars

(* SessionCloseSet: the signals that end the socket task.                  *)
Signalled(c) == stopping \/ c \in closed \/ c \in replaced
Ends(c) == Signalled(c) /\ (LeaveEarly(c) \/ LoopEnds(c))

-----------------------------------------------------------------------------
(* RuntimeLifecycle::shutdown.                                             *)

BeginShutdownOpen ==
  /\ shut = "running"
  /\ shut' = "draining"
  /\ UNCHANGED <<gate, closed, stopping>> /\ UNCHANGED connVars
BeginShutdown ==
  /\ shut = "running"
  /\ shut' = "draining" /\ gate' = FALSE
  /\ UNCHANGED <<closed, stopping>> /\ UNCHANGED connVars

(* drain_until sees the published count at zero.                           *)
Drained ==
  /\ shut = "draining" /\ active = 0
  /\ shut' = "drained"
  /\ UNCHANGED <<gate, closed, stopping>> /\ UNCHANGED connVars

DeadlinePasses ==
  /\ shut = "draining"
  /\ shut' = IF active = 0 THEN "drained" ELSE "overdue"
  /\ UNCHANGED <<gate, closed, stopping>> /\ UNCHANGED connVars

ControlledCloseAll ==
  /\ shut = "overdue"
  /\ shut' = "told" /\ closed' = closed \union sessions
  /\ UNCHANGED <<gate, stopping>> /\ UNCHANGED connVars

(* The flush and the providers' shutdown end by the same deadline.         *)
StopSilently ==
  /\ shut \in {"drained", "told"}
  /\ shut' = "stopped"
  /\ UNCHANGED <<gate, closed, stopping>> /\ UNCHANGED connVars
Stop ==
  /\ shut \in {"drained", "told"}
  /\ shut' = "stopped" /\ stopping' = TRUE
  /\ UNCHANGED <<gate, closed>> /\ UNCHANGED connVars

HandlerNext(c) ==
  Register(c) \/ Registered(c) \/ Admit(c) \/ Unregister(c) \/ Unregistered(c)
SocketNext(c) == LeaveEarly(c) \/ Greet(c) \/ LoopEnds(c) \/ TasksEnd(c)
ShutdownNext ==
  \/ BeginShutdown \/ Drained \/ DeadlinePasses \/ ControlledCloseAll \/ Stop
Next == (\E c \in Conn : HandlerNext(c) \/ SocketNext(c)) \/ ShutdownNext

(* Tasks run on; a socket task need not end before it is told to.  That    *)
(* the joined tasks end is SessionEnds of VoiceTurn.                       *)
Fairness ==
  /\ \A c \in Conn :
       /\ WF_vars(Registered(c)) /\ WF_vars(Admit(c)) /\ WF_vars(Ends(c))
       /\ WF_vars(TasksEnd(c))
       /\ WF_vars(Unregister(c)) /\ WF_vars(Unregistered(c))
  /\ WF_vars(DeadlinePasses) /\ WF_vars(ControlledCloseAll) /\ WF_vars(Stop)

Spec == Init /\ [][Next]_vars
FairSpec == Spec /\ Fairness

-----------------------------------------------------------------------------
(* Every variable keeps its type; a connection is in the registry exactly  *)
(* from register to the drop of its registration.                          *)
Counted == {"counting", "registered", "admitted", "open", "ending", "dropping"}
TypeOK ==
  /\ phase \in [Conn -> Counted \union {"new", "uncounting", "gone"}]
  /\ len \in [Conn -> Nat] /\ active \in Nat
  /\ sessions = {c \in Conn : phase[c] \in Counted}
  /\ entries \in [Device -> Conn \union {None}]
  /\ replaced \subseteq Conn /\ closed \subseteq Conn
  /\ gate \in BOOLEAN /\ stopping \in BOOLEAN
  /\ shut \in {"running", "draining", "drained", "overdue", "told", "stopped"}

(* A device has one session that nobody told to leave, and it is the one   *)
(* the registry names, however the reconnects and the ends of older        *)
(* sessions interleave.                                                    *)
DisplacedIsTold ==
  \A c \in Conn : phase[c] = "open" /\ DeviceOf[c] # None =>
    entries[DeviceOf[c]] = c \/ c \in replaced

(* After the drain deadline's controlled close no admitted connection is   *)
(* left that was not told: none can slip in between the gate and the round *)
(* of closes.                                                              *)
OverdueIsTold ==
  shut = "told" => \A c \in Conn : phase[c] \in {"admitted", "open"} => c \in closed

(* Once shutdown has begun every connection ends, though the drain may     *)
(* judge by a count that two publications left stale.                      *)
ShutdownEndsAll ==
  (shut = "draining") ~> (\A c \in Conn : phase[c] \in {"new", "gone"})

(* drain_until answers Drained only when no admitted connection is left:   *)
(* every registered session completed on its own before the deadline.      *)
DrainedMeansNone ==
  shut = "drained" => \A c \in Conn : phase[c] \notin {"admitted", "open", "ending"}
=============================================================================
