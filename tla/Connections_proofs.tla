-------------------------- MODULE Connections_proofs --------------------------
(***************************************************************************)
(* Proofs about Connections for any finite set of connections, any devices *)
(* and any assignment of one to the other.                                 *)
(***************************************************************************)
EXTENDS Connections, FiniteSetTheorems, TLAPS

(* The gate closes before the drain begins and never opens again.          *)
GateStaysClosed == shut # "running" => ~gate

ConnInv == TypeOK /\ GateStaysClosed /\ DisplacedIsTold /\ OverdueIsTold

(* The length of a part of the connections is a number.                    *)
LEMMA LengthIsNat ==
  ASSUME NEW S, S \subseteq Conn
  PROVE  Cardinality(S) \in Nat
<1>1. IsFiniteSet(S)
  BY FS_Subset, ConnectionsAssumption
<1> QED
  BY <1>1, FS_CardinalityType

(* No connection is counted yet and the gate is open.                      *)
LEMMA InitConn == Init => ConnInv
<1> SUFFICES ASSUME Init PROVE ConnInv
  OBVIOUS
<1>1. \A c \in Conn : phase[c] = "new"
  BY DEF Init
<1>2. sessions = {c \in Conn : phase[c] \in Counted}
  BY <1>1 DEF Init, Counted
<1>3. TypeOK
  BY <1>2 DEF Init, TypeOK
<1>4. GateStaysClosed /\ DisplacedIsTold /\ OverdueIsTold
  BY <1>1 DEF Init, GateStaysClosed, DisplacedIsTold, OverdueIsTold
<1> QED
  BY <1>3, <1>4 DEF ConnInv

(* One step of a handler or of a socket task.                              *)
LEMMA ConnectionStep ==
  ASSUME ConnInv, NEW c \in Conn, HandlerNext(c) \/ SocketNext(c)
  PROVE  ConnInv'
<1> USE DEF ConnInv, Counted, lifeVars, Becomes
<1>1. CASE Register(c)
  <2>1. sessions' \subseteq Conn
    BY <1>1 DEF Register, TypeOK
  <2>2. Cardinality(sessions') \in Nat
    BY <2>1, LengthIsNat
  <2>3. TypeOK'
    BY <1>1, <2>2 DEF Register, TypeOK
  <2> QED
    BY <1>1, <2>3 DEF Register, TypeOK, GateStaysClosed, DisplacedIsTold, OverdueIsTold
<1>2. CASE Registered(c)
  BY <1>2 DEF Registered, TypeOK, GateStaysClosed, DisplacedIsTold, OverdueIsTold
<1>3. CASE Admit(c)
  BY <1>3 DEF Admit, TypeOK, GateStaysClosed, DisplacedIsTold, OverdueIsTold
<1>4. CASE Unregister(c)
  <2>1. sessions' \subseteq Conn
    BY <1>4 DEF Unregister, TypeOK
  <2>2. Cardinality(sessions') \in Nat
    BY <2>1, LengthIsNat
  <2>3. TypeOK'
    BY <1>4, <2>2 DEF Unregister, TypeOK
  <2> QED
    BY <1>4, <2>3 DEF Unregister, TypeOK, GateStaysClosed, DisplacedIsTold, OverdueIsTold
<1>5. CASE Unregistered(c)
  BY <1>5 DEF Unregistered, TypeOK, GateStaysClosed, DisplacedIsTold, OverdueIsTold
<1>6. CASE LeaveEarly(c)
  BY <1>6 DEF LeaveEarly, TypeOK, GateStaysClosed, DisplacedIsTold, OverdueIsTold
<1>7. CASE Greet(c)
  <2>1. DeviceOf[c] # None => DeviceOf[c] \in Device
    BY ConnectionsAssumption
  <2>2. TypeOK'
    BY <1>7, <2>1 DEF Greet, TypeOK
  <2>3. DisplacedIsTold'
    <3>1. SUFFICES ASSUME NEW o \in Conn, phase'[o] = "open", DeviceOf[o] # None
                   PROVE  entries'[DeviceOf[o]] = o \/ o \in replaced'
      BY DEF DisplacedIsTold
    <3>2. DeviceOf[o] \in Device
      BY <3>1, ConnectionsAssumption
    <3>3. CASE o = c
      BY <1>7, <3>1, <3>2, <3>3 DEF Greet, TypeOK
    <3>4. CASE o # c
      <4>1. entries[DeviceOf[o]] = o \/ o \in replaced
        BY <1>7, <3>1, <3>4 DEF Greet, TypeOK, DisplacedIsTold
      <4>2. CASE DeviceOf[c] # DeviceOf[o]
        BY <1>7, <3>2, <4>1, <4>2 DEF Greet, TypeOK
      <4>3. CASE DeviceOf[c] = DeviceOf[o]
        BY <1>7, <3>1, <3>2, <4>1, <4>3, ConnectionsAssumption DEF Greet, TypeOK
      <4> QED
        BY <4>2, <4>3
    <3> QED
      BY <3>3, <3>4
  <2> QED
    BY <1>7, <2>2, <2>3 DEF Greet, TypeOK, GateStaysClosed, OverdueIsTold
<1>8. CASE LoopEnds(c)
  BY <1>8, ConnectionsAssumption DEF LoopEnds, WithoutEntry, TypeOK, GateStaysClosed,
     DisplacedIsTold, OverdueIsTold
<1>9. CASE TasksEnd(c)
  BY <1>9 DEF TasksEnd, TypeOK, GateStaysClosed, DisplacedIsTold, OverdueIsTold
<1> QED
  BY <1>1, <1>2, <1>3, <1>4, <1>5, <1>6, <1>7, <1>8, <1>9 DEF HandlerNext, SocketNext

(* One step of the ordered shutdown.                                       *)
LEMMA ShutdownStep == ASSUME ConnInv, ShutdownNext PROVE ConnInv'
<1> USE DEF ConnInv, connVars, TypeOK, GateStaysClosed, DisplacedIsTold, OverdueIsTold
<1>1. CASE BeginShutdown
  BY <1>1 DEF BeginShutdown
<1>2. CASE Drained
  BY <1>2 DEF Drained
<1>3. CASE DeadlinePasses
  BY <1>3 DEF DeadlinePasses
<1>4. CASE ControlledCloseAll
  BY <1>4 DEF ControlledCloseAll, Counted
<1>5. CASE Stop
  BY <1>5 DEF Stop
<1> QED
  BY <1>1, <1>2, <1>3, <1>4, <1>5 DEF ShutdownNext

(* The invariant holds throughout.                                         *)
LEMMA ConnInvariant == Spec => []ConnInv
<1>1. ConnInv /\ UNCHANGED vars => ConnInv'
  BY DEF ConnInv, vars, TypeOK, GateStaysClosed, DisplacedIsTold, OverdueIsTold
<1>2. ConnInv /\ [Next]_vars => ConnInv'
  BY <1>1, ConnectionStep, ShutdownStep DEF Next
<1> QED
  BY <1>2, InitConn, PTL DEF Spec

(* The registries hold what they are declared to hold, and a connection is *)
(* in the drain registry exactly while its registration lives.             *)
THEOREM ConnectionsTyped == Spec => []TypeOK
BY ConnInvariant, PTL DEF ConnInv

(* For any number of reconnects of any devices, a session that is not its  *)
(* device's current one has been told to leave.                            *)
THEOREM OneUntoldSession == Spec => []DisplacedIsTold
BY ConnInvariant, PTL DEF ConnInv

(* Past the drain deadline every admitted connection has been told.        *)
THEOREM DeadlineReachesAll == Spec => []OverdueIsTold
BY ConnInvariant, PTL DEF ConnInv
=============================================================================
