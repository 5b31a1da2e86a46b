----------------------------- MODULE VadWorkers -----------------------------
(***************************************************************************)
(* Voice activity detection of one session: capture cycles in the actor,   *)
(* the native VAD worker pinned to each lease, and the runtime's slots     *)
(* with their reset and cleanup deadlines.  Sources: workers/vad/mod.rs,   *)
(* listening.rs, audio/vad_segmenter.rs.  Permits, the retained pool and   *)
(* the waker are those of AsrWorkers and are left out here.                *)
(* Audio is counted in blocks of 64 samples: a frame is 15 blocks (960     *)
(* samples, 60 ms), a window of the detector 8 (512 samples).              *)
(***************************************************************************)
EXTENDS Naturals, Sequences, FiniteSets

CONSTANTS
  MaxOpens,    (* bound: leases                                            *)
  MaxCycles,   (* bound: capture cycles                                    *)
  MaxFrames,   (* bound: frames pushed in one cycle                        *)
  MaxWorkers,  (* config.max_workers                                       *)
  Capacity     (* config.command_capacity: commands and routed events      *)

Lease == 1..MaxOpens
None == 0
Frame == 15
Window == 8

ASSUME VadAssumption ==
  /\ MaxOpens \in Nat /\ MaxCycles \in Nat /\ MaxFrames \in Nat
  /\ MaxWorkers \in Nat \ {0} /\ Capacity \in Nat \ {0}

VARIABLES
  sess,      (* the actor: lease, cycles, the segmenter's next start       *)
  opens,     (* leases given out                                           *)
  slot,      (* per lease                                                  *)
  commands,  (* per lease: the bounded command channel                     *)
  worker,    (* per lease: the native thread and its rechunker             *)
  events,    (* the runtime's event channel                                *)
  route,     (* the session's bounded mailbox                              *)
  reaping,   (* the supervisor found the event channel empty               *)
  lost       (* some event found the mailbox full                          *)

vars == <<sess, opens, slot, commands, worker, events, route, reaping, lost>>

Fatal == {"Failed", "ResetTimedOut", "CleanupTimedOut"}
Command == [do : {"Push", "Reset", "Close"}, cycle : 0..MaxCycles]
Ev(k, l, c) == [kind |-> k, lease |-> l, cycle |-> c, start |-> 0, pure |-> TRUE]

Listens(l) == worker[l].pc \in {"Opening", "Serving"}
Slots == {l \in Lease : slot[l] # "None"}

Init ==
  /\ sess = [lease |-> None, cycle |-> None, pendingCycle |-> None, cycles |-> 0,
             frames |-> 0, expected |-> None, opening |-> FALSE, closed |-> FALSE,
             dropped |-> FALSE]
  /\ opens = 0
  /\ slot = [l \in Lease |-> "None"]
  /\ commands = [l \in Lease |-> <<>>]
  /\ worker = [l \in Lease |->
                 [pc |-> "None", pending |-> 0, oldest |-> None, next |-> 0]]
  /\ events = <<>> /\ route = <<>> /\ reaping = FALSE /\ lost = FALSE

-----------------------------------------------------------------------------
(* VadWorkerRuntime::send: Push and Reset want an Active slot, Close is    *)
(* taken in any state.  A refusal changes nothing.                         *)
TakenUnbounded(l, do) ==
  /\ l # None /\ slot[l] # "None" /\ (do # "Close" => slot[l] = "Active")
  /\ Listens(l)

Taken(l, do) ==
  /\ l # None /\ slot[l] # "None"
  /\ do # "Close" => slot[l] = "Active"
  /\ Listens(l) /\ Len(commands[l]) < Capacity

NextSlot(l, do) ==
  CASE do = "Reset" -> "Resetting" [] do = "Close" -> "Cleaning"
    [] OTHER -> slot[l]

Send(l, do, c) ==
  IF Taken(l, do)
  THEN /\ commands' = [commands EXCEPT ![l] = Append(@, [do |-> do, cycle |-> c])]
       /\ slot' = [slot EXCEPT ![l] = NextSlot(l, do)]
  ELSE UNCHANGED <<commands, slot>>

(* fail_closed: close_vad ignores a refusal and keeps the lease.           *)
FailClosed(s) ==
  /\ sess' = [s EXCEPT !.closed = TRUE]
  /\ IF sess.closed THEN UNCHANGED <<commands, slot>>
     ELSE Send(s.lease, "Close", None)

-----------------------------------------------------------------------------
(* replace_listening_mode into Auto or Realtime: close_vad, then open.     *)
CloseForReplacement ==
  /\ ~sess.closed /\ ~sess.opening /\ opens < MaxOpens /\ sess.cycles < MaxCycles
  /\ Send(sess.lease, "Close", None)
  /\ sess' = [sess EXCEPT !.opening = TRUE, !.cycle = None, !.pendingCycle = None,
                          !.expected = None, !.frames = 0]
  /\ UNCHANGED <<opens, worker, events, route, reaping, lost>>

OpenVad ==
  /\ sess.opening
  /\ IF Cardinality(Slots) < MaxWorkers
     THEN LET l == opens + 1 IN
          /\ opens' = l
          /\ slot' = [slot EXCEPT ![l] = "Active"]
          /\ worker' = [worker EXCEPT ![l].pc = "Opening"]
          /\ sess' = [sess EXCEPT !.opening = FALSE, !.lease = l,
                        !.cycles = @ + 1, !.cycle = sess.cycles + 1]
     ELSE /\ sess' = [sess EXCEPT !.opening = FALSE, !.closed = TRUE]
          /\ UNCHANGED <<opens, slot, worker>>
  /\ UNCHANGED <<commands, events, route, reaping, lost>>

(* on_binary while capture is armed: a refused push is fatal.              *)
PushFrame ==
  /\ ~sess.closed /\ ~sess.opening /\ sess.lease # None
  /\ sess.cycle # None /\ sess.frames < MaxFrames
  /\ IF Taken(sess.lease, "Push")
     THEN /\ Send(sess.lease, "Push", sess.cycle)
          /\ sess' = [sess EXCEPT !.frames = @ + 1]
     ELSE FailClosed(sess)
  /\ UNCHANGED <<opens, worker, events, route, reaping, lost>>

(* reset_vad_capture_cycle, from complete_recognition and a restart.       *)
ResetCycle ==
  /\ ~sess.closed /\ ~sess.opening /\ sess.lease # None
  /\ sess.pendingCycle = None /\ sess.cycles < MaxCycles
  /\ LET c == sess.cycles + 1
         s == [sess EXCEPT !.cycles = c, !.cycle = None, !.pendingCycle = c,
                           !.frames = 0]
     IN  IF Taken(sess.lease, "Reset")
         THEN Send(sess.lease, "Reset", c) /\ sess' = s
         ELSE FailClosed(s)
  /\ UNCHANGED <<opens, worker, events, route, reaping, lost>>

(* Drop of the actor: close_vad once more, unregister_session.             *)
DropActor ==
  /\ ~sess.opening /\ ~sess.dropped
  /\ Send(sess.lease, "Close", None)
  /\ sess' = [sess EXCEPT !.closed = TRUE, !.dropped = TRUE]
  /\ route' = <<>>
  /\ UNCHANGED <<opens, worker, events, reaping, lost>>

(* on_vad_event.  The segmenter takes the first window of a cycle wherever *)
(* it starts and then insists on contiguous ones.                          *)
OnVadEvent ==
  LET e == Head(route)
      mine == e.lease = sess.lease
  IN  /\ route # <<>> /\ ~sess.opening /\ ~sess.dropped
      /\ route' = Tail(route)
      /\ \/ /\ e.kind = "Probability" /\ mine /\ e.cycle = sess.cycle
            /\ IF sess.expected \in {None, e.start}
               THEN /\ sess' = [sess EXCEPT !.expected = e.start + Window]
                    /\ UNCHANGED <<commands, slot>>
               ELSE FailClosed(sess)
         \/ /\ e.kind = "ResetDone" /\ mine /\ e.cycle = sess.pendingCycle
            /\ sess' = [sess EXCEPT !.cycle = e.cycle, !.pendingCycle = None,
                                    !.expected = None]
            /\ UNCHANGED <<commands, slot>>
         \/ /\ e.kind = "Closed" /\ mine
            /\ sess' = [sess EXCEPT !.lease = None]
            /\ UNCHANGED <<commands, slot>>
         \/ e.kind \in Fatal /\ mine /\ FailClosed(sess)
         \/ /\ \/ ~mine \/ e.kind = "Opened"
               \/ e.kind = "Probability" /\ e.cycle # sess.cycle
               \/ e.kind = "ResetDone" /\ e.cycle # sess.pendingCycle
            /\ UNCHANGED <<sess, commands, slot>>
      /\ UNCHANGED <<opens, worker, events, reaping, lost>>

-----------------------------------------------------------------------------
(* run_worker.                                                             *)
Stop(l) ==
  /\ worker' = [worker EXCEPT ![l] = [pc |-> "Done", pending |-> 0,
                                      oldest |-> None, next |-> 0]]
  /\ commands' = [commands EXCEPT ![l] = <<>>]

WorkerOpens(l) ==
  /\ worker[l].pc = "Opening"
  /\ \/ /\ worker' = [worker EXCEPT ![l].pc = "Serving"]
        /\ events' = Append(events, Ev("Opened", l, None))
        /\ UNCHANGED commands
     \/ Stop(l) /\ events' = Append(events, Ev("Failed", l, None))
  /\ UNCHANGED <<sess, opens, slot, route, reaping, lost>>

(* The rechunker: what it holds, then the windows the frame completes.     *)
Windows(l, c) ==
  LET w == worker[l] IN
  [i \in 1..((w.pending + Frame) \div Window) |->
     [Ev("Probability", l, c) EXCEPT
        !.start = w.next + Window * (i - 1),
        !.pure = i > 1 \/ w.pending = 0 \/ w.oldest = c]]

WorkerPush(l) ==
  LET c == Head(commands[l]).cycle
      left == (worker[l].pending + Frame) % Window
  IN  /\ worker' = [worker EXCEPT ![l].pending = left,
                                  ![l].oldest = IF left = 0 THEN None ELSE c,
                                  ![l].next = @ + Window * Len(Windows(l, c))]
      /\ events' = events \o Windows(l, c)

WorkerResetKeepsAudio(l) ==
  /\ worker' = [worker EXCEPT ![l].next = 0]
  /\ events' = Append(events, Ev("ResetDone", l, Head(commands[l]).cycle))

WorkerReset(l) ==
  /\ worker' = [worker EXCEPT ![l].pending = 0, ![l].oldest = None, ![l].next = 0]
  /\ events' = Append(events, Ev("ResetDone", l, Head(commands[l]).cycle))

WorkerServes(l) ==
  LET do == Head(commands[l]).do IN
  /\ worker[l].pc = "Serving" /\ commands[l] # <<>>
  /\ \/ /\ \/ do = "Push" /\ WorkerPush(l)
           \/ do = "Reset" /\ WorkerReset(l)
        /\ commands' = [commands EXCEPT ![l] = Tail(@)]
     \/ /\ do = "Close" /\ Stop(l)
        /\ events' = Append(events, Ev("Closed", l, None))
     \/ Stop(l) /\ events' = Append(events, Ev("Failed", l, None))
  /\ UNCHANGED <<sess, opens, slot, route, reaping, lost>>

-----------------------------------------------------------------------------
(* The supervisor: observe and route one event; once the channel was empty,*)
(* reap the deadlines that have passed.                                    *)
Route(e) ==
  IF sess.dropped THEN UNCHANGED <<route, lost>>
  ELSE IF Len(route) < Capacity THEN route' = Append(route, e) /\ UNCHANGED lost
  ELSE lost' = TRUE /\ UNCHANGED route

ObserveTerminal(e) ==
  slot' = [slot EXCEPT ![e.lease] =
     IF e.kind \in {"Closed", "Failed"} /\ @ # "Quarantined" THEN "None" ELSE @]

Observe(e) ==
  slot' = [slot EXCEPT ![e.lease] =
     IF e.kind = "ResetDone" /\ @ = "Resetting" THEN "Active"
     ELSE IF e.kind \in {"Closed", "Failed"} /\ @ # "Quarantined" THEN "None"
     ELSE @]

Dispatch ==
  /\ events # <<>> /\ ~reaping
  /\ events' = Tail(events)
  /\ Observe(Head(events)) /\ Route(Head(events))
  /\ UNCHANGED <<sess, opens, commands, worker, reaping>>

Drained ==
  /\ ~reaping /\ events = <<>>
  /\ \E l \in Lease : slot[l] \in {"Resetting", "Cleaning"}
  /\ reaping' = TRUE
  /\ UNCHANGED <<sess, opens, slot, commands, worker, events, route, lost>>

ReapSilently(l) ==
  /\ reaping /\ slot[l] \in {"Resetting", "Cleaning"}
  /\ slot' = [slot EXCEPT ![l] = "Quarantined"]
  /\ UNCHANGED <<sess, opens, commands, worker, events, route, reaping, lost>>

Reap(l) ==
  /\ reaping /\ slot[l] \in {"Resetting", "Cleaning"}
  /\ slot' = [slot EXCEPT ![l] = "Quarantined"]
  /\ Route(Ev(IF slot[l] = "Resetting" THEN "ResetTimedOut" ELSE "CleanupTimedOut",
              l, None))
  /\ UNCHANGED <<sess, opens, commands, worker, events, reaping>>

Reaped ==
  /\ reaping /\ reaping' = FALSE
  /\ UNCHANGED <<sess, opens, slot, commands, worker, events, route, lost>>

ActorNext ==
  \/ CloseForReplacement \/ OpenVad \/ PushFrame \/ ResetCycle \/ DropActor
  \/ OnVadEvent

Next ==
  \/ ActorNext
  \/ \E l \in Lease : WorkerOpens(l) \/ WorkerServes(l) \/ Reap(l)
  \/ Dispatch \/ Drained \/ Reaped

Spec == Init /\ [][Next]_vars

-----------------------------------------------------------------------------
AnEvent ==
  [kind : Fatal \cup {"Opened", "Probability", "ResetDone", "Closed"},
   lease : Lease, cycle : 0..MaxCycles, start : Nat, pure : BOOLEAN]

(* Every variable keeps its type; no slot past max_workers, no command or  *)
(* routed event past the capacity (open_with_permit, send, dispatch).      *)
TypeOK ==
  /\ sess \in [lease : 0..MaxOpens, cycle : 0..MaxCycles, cycles : 0..MaxCycles,
               pendingCycle : 0..MaxCycles, frames : 0..MaxFrames, expected : Nat,
               opening : BOOLEAN, closed : BOOLEAN, dropped : BOOLEAN]
  /\ opens \in 0..MaxOpens
  /\ slot \in [Lease -> {"None", "Active", "Resetting", "Cleaning", "Quarantined"}]
  /\ commands \in [Lease -> Seq(Command)]
  /\ \A l \in Lease : Len(commands[l]) <= Capacity
  /\ worker \in [Lease -> [pc : {"None", "Opening", "Serving", "Done"},
                           pending : 0..Window - 1, oldest : 0..MaxCycles, next : Nat]]
  /\ events \in Seq(AnEvent) /\ route \in Seq(AnEvent) /\ Len(route) <= Capacity
  /\ reaping \in BOOLEAN /\ lost \in BOOLEAN
  /\ Cardinality(Slots) <= MaxWorkers

(* A window the session judges in a cycle holds audio of that cycle only:  *)
(* neither the rechunker's remainder nor a late push of the cycle before   *)
(* the reset gets into it (Reset of run_worker, send, on_vad_event).       *)
WindowsArePure ==
  \A i \in 1..Len(route) :
    LET e == route[i] IN
    e.kind = "Probability" /\ e.lease = sess.lease /\ e.cycle = sess.cycle => e.pure

(* A session that waits for a reset will hear of it: the slot still has    *)
(* its deadline, or the answer is on its way.  Only an overflow of the     *)
(* session's mailbox, which dispatch ignores, can leave it deaf.           *)
Answers(e) ==
  /\ e.lease = sess.lease
  /\ e.kind \in Fatal \/ (e.kind = "ResetDone" /\ e.cycle = sess.pendingCycle)

InQueue(q) == \E i \in 1..Len(q) : Answers(q[i])

ResetIsAnswered ==
  sess.pendingCycle # None /\ ~sess.closed /\ ~lost =>
    slot[sess.lease] = "Resetting" \/ InQueue(events) \/ InQueue(route)

(* Once a session has a current cycle its worker takes frames: the slot is *)
(* active again before the session learns of the reset, unless the worker  *)
(* failed (observe before route in dispatch).                              *)
CurrentCycleIsServed ==
  sess.cycle # None /\ ~sess.closed /\ ~sess.opening /\ sess.lease # None /\ ~lost =>
    slot[sess.lease] = "Active" \/ ~Listens(sess.lease)
=============================================================================
