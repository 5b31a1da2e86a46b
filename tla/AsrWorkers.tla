----------------------------- MODULE AsrWorkers -----------------------------
(***************************************************************************)
(* The ASR worker runtime: voice sessions, the native worker threads with  *)
(* their retained recognizers, the supervisor thread that routes events    *)
(* and enforces deadlines, a diagnostic, and the shutdown of the runtime.  *)
(* Source: workers/asr/{mod,pool,diagnostic}.rs, workers/supervision and   *)
(* the SessionActor's calls into the runtime.  Each stream is one lease;   *)
(* its permit (ProviderAdmission) is shared by the slot and the thread.    *)
(***************************************************************************)
EXTENDS ProviderAdmission, Sequences

CONSTANTS
  Session,
  MaxOpens,     (* bound: streams opened in a behaviour                    *)
  MaxWorkers,   (* config.max_workers, also the size of the retained pool  *)
  Capacity,     (* config.command_capacity: commands and routed events     *)
  Pools,        (* whether the runtime has a pool: both answers, or one    *)
  ViewOf,       (* the admission view each session opens through           *)
  RuntimeView   (* the view of the runtime itself: its physical capacity   *)

Lease == 1..MaxOpens
DiagnosticPermit == 0
NoLease == 0

ASSUME AsrAssumption ==
  /\ MaxOpens \in Nat /\ MaxWorkers \in Nat /\ Capacity \in Nat \ {0}
  /\ Pools \subseteq BOOLEAN
  /\ Permit = Lease \cup {DiagnosticPermit}
  /\ ViewOf \in [Session -> View] /\ RuntimeView \in View
  /\ \A v \in View : GatesOf[RuntimeView] \subseteq GatesOf[v]
  /\ \A g \in GatesOf[RuntimeView] : Total[g] = MaxWorkers

VARIABLES
  sess,      (* per session: its stream and how far it is with it          *)
  nextLease,
  slot,      (* the runtime's slots, under the state lock                  *)
  commands,  (* per lease: the bounded command channel                     *)
  worker,    (* per lease: the native thread's job                         *)
  pool,      (* retained recognizers, if it has a pool: free ones, health  *)
  events,    (* the one unbounded event channel                            *)
  route,     (* per registered session: its bounded mailbox                *)
  sup,       (* the supervisor thread                                      *)
  pending,   (* the SupervisorWaker's flag                                 *)
  diag,      (* one Admin diagnostic                                       *)
  life       (* the runtime: Open, Closing (threads closed), Retired       *)

asrVars == <<sess, nextLease, slot, commands, worker, pool, events, route,
             sup, pending, diag, life>>
vars == <<admissionVars, asrVars>>

Terminal == {"Final", "Failed", "Cancelled"}
TimedOut == {"FinalTimedOut", "CleanupTimedOut"}
Event == [kind : Terminal \cup TimedOut \cup {"Opened"}, lease : Lease]
NoEvent == [kind |-> "None", lease |-> NoLease]
Ev(k, l) == [kind |-> k, lease |-> l]

Slots == {l \in Lease : slot[l] # "None"}
(* The thread's half of the permit, and the worker's end of the channel.   *)
ThreadHolds(l) == worker[l].pc \in {"Opening", "Serving", "Returning", "Dropping"}
Listens(l) == worker[l].pc \in {"Opening", "Serving"}
(* A native recognizer out of the pool.                                    *)
Engaged(l) == worker[l].pc \in {"Opening", "Serving", "Returning"}

Init ==
  /\ AdmissionInit
  /\ sess = [s \in Session |-> [lease |-> NoLease, mode |-> "None",
                                cleanup |-> {}, closed |-> FALSE]]
  /\ nextLease = 1
  /\ slot = [l \in Lease |-> "None"]
  /\ commands = [l \in Lease |-> <<>>]
  /\ worker = [l \in Lease |-> [pc |-> "None", ended |-> "None",
                                deferred |-> FALSE, session |-> "nobody"]]
  /\ pool \in [retained : Pools, free : {MaxWorkers}, healthy : {TRUE}]
  /\ events = <<>>
  /\ route = [s \in Session |-> <<>>]
  /\ sup = [pc |-> "Drain", hand |-> NoEvent, back |-> "Drain",
            releasing |-> FALSE, armed |-> FALSE]
  /\ pending = TRUE
  /\ diag = "Idle"
  /\ life = "Open"

Send(e) == events' = Append(events, e) /\ pending' = TRUE

-----------------------------------------------------------------------------
(* Opening.  The permit is taken before the state lock: open_class.        *)
OpenAdmit(s) ==
  /\ sess[s].mode = "None" /\ ~sess[s].closed /\ nextLease \in Lease
  /\ Admit(nextLease, ViewOf[s], "Voice")
  /\ nextLease' = nextLease + 1
  /\ sess' = [sess EXCEPT ![s] = [@ EXCEPT !.mode = "Opening", !.lease = nextLease]]
  /\ UNCHANGED <<slot, commands, worker, pool, events, route, sup, pending,
                 diag, life>>

SlotAvailable ==
  /\ Cardinality(Slots) < MaxWorkers
  /\ life = "Open"
  /\ pool.retained => pool.healthy /\ pool.free > 0

OpenSlot(s) ==
  /\ sess[s].mode = "Opening" /\ SlotAvailable
  /\ LET l == sess[s].lease IN
       /\ slot' = [slot EXCEPT ![l] = "Active"]
       /\ worker' = [worker EXCEPT ![l] = [@ EXCEPT !.pc = "Opening", !.session = s]]
  /\ pool' = IF pool.retained THEN [pool EXCEPT !.free = @ - 1] ELSE pool
  /\ sess' = [sess EXCEPT ![s].mode = "Live"]
  /\ UNCHANGED <<admissionVars, nextLease, commands, events, route, sup,
                 pending, diag, life>>

(* Refused under the lock: the permit is dropped before the call returns.  *)
OpenRefused(s) ==
  /\ sess[s].mode = "Opening" /\ ~SlotAvailable
  /\ Disown(sess[s].lease)
  /\ sess' = [sess EXCEPT ![s].mode = "Refused"]
  /\ UNCHANGED <<nextLease, slot, commands, worker, pool, events, route, sup,
                 pending, diag, life>>

OpenReturns(s) ==
  /\ sess[s].mode = "Refused" /\ Returned(sess[s].lease)
  /\ sess' = [sess EXCEPT ![s] = [@ EXCEPT !.mode = "None", !.lease = NoLease]]
  /\ UNCHANGED <<admissionVars, nextLease, slot, commands, worker, pool,
                 events, route, sup, pending, diag, life>>

-----------------------------------------------------------------------------
(* AsrWorkerRuntime::send.  Push wants an Active slot; Finish and Cancel   *)
(* are taken in any state and arm a deadline, of a quarantined slot too.   *)
(* A refusal (QueueFull, UnknownLease) leaves the slot as it is.           *)
SendableUnbounded(l) == slot[l] # "None" /\ Listens(l)
Sendable(l) == slot[l] # "None" /\ Listens(l) /\ Len(commands[l]) < Capacity

Enqueue(l, c) == commands' = [commands EXCEPT ![l] = Append(@, c)]

Push(s) ==
  LET l == sess[s].lease
      accepted == Sendable(l) /\ slot[l] = "Active"
  IN  /\ sess[s].mode = "Live"
      /\ IF accepted THEN Enqueue(l, "Push") /\ UNCHANGED sess
         ELSE /\ sess' = [sess EXCEPT ![s].mode = "GivingUp"]
              /\ UNCHANGED commands
      /\ UNCHANGED <<admissionVars, nextLease, slot, worker, pool, events,
                     route, sup, pending, diag, life>>

FinishUnheard(s) ==
  LET l == sess[s].lease
  IN  /\ sess[s].mode = "Live" /\ Sendable(l) /\ Enqueue(l, "Finish")
      /\ slot' = [slot EXCEPT ![l] = "Finishing"]
      /\ sess' = [sess EXCEPT ![s].mode = "Waiting"]
      /\ UNCHANGED <<admissionVars, nextLease, worker, pool, events, route,
                     sup, pending, diag, life>>

Finish(s) ==
  LET l == sess[s].lease
      accepted == Sendable(l)
  IN  /\ sess[s].mode = "Live"
      /\ IF accepted
         THEN /\ Enqueue(l, "Finish")
              /\ slot' = [slot EXCEPT ![l] = "Finishing"]
              /\ sess' = [sess EXCEPT ![s].mode = "Waiting"]
              /\ pending' = TRUE
         ELSE /\ sess' = [sess EXCEPT ![s].mode = "GivingUp"]
              /\ UNCHANGED <<commands, slot, pending>>
      /\ UNCHANGED <<admissionVars, nextLease, worker, pool, events, route,
                     sup, diag, life>>

(* cancel_asr: the session forgets the stream whether or not the Cancel    *)
(* was accepted; only an accepted one is remembered in asr_cleanup_pending.*)
CancelAsr(s) ==
  LET l == sess[s].lease
      accepted == Sendable(l)
  IN  /\ sess[s].mode \in {"Live", "Waiting", "GivingUp"}
      /\ IF accepted
         THEN /\ Enqueue(l, "Cancel")
              /\ slot' = [slot EXCEPT ![l] = "Cleaning"]
              /\ pending' = TRUE
         ELSE UNCHANGED <<commands, slot, pending>>
      /\ sess' = [sess EXCEPT ![s] = [@ EXCEPT !.mode = "None", !.lease = NoLease,
           !.cleanup = IF accepted /\ ~sess[s].closed THEN sess[s].cleanup \cup {l}
                       ELSE sess[s].cleanup]]
      /\ UNCHANGED <<admissionVars, nextLease, worker, pool, events, route,
                     sup, diag, life>>

(* fail_closed, a disconnect, the drop of the actor: the stream is given   *)
(* up (cancel_asr follows) and the mailbox goes.                           *)
Leaving(r) ==
  [r EXCEPT !.closed = TRUE, !.cleanup = {},
            !.mode = IF r.lease = NoLease THEN "None" ELSE "GivingUp"]

Leave(s) ==
  /\ ~sess[s].closed /\ sess[s].mode \in {"None", "Live", "Waiting"}
  /\ sess' = [sess EXCEPT ![s] = Leaving(@)]
  /\ route' = [route EXCEPT ![s] = <<>>]
  /\ UNCHANGED <<admissionVars, nextLease, slot, commands, worker, pool,
                 events, sup, pending, diag, life>>

(* on_asr_event.                                                           *)
OnEvent(s) ==
  LET e == Head(route[s])
      r == sess[s]
      fatal == e.kind \in TimedOut /\ e.lease \in r.cleanup \cup {r.lease}
  IN  /\ route[s] # <<>>
      /\ r.mode \in {"None", "Live", "Waiting"}
      /\ route' = [route EXCEPT ![s] = IF fatal THEN <<>> ELSE Tail(@)]
      /\ sess' = [sess EXCEPT ![s] =
           IF fatal THEN Leaving(r)
           ELSE IF e.kind \in Terminal /\ e.lease \in r.cleanup
             THEN [r EXCEPT !.cleanup = r.cleanup \ {e.lease}]
           ELSE IF e.kind \in Terminal /\ e.lease = r.lease
             THEN [r EXCEPT !.mode = "None", !.lease = NoLease]
           ELSE r]
      /\ UNCHANGED <<admissionVars, nextLease, slot, commands, worker, pool,
                     events, sup, pending, diag, life>>

-----------------------------------------------------------------------------
(* The native thread: run_worker.  Opened is sent before any command.  A   *)
(* fresh recognizer may fail to open; a retained one is there already.     *)
EndsAtOnce(l, kind) ==
  LET late == pool.retained /\ kind # "Cancelled"
  IN  /\ worker' = [worker EXCEPT ![l] = [@ EXCEPT !.pc = "Returning", !.ended = kind,
                                            !.deferred = late]]
      /\ IF late THEN UNCHANGED <<events, pending>> ELSE Send(Ev(kind, l))

Ends(l, kind) ==
  LET late == pool.retained \/ kind = "Cancelled"
  IN  /\ worker' = [worker EXCEPT ![l] = [@ EXCEPT !.pc = "Returning", !.ended = kind,
                                            !.deferred = late]]
      /\ IF late THEN UNCHANGED <<events, pending>> ELSE Send(Ev(kind, l))

WorkerOpens(l) ==
  /\ worker[l].pc = "Opening"
  /\ \/ /\ worker' = [worker EXCEPT ![l].pc = "Serving"]
        /\ Send(Ev("Opened", l))
     \/ ~pool.retained /\ Ends(l, "Failed")
  /\ UNCHANGED <<admissionVars, sess, nextLease, slot, commands, pool, route,
                 sup, diag, life>>

(* A push or a finish (which resets a retained recognizer) may fail: the   *)
(* recognizer is not reusable and the pool is unhealthy at once.           *)
WorkerServes(l) ==
  LET c == Head(commands[l])
      Fails == /\ Ends(l, "Failed")
               /\ pool' = [pool EXCEPT !.healthy = @ /\ ~pool.retained]
  IN  /\ worker[l].pc = "Serving" /\ commands[l] # <<>>
      /\ \/ c = "Push" /\ UNCHANGED <<worker, events, pending, pool>>
         \/ c = "Finish" /\ Ends(l, "Final") /\ UNCHANGED pool
         \/ c = "Cancel" /\ Ends(l, "Cancelled") /\ UNCHANGED pool
         \/ c \in {"Push", "Finish"} /\ Fails
      /\ commands' = [commands EXCEPT ![l] =
           IF worker'[l].pc = "Serving" THEN Tail(@) ELSE <<>>]
      /\ UNCHANGED <<admissionVars, sess, nextLease, slot, route, sup, diag,
                     life>>

(* The recognizer goes back to the pool unless it failed, or its reset     *)
(* after a cancel fails; a pool that lost one is unhealthy for good.       *)
WorkerKeepsRecognizer(l) ==
  /\ worker[l].pc = "Returning"
  /\ worker' = [worker EXCEPT ![l].pc = "Dropping"]
  /\ UNCHANGED <<admissionVars, sess, nextLease, slot, commands, pool, events,
                 route, sup, pending, diag, life>>

WorkerReturns(l) ==
  /\ worker[l].pc = "Returning"
  /\ worker' = [worker EXCEPT ![l].pc = "Dropping"]
  /\ \/ pool.retained /\ worker[l].ended # "Failed" /\ pool' = [pool EXCEPT !.free = @ + 1]
     \/ pool.retained /\ worker[l].ended # "Final" /\ pool' = [pool EXCEPT !.healthy = FALSE]
     \/ ~pool.retained /\ UNCHANGED pool
  /\ UNCHANGED <<admissionVars, sess, nextLease, slot, commands, events,
                 route, sup, pending, diag, life>>

(* drop(thread_permit): the permit itself is dropped if the slot is gone.  *)
WorkerDropsSharedPermit(l) ==
  /\ worker[l].pc = "Dropping"
  /\ Disown(l) /\ worker' = [worker EXCEPT ![l].pc = "Releasing"]
  /\ UNCHANGED <<sess, nextLease, slot, commands, pool, events, route, sup,
                 pending, diag, life>>

WorkerDropsPermit(l) ==
  /\ worker[l].pc = "Dropping"
  /\ IF slot[l] = "None"
     THEN Disown(l) /\ worker' = [worker EXCEPT ![l].pc = "Releasing"]
     ELSE /\ worker' = [worker EXCEPT ![l].pc = "Ending"]
          /\ UNCHANGED admissionVars
  /\ UNCHANGED <<sess, nextLease, slot, commands, pool, events, route, sup,
                 pending, diag, life>>

(* busy_guard.finish(), then the deferred event.                           *)
WorkerEnds(l) ==
  /\ \/ worker[l].pc = "Ending"
     \/ worker[l].pc = "Releasing" /\ Returned(l)
  /\ worker' = [worker EXCEPT ![l] = [@ EXCEPT !.pc = "Done", !.ended = "None",
                                        !.deferred = FALSE]]
  /\ IF worker[l].deferred THEN Send(Ev(worker[l].ended, l))
     ELSE UNCHANGED <<events, pending>>
  /\ UNCHANGED <<admissionVars, sess, nextLease, slot, commands, pool, route,
                 sup, diag, life>>

-----------------------------------------------------------------------------
(* The supervisor: drain and dispatch every event, reap every expired      *)
(* deadline, note the next deadline, wait to be woken.                     *)
Removes(e) == e.kind \in Terminal /\ slot[e.lease] \notin {"None", "Quarantined"}

(* try_recv and observe.                                                   *)
SupervisorTakes ==
  LET e == Head(events)
      last == Removes(e) /\ ~ThreadHolds(e.lease)
  IN  /\ sup.pc = "Drain" /\ events # <<>>
      /\ events' = Tail(events)
      /\ slot' = IF Removes(e) THEN [slot EXCEPT ![e.lease] = "None"] ELSE slot
      /\ IF last THEN Disown(e.lease) ELSE UNCHANGED admissionVars
      /\ sup' = [sup EXCEPT !.pc = "Route", !.hand = e, !.back = "Drain",
                            !.releasing = last]
      /\ UNCHANGED <<sess, nextLease, commands, worker, pool, route, pending,
                     diag, life>>

(* The rest of dispatch: try_send to the session's mailbox, dropped when   *)
(* it is full or gone.  The permit of a removed slot is dropped by now.    *)
SupervisorRoutes ==
  LET s == worker[sup.hand.lease].session
      fits == ~sess[s].closed /\ Len(route[s]) < Capacity
  IN  /\ sup.pc = "Route" /\ (sup.releasing => Returned(sup.hand.lease))
      /\ route' = IF fits THEN [route EXCEPT ![s] = Append(@, sup.hand)] ELSE route
      /\ sup' = [sup EXCEPT !.pc = sup.back, !.hand = NoEvent, !.releasing = FALSE]
      /\ UNCHANGED <<admissionVars, sess, nextLease, slot, commands, worker,
                     pool, events, pending, diag, life>>

SupervisorDrained ==
  /\ sup.pc = "Drain" /\ events = <<>>
  /\ sup' = [sup EXCEPT !.pc = "Reap"]
  /\ UNCHANGED <<admissionVars, sess, nextLease, slot, commands, worker, pool,
                 events, route, pending, diag, life>>

(* reap_timeouts: any armed deadline may have passed.                      *)
Armed(l) == slot[l] \in {"Finishing", "Cleaning"}

SupervisorReaps(l) ==
  /\ sup.pc = "Reap" /\ Armed(l)
  /\ slot' = [slot EXCEPT ![l] = "Quarantined"]
  /\ sup' = [sup EXCEPT !.pc = "Route", !.back = "Reap", !.hand =
       Ev(IF slot[l] = "Finishing" THEN "FinalTimedOut" ELSE "CleanupTimedOut", l)]
  /\ UNCHANGED <<admissionVars, sess, nextLease, commands, worker, pool,
                 events, route, pending, diag, life>>

(* next_timeout_deadline is read when nothing more has expired.            *)
SupervisorSettles ==
  /\ sup.pc = "Reap"
  /\ sup' = [sup EXCEPT !.pc = "Wait", !.armed = \E l \in Lease : Armed(l)]
  /\ UNCHANGED <<admissionVars, sess, nextLease, slot, commands, worker, pool,
                 events, route, pending, diag, life>>

(* wait_timeout: until a wake, or until the deadline it noted.             *)
SupervisorWakes ==
  /\ sup.pc = "Wait" /\ (pending \/ sup.armed)
  /\ sup' = [sup EXCEPT !.pc = "Drain", !.armed = FALSE]
  /\ pending' = FALSE
  /\ UNCHANGED <<admissionVars, sess, nextLease, slot, commands, worker, pool,
                 events, route, diag, life>>

-----------------------------------------------------------------------------
(* A diagnostic runs on the same recognizers under its own permit:         *)
(* admit_diagnostic, pool.open, drop(session), drop of the permit.         *)
asrButDiag == <<sess, nextLease, slot, commands, worker, events, route, sup,
                pending, life>>

DiagnosticAdmits ==
  /\ diag = "Idle" /\ life = "Open"
  /\ Admit(DiagnosticPermit, RuntimeView, "Diagnostic")
  /\ diag' = "Admitted"
  /\ UNCHANGED <<asrButDiag, pool>>

DiagnosticOpens ==
  /\ diag = "Admitted"
  /\ LET open == pool.retained => pool.healthy /\ pool.free > 0 IN
       /\ diag' = IF open THEN "Running" ELSE "Ended"
       /\ pool' = IF open /\ pool.retained THEN [pool EXCEPT !.free = @ - 1] ELSE pool
  /\ UNCHANGED <<admissionVars, asrButDiag>>

DiagnosticCloses ==
  /\ diag = "Running" /\ diag' = "Ended"
  /\ IF pool.retained
     THEN pool' \in {[pool EXCEPT !.free = @ + 1], [pool EXCEPT !.healthy = FALSE]}
     ELSE UNCHANGED pool
  /\ UNCHANGED <<admissionVars, asrButDiag>>

DiagnosticDropsPermit ==
  /\ diag = "Ended" /\ Disown(DiagnosticPermit) /\ diag' = "Idle"
  /\ UNCHANGED <<asrButDiag, pool>>

-----------------------------------------------------------------------------
(* shutdown_acknowledged: closes the threads, and acknowledges once every  *)
(* idle one is joined, no slot is left and the capacity is all returned;   *)
(* the pool is emptied then.  Its caller asks again until it is true.      *)
CloseThreads ==
  /\ life = "Open" /\ life' = "Closing"
  /\ UNCHANGED <<admissionVars, sess, nextLease, slot, commands, worker, pool,
                 events, route, sup, pending, diag>>

RetireWithWork ==
  /\ life = "Closing" /\ Slots = {}
  /\ \A l \in Lease : worker[l].pc \in {"None", "Done"}
  /\ life' = "Retired" /\ pool' = [pool EXCEPT !.free = 0]
  /\ UNCHANGED <<admissionVars, sess, nextLease, slot, commands, worker,
                 events, route, sup, pending, diag>>

Retire ==
  /\ life = "Closing"
  /\ \A l \in Lease : worker[l].pc \in {"None", "Done"}
  /\ Slots = {} /\ NoActiveWork(RuntimeView)
  /\ life' = "Retired"
  /\ pool' = [pool EXCEPT !.free = 0]
  /\ UNCHANGED <<admissionVars, sess, nextLease, slot, commands, worker,
                 events, route, sup, pending, diag>>

ReleaseGate ==
  /\ \E p \in Permit, g \in Gate : Release(p, g)
  /\ UNCHANGED asrVars

SessionNext(s) ==
  \/ OpenAdmit(s) \/ OpenSlot(s) \/ OpenRefused(s) \/ OpenReturns(s)
  \/ Push(s) \/ Finish(s) \/ CancelAsr(s)
  \/ Leave(s) \/ OnEvent(s)

WorkerNext(l) ==
  \/ WorkerOpens(l) \/ WorkerServes(l) \/ WorkerReturns(l)
  \/ WorkerDropsPermit(l) \/ WorkerEnds(l)

SupervisorRuns ==
  \/ SupervisorTakes \/ SupervisorRoutes \/ SupervisorDrained
  \/ SupervisorSettles \/ SupervisorWakes

DiagnosticNext ==
  \/ DiagnosticAdmits \/ DiagnosticOpens \/ DiagnosticCloses
  \/ DiagnosticDropsPermit

Next ==
  \/ \E s \in Session : SessionNext(s)
  \/ \E l \in Lease : WorkerNext(l) \/ SupervisorReaps(l)
  \/ SupervisorRuns \/ DiagnosticNext \/ CloseThreads \/ Retire \/ ReleaseGate

(* The supervisor thread and the holders of locks always run on, and time  *)
(* passes: a deadline that stays armed is found expired in some round.  The *)
(* native threads may hang and sessions may do nothing: they are not fair. *)
Fairness ==
  /\ WF_vars(SupervisorRuns) /\ WF_vars(ReleaseGate)
  /\ \A l \in Lease : SF_vars(SupervisorReaps(l))

Spec == Init /\ [][Next]_vars
FairSpec == Spec /\ Fairness

-----------------------------------------------------------------------------
(* Every variable keeps its type, and neither a command channel nor a      *)
(* session's mailbox grows past command_capacity (send, dispatch).         *)
TypeOK ==
  /\ used \in [Gate -> [voice : Nat, diagnostic : Nat]]
  /\ permit \in [Permit -> [class : Workload, held : BOOLEAN, gates : SUBSET Gate]]
  /\ sess \in [Session -> [lease : Lease \cup {NoLease}, cleanup : SUBSET Lease,
        mode : {"None", "Opening", "Refused", "Live", "Waiting", "GivingUp"},
        closed : BOOLEAN]]
  /\ nextLease \in 1..MaxOpens + 1
  /\ slot \in [Lease -> {"None", "Active", "Finishing", "Cleaning", "Quarantined"}]
  /\ commands \in [Lease -> Seq({"Push", "Finish", "Cancel"})]
  /\ \A l \in Lease : Len(commands[l]) <= Capacity
  /\ worker \in [Lease ->
        [pc : {"None", "Opening", "Serving", "Returning", "Dropping", "Releasing",
               "Ending", "Done"},
         ended : Terminal \cup {"None"}, deferred : BOOLEAN,
         session : Session \cup {"nobody"}]]
  /\ pool \in [retained : BOOLEAN, free : Nat, healthy : BOOLEAN]
  /\ events \in Seq(Event) /\ route \in [Session -> Seq(Event)]
  /\ \A s \in Session : Len(route[s]) <= Capacity
  /\ sup \in [pc : {"Drain", "Route", "Reap", "Wait"}, hand : Event \cup {NoEvent},
               back : {"Drain", "Reap"}, releasing : BOOLEAN, armed : BOOLEAN]
  /\ pending \in BOOLEAN
  /\ diag \in {"Idle", "Admitted", "Running", "Ended"}
  /\ life \in {"Open", "Closing", "Retired"}

(* Every recognizer out of the pool, and every slot, quarantined ones      *)
(* included, is paid for: its permit is held and counts in every gate of   *)
(* its view (the Arc that the slot and the thread of open_class share).    *)
WorkIsCounted ==
  /\ \A l \in Lease : Engaged(l) \/ slot[l] # "None" =>
       permit[l].held /\ permit[l].gates = GatesOf[ViewOf[worker[l].session]]
  /\ diag = "Running" => permit[DiagnosticPermit].held

(* An open the admission let in is served: while the runtime is open and   *)
(* its pool healthy, there is a slot and a warmed recognizer for it.       *)
AdmittedIsServed ==
  \A s \in Session :
    sess[s].mode = "Opening" /\ life = "Open" /\ pool.healthy => SlotAvailable

(* Once a stream that was not quarantined reads as cancelled, its capacity *)
(* is back: "`Cancel` may immediately be followed by `open`" (mod.rs).     *)
CancelledIsReusable ==
  \A s \in Session : \A i \in 1..Len(route[s]) :
    LET l == route[s][i].lease IN
    route[s][i].kind = "Cancelled" /\ slot[l] = "None" => Returned(l)

(* A runtime that acknowledged its shutdown runs no native work any more,  *)
(* not even a diagnostic admitted just before (shutdown_acknowledged).     *)
RetiredIsQuiet ==
  life = "Retired" =>
    /\ \A l \in Lease : ~Engaged(l) /\ slot[l] = "None"
    /\ diag # "Running"

(* A stream its session finished or cancelled is settled: freed on the     *)
(* worker's acknowledgement or quarantined at its deadline, whether or not *)
(* the worker hangs, the session leaves or the runtime closes              *)
(* (supervision/mod.rs, no lost wakeup).                                   *)
StreamSettles == \A l \in Lease : Armed(l) ~> ~Armed(l)

(* Documented (ingress.rs, phase-3 spec): a session that gives a stream up *)
(* leaves it to the worker's cleanup.  A slot nobody has any more and that *)
(* nothing will clean keeps its thread, recognizer and permit for ever.    *)
GivenUpIsCleaned ==
  \A l \in Lease : slot[l] = "Active" /\ worker[l].pc \in {"Opening", "Serving"}
    => \E s \in Session : sess[s].lease = l
=============================================================================
