------------------------------ MODULE Reminders ------------------------------
(***************************************************************************)
(* Voice reminders of one device: the rows of device_reminders and         *)
(* reminder_delivery_attempts (database/notifications), the scheduler task *)
(* that claims a due reminder and asks the device's session to speak it    *)
(* (services/notifications/reminder_scheduler.rs), the registry of the     *)
(* device's current session (services/device/active_sessions.rs) and the   *)
(* answers of the device (services/notifications/session_protocol.rs).     *)
(*                                                                         *)
(* A database transaction is one action.  Clock readings become flags:     *)
(* due_at_ms, next_attempt_at_ms, the 24 h grace and a lease each pass at  *)
(* some moment.  A process crash keeps the rows and nothing else.          *)
(***************************************************************************)
EXTENDS Naturals, Sequences, FiniteSets

CONSTANTS
  Reminder,     (* reminder rows                                           *)
  MaxSessions,  (* bound: connections of the device, in this order         *)
  MaxAttempts,  (* MAX_REMINDER_ATTEMPTS                                   *)
  MaxClaims,    (* bound: claims the scheduler makes                       *)
  MaxEdits,     (* bound: edits, switches of the device, database errors   *)
  EventQueue,   (* the reader's channel to the session's reminder worker   *)
  MayCrash      (* whether the process may stop and start again            *)

ASSUME RemindersAssumption ==
  /\ MaxSessions \in Nat /\ MaxAttempts \in Nat \ {0} /\ MaxClaims \in Nat
  /\ MaxEdits \in Nat /\ EventQueue \in Nat \ {0} /\ MayCrash \in BOOLEAN
  /\ "none" \notin Reminder

Session == 1..MaxSessions
Attempt == 1..MaxClaims
None == 0                          (* no session, no attempt               *)
Event == [kind : {"played", "failed"}, attempt : Attempt]
NoEvent == [kind |-> "none", attempt |-> None]

VARIABLES
  rem,       (* per reminder: status, attempts_used, which times passed    *)
  att,       (* per claim: its row, "absent" before it and after a DELETE  *)
  revision,  (* schedule_revision of the device                            *)
  entry,     (* the registry's entry: the current session and the attempt  *)
             (* in_flight_reminder names                                   *)
  conn,      (* per session: connection, actor, reminder worker            *)
  sched,     (* the scheduler task                                         *)
  enabled,   (* devices.enabled                                            *)
  edits      (* edits, switches and errors so far, for MaxEdits            *)
vars == <<rem, att, revision, entry, conn, sched, enabled, edits>>

NoEntry == [session |-> None, lock |-> None]
(* phase: of the socket task; replaced: its close token; up: the actor     *)
(* takes events; asked: the speech request in its mailbox; speaking: its   *)
(* turn; device: what the device heard; events, worker: the reminder worker*)
NewConn == [phase |-> "new", replaced |-> FALSE, up |-> FALSE,
            asked |-> None, speaking |-> None, device |-> {},
            events |-> <<>>, worker |-> NoEvent]
Gone == [NewConn EXCEPT !.phase = "gone"]
Idle == [pc |-> "idle", session |-> None, attempt |-> None, to |-> None]

Init ==
  /\ rem = [r \in Reminder |-> [status |-> "none", used |-> 0, due |-> FALSE,
                                waiting |-> FALSE, overdue |-> FALSE]]
  /\ att = [a \in Attempt |-> [of |-> "none", session |-> None,
              status |-> "absent", started |-> FALSE, lapsed |-> FALSE]]
  /\ revision = 0
  /\ entry = NoEntry
  /\ conn = [s \in Session |-> NewConn]
  /\ sched = Idle
  /\ enabled = TRUE
  /\ edits = 0

Open(s) == conn[s].up /\ ~conn[s].replaced
Claimed(a) == att[a].status = "claimed"
ClaimsOf(r) == {a \in Attempt : Claimed(a) /\ att[a].of = r}

-----------------------------------------------------------------------------
(* Rows.                                                                   *)

(* expire_or_schedule_retry, for every reminder of a set.                  *)
Retries(R, m) ==
  [r \in Reminder |->
     IF r \notin R \/ m[r].status # "pending" THEN m[r]
     ELSE IF m[r].used >= MaxAttempts \/ m[r].overdue
          THEN [m[r] EXCEPT !.status = "expired", !.waiting = FALSE]
          ELSE [m[r] EXCEPT !.waiting = TRUE]]

(* bump_schedule_revision, when a reminder left the schedule.              *)
RevisionAfterExpiry(m) ==
  IF \E r \in Reminder : rem[r].status = "pending" /\ m[r].status = "expired"
  THEN revision + 1 ELSE revision
RevisionAfter(m) ==
  IF \E r \in Reminder : rem[r].status = "pending" /\ m[r].status # "pending"
  THEN revision + 1 ELSE revision
Store(m) == rem' = m /\ revision' = RevisionAfter(m)

(* A row deleted, a row kept with another status.                          *)
Deleted(t) == [t EXCEPT !.status = "absent", !.started = FALSE, !.lapsed = FALSE]
Drop(A) == [a \in Attempt |-> IF a \in A THEN Deleted(att[a]) ELSE att[a]]

(* create_with_context, update_with_context and cancel_with_context.  An   *)
(* update keeps the time or sets a new one; it forgets the retry delay.    *)
Create(r) ==
  /\ rem[r].status = "none"
  /\ rem' = [rem EXCEPT ![r].status = "pending"]
  /\ revision' = revision + 1
  /\ UNCHANGED <<att, entry, conn, sched, enabled, edits>>

Update(r) ==
  /\ rem[r].status = "pending" /\ edits < MaxEdits
  /\ \E later \in BOOLEAN :
       rem' = [rem EXCEPT ![r].waiting = FALSE,
                          ![r].due = @ /\ ~later, ![r].overdue = @ /\ ~later]
  /\ revision' = revision + 1
  /\ edits' = edits + 1
  /\ UNCHANGED <<att, entry, conn, sched, enabled>>

Cancel(r) ==
  /\ rem[r].status = "pending" /\ edits < MaxEdits
  /\ rem' = [rem EXCEPT ![r].status = "cancelled", ![r].waiting = FALSE]
  /\ att' = Drop({a \in ClaimsOf(r) : ~att[a].started})
  /\ revision' = revision + 1
  /\ edits' = edits + 1
  /\ UNCHANGED <<entry, conn, sched, enabled>>

(* update_device: the session of the device goes on.                       *)
SwitchDevice ==
  /\ edits < MaxEdits
  /\ enabled' = ~enabled
  /\ edits' = edits + 1
  /\ UNCHANGED <<rem, att, revision, entry, conn, sched>>

(* complete_attempt_with_outcome: the answer must come through the session *)
(* of the claim and within its lease.                                      *)
CompletesAnySession(s, a) ==
  Claimed(a) /\ ~att[a].lapsed /\ rem[att[a].of].status = "pending"
Completes(s, a) ==
  /\ Claimed(a) /\ att[a].session = s /\ rem[att[a].of].status = "pending"
  /\ ~att[a].lapsed
Complete(s, a) ==
  IF Completes(s, a)
  THEN /\ att' = [att EXCEPT ![a].status = "played", ![a].started = TRUE]
       /\ Store([rem EXCEPT
            ![att[a].of].status = "completed", ![att[a].of].waiting = FALSE,
            ![att[a].of].used = IF att[a].started THEN @ ELSE @ + 1])
  ELSE UNCHANGED <<att, rem, revision>>

(* fail_attempt.                                                           *)
FailsWith(s, a) ==
  Claimed(a) /\ att[a].session = s /\ rem[att[a].of].status = "pending"
Fail(s, a) ==
  IF FailsWith(s, a)
  THEN /\ att' = [att EXCEPT ![a].status = "failed"]
       /\ Store(Retries({att[a].of},
            [rem EXCEPT ![att[a].of].used = IF att[a].started THEN @ ELSE @ + 1]))
  ELSE UNCHANGED <<att, rem, revision>>

(* release_unstarted_attempt.                                              *)
Release(s, a) ==
  IF Claimed(a) /\ att[a].session = s
  THEN /\ att' = Drop({a})
       /\ rem' = [rem EXCEPT ![att[a].of].used =
            IF att[a].started /\ rem[att[a].of].status = "pending" /\ @ > 0
            THEN @ - 1 ELSE @]
  ELSE UNCHANGED <<att, rem>>

(* reap_expired_leases_and_overdue.                                        *)
Overdue(m) ==
  {r \in Reminder : /\ m[r].status = "pending" /\ m[r].overdue
                    /\ \A a \in ClaimsOf(r) : att[a].lapsed}
Reap ==
  LET lapsed == {a \in Attempt : Claimed(a) /\ att[a].lapsed}
      started == {a \in lapsed : att[a].started}
      m == Retries({att[a].of : a \in started}, rem)
  IN /\ att' = [a \in Attempt |->
          IF a \in started THEN [att[a] EXCEPT !.status = "uncertain"]
          ELSE IF a \in lapsed THEN Deleted(att[a])
          ELSE att[a]]
     /\ Store([r \in Reminder |->
          IF r \in Overdue(m) THEN [m[r] EXCEPT !.status = "expired",
                                                !.waiting = FALSE]
          ELSE m[r]])

(* on_session_closed.                                                      *)
ForgetSession(s) ==
  LET mine == {a \in Attempt : Claimed(a) /\ att[a].session = s}
      started == {a \in mine : att[a].started
                               /\ rem[att[a].of].status = "pending"}
  IN /\ att' = [a \in Attempt |->
          IF a \in started THEN [att[a] EXCEPT !.status = "uncertain"]
          ELSE IF a \in mine /\ ~att[a].started
               THEN Deleted(att[a])
          ELSE att[a]]
     /\ Store(Retries({att[a].of : a \in started}, rem))

-----------------------------------------------------------------------------
(* The scheduler task.                                                     *)

Goto(pc) == sched' = [sched EXCEPT !.pc = pc]

SchedulerReaps ==
  /\ sched.pc = "idle"
  /\ Reap
  /\ Goto("reaped")
  /\ UNCHANGED <<entry, conn, enabled, edits>>

(* ready_reminder_devices: an open session with no reminder in flight.     *)
Ready == entry.session # None /\ Open(entry.session) /\ entry.lock = None
SchedulerPicks ==
  /\ sched.pc = "reaped"
  /\ sched' = IF Ready THEN [Idle EXCEPT !.pc = "picked",
                                         !.session = entry.session]
              ELSE Idle
  /\ UNCHANGED <<rem, att, revision, entry, conn, enabled, edits>>

(* claim_next_due_for_device; which of the due reminders is first is left  *)
(* open.                                                                   *)
Claimable(r) ==
  /\ enabled /\ rem[r].status = "pending" /\ rem[r].due /\ ~rem[r].waiting
  /\ rem[r].used < MaxAttempts /\ ~rem[r].overdue
  /\ \A a \in ClaimsOf(r) : att[a].lapsed
NextClaim == {a \in Attempt : /\ att[a].of = "none"
                              /\ \A b \in 1..(a - 1) : att[b].of # "none"}
SchedulerClaims ==
  /\ sched.pc = "picked"
  /\ \/ \E r \in Reminder, a \in NextClaim :
          /\ Claimable(r)
          /\ att' = [att EXCEPT ![a] = [of |-> r, session |-> sched.session,
                       status |-> "claimed", started |-> FALSE, lapsed |-> FALSE]]
          /\ sched' = [sched EXCEPT !.pc = "claimed", !.attempt = a]
     \/ /\ NextClaim = {} \/ \A r \in Reminder : ~Claimable(r)
        /\ sched' = Idle /\ UNCHANGED att
  /\ UNCHANGED <<rem, revision, entry, conn, enabled, edits>>

(* set_in_flight_reminder fails when the session is no longer the current  *)
(* one.                                                                    *)
SchedulerLocks ==
  /\ sched.pc = "claimed"
  /\ IF entry.session = sched.session /\ Open(sched.session)
     THEN entry' = [entry EXCEPT !.lock = sched.attempt] /\ Goto("locked")
     ELSE Goto("unlocked") /\ UNCHANGED entry
  /\ UNCHANGED <<rem, att, revision, conn, enabled, edits>>

(* speak: the request goes to whatever session is current by now; a full   *)
(* mailbox refuses it.                                                     *)
SchedulerAsks ==
  /\ sched.pc = "locked"
  /\ LET t == entry.session IN
       \/ /\ t # None /\ Open(t) /\ conn[t].asked = None
          /\ conn' = [conn EXCEPT ![t].asked = sched.attempt]
          /\ sched' = [sched EXCEPT !.pc = "asked", !.to = t]
       \/ Goto("refused") /\ UNCHANGED conn
  /\ UNCHANGED <<rem, att, revision, entry, enabled, edits>>

(* The reply does not come in time, or its session ends.                   *)
SchedulerGivesUp ==
  /\ sched.pc = "asked"
  /\ Goto("refused")
  /\ UNCHANGED <<rem, att, revision, entry, conn, enabled, edits>>

(* speak's last check, after the reply: is the session still current.      *)
SchedulerHears ==
  /\ sched.pc = "answered"
  /\ Goto(IF entry.session = sched.to /\ Open(sched.to) THEN "accepted"
          ELSE "refused")
  /\ UNCHANGED <<rem, att, revision, entry, conn, enabled, edits>>

(* mark_attempt_started revalidates the claim and the reminder, and counts *)
(* the attempt.                                                            *)
ValidClaim(a) == Claimed(a) /\ att[a].session = sched.session
Valid(a) == /\ enabled /\ Claimed(a) /\ att[a].session = sched.session
            /\ rem[att[a].of].status = "pending"
            /\ rem[att[a].of].used < MaxAttempts
SchedulerMarks ==
  /\ sched.pc = "accepted"
  /\ LET a == sched.attempt IN
       \/ /\ Valid(a) /\ ~att[a].started
          /\ att' = [att EXCEPT ![a].started = TRUE, ![a].lapsed = FALSE]
          /\ rem' = [rem EXCEPT ![att[a].of].used =
               IF rem[att[a].of].status = "pending" THEN @ + 1 ELSE @]
          /\ sched' = Idle
       \/ /\ Valid(a) /\ att[a].started
          /\ sched' = Idle /\ UNCHANGED <<att, rem>>
       \/ /\ ~Valid(a)
          /\ att' = Drop({b \in {a} : ValidClaim(b) /\ ~att[b].started})
          /\ Goto("void") /\ UNCHANGED rem
  /\ UNCHANGED <<revision, entry, conn, enabled, edits>>

(* clear_in_flight_reminder.                                               *)
Unlocked(s) == IF entry.session = s THEN [entry EXCEPT !.lock = None] ELSE entry
SchedulerUnlocks ==
  /\ sched.pc \in {"void", "refused"}
  /\ entry' = Unlocked(sched.session)
  /\ sched' = IF sched.pc = "void" THEN Idle ELSE [sched EXCEPT !.pc = "unlocked"]
  /\ UNCHANGED <<rem, att, revision, conn, enabled, edits>>

SchedulerReleases ==
  /\ sched.pc = "unlocked"
  /\ Release(sched.session, sched.attempt)
  /\ sched' = Idle
  /\ UNCHANGED <<revision, entry, conn, enabled, edits>>

(* The database refuses the pass a call: an error of the reaper or of the  *)
(* release is ignored, without a claim the pass ends, and a mark that      *)
(* could not be made counts as refused.  The rows stay as they are.        *)
SchedulerFails ==
  /\ edits < MaxEdits /\ edits' = edits + 1
  /\ \/ sched.pc = "idle" /\ Goto("reaped")
     \/ sched.pc \in {"picked", "unlocked"} /\ sched' = Idle
     \/ sched.pc = "accepted" /\ Goto("void")
  /\ UNCHANGED <<rem, att, revision, entry, conn, enabled>>

-----------------------------------------------------------------------------
(* The session: actor, device, reminder worker.                            *)

(* try_send to the reminder worker: dropped when its channel is full.      *)
PostedUnbounded(c, kind, a) ==
  [c EXCEPT !.events = Append(c.events, [kind |-> kind, attempt |-> a])]
Posted(c, kind, a) ==
  IF Len(c.events) >= EventQueue THEN c
  ELSE [c EXCEPT !.events = Append(c.events, [kind |-> kind, attempt |-> a])]

Awaited(s) == sched.pc = "asked" /\ sched.to = s /\ sched.attempt = conn[s].asked

(* The actor takes the request: refuses it, begins the turn, or finds the  *)
(* requester gone before or after it began it.                             *)
ActorAnswers(s) ==
  /\ conn[s].up /\ conn[s].asked # None
  /\ LET a == conn[s].asked
         c == [conn[s] EXCEPT !.asked = None] IN
       \/ /\ Awaited(s) /\ conn[s].speaking = None /\ ~conn[s].replaced
          /\ conn' = [conn EXCEPT ![s] = [c EXCEPT !.speaking = a]]
          /\ Goto("answered")
       \/ /\ Awaited(s)
          /\ conn' = [conn EXCEPT ![s] = c]
          /\ Goto("refused")
       \/ /\ ~Awaited(s)
          /\ conn' = [conn EXCEPT ![s] = c] /\ UNCHANGED sched
       \/ /\ ~Awaited(s) /\ conn[s].speaking = None /\ ~conn[s].replaced
          /\ conn' = [conn EXCEPT ![s] = Posted(c, "failed", a)]
          /\ UNCHANGED sched
  /\ UNCHANGED <<rem, att, revision, entry, enabled, edits>>

(* The turn was delivered, or cancelled (playback_aborted).                *)
ActorDelivers(s) ==
  /\ conn[s].up /\ conn[s].speaking # None
  /\ conn' = [conn EXCEPT ![s].speaking = None,
                          ![s].device = @ \union {conn[s].speaking}]
  /\ UNCHANGED <<rem, att, revision, entry, sched, enabled, edits>>

ActorAborts(s) ==
  /\ conn[s].up /\ conn[s].speaking # None
  /\ conn' = [conn EXCEPT ![s] =
       [Posted(conn[s], "failed", conn[s].speaking) EXCEPT !.speaking = None]]
  /\ UNCHANGED <<rem, att, revision, entry, sched, enabled, edits>>

(* The device answers for an attempt it heard, late, twice or never.       *)
DeviceAnswers(s) ==
  /\ conn[s].phase = "open"
  /\ \E a \in conn[s].device, kind \in {"played", "failed"} :
       conn' = [conn EXCEPT ![s] = Posted(conn[s], kind, a)]
  /\ UNCHANGED <<rem, att, revision, entry, sched, enabled, edits>>

(* on_device_reminder_event: the lock is cleared first, whatever attempt   *)
(* it names; the transaction follows.                                      *)
WorkerTakes(s) ==
  /\ conn[s].worker = NoEvent /\ conn[s].events # <<>>
  /\ conn' = [conn EXCEPT ![s].worker = Head(conn[s].events),
                          ![s].events = Tail(conn[s].events)]
  /\ entry' = Unlocked(s)
  /\ UNCHANGED <<rem, att, revision, sched, enabled, edits>>

WorkerApplies(s) ==
  /\ conn[s].worker # NoEvent
  /\ IF conn[s].worker.kind = "played" THEN Complete(s, conn[s].worker.attempt)
     ELSE Fail(s, conn[s].worker.attempt)
  /\ conn' = [conn EXCEPT ![s].worker = NoEvent]
  /\ UNCHANGED <<entry, sched, enabled, edits>>

-----------------------------------------------------------------------------
(* Connections.                                                            *)

(* A session starts and takes the entry; the one it displaces is told.     *)
SessionOpens(s) ==
  /\ conn[s].phase = "new" /\ \A t \in 1..(s - 1) : conn[t].phase # "new"
  /\ conn' = [t \in Session |->
       IF t = s THEN [NewConn EXCEPT !.phase = "open", !.up = TRUE]
       ELSE IF t = entry.session THEN [conn[t] EXCEPT !.replaced = TRUE]
       ELSE conn[t]]
  /\ entry' = [session |-> s, lock |-> None]
  /\ UNCHANGED <<rem, att, revision, sched, enabled, edits>>

(* The reader ends: unregister removes the entry only if it is its own.    *)
Unregistered(s) == IF entry.session = s THEN NoEntry ELSE entry
ReaderEnds(s) ==
  /\ conn[s].phase = "open"
  /\ conn' = [conn EXCEPT ![s].phase = "leaving"]
  /\ entry' = Unregistered(s)
  /\ UNCHANGED <<rem, att, revision, sched, enabled, edits>>

(* The actor ends, on its own or because the reader has; a turn it was     *)
(* speaking is reported aborted, a request in its mailbox is never         *)
(* answered.                                                               *)
ActorEnds(s) ==
  /\ conn[s].up
  /\ LET c == IF conn[s].speaking = None THEN conn[s]
              ELSE Posted(conn[s], "failed", conn[s].speaking)
     IN conn' = [conn EXCEPT ![s] = [c EXCEPT !.up = FALSE, !.asked = None,
                                              !.speaking = None]]
  /\ UNCHANGED <<rem, att, revision, entry, sched, enabled, edits>>

(* Actor and reminder worker have been joined; on_session_closed.          *)
SessionSettles(s) ==
  /\ conn[s].phase = "leaving" /\ ~conn[s].up
  /\ conn[s].events = <<>> /\ conn[s].worker = NoEvent
  /\ ForgetSession(s)
  /\ conn' = [conn EXCEPT ![s] = Gone]
  /\ UNCHANGED <<entry, sched, enabled, edits>>

(* The database refuses the session a call: the answer that the worker has *)
(* in hand is lost, or the claims of the ended session stay.               *)
SessionFails(s) ==
  /\ edits < MaxEdits /\ edits' = edits + 1
  /\ \/ /\ conn[s].worker # NoEvent
        /\ conn' = [conn EXCEPT ![s].worker = NoEvent]
     \/ /\ conn[s].phase = "leaving" /\ ~conn[s].up
        /\ conn[s].events = <<>> /\ conn[s].worker = NoEvent
        /\ conn' = [conn EXCEPT ![s] = Gone]
  /\ UNCHANGED <<rem, att, revision, entry, sched, enabled>>

(* The process stops and starts: rows stay, on_session_closed never ran.   *)
Crash ==
  /\ MayCrash
  /\ conn' = [s \in Session |->
       IF conn[s].phase = "new" THEN conn[s]
       ELSE Gone]
  /\ entry' = NoEntry
  /\ sched' = Idle
  /\ UNCHANGED <<rem, att, revision, enabled, edits>>

-----------------------------------------------------------------------------
(* Time.                                                                   *)
Falls(r) ==
  /\ rem[r].status = "pending"
  /\ \/ ~rem[r].due /\ rem' = [rem EXCEPT ![r].due = TRUE]
     \/ rem[r].waiting /\ rem' = [rem EXCEPT ![r].waiting = FALSE]
     \/ rem[r].due /\ ~rem[r].overdue /\ rem' = [rem EXCEPT ![r].overdue = TRUE]
  /\ UNCHANGED <<att, revision, entry, conn, sched, enabled, edits>>

Lapses(a) ==
  /\ Claimed(a) /\ ~att[a].lapsed
  /\ att' = [att EXCEPT ![a].lapsed = TRUE]
  /\ UNCHANGED <<rem, revision, entry, conn, sched, enabled, edits>>

SchedulerNext ==
  \/ SchedulerReaps \/ SchedulerPicks \/ SchedulerClaims \/ SchedulerLocks
  \/ SchedulerAsks \/ SchedulerGivesUp \/ SchedulerHears \/ SchedulerMarks
  \/ SchedulerUnlocks \/ SchedulerReleases \/ SchedulerFails

SessionNext(s) ==
  \/ ActorAnswers(s) \/ ActorDelivers(s) \/ ActorAborts(s) \/ DeviceAnswers(s)
  \/ WorkerTakes(s) \/ WorkerApplies(s)
  \/ SessionOpens(s) \/ ReaderEnds(s) \/ ActorEnds(s) \/ SessionSettles(s)
  \/ SessionFails(s)

Next ==
  \/ SchedulerNext
  \/ \E s \in Session : SessionNext(s)
  \/ \E r \in Reminder : Create(r) \/ Update(r) \/ Cancel(r) \/ Falls(r)
  \/ \E a \in Attempt : Lapses(a)
  \/ Crash \/ SwitchDevice

Spec == Init /\ [][Next]_vars

-----------------------------------------------------------------------------
Status == {"none", "pending", "completed", "cancelled", "expired"}

(* Every variable keeps its type and the worker's channel its bound.  The  *)
(* quota may be passed by one attempt: one that was spoken although its    *)
(* mark failed counts when it is reported aborted, next to the last.       *)
TypeOK ==
  /\ rem \in [Reminder -> [status : Status, used : 0..(MaxAttempts + 1),
                due : BOOLEAN, waiting : BOOLEAN, overdue : BOOLEAN]]
  /\ att \in [Attempt -> [of : Reminder \union {"none"},
                session : Session \union {None}, started : BOOLEAN,
                status : {"absent", "claimed", "played", "failed", "uncertain"},
                lapsed : BOOLEAN]]
  /\ revision \in Nat
  /\ entry \in [session : Session \union {None}, lock : Attempt \union {None}]
  /\ conn \in [Session -> [phase : {"new", "open", "leaving", "gone"},
                replaced : BOOLEAN, up : BOOLEAN,
                asked : Attempt \union {None}, speaking : Attempt \union {None},
                device : SUBSET Attempt, events : Seq(Event),
                worker : Event \union {NoEvent}]]
  /\ \A s \in Session : Len(conn[s].events) <= EventQueue
  /\ sched \in [pc : {"idle", "reaped", "picked", "claimed", "locked", "asked",
                      "answered", "accepted", "void", "refused", "unlocked"},
                session : Session \union {None}, to : Session \union {None},
                attempt : Attempt \union {None}]
  /\ enabled \in BOOLEAN /\ edits \in 0..MaxEdits

(* attempts_used counts every attempt whose row says that it began to play,*)
(* once: marks, early answers, releases, reaping, disconnects and calls    *)
(* that fail keep rows and counter together.                               *)
Counts(a) == att[a].status # "absent"
             /\ (att[a].started \/ att[a].status = "failed")
QuotaExact ==
  \A r \in Reminder :
    rem[r].used = Cardinality({a \in Attempt : att[a].of = r /\ Counts(a)})

(* A reminder completes only by an answer through the session it was       *)
(* claimed for and spoken in, though a request goes to whatever session    *)
(* is current when it is sent.                                             *)
CompletedWasHeard ==
  [][\A r \in Reminder :
       rem'[r].status = "completed" /\ rem[r].status # "completed" =>
         \E a \in Attempt : /\ att[a].of = r /\ Claimed(a)
                            /\ att'[a].status = "played"
                            /\ a \in conn[att[a].session].device]_vars

(* Every reminder that leaves the schedule moves the schedule's revision,  *)
(* and a terminal status is final.                                         *)
LeavesWithRevision ==
  [][\A r \in Reminder : rem[r].status # "none" /\ rem'[r].status # rem[r].status =>
       rem[r].status = "pending" /\ revision' > revision]_vars

(* ADR 0090: an attempt whose answer never comes is retried after its      *)
(* lease.  For that the session has to be ready again: between two passes  *)
(* in_flight_reminder (ready_reminder_devices) names a claim still open.   *)
LockIsLive ==
  sched.pc = "idle" /\ entry.lock # None => Claimed(entry.lock)
=============================================================================
