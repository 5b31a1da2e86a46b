-------------------------- MODULE NotificationOutbox --------------------------
(***************************************************************************)
(* The notification hub (services/notification_hub): publication of a due  *)
(* reminder into the inbox with one outbox row per enabled channel, and    *)
(* the one worker that claims due rows in batches, sends them through the  *)
(* channel's adapter and records what came of it.                          *)
(*                                                                         *)
(* A statement or transaction of the store is one action.  Clock readings  *)
(* are flags: next_attempt_at_ms has passed, a 'sending' row has become    *)
(* stale.  The process may stop anywhere; rows stay.                       *)
(***************************************************************************)
EXTENDS Naturals, Sequences, FiniteSets

CONSTANTS
  Note,             (* dedup keys                                          *)
  Channel,          (* external channels                                   *)
  MaxAttempts,      (* max_attempts of a row                               *)
  BatchLimit,       (* rows of one batch                                   *)
  MaxPublications,  (* bound: inbox items ever created                     *)
  MaxToggles,       (* bound: edits of the channel settings                *)
  MaxCuts           (* bound: crashes and failed writes of the worker      *)

ASSUME OutboxAssumption ==
  /\ MaxAttempts \in Nat \ {0} /\ BatchLimit \in Nat \ {0}
  /\ MaxPublications \in Nat /\ MaxToggles \in Nat /\ MaxCuts \in Nat
  /\ "none" \notin Note
  /\ IsFiniteSet(Channel)

Publication == 1..MaxPublications
Row == Publication \X Channel

VARIABLES
  inbox,     (* per publication: its dedup key, "none" before; deleted?    *)
  row,       (* per publication and channel: the outbox row, and how often  *)
             (* the recipient got it, for an error reported (unsure) or not *)
  enabled,   (* per channel: notification_channel_configs.enabled          *)
  told,      (* notified_reminder_ids, in the scheduler's memory           *)
  worker,    (* the worker loop and its batch                              *)
  cuts,      (* per row: claims of it that ended with nothing recorded     *)
  left       (* what remains of MaxToggles and MaxCuts                     *)
vars == <<inbox, row, enabled, told, worker, cuts, left>>

NoRow == [status |-> "absent", attempts |-> 0, due |-> FALSE, stale |-> FALSE,
          receipts |-> 0, unsure |-> 0]
Idle == [pc |-> "idle", todo |-> {}, batch |-> <<>>, outcome |-> "none"]

Init ==
  /\ inbox = [p \in Publication |-> [note |-> "none", there |-> FALSE]]
  /\ row = [r \in Row |-> NoRow]
  /\ enabled \in [Channel -> BOOLEAN]
  /\ told = {}
  /\ worker = Idle
  /\ cuts = [r \in Row |-> 0]
  /\ left = [toggles |-> MaxToggles, cuts |-> MaxCuts]

-----------------------------------------------------------------------------
(* Publisher and administrator.                                            *)

Unused == {p \in Publication : /\ inbox[p].note = "none"
                               /\ \A q \in 1..(p - 1) : inbox[q].note # "none"}
Present(n) == \E p \in Publication : inbox[p] = [note |-> n, there |-> TRUE]

(* publish: the key enters the scheduler's memory first; an item with the  *)
(* key answers for it; the insert of item and rows may fail as a whole.    *)
Publish(n) ==
  /\ n \notin told
  /\ told' = told \union {n}
  /\ \/ /\ ~Present(n)
        /\ \E p \in Unused :
             /\ inbox' = [inbox EXCEPT ![p] = [note |-> n, there |-> TRUE]]
             /\ row' = [r \in Row |->
                  IF r[1] = p /\ enabled[r[2]]
                  THEN [NoRow EXCEPT !.status = "pending", !.due = TRUE]
                  ELSE row[r]]
     \/ UNCHANGED <<inbox, row>>
  /\ UNCHANGED <<enabled, worker, cuts, left>>

(* delete_inbox and the purge; the outbox rows go with the item.           *)
CascadeNothing(p) == row
Cascade(p) == [r \in Row |-> IF r[1] = p THEN NoRow ELSE row[r]]
DeleteInbox(p) ==
  /\ inbox[p].there
  /\ inbox' = [inbox EXCEPT ![p].there = FALSE]
  /\ row' = Cascade(p)
  /\ UNCHANGED <<enabled, told, worker, cuts, left>>

SetChannel(ch) ==
  /\ left.toggles > 0
  /\ enabled' = [enabled EXCEPT ![ch] = ~@]
  /\ left' = [left EXCEPT !.toggles = @ - 1]
  /\ UNCHANGED <<inbox, row, told, worker, cuts>>

-----------------------------------------------------------------------------
(* The worker: claim_due_outbox_batch, then process_due_outbox.            *)

With(status) == {r \in Row : row[r].status = status}

(* Rows an earlier process left 'sending' become due again.                *)
RecoveredNever == row
Recovered ==
  [r \in Row |-> IF row[r].status = "sending" /\ row[r].stale
                 THEN [row[r] EXCEPT !.status = "pending", !.due = TRUE,
                                     !.stale = FALSE]
                 ELSE row[r]]
Recover ==
  /\ worker.pc = "idle"
  /\ row' = Recovered
  /\ worker' = [worker EXCEPT !.pc = "select"]
  /\ UNCHANGED <<inbox, enabled, told, cuts, left>>

(* Up to BatchLimit due rows; which of them come first is left open.       *)
Batches(due) ==
  IF Cardinality(due) <= BatchLimit THEN {due}
  ELSE {S \in SUBSET due : Cardinality(S) = BatchLimit}
Select ==
  /\ worker.pc = "select"
  /\ LET due == {r \in With("pending") : row[r].due} IN
     IF due = {} THEN worker' = Idle
     ELSE \E S \in Batches(due) :
            worker' = [worker EXCEPT !.pc = "claim", !.todo = S]
  /\ UNCHANGED <<inbox, row, enabled, told, cuts, left>>

(* A row deleted since it was selected is skipped.  The copy keeps the     *)
(* attempt number and the channel's setting of this moment.                *)
Claim ==
  /\ worker.pc = "claim" /\ worker.todo # {}
  /\ \E r \in worker.todo :
       IF row[r].status = "pending"
       THEN /\ row' = [row EXCEPT ![r] = [@ EXCEPT !.status = "sending",
                         !.attempts = row[r].attempts + 1, !.due = FALSE]]
            /\ worker' = [worker EXCEPT !.todo = worker.todo \ {r},
                 !.batch = Append(worker.batch,
                    [row |-> r, attempts |-> row[r].attempts + 1,
                     on |-> enabled[r[2]]])]
       ELSE /\ worker' = [worker EXCEPT !.todo = worker.todo \ {r}]
            /\ UNCHANGED row
  /\ UNCHANGED <<inbox, enabled, told, cuts, left>>

(* The adapter answers; a channel disabled at the claim, an adapter or a   *)
(* credential that is missing fail the row for good without it.  A request *)
(* that timed out or broke off, and an answer of the server's error        *)
(* classes, are retryable whether or not the channel took the message.     *)
Received(t, o) ==
  [t EXCEPT !.receipts = @ + 1, !.unsure = IF o = "sent" THEN @ ELSE @ + 1]
Send ==
  /\ worker.pc = "claim" /\ worker.todo = {} /\ worker.batch # <<>>
  /\ LET h == Head(worker.batch) IN
     \E o \in IF h.on THEN {"sent", "retryable", "permanent"} ELSE {"permanent"},
        taken \in BOOLEAN :
       /\ (o = "sent" => taken) /\ (o = "permanent" => ~taken)
       /\ worker' = [worker EXCEPT !.pc = "record", !.outcome = o]
       /\ row' = IF taken /\ row[h.row].status # "absent"
                 THEN [row EXCEPT ![h.row] = Received(@, o)] ELSE row
  /\ UNCHANGED <<inbox, enabled, told, cuts, left>>

BatchDone ==
  /\ worker.pc = "claim" /\ worker.todo = {} /\ worker.batch = <<>>
  /\ worker' = Idle
  /\ UNCHANGED <<inbox, row, enabled, told, cuts, left>>

(* complete_outbox_sent, complete_outbox_failure: by the row's id, whatever*)
(* its status; nothing happens to a row deleted meanwhile.                 *)
MayRetryOnceMore(n) == n <= MaxAttempts
MayRetry(n) == n < MaxAttempts
AfterSend(t, o, n) ==
  CASE o = "sent" -> [t EXCEPT !.status = "sent", !.stale = FALSE]
    [] o = "retryable" /\ MayRetry(n) ->
         [t EXCEPT !.status = "pending", !.stale = FALSE]
    [] OTHER -> [t EXCEPT !.status = "failed", !.stale = FALSE]
Record ==
  /\ worker.pc = "record"
  /\ LET h == Head(worker.batch) IN
       row' = IF row[h.row].status = "absent" THEN row
              ELSE [row EXCEPT ![h.row] =
                      AfterSend(row[h.row], worker.outcome, h.attempts)]
  /\ worker' = [worker EXCEPT !.pc = "claim", !.outcome = "none",
                              !.batch = Tail(worker.batch)]
  /\ UNCHANGED <<inbox, enabled, told, cuts, left>>

(* The pass ends with the batch unrecorded: a write failed, or the process *)
(* stopped, and with it the scheduler's memory.                            *)
InBatch(r) == \E i \in 1..Len(worker.batch) : worker.batch[i].row = r
Cut ==
  /\ left.cuts > 0
  /\ left' = [left EXCEPT !.cuts = @ - 1]
  /\ cuts' = [r \in Row |-> IF InBatch(r) THEN cuts[r] + 1 ELSE cuts[r]]
  /\ worker' = Idle
  /\ UNCHANGED <<inbox, row, enabled>>
WriteFails == worker.pc \in {"claim", "record"} /\ Cut /\ UNCHANGED told
Crash == Cut /\ told' = {}

-----------------------------------------------------------------------------
(* Time.                                                                   *)
FallsDue(r) ==
  /\ row[r].status = "pending" /\ ~row[r].due
  /\ row' = [row EXCEPT ![r].due = TRUE]
  /\ UNCHANGED <<inbox, enabled, told, worker, cuts, left>>
GoesStale(r) ==
  /\ row[r].status = "sending" /\ ~row[r].stale
  /\ row' = [row EXCEPT ![r].stale = TRUE]
  /\ UNCHANGED <<inbox, enabled, told, worker, cuts, left>>

WorkerNext == Recover \/ Select \/ Claim \/ Send \/ BatchDone \/ Record
Next ==
  \/ WorkerNext \/ WriteFails \/ Crash
  \/ \E n \in Note : Publish(n)
  \/ \E p \in Publication : DeleteInbox(p)
  \/ \E ch \in Channel : SetChannel(ch)
  \/ \E r \in Row : FallsDue(r) \/ GoesStale(r)

(* The worker's tick comes every two seconds and the clock runs.           *)
Fairness ==
  /\ WF_vars(WorkerNext)
  /\ \A r \in Row : WF_vars(FallsDue(r)) /\ WF_vars(GoesStale(r))

Spec == Init /\ [][Next]_vars
FairSpec == Spec /\ Fairness

-----------------------------------------------------------------------------
(* Every variable keeps its type, and a row exists only under an item.     *)
TypeOK ==
  /\ inbox \in [Publication -> [note : Note \union {"none"}, there : BOOLEAN]]
  /\ row \in [Row -> [status : {"absent", "pending", "sending", "sent", "failed"},
                      attempts : Nat, due : BOOLEAN, stale : BOOLEAN,
                      receipts : Nat, unsure : Nat]]
  /\ \A r \in Row : row[r].status # "absent" => inbox[r[1]].there
  /\ enabled \in [Channel -> BOOLEAN] /\ told \subseteq Note
  /\ worker.pc \in {"idle", "select", "claim", "record"}
  /\ worker.todo \subseteq Row
  /\ Len(worker.batch) + Cardinality(worker.todo) <= BatchLimit
  /\ worker.outcome \in {"none", "sent", "retryable", "permanent"}
  /\ cuts \in [Row -> Nat] /\ left \in [toggles : 0..MaxToggles, cuts : 0..MaxCuts]

(* A recipient gets a notification once more only for a send the channel   *)
(* took but the adapter reported as failed, or for a pass that was stopped *)
(* or could not write between the claim and its record; and only such a    *)
(* pass lets a row be claimed past max_attempts.                           *)
RepeatsHaveACause ==
  \A r \in Row : /\ row[r].receipts <= 1 + cuts[r] + row[r].unsure
                 /\ row[r].attempts <= MaxAttempts + cuts[r]

(* Whatever stops and however often a channel fails or is disabled, every  *)
(* row is sent, given up or deleted with its item.                         *)
RowSettles ==
  \A r \in Row : row[r].status = "pending" ~>
                   row[r].status \in {"sent", "failed", "absent"}
=============================================================================
