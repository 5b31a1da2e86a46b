---------------------- MODULE NotificationOutbox_proofs ----------------------
(***************************************************************************)
(* Proof that repeats are paid for: however the worker is interrupted and  *)
(* whatever the channels report, a second receipt of a row costs a cut or  *)
(* a send that was taken and reported as failed, and a claim past its limit*)
(* a cut, for any number of publications, channels, attempts and cuts.     *)
(*                                                                         *)
(* A row in the worker's batch is the worker's alone until its outcome is  *)
(* recorded or the pass is cut; a row outside has nothing to pay.          *)
(***************************************************************************)
EXTENDS NotificationOutbox, FiniteSetTheorems, SequenceTheorems, TLAPS

(* The types of the records.                                               *)
Item == [note : Note \union {"none"}, there : BOOLEAN]
Entry == [status : {"absent", "pending", "sending", "sent", "failed"},
          attempts : Nat, due : BOOLEAN, stale : BOOLEAN, receipts : Nat,
          unsure : Nat]
Copy == [row : Row, attempts : Nat, on : BOOLEAN]
WorkerType == [pc : {"idle", "select", "claim", "record"}, todo : SUBSET Row,
               batch : Seq(Copy), outcome : {"none", "sent", "retryable", "permanent"}]

Typed ==
  /\ inbox \in [Publication -> Item] /\ row \in [Row -> Entry]
  /\ enabled \in [Channel -> BOOLEAN] /\ told \subseteq Note
  /\ worker \in WorkerType /\ cuts \in [Row -> Nat]
  /\ left \in [toggles : 0..MaxToggles, cuts : 0..MaxCuts]

(* A row exists only under an item that is there, with its key.            *)
RowsHaveItems ==
  /\ \A r \in Row : row[r].status # "absent" => inbox[r[1]].there
  /\ \A p \in Publication : inbox[p].there => inbox[p].note # "none"

(* The batch is only filled in a pass and keeps its limit.                 *)
PassShape ==
  /\ worker.pc \in {"idle", "select"} => worker.todo = {} /\ worker.batch = <<>>
  /\ worker.pc = "record" => worker.todo = {} /\ worker.batch # <<>>
  /\ Len(worker.batch) + Cardinality(worker.todo) <= BatchLimit

(* A row in the batch is there once, of an item that was published, and is *)
(* as the worker claimed it or deleted.                                    *)
ClaimedOrGone(c) ==
  /\ inbox[c.row[1]].note # "none"
  /\ \/ row[c.row].status = "absent"
     \/ row[c.row].status = "sending" /\ row[c.row].attempts = c.attempts
BatchKnown ==
  /\ \A i \in 1..Len(worker.batch) : ClaimedOrGone(worker.batch[i])
  /\ \A i, j \in 1..Len(worker.batch) :
       worker.batch[i].row = worker.batch[j].row => i = j

(* The row was received, which is not recorded yet.                        *)
Unrecorded(r) ==
  /\ worker.pc = "record" /\ worker.outcome = "sent"
  /\ worker.batch[1].row = r

(* What a row has been given is paid for before it is given again.         *)
ReceiptsPaid ==
  \A r \in Row :
    /\ row[r].receipts <= 1 + cuts[r] + row[r].unsure
    /\ row[r].status \in {"pending", "sending"} /\ ~Unrecorded(r) =>
         row[r].receipts <= cuts[r] + row[r].unsure
AttemptsPaid ==
  \A r \in Row :
    /\ row[r].attempts <= MaxAttempts + cuts[r]
    /\ \/ row[r].status = "pending"
       \/ row[r].status = "sending" /\ ~InBatch(r)
       => row[r].attempts < MaxAttempts + cuts[r]

OutboxInv ==
  Typed /\ RowsHaveItems /\ PassShape /\ BatchKnown /\ ReceiptsPaid /\ AttemptsPaid

LEMMA TypedWell == OutboxInv => TypeOK
BY DEF OutboxInv, Typed, RowsHaveItems, PassShape, TypeOK, Item, Entry, WorkerType

LEMMA RepeatsPaid == OutboxInv => RepeatsHaveACause
BY DEF OutboxInv, ReceiptsPaid, AttemptsPaid, RepeatsHaveACause

(* Rows are finitely many.                                                 *)
LEMMA RowsFinite ==
  /\ IsFiniteSet(Row) /\ Cardinality({}) = 0
  /\ BatchLimit \in Nat \ {0} /\ MaxAttempts \in Nat \ {0}
<1>1. IsFiniteSet(Publication) /\ IsFiniteSet(Channel)
  BY FS_Interval, OutboxAssumption DEF Publication, OutboxAssumption
<1> QED
  BY <1>1, FS_Product, FS_EmptySet, OutboxAssumption DEF Row, OutboxAssumption

LEMMA NoRowTyped == NoRow \in Entry /\ NoRow.status = "absent" /\ NoRow.attempts = 0
                    /\ NoRow.receipts = 0 /\ NoRow.unsure = 0
BY DEF NoRow, Entry

LEMMA IdleTyped ==
  /\ Idle \in WorkerType /\ Idle.pc = "idle" /\ Idle.todo = {} /\ Idle.batch = <<>>
  /\ Len(Idle.batch) = 0
BY DEF Idle, WorkerType

-----------------------------------------------------------------------------
LEMMA InitInv == Init => OutboxInv
<1> SUFFICES ASSUME Init PROVE OutboxInv
  OBVIOUS
<1> USE RowsFinite, NoRowTyped, IdleTyped
<1>1. Typed
  BY OutboxAssumption DEF Init, Typed, Item, OutboxAssumption
<1>2. PassShape
  BY DEF Init, PassShape
<1>3. BatchKnown
  BY DEF Init, BatchKnown
<1>4. RowsHaveItems /\ ReceiptsPaid /\ AttemptsPaid
  BY DEF Init, RowsHaveItems, ReceiptsPaid, AttemptsPaid
<1> QED
  BY <1>1, <1>2, <1>3, <1>4 DEF OutboxInv

-----------------------------------------------------------------------------
(* What the worker knows and what is paid survive a change of the rows     *)
(* that leaves the rows of the batch sending, or deletes them.             *)
LEMMA RowsChange ==
  ASSUME OutboxInv, UNCHANGED <<worker, cuts>>, Typed', RowsHaveItems',
         \A p \in Publication : inbox[p].note # "none" => inbox'[p].note # "none",
         \A r \in Row :
           \/ /\ row'[r].status = row[r].status /\ row'[r].attempts = row[r].attempts
              /\ row'[r].receipts = row[r].receipts /\ row'[r].unsure = row[r].unsure
           \/ row'[r] = NoRow
           \/ /\ row'[r].status = "pending" /\ row'[r].attempts = 0 /\ row'[r].receipts = 0
              /\ row'[r].unsure = 0 /\ inbox[r[1]].note = "none"
           \/ /\ row[r].status = "sending" /\ row'[r].status = "pending"
              /\ row'[r].attempts = row[r].attempts /\ row'[r].receipts = row[r].receipts
              /\ row'[r].unsure = row[r].unsure /\ worker.pc = "idle"
  PROVE  OutboxInv'
<1> USE RowsFinite, NoRowTyped
<1>1. \A i \in 1..Len(worker.batch) : worker.batch[i] \in Copy
  BY DEF OutboxInv, Typed, WorkerType
<1>2. worker.pc = "idle" => worker.batch = <<>> /\ Len(worker.batch) = 0
  BY DEF OutboxInv, PassShape
<1>3. BatchKnown'
  <2>1. ASSUME NEW i \in 1..Len(worker.batch), ClaimedOrGone(worker.batch[i])
        PROVE  ClaimedOrGone(worker.batch[i])'
    <3>1. worker.batch[i].row \in Row /\ worker.batch[i].row[1] \in Publication
      BY <1>1 DEF Copy, Row
    <3>2. worker.pc # "idle"
      BY <1>2
    <3> QED
      BY <2>1, <3>1, <3>2 DEF ClaimedOrGone
  <2> QED
    BY <2>1 DEF OutboxInv, BatchKnown
<1>4. \A r \in Row : cuts[r] \in Nat /\ row[r] \in Entry
  BY DEF OutboxInv, Typed
<1>5. ReceiptsPaid'
  <2> SUFFICES ASSUME NEW r \in Row
               PROVE  /\ row'[r].receipts <= 1 + cuts[r] + row'[r].unsure
                      /\ row'[r].status \in {"pending", "sending"} /\ ~Unrecorded(r) =>
                           row'[r].receipts <= cuts[r] + row'[r].unsure
    BY DEF ReceiptsPaid, Unrecorded
  <2>1. worker.pc = "idle" => ~Unrecorded(r)
    BY DEF Unrecorded
  <2> QED
    BY <1>4, <2>1 DEF OutboxInv, ReceiptsPaid, Entry
<1>6. AttemptsPaid'
  <2> SUFFICES ASSUME NEW r \in Row
               PROVE  /\ row'[r].attempts <= MaxAttempts + cuts[r]
                      /\ \/ row'[r].status = "pending"
                         \/ row'[r].status = "sending" /\ ~InBatch(r)
                         => row'[r].attempts < MaxAttempts + cuts[r]
    BY DEF AttemptsPaid, InBatch
  <2>1. worker.pc = "idle" => ~InBatch(r)
    BY <1>2 DEF InBatch
  <2> QED
    BY <1>4, <2>1 DEF OutboxInv, AttemptsPaid
<1>7. PassShape'
  BY DEF OutboxInv, PassShape
<1> QED
  BY <1>3, <1>5, <1>6, <1>7 DEF OutboxInv

LEMMA PublishInv ==
  ASSUME OutboxInv, NEW n \in Note, Publish(n)
  PROVE  OutboxInv'
<1> USE NoRowTyped
<1>1. Typed /\ RowsHaveItems /\ UNCHANGED <<enabled, worker, cuts, left>>
      /\ told' \subseteq Note
  BY DEF OutboxInv, Typed, Publish
<1>2. CASE UNCHANGED <<inbox, row>>
  <2>1. Typed' /\ RowsHaveItems'
    BY <1>1, <1>2 DEF Typed, RowsHaveItems
  <2> QED
    BY <1>1, <1>2, <2>1, RowsChange
<1>3. ASSUME NEW p \in Unused,
             inbox' = [inbox EXCEPT ![p] = [note |-> n, there |-> TRUE]],
             row' = [r \in Row |->
                  IF r[1] = p /\ enabled[r[2]]
                  THEN [NoRow EXCEPT !.status = "pending", !.due = TRUE]
                  ELSE row[r]]
      PROVE  OutboxInv'
  <2> DEFINE new == [NoRow EXCEPT !.status = "pending", !.due = TRUE]
  <2>1. /\ new \in Entry /\ new.status = "pending" /\ new.attempts = 0 /\ new.receipts = 0
        /\ new.unsure = 0
    BY DEF NoRow, Entry
  <2>0. row' = [r \in Row |-> IF r[1] = p /\ enabled[r[2]] THEN new ELSE row[r]]
    BY <1>3
  <2> HIDE DEF new
  <2>2. p \in Publication /\ inbox[p].note = "none"
    BY DEF Unused
  <2>3. n # "none"
    BY OutboxAssumption DEF OutboxAssumption
  <2>4. /\ inbox' \in [Publication -> Item]
        /\ inbox'[p].note # "none" /\ inbox'[p].there
        /\ \A q \in Publication : q # p => inbox'[q] = inbox[q]
    BY <1>1, <1>3, <2>2, <2>3 DEF Typed, Item
  <2>5. /\ row' \in [Row -> Entry]
        /\ \A r \in Row : \/ row'[r] = row[r]
                          \/ row'[r] = new /\ r[1] = p
    <3>1. \A r \in Row : row'[r] = IF r[1] = p /\ enabled[r[2]] THEN new ELSE row[r]
      BY <2>0
    <3>2. row' = [r \in Row |-> row'[r]]
      BY <2>0
    <3>3. \A r \in Row : row[r] \in Entry
      BY <1>1 DEF Typed
    <3>4. \A r \in Row : row'[r] \in Entry
      BY <2>1, <3>1, <3>3
    <3> QED
      BY <3>1, <3>2, <3>4
  <2>6. Typed'
    BY <1>1, <2>4, <2>5 DEF Typed
  <2>7. RowsHaveItems'
    BY <1>1, <2>2, <2>4, <2>5 DEF RowsHaveItems, Row
  <2> QED
    BY <1>1, <2>1, <2>2, <2>4, <2>5, <2>6, <2>7, RowsChange
<1> QED
  BY <1>2, <1>3 DEF Publish

LEMMA DeleteInv ==
  ASSUME OutboxInv, NEW p \in Publication, DeleteInbox(p)
  PROVE  OutboxInv'
<1> USE NoRowTyped
<1>1. Typed /\ RowsHaveItems /\ UNCHANGED <<enabled, told, worker, cuts, left>>
  BY DEF OutboxInv, DeleteInbox
<1>2. inbox' = [inbox EXCEPT ![p] = [inbox[p] EXCEPT !.there = FALSE]] /\ inbox[p] \in Item
  BY <1>1 DEF DeleteInbox, Typed
<1>3. /\ [inbox[p] EXCEPT !.there = FALSE] \in Item
      /\ [inbox[p] EXCEPT !.there = FALSE].note = inbox[p].note
  BY <1>2 DEF Item
<1>4. /\ inbox' \in [Publication -> Item]
      /\ \A q \in Publication : inbox'[q].note = inbox[q].note
      /\ \A q \in Publication : q # p => inbox'[q] = inbox[q]
  BY <1>1, <1>2, <1>3 DEF Typed
<1>5. /\ row' \in [Row -> Entry]
      /\ \A r \in Row : row'[r] = IF r[1] = p THEN NoRow ELSE row[r]
  BY <1>1 DEF DeleteInbox, Cascade, Typed
<1>6. inbox'[p].there = FALSE /\ \A r \in Row : r[1] \in Publication
  BY <1>1, <1>2 DEF Typed, Item, Row
<1>7. Typed'
  BY <1>1, <1>4, <1>5 DEF Typed
<1>8. RowsHaveItems'
  BY <1>1, <1>4, <1>5, <1>6 DEF RowsHaveItems
<1> QED
  BY <1>1, <1>4, <1>5, <1>7, <1>8, RowsChange

LEMMA SettingInv ==
  ASSUME OutboxInv, NEW ch \in Channel, SetChannel(ch)
  PROVE  OutboxInv'
<1>1. Typed /\ RowsHaveItems /\ UNCHANGED <<inbox, row, told, worker, cuts>>
  BY DEF OutboxInv, SetChannel
<1>2. enabled' \in [Channel -> BOOLEAN]
  BY <1>1 DEF SetChannel, Typed
<1>3. left' \in [toggles : 0..MaxToggles, cuts : 0..MaxCuts]
  BY <1>1, OutboxAssumption DEF SetChannel, Typed, OutboxAssumption
<1>4. Typed' /\ RowsHaveItems'
  BY <1>1, <1>2, <1>3 DEF Typed, RowsHaveItems
<1> QED
  BY <1>1, <1>4, RowsChange

(* The clock: a pending row falls due, a row that is sending goes stale.   *)
LEMMA ClockInv ==
  ASSUME OutboxInv, NEW r \in Row, FallsDue(r) \/ GoesStale(r)
  PROVE  OutboxInv'
<1>1. Typed /\ RowsHaveItems /\ UNCHANGED <<inbox, enabled, told, worker, cuts, left>>
  BY DEF OutboxInv, FallsDue, GoesStale
<1>2. PICK t \in {[row[r] EXCEPT !.due = TRUE], [row[r] EXCEPT !.stale = TRUE]} :
        row' = [row EXCEPT ![r] = t]
  BY DEF FallsDue, GoesStale
<1>3. /\ t \in Entry /\ t.status = row[r].status /\ t.attempts = row[r].attempts
      /\ t.receipts = row[r].receipts /\ t.unsure = row[r].unsure
  BY <1>1, <1>2 DEF Typed, Entry
<1>4. /\ row' \in [Row -> Entry]
      /\ \A q \in Row : /\ row'[q].status = row[q].status
                        /\ row'[q].attempts = row[q].attempts
                        /\ row'[q].receipts = row[q].receipts
                        /\ row'[q].unsure = row[q].unsure
  BY <1>1, <1>2, <1>3 DEF Typed
<1>5. Typed' /\ RowsHaveItems'
  BY <1>1, <1>4 DEF Typed, RowsHaveItems
<1> QED
  BY <1>1, <1>4, <1>5, RowsChange

-----------------------------------------------------------------------------
(* The worker.                                                             *)

(* Between two passes no row is in a batch.                                *)
LEMMA IdleKnows ==
  ASSUME worker.pc \in {"idle", "select"}, OutboxInv
  PROVE  /\ worker.todo = {} /\ worker.batch = <<>> /\ Len(worker.batch) = 0
         /\ \A r \in Row : ~InBatch(r) /\ ~Unrecorded(r)
BY DEF OutboxInv, PassShape, InBatch, Unrecorded

LEMMA RecoverInv ==
  ASSUME OutboxInv, Recover
  PROVE  OutboxInv'
<1> USE RowsFinite
<1>1. Typed /\ RowsHaveItems /\ UNCHANGED <<inbox, enabled, told, cuts, left>>
      /\ worker.pc = "idle" /\ worker.todo = {} /\ worker.batch = <<>>
      /\ Len(worker.batch) = 0
  BY IdleKnows DEF OutboxInv, Recover
<1>2. /\ worker' \in WorkerType /\ worker'.pc = "select" /\ worker'.todo = {}
      /\ worker'.batch = <<>> /\ Len(worker'.batch) = 0
  BY <1>1 DEF Recover, Typed, WorkerType
<1>3. \A r \in Row :
        LET t == [row[r] EXCEPT !.status = "pending", !.due = TRUE, !.stale = FALSE] IN
        /\ t \in Entry /\ t.status = "pending" /\ t.attempts = row[r].attempts
        /\ t.receipts = row[r].receipts /\ t.unsure = row[r].unsure
  <2> SUFFICES ASSUME NEW r \in Row
               PROVE  LET t == [row[r] EXCEPT !.status = "pending", !.due = TRUE,
                                              !.stale = FALSE]
                      IN /\ t \in Entry /\ t.status = "pending"
                         /\ t.attempts = row[r].attempts /\ t.receipts = row[r].receipts
                         /\ t.unsure = row[r].unsure
    OBVIOUS
  <2>1. row[r] \in Entry
    BY <1>1 DEF Typed
  <2> QED
    BY <2>1 DEF Entry
<1>4. /\ row' \in [Row -> Entry]
      /\ \A r \in Row : \/ row'[r] = row[r]
                        \/ /\ row[r].status = "sending" /\ row'[r].status = "pending"
                           /\ row'[r].attempts = row[r].attempts
                           /\ row'[r].receipts = row[r].receipts
                           /\ row'[r].unsure = row[r].unsure
  BY <1>1, <1>3 DEF Recover, Recovered, Typed
<1>5. Typed' /\ RowsHaveItems'
  BY <1>1, <1>2, <1>4 DEF Typed, RowsHaveItems
<1>6. PassShape' /\ BatchKnown'
  BY <1>2 DEF PassShape, BatchKnown
<1>7. \A r \in Row : ~InBatch(r) /\ ~Unrecorded(r)
  BY <1>1, IdleKnows
<1>8. ReceiptsPaid'
  BY <1>1, <1>4, <1>7 DEF OutboxInv, ReceiptsPaid
<1>9. AttemptsPaid'
  BY <1>1, <1>4, <1>7 DEF OutboxInv, AttemptsPaid
<1> QED
  BY <1>5, <1>6, <1>8, <1>9 DEF OutboxInv

(* The worker goes on; the rows and what the batch holds stay.             *)
LEMMA WorkerGoesOn ==
  ASSUME OutboxInv, UNCHANGED <<inbox, row, enabled, told, cuts, left>>,
         worker' \in WorkerType, PassShape', worker'.batch = worker.batch,
         worker'.pc # "record", worker.pc # "record"
  PROVE  OutboxInv'
<1>1. Typed' /\ RowsHaveItems'
  BY DEF OutboxInv, Typed, RowsHaveItems
<1>2. BatchKnown'
  BY DEF OutboxInv, BatchKnown, ClaimedOrGone
<1>3. ReceiptsPaid' /\ AttemptsPaid'
  BY DEF OutboxInv, ReceiptsPaid, AttemptsPaid, Unrecorded, InBatch
<1> QED
  BY <1>1, <1>2, <1>3 DEF OutboxInv

LEMMA SelectInv ==
  ASSUME OutboxInv, Select
  PROVE  OutboxInv'
<1> USE RowsFinite, IdleTyped
<1> DEFINE due == {r \in With("pending") : row[r].due}
<1>1. UNCHANGED <<inbox, row, enabled, told, cuts, left>> /\ worker.pc = "select"
      /\ worker \in WorkerType /\ worker.batch = <<>> /\ Len(worker.batch) = 0
  BY IdleKnows DEF Select, OutboxInv, Typed
<1>2. due \subseteq Row /\ IsFiniteSet(due) /\ Cardinality(due) \in Nat
  BY FS_Subset, FS_CardinalityType DEF With
<1>3. CASE worker' = Idle
  <2> HIDE DEF due
  <2>1. /\ worker'.pc = "idle" /\ worker'.todo = {} /\ worker'.batch = <<>>
        /\ Len(worker'.batch) = 0 /\ Cardinality(worker'.todo) = 0
    BY <1>3
  <2>2. PassShape'
    BY <2>1 DEF PassShape
  <2> QED
    BY <1>1, <1>3, <2>2, WorkerGoesOn
<1>4. ASSUME NEW S \in Batches(due), worker' = [worker EXCEPT !.pc = "claim", !.todo = S]
      PROVE  OutboxInv'
  <2>1. S \subseteq Row /\ Cardinality(S) <= BatchLimit /\ Cardinality(S) \in Nat
    <3> HIDE DEF due
    <3> QED
      BY <1>2 DEF Batches
  <2>2. /\ worker' \in WorkerType /\ worker'.pc = "claim" /\ worker'.todo = S
        /\ worker'.batch = worker.batch
    BY <1>1, <1>4, <2>1 DEF WorkerType
  <2>3. PassShape'
    BY <1>1, <2>1, <2>2 DEF PassShape
  <2> QED
    BY <1>1, <2>2, <2>3, WorkerGoesOn
<1> QED
  BY <1>3, <1>4 DEF Select

LEMMA BatchDoneInv ==
  ASSUME OutboxInv, BatchDone
  PROVE  OutboxInv'
<1> USE RowsFinite, IdleTyped
<1>1. PassShape' /\ worker'.batch = worker.batch /\ worker' \in WorkerType
      /\ worker'.pc # "record" /\ worker.pc # "record"
  BY DEF BatchDone, PassShape
<1> QED
  BY <1>1, WorkerGoesOn DEF BatchDone

(* A row is claimed: one attempt more, and a place in the batch.           *)
LEMMA ClaimInv ==
  ASSUME OutboxInv, Claim
  PROVE  OutboxInv'
<1> USE RowsFinite
<1>1. PICK r \in worker.todo :
        \/ /\ row[r].status = "pending"
           /\ row' = [row EXCEPT ![r] = [@ EXCEPT !.status = "sending",
                         !.attempts = row[r].attempts + 1, !.due = FALSE]]
           /\ worker' = [worker EXCEPT !.todo = worker.todo \ {r},
                 !.batch = Append(worker.batch,
                    [row |-> r, attempts |-> row[r].attempts + 1,
                     on |-> enabled[r[2]]])]
        \/ /\ worker' = [worker EXCEPT !.todo = worker.todo \ {r}]
           /\ UNCHANGED row
  BY DEF Claim
<1>2. /\ worker \in WorkerType /\ worker.pc = "claim" /\ r \in Row
      /\ UNCHANGED <<inbox, enabled, told, cuts, left>> /\ Typed
      /\ row[r] \in Entry /\ cuts[r] \in Nat
  BY DEF Claim, OutboxInv, Typed, WorkerType
<1>3. /\ worker.todo \subseteq Row /\ worker.batch \in Seq(Copy) /\ Len(worker.batch) \in Nat
      /\ IsFiniteSet(worker.todo)
  BY <1>2, FS_Subset DEF WorkerType
<1>4. /\ Cardinality(worker.todo \ {r}) = Cardinality(worker.todo) - 1
      /\ Cardinality(worker.todo) \in Nat
  BY <1>3, FS_RemoveElement, FS_CardinalityType
<1>5. Len(worker.batch) + Cardinality(worker.todo) <= BatchLimit
  BY DEF OutboxInv, PassShape
<1>6. CASE worker' = [worker EXCEPT !.todo = worker.todo \ {r}] /\ UNCHANGED row
  <2>1. /\ worker' \in WorkerType /\ worker'.pc = "claim" /\ worker'.batch = worker.batch
        /\ worker'.todo = worker.todo \ {r}
    BY <1>2, <1>6 DEF WorkerType
  <2>2. PassShape'
    BY <1>3, <1>4, <1>5, <2>1 DEF PassShape
  <2> QED
    BY <1>2, <1>6, <2>1, <2>2, WorkerGoesOn
<1>7. CASE /\ row[r].status = "pending"
           /\ row' = [row EXCEPT ![r] = [@ EXCEPT !.status = "sending",
                         !.attempts = row[r].attempts + 1, !.due = FALSE]]
           /\ worker' = [worker EXCEPT !.todo = worker.todo \ {r},
                 !.batch = Append(worker.batch,
                    [row |-> r, attempts |-> row[r].attempts + 1,
                     on |-> enabled[r[2]]])]
  <2>0. /\ row[r].attempts + 1 \in Nat /\ row[r].attempts \in Nat
        /\ enabled[r[2]] \in BOOLEAN
    BY <1>2 DEF Entry, Typed, Row
  <2>a. PICK t : t = [row[r] EXCEPT !.status = "sending", !.attempts = row[r].attempts + 1,
                                    !.due = FALSE]
    OBVIOUS
  <2>c. PICK c : c = [row |-> r, attempts |-> row[r].attempts + 1, on |-> enabled[r[2]]]
    OBVIOUS
  <2>q. PICK q : q = Append(worker.batch, c)
    OBVIOUS
  <2>1. /\ t \in Entry /\ t.status = "sending" /\ t.attempts = row[r].attempts + 1
        /\ t.receipts = row[r].receipts /\ t.unsure = row[r].unsure
    <3>1. row[r] \in Entry
      BY <1>2
    <3> QED
      BY <2>0, <2>a, <3>1 DEF Entry
  <2>2. c \in Copy /\ c.row = r /\ c.attempts = row[r].attempts + 1
    BY <1>2, <2>0, <2>c DEF Copy
  <2>3. row' = [row EXCEPT ![r] = t]
    BY <1>7, <2>a
  <2>4. worker' = [worker EXCEPT !.todo = worker.todo \ {r}, !.batch = q]
    BY <1>7, <2>c, <2>q
  <2>5. /\ q \in Seq(Copy) /\ Len(q) = Len(worker.batch) + 1
        /\ \A i \in 1..Len(q) : q[i] = IF i = Len(q) THEN c ELSE worker.batch[i]
    BY <1>3, <2>2, <2>q
  <2>6. /\ worker' \in WorkerType /\ worker'.pc = "claim" /\ worker'.batch = q
        /\ worker'.todo = worker.todo \ {r}
    BY <1>2, <2>4, <2>5 DEF WorkerType
  <2>7. /\ row' \in [Row -> Entry] /\ row'[r] = t
        /\ \A o \in Row : o # r => row'[o] = row[o]
    BY <1>2, <2>1, <2>3 DEF Typed
  <2>8. Typed' /\ RowsHaveItems'
    BY <1>2, <1>7, <2>1, <2>6, <2>7 DEF OutboxInv, Typed, RowsHaveItems
  <2>9. PassShape'
    BY <1>3, <1>4, <1>5, <2>5, <2>6 DEF PassShape
  <2>10. \A i \in 1..Len(worker.batch) :
           worker.batch[i] \in Copy /\ worker.batch[i].row \in Row /\ worker.batch[i].row # r
    <3> SUFFICES ASSUME NEW i \in 1..Len(worker.batch)
                 PROVE  worker.batch[i] \in Copy /\ worker.batch[i].row \in Row
                        /\ worker.batch[i].row # r
      OBVIOUS
    <3>1. worker.batch[i] \in Copy
      BY <1>3
    <3>2. ClaimedOrGone(worker.batch[i])
      BY DEF OutboxInv, BatchKnown
    <3> QED
      BY <1>7, <3>1, <3>2 DEF Copy, ClaimedOrGone
  <2>11. BatchKnown'
    <3>1. ASSUME NEW i \in 1..Len(q) PROVE ClaimedOrGone(q[i])'
      <4>1. CASE i = Len(q)
        <5>1. inbox[r[1]].note # "none"
          BY <1>2, <1>7 DEF OutboxInv, RowsHaveItems, Row
        <5> QED
          BY <1>2, <2>1, <2>2, <2>5, <2>7, <4>1, <5>1 DEF ClaimedOrGone
      <4>2. CASE i # Len(q)
        <5>1. i \in 1..Len(worker.batch) /\ q[i] = worker.batch[i]
          BY <1>3, <2>5, <4>2
        <5>2. ClaimedOrGone(worker.batch[i])
          BY <5>1 DEF OutboxInv, BatchKnown
        <5> QED
          BY <1>2, <2>7, <2>10, <5>1, <5>2 DEF ClaimedOrGone
      <4> QED
        BY <4>1, <4>2
    <3>2. ASSUME NEW i \in 1..Len(q), NEW j \in 1..Len(q), q[i].row = q[j].row
          PROVE  i = j
      <4>1. \A k \in 1..Len(q) : k # Len(q) =>
              k \in 1..Len(worker.batch) /\ q[k] = worker.batch[k] /\ q[k].row # r
        BY <1>3, <2>5, <2>10
      <4>2. q[Len(q)].row = r
        BY <1>3, <2>2, <2>5
      <4>3. CASE i = Len(q) \/ j = Len(q)
        BY <3>2, <4>1, <4>2, <4>3
      <4>4. CASE i # Len(q) /\ j # Len(q)
        BY <3>2, <4>1, <4>4 DEF OutboxInv, BatchKnown
      <4> QED
        BY <4>3, <4>4
    <3> QED
      BY <2>6, <3>1, <3>2 DEF BatchKnown, ClaimedOrGone
  <2>12. ReceiptsPaid'
    BY <1>2, <1>7, <2>1, <2>6, <2>7 DEF OutboxInv, ReceiptsPaid, Unrecorded
  <2>13. \A o \in Row : InBatch(o)' <=> InBatch(o) \/ o = r
    BY <1>3, <2>2, <2>5, <2>6 DEF InBatch
  <2>14. AttemptsPaid'
    BY <1>2, <1>7, <2>1, <2>7, <2>13 DEF OutboxInv, AttemptsPaid, Entry
  <2> QED
    BY <2>8, <2>9, <2>11, <2>12, <2>14 DEF OutboxInv
<1> QED
  BY <1>1, <1>6, <1>7

-----------------------------------------------------------------------------
(* The head of the batch and the rest of it.                               *)
LEMMA HeadKnown ==
  ASSUME OutboxInv, worker.batch # <<>>
  PROVE  /\ Len(worker.batch) \in Nat /\ Len(worker.batch) >= 1
         /\ Head(worker.batch) = worker.batch[1] /\ worker.batch[1] \in Copy
         /\ worker.batch[1].row \in Row /\ ClaimedOrGone(worker.batch[1])
         /\ Tail(worker.batch) \in Seq(Copy)
         /\ Len(Tail(worker.batch)) = Len(worker.batch) - 1
         /\ \A i \in 1..Len(Tail(worker.batch)) :
              /\ i + 1 \in 1..Len(worker.batch) /\ i + 1 # 1
              /\ Tail(worker.batch)[i] = worker.batch[i + 1]
         /\ \A i \in 1..Len(worker.batch) : i # 1 =>
              i - 1 \in 1..Len(Tail(worker.batch))
<1> DEFINE b == worker.batch
<1>1. b \in Seq(Copy)
  BY DEF OutboxInv, Typed, WorkerType
<1>2. \A i \in 1..Len(b) : ClaimedOrGone(b[i])
  BY DEF OutboxInv, BatchKnown
<1>3. b # <<>>
  OBVIOUS
<1> HIDE DEF b
<1>4. Len(b) \in Nat /\ Len(b) >= 1 /\ Head(b) = b[1] /\ b[1] \in Copy
  BY <1>1, <1>3
<1>5. /\ Tail(b) \in Seq(Copy) /\ Len(Tail(b)) = Len(b) - 1
      /\ \A i \in 1..Len(Tail(b)) : Tail(b)[i] = b[i + 1]
  BY <1>1, <1>3
<1>6. \A i \in 1..Len(Tail(b)) : i + 1 \in 1..Len(b) /\ i + 1 # 1
  BY <1>4, <1>5
<1>7. \A i \in 1..Len(b) : i # 1 => i - 1 \in 1..Len(Tail(b))
  BY <1>4, <1>5
<1>8. b[1].row \in Row /\ ClaimedOrGone(b[1])
  BY <1>2, <1>4 DEF Copy
<1> QED
  BY <1>4, <1>5, <1>6, <1>7, <1>8 DEF b

(* The adapter answers: perhaps a receipt more, of a row the worker alone  *)
(* has, and one reported as failed is charged where it is counted.         *)
LEMMA SendInv ==
  ASSUME OutboxInv, Send
  PROVE  OutboxInv'
<1> USE RowsFinite
<1>1. /\ worker.pc = "claim" /\ worker.todo = {} /\ worker.batch # <<>>
      /\ UNCHANGED <<inbox, enabled, told, cuts, left>> /\ Typed /\ worker \in WorkerType
  BY DEF Send, OutboxInv, Typed
<1>2. PICK h : h = Head(worker.batch)
  OBVIOUS
<1>3. PICK o \in {"sent", "retryable", "permanent"}, taken \in BOOLEAN :
        /\ worker' = [worker EXCEPT !.pc = "record", !.outcome = o]
        /\ row' = IF taken /\ row[h.row].status # "absent"
                  THEN [row EXCEPT ![h.row] = Received(row[h.row], o)] ELSE row
  BY <1>2 DEF Send
<1>4. /\ h = worker.batch[1] /\ h.row \in Row /\ ClaimedOrGone(h)
      /\ row[h.row] \in Entry /\ cuts[h.row] \in Nat
  BY <1>1, <1>2, HeadKnown DEF Typed
<1>5. /\ worker' \in WorkerType /\ worker'.pc = "record" /\ worker'.outcome = o
      /\ worker'.batch = worker.batch /\ worker'.todo = {}
  BY <1>1, <1>3 DEF WorkerType
<1>6. PICK t : t = IF taken /\ row[h.row].status # "absent"
                   THEN Received(row[h.row], o) ELSE row[h.row]
  OBVIOUS
<1>7. /\ t \in Entry /\ t.status = row[h.row].status /\ t.attempts = row[h.row].attempts
      /\ \/ t.receipts = row[h.row].receipts /\ t.unsure = row[h.row].unsure
         \/ /\ row[h.row].status # "absent" /\ t.receipts = row[h.row].receipts + 1
            /\ t.unsure = IF o = "sent" THEN row[h.row].unsure ELSE row[h.row].unsure + 1
  <2>1. row[h.row] \in Entry
    BY <1>4
  <2>2. CASE taken /\ row[h.row].status # "absent"
    <3>1. PICK u : u = IF o = "sent" THEN row[h.row].unsure ELSE row[h.row].unsure + 1
      OBVIOUS
    <3>2. t = [row[h.row] EXCEPT !.receipts = row[h.row].receipts + 1, !.unsure = u]
      BY <1>6, <2>2, <3>1 DEF Received
    <3>3. u \in Nat /\ row[h.row].receipts + 1 \in Nat
      BY <2>1, <3>1 DEF Entry
    <3>4. /\ t \in Entry /\ t.status = row[h.row].status
          /\ t.attempts = row[h.row].attempts
          /\ t.receipts = row[h.row].receipts + 1 /\ t.unsure = u
      BY <2>1, <3>2, <3>3 DEF Entry
    <3> QED
      BY <2>2, <3>1, <3>4
  <2>3. CASE ~(taken /\ row[h.row].status # "absent")
    BY <1>6, <2>1, <2>3
  <2> QED
    BY <2>2, <2>3
<1>8. /\ row' \in [Row -> Entry] /\ row'[h.row] = t
      /\ \A r \in Row : r # h.row => row'[r] = row[r]
  BY <1>1, <1>3, <1>4, <1>6, <1>7 DEF Typed
<1>9. Typed'
  BY <1>1, <1>5, <1>8 DEF Typed
<1>10. RowsHaveItems'
  BY <1>1, <1>4, <1>7, <1>8 DEF OutboxInv, RowsHaveItems
<1>11. PassShape'
  BY <1>1, <1>5 DEF OutboxInv, PassShape
<1>12. BatchKnown'
  <2>1. ASSUME NEW i \in 1..Len(worker.batch), ClaimedOrGone(worker.batch[i])
        PROVE  ClaimedOrGone(worker.batch[i])'
    <3>1. worker.batch[i].row \in Row
      <4>1. worker.batch \in Seq(Copy)
        BY <1>1 DEF WorkerType
      <4>2. worker.batch[i] \in Copy
        BY <4>1
      <4> QED
        BY <4>2 DEF Copy
    <3>2. /\ row'[worker.batch[i].row].status = row[worker.batch[i].row].status
          /\ row'[worker.batch[i].row].attempts = row[worker.batch[i].row].attempts
      BY <1>7, <1>8, <3>1
    <3> QED
      BY <1>1, <1>5, <2>1, <3>2 DEF ClaimedOrGone
  <2> QED
    BY <1>5, <2>1 DEF OutboxInv, BatchKnown, ClaimedOrGone
<1>13. ReceiptsPaid'
  <2>1. h.row = worker'.batch[1].row
    BY <1>4, <1>5
  <2>2. row[h.row].status # "absent" =>
          /\ row[h.row].status = "sending"
          /\ row[h.row].receipts <= cuts[h.row] + row[h.row].unsure
    BY <1>1, <1>4 DEF OutboxInv, ReceiptsPaid, ClaimedOrGone, Unrecorded
  <2>3. row'[h.row].receipts <= 1 + cuts[h.row] + row'[h.row].unsure
    BY <1>4, <1>7, <1>8, <2>2 DEF OutboxInv, ReceiptsPaid, Entry
  <2>4. row'[h.row].status \in {"pending", "sending"} /\ ~Unrecorded(h.row)' =>
          row'[h.row].receipts <= cuts[h.row] + row'[h.row].unsure
    BY <1>4, <1>5, <1>7, <1>8, <2>1, <2>2 DEF Unrecorded, Entry
  <2>5. \A r \in Row : ~Unrecorded(r)
    BY <1>1 DEF Unrecorded
  <2> QED
    BY <1>1, <1>4, <1>8, <2>3, <2>4, <2>5 DEF OutboxInv, ReceiptsPaid, Unrecorded
<1>14. AttemptsPaid'
  BY <1>1, <1>4, <1>5, <1>7, <1>8 DEF OutboxInv, AttemptsPaid, InBatch
<1> QED
  BY <1>9, <1>10, <1>11, <1>12, <1>13, <1>14 DEF OutboxInv

(* The outcome is recorded: what is not terminal still has an attempt, and *)
(* has not been received for it.                                           *)
LEMMA RecordInv ==
  ASSUME OutboxInv, Record
  PROVE  OutboxInv'
<1> USE RowsFinite
<1>1. /\ worker.pc = "record" /\ worker.batch # <<>> /\ worker.todo = {}
      /\ UNCHANGED <<inbox, enabled, told, cuts, left>> /\ Typed /\ worker \in WorkerType
      /\ worker.outcome \in {"none", "sent", "retryable", "permanent"}
  BY DEF Record, OutboxInv, PassShape, Typed, WorkerType
<1>2. PICK h : h = worker.batch[1]
  OBVIOUS
<1>3. PICK q : q = Tail(worker.batch)
  OBVIOUS
<1>4. /\ Head(worker.batch) = h /\ h \in Copy /\ h.row \in Row /\ ClaimedOrGone(h)
      /\ row[h.row] \in Entry /\ cuts[h.row] \in Nat
  BY <1>1, <1>2, HeadKnown DEF Typed
<1>5. /\ q \in Seq(Copy) /\ Len(q) = Len(worker.batch) - 1 /\ Len(q) \in Nat
      /\ \A i \in 1..Len(q) : i + 1 \in 1..Len(worker.batch) /\ i + 1 # 1
                             /\ q[i] = worker.batch[i + 1]
      /\ \A i \in 1..Len(worker.batch) : i # 1 => i - 1 \in 1..Len(q)
  BY <1>1, <1>3, HeadKnown
<1>6. /\ worker' = [worker EXCEPT !.pc = "claim", !.outcome = "none", !.batch = q]
      /\ row' = IF row[h.row].status = "absent" THEN row
                ELSE [row EXCEPT ![h.row] =
                        AfterSend(row[h.row], worker.outcome, h.attempts)]
  BY <1>3, <1>4 DEF Record
<1>7. /\ worker' \in WorkerType /\ worker'.pc = "claim" /\ worker'.todo = {}
      /\ worker'.batch = q
  BY <1>1, <1>5, <1>6 DEF WorkerType
<1>8. PICK t : t = IF row[h.row].status = "absent" THEN row[h.row]
                   ELSE AfterSend(row[h.row], worker.outcome, h.attempts)
  OBVIOUS
<1>9. /\ t \in Entry /\ t.attempts = row[h.row].attempts
      /\ t.receipts = row[h.row].receipts /\ t.unsure = row[h.row].unsure
      /\ \/ t.status = "absent" /\ row[h.row].status = "absent"
         \/ t.status \in {"sent", "failed"} /\ row[h.row].status = "sending"
         \/ /\ t.status = "pending" /\ row[h.row].status = "sending"
            /\ worker.outcome = "retryable" /\ t.attempts < MaxAttempts
  <2>1. row[h.row] \in Entry /\ h.attempts \in Nat
    BY <1>4 DEF Copy
  <2>2. row[h.row].status = "absent" \/
        (row[h.row].status = "sending" /\ row[h.row].attempts = h.attempts)
    BY <1>4 DEF ClaimedOrGone
  <2>3. CASE row[h.row].status = "absent"
    BY <1>8, <2>1, <2>3
  <2>4. CASE row[h.row].status # "absent"
    <3>1. t = AfterSend(row[h.row], worker.outcome, h.attempts)
      BY <1>8, <2>4
    <3>2. CASE worker.outcome = "sent"
      BY <2>1, <2>2, <2>4, <3>1, <3>2 DEF AfterSend, Entry
    <3>3. CASE worker.outcome = "retryable" /\ MayRetry(h.attempts)
      BY <2>1, <2>2, <2>4, <3>1, <3>3 DEF AfterSend, Entry, MayRetry
    <3>4. CASE worker.outcome # "sent" /\ ~(worker.outcome = "retryable" /\ MayRetry(h.attempts))
      BY <2>1, <2>2, <2>4, <3>1, <3>4 DEF AfterSend, Entry
    <3> QED
      BY <3>2, <3>3, <3>4
  <2> QED
    BY <2>3, <2>4
<1>10. /\ row' \in [Row -> Entry] /\ row'[h.row] = t
       /\ \A r \in Row : r # h.row => row'[r] = row[r]
  BY <1>1, <1>4, <1>6, <1>8, <1>9 DEF Typed
<1>11. Typed'
  BY <1>1, <1>7, <1>10 DEF Typed
<1>12. RowsHaveItems'
  BY <1>1, <1>4, <1>9, <1>10 DEF OutboxInv, RowsHaveItems
<1>13. PassShape'
  BY <1>1, <1>5, <1>7 DEF OutboxInv, PassShape
<1>14. \A i \in 1..Len(q) : q[i] \in Copy /\ q[i].row \in Row /\ q[i].row # h.row
                            /\ ClaimedOrGone(q[i])
  <2> SUFFICES ASSUME NEW i \in 1..Len(q)
               PROVE  q[i] \in Copy /\ q[i].row \in Row /\ q[i].row # h.row
                      /\ ClaimedOrGone(q[i])
    OBVIOUS
  <2>1. q[i] \in Copy
    BY <1>5
  <2>2. i + 1 \in 1..Len(worker.batch) /\ i + 1 # 1 /\ q[i] = worker.batch[i + 1]
        /\ 1 \in 1..Len(worker.batch)
    BY <1>5
  <2>3. q[i].row # h.row /\ ClaimedOrGone(q[i])
    BY <1>2, <2>2 DEF OutboxInv, BatchKnown
  <2> QED
    BY <2>1, <2>3 DEF Copy
<1>15. BatchKnown'
  <2>1. \A i \in 1..Len(q) : ClaimedOrGone(q[i])'
    BY <1>1, <1>10, <1>14 DEF ClaimedOrGone
  <2>2. ASSUME NEW i \in 1..Len(q), NEW j \in 1..Len(q), q[i].row = q[j].row
        PROVE  i = j
    <3>1. i + 1 \in 1..Len(worker.batch) /\ j + 1 \in 1..Len(worker.batch)
          /\ worker.batch[i + 1].row = worker.batch[j + 1].row
      BY <1>5, <2>2
    <3>2. i + 1 = j + 1
      BY <3>1 DEF OutboxInv, BatchKnown
    <3> QED
      BY <3>2
  <2> QED
    BY <1>7, <2>1, <2>2 DEF BatchKnown, ClaimedOrGone
<1>16. ReceiptsPaid'
  <2>1. /\ row'[h.row].receipts <= 1 + cuts[h.row] + row'[h.row].unsure
        /\ row'[h.row].status \in {"pending", "sending"} =>
             row'[h.row].receipts <= cuts[h.row] + row'[h.row].unsure
    BY <1>4, <1>9, <1>10 DEF OutboxInv, ReceiptsPaid, Unrecorded
  <2>2. \A r \in Row : r # h.row => ~Unrecorded(r)
    BY <1>2 DEF Unrecorded
  <2> QED
    BY <1>1, <1>4, <1>10, <2>1, <2>2 DEF OutboxInv, ReceiptsPaid
<1>17. AttemptsPaid'
  <2>1. \A r \in Row : r # h.row /\ InBatch(r) => InBatch(r)'
    <3> SUFFICES ASSUME NEW r \in Row, r # h.row, NEW i \in 1..Len(worker.batch),
                        worker.batch[i].row = r
                 PROVE  \E j \in 1..Len(q) : q[j].row = r
      BY <1>7 DEF InBatch
    <3>1. i - 1 \in 1..Len(q) /\ q[i - 1] = worker.batch[(i - 1) + 1]
      BY <1>2, <1>5
    <3>2. (i - 1) + 1 = i
      OBVIOUS
    <3> QED
      BY <3>1, <3>2
  <2>2. /\ row'[h.row].attempts <= MaxAttempts + cuts[h.row]
        /\ row'[h.row].status # "sending"
        /\ row'[h.row].status = "pending" =>
             row'[h.row].attempts < MaxAttempts + cuts[h.row]
    BY <1>4, <1>9, <1>10 DEF OutboxInv, AttemptsPaid, Entry
  <2> QED
    BY <1>1, <1>4, <1>10, <2>1, <2>2 DEF OutboxInv, AttemptsPaid
<1> QED
  BY <1>11, <1>12, <1>13, <1>15, <1>16, <1>17 DEF OutboxInv

(* A cut: each row of the batch has one cut more to pay with.              *)
LEMMA CutInv ==
  ASSUME OutboxInv, Cut, told' \subseteq Note
  PROVE  OutboxInv'
<1> USE RowsFinite, IdleTyped
<1>1. /\ Typed /\ UNCHANGED <<inbox, row, enabled>> /\ worker' = Idle
      /\ cuts' = [r \in Row |-> IF InBatch(r) THEN cuts[r] + 1 ELSE cuts[r]]
  BY DEF Cut, OutboxInv
<1>2. /\ cuts' \in [Row -> Nat]
      /\ \A r \in Row : cuts'[r] = IF InBatch(r) THEN cuts[r] + 1 ELSE cuts[r]
      /\ \A r \in Row : cuts[r] \in Nat /\ row[r] \in Entry
  BY <1>1 DEF Typed
<1>3. left' \in [toggles : 0..MaxToggles, cuts : 0..MaxCuts]
  BY <1>1, OutboxAssumption DEF Cut, Typed, OutboxAssumption
<1>4. Typed' /\ RowsHaveItems'
  BY <1>1, <1>2, <1>3 DEF OutboxInv, Typed, RowsHaveItems
<1>5. PassShape' /\ BatchKnown'
  <2>1. worker'.pc = "idle" /\ worker'.todo = {} /\ worker'.batch = <<>>
        /\ Len(worker'.batch) = 0
    BY <1>1
  <2> QED
    BY <2>1 DEF PassShape, BatchKnown
<1>6. \A r \in Row : Unrecorded(r) => InBatch(r)
  <2> SUFFICES ASSUME NEW r \in Row, Unrecorded(r) PROVE InBatch(r)
    OBVIOUS
  <2>1. worker.batch # <<>> /\ worker.batch[1].row = r
    BY DEF Unrecorded, OutboxInv, PassShape
  <2>2. 1 \in 1..Len(worker.batch)
    BY <2>1, HeadKnown
  <2> QED
    BY <2>1, <2>2 DEF InBatch
<1>7. ReceiptsPaid'
  BY <1>1, <1>2, <1>6 DEF OutboxInv, ReceiptsPaid, Entry
<1>8. AttemptsPaid'
  BY <1>1, <1>2 DEF OutboxInv, AttemptsPaid, Entry
<1> QED
  BY <1>4, <1>5, <1>7, <1>8 DEF OutboxInv

-----------------------------------------------------------------------------
LEMMA NextInv == OutboxInv /\ [Next]_vars => OutboxInv'
<1> SUFFICES ASSUME OutboxInv, [Next]_vars PROVE OutboxInv'
  OBVIOUS
<1>1. CASE WorkerNext
  BY <1>1, RecoverInv, SelectInv, ClaimInv, SendInv, BatchDoneInv, RecordInv DEF WorkerNext
<1>2. CASE WriteFails
  BY <1>2, CutInv DEF WriteFails, OutboxInv, Typed
<1>3. CASE Crash
  BY <1>3, CutInv DEF Crash
<1>4. CASE \E n \in Note : Publish(n)
  BY <1>4, PublishInv
<1>5. CASE \E p \in Publication : DeleteInbox(p)
  BY <1>5, DeleteInv
<1>6. CASE \E ch \in Channel : SetChannel(ch)
  BY <1>6, SettingInv
<1>7. CASE \E r \in Row : FallsDue(r) \/ GoesStale(r)
  BY <1>7, ClockInv
<1>8. CASE UNCHANGED vars
  BY <1>8, RowsChange DEF vars, OutboxInv, Typed, RowsHaveItems
<1> QED
  BY <1>1, <1>2, <1>3, <1>4, <1>5, <1>6, <1>7, <1>8 DEF Next

LEMMA OutboxHolds == Spec => []OutboxInv
BY InitInv, NextInv, PTL DEF Spec

(* Every variable keeps its type; an outbox row exists only under an item  *)
(* of the inbox, and a pass never holds more than one batch of rows.       *)
THEOREM OutboxTyped == Spec => []TypeOK
BY OutboxHolds, TypedWell, PTL

(* Whatever the order in which items are published and deleted, channels   *)
(* switched, sends answered, writes lost and the process stopped, a row is *)
(* received again only for a claim of it that ended with nothing recorded  *)
(* or a send that was taken and reported as failed, and claimed past       *)
(* max_attempts only for such a claim.                                     *)
THEOREM RepeatsCost == Spec => []RepeatsHaveACause
BY OutboxHolds, RepeatsPaid, PTL
=============================================================================
