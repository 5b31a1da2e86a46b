-------------------------- MODULE Reminders_proofs --------------------------
(***************************************************************************)
(* Proofs about Reminders: the retry quota is exact, a reminder completes  *)
(* only by an answer of the session that spoke it, and every reminder that *)
(* leaves the schedule moves its revision; for any number of reminders,    *)
(* connections, claims and edits, whatever crashes or the database refuses.*)
(*                                                                         *)
(* The counter is bounded because a reminder is out of the schedule as soon*)
(* as the counter passes the quota, and only a reminder in the schedule is *)
(* counted further.                                                        *)
(***************************************************************************)
EXTENDS Reminders, FiniteSetTheorems, SequenceTheorems, TLAPS

(* The types of the rows and records.                                      *)
RemRow == [status : Status, used : 0..(MaxAttempts + 1), due : BOOLEAN,
           waiting : BOOLEAN, overdue : BOOLEAN]
AttRow == [of : Reminder \union {"none"}, session : Session \union {None},
           started : BOOLEAN,
           status : {"absent", "claimed", "played", "failed", "uncertain"},
           lapsed : BOOLEAN]
ConnRow == [phase : {"new", "open", "leaving", "gone"},
            replaced : BOOLEAN, up : BOOLEAN,
            asked : Attempt \union {None}, speaking : Attempt \union {None},
            device : SUBSET Attempt, events : Seq(Event),
            worker : Event \union {NoEvent}]
EntryRow == [session : Session \union {None}, lock : Attempt \union {None}]
SchedRow == [pc : {"idle", "reaped", "picked", "claimed", "locked", "asked",
                   "answered", "accepted", "void", "refused", "unlocked"},
             session : Session \union {None}, to : Session \union {None},
             attempt : Attempt \union {None}]

-----------------------------------------------------------------------------
(* The inductive invariant.                                                *)

(* The rows: a claim names its reminder, and the quota is exact.           *)
NamedClaims == \A a \in Attempt : Claimed(a) => att[a].of \in Reminder
(* A reminder that may still be spoken has not passed its quota.           *)
WithinQuota ==
  \A r \in Reminder :
    rem[r].status \in {"none", "pending"} => rem[r].used <= MaxAttempts
RowsTyped == rem \in [Reminder -> RemRow] /\ att \in [Attempt -> AttRow]
(* A reminder out of the schedule does not come back.                      *)
Stays(r) == rem'[r].status \in {"none", "pending"} => rem[r].status \in {"none", "pending"}
RowsInv ==
  RowsTyped /\ revision \in Nat /\ NamedClaims /\ QuotaExact /\ WithinQuota

(* A connection: nothing runs before it opens and after it is gone, and    *)
(* what the device answers it has heard.                                   *)
Fine(c) ==
  /\ Len(c.events) <= EventQueue
  /\ c.phase \in {"new", "gone"} => ~c.up /\ c.events = <<>> /\ c.worker = NoEvent
  /\ c.worker.kind = "played" => c.worker.attempt \in c.device
  /\ \A i \in 1..Len(c.events) :
       c.events[i].kind = "played" => c.events[i].attempt \in c.device
ConnsInv ==
  conn \in [Session -> ConnRow] /\ \A s \in Session : Fine(conn[s])

(* The scheduler's pass.                                                   *)
Busy == {"claimed", "locked", "asked", "answered", "accepted", "refused", "unlocked"}
PassTyped == entry \in EntryRow /\ sched \in SchedRow /\ edits \in 0..MaxEdits

(* The claim of the pass has not begun to play.                            *)
PassKnown ==
  sched.pc \in Busy =>
    /\ sched.attempt \in Attempt
    /\ Claimed(sched.attempt) =>
         ~att[sched.attempt].started /\ att[sched.attempt].session = sched.session

PassInv == PassTyped /\ PassKnown

RemInv == RowsInv /\ ConnsInv /\ PassInv

LEMMA Typed == RemInv /\ enabled \in BOOLEAN => TypeOK
BY DEF RemInv, RowsInv, RowsTyped, ConnsInv, Fine, PassInv, PassTyped, TypeOK,
       RemRow, AttRow, ConnRow, EntryRow, SchedRow

(* Constants as the provers use them.                                      *)
LEMMA Constants ==
  /\ None \notin Session /\ None \notin Attempt /\ "none" \notin Reminder
  /\ MaxAttempts \in Nat \ {0} /\ EventQueue \in Nat \ {0} /\ MaxEdits \in Nat
  /\ NewConn \in ConnRow /\ Fine(NewConn) /\ Gone \in ConnRow /\ Fine(Gone)
  /\ NewConn.phase = "new" /\ Gone.phase = "gone"
  /\ NoEvent.kind = "none" /\ NoEvent \notin Event
<1>1. /\ None \notin Session /\ None \notin Attempt /\ "none" \notin Reminder
      /\ MaxAttempts \in Nat \ {0} /\ EventQueue \in Nat \ {0} /\ MaxEdits \in Nat
  BY RemindersAssumption DEF RemindersAssumption, None, Session, Attempt
<1>2. NoEvent.kind = "none" /\ NoEvent \notin Event
  BY DEF NoEvent, Event
<1>3. <<>> \in Seq(Event) /\ Len(<<>>) = 0
  OBVIOUS
<1>4. NewConn \in ConnRow
  BY <1>3 DEF NewConn, ConnRow
<1>5. Gone \in ConnRow
  BY <1>3 DEF Gone, NewConn, ConnRow
<1>6. /\ NewConn.phase = "new" /\ Gone.phase = "gone"
      /\ ~NewConn.up /\ NewConn.events = <<>> /\ NewConn.worker = NoEvent
      /\ ~Gone.up /\ Gone.events = <<>> /\ Gone.worker = NoEvent
  BY DEF Gone, NewConn
<1>7. Fine(NewConn) /\ Fine(Gone)
  BY <1>1, <1>2, <1>3, <1>6 DEF Fine
<1> QED
  BY <1>1, <1>2, <1>4, <1>5, <1>6, <1>7

-----------------------------------------------------------------------------
(* Counting: the attempts of a reminder that count against its quota.      *)
Counted(r) == {a \in Attempt : att[a].of = r /\ Counts(a)}

LEMMA CountedFinite ==
  \A r : IsFiniteSet(Counted(r)) /\ Cardinality(Counted(r)) \in Nat
<1>1. IsFiniteSet(Attempt)
  BY FS_Interval, RemindersAssumption DEF Attempt, RemindersAssumption
<1> QED
  BY <1>1, FS_Subset, FS_CardinalityType DEF Counted

(* No attempt begins to count, none ceases to.                             *)
LEMMA QuotaKept ==
  ASSUME QuotaExact,
         \A r \in Reminder : rem'[r].used = rem[r].used,
         \A a \in Attempt, r \in Reminder :
           (att[a].of = r /\ Counts(a))' <=> att[a].of = r /\ Counts(a)
  PROVE  QuotaExact'
<1> SUFFICES ASSUME NEW r \in Reminder
             PROVE  rem'[r].used = Cardinality({a \in Attempt : (att[a].of = r /\ Counts(a))'})
  BY DEF QuotaExact
<1>1. {a \in Attempt : (att[a].of = r /\ Counts(a))'}
        = {a \in Attempt : att[a].of = r /\ Counts(a)}
  OBVIOUS
<1> QED
  BY <1>1 DEF QuotaExact

(* One attempt begins to count.                                            *)
LEMMA QuotaTaken ==
  ASSUME QuotaExact, NEW a \in Attempt, att[a].of \in Reminder,
         ~Counts(a), Counts(a)', att'[a].of = att[a].of,
         \A b \in Attempt : b # a => att'[b] = att[b],
         \A r \in Reminder :
           rem'[r].used = IF r = att[a].of THEN rem[r].used + 1 ELSE rem[r].used
  PROVE  QuotaExact'
<1> SUFFICES ASSUME NEW r \in Reminder
             PROVE  rem'[r].used = Cardinality({b \in Attempt : (att[b].of = r /\ Counts(b))'})
  BY DEF QuotaExact
<1>1. rem[r].used = Cardinality(Counted(r))
  BY DEF QuotaExact, Counted
<1>2. \A b \in Attempt : b # a => (Counts(b)' <=> Counts(b))
  BY DEF Counts
<1>3. CASE r = att[a].of
  <2>1. {b \in Attempt : (att[b].of = r /\ Counts(b))'} = Counted(r) \union {a}
    BY <1>2, <1>3 DEF Counted
  <2>2. a \notin Counted(r)
    BY DEF Counted
  <2>3. Cardinality(Counted(r) \union {a}) = Cardinality(Counted(r)) + 1
    BY <2>2, CountedFinite, FS_AddElement
  <2> QED
    BY <1>1, <1>3, <2>1, <2>3
<1>4. CASE r # att[a].of
  <2>1. {b \in Attempt : (att[b].of = r /\ Counts(b))'} = Counted(r)
    BY <1>2, <1>4 DEF Counted
  <2> QED
    BY <1>1, <1>4, <2>1
<1> QED
  BY <1>3, <1>4

-----------------------------------------------------------------------------
(* What leaves the rows alone, and what leaves connections or pass alone.  *)

LEMMA RowsKept == RowsInv /\ UNCHANGED <<rem, att, revision>> => RowsInv'
BY DEF RowsInv, RowsTyped, NamedClaims, Claimed, QuotaExact, Counts, WithinQuota

LEMMA ConnsKept == ConnsInv /\ UNCHANGED conn => ConnsInv'
BY DEF ConnsInv

(* One connection goes on.                                                 *)
LEMMA ConnGoesOn ==
  ASSUME ConnsInv, NEW s \in Session, NEW c \in ConnRow, Fine(c),
         conn' = [conn EXCEPT ![s] = c]
  PROVE  ConnsInv'
BY DEF ConnsInv

(* The scheduler's pass is where it was, or over, or further on.           *)
LEMMA PassKept ==
  ASSUME PassInv, UNCHANGED att, edits' \in 0..MaxEdits, entry' \in EntryRow,
         \/ sched' = sched
         \/ sched' \in SchedRow /\ sched.pc \in Busy /\ sched'.pc \in Busy
            /\ sched'.attempt = sched.attempt /\ sched'.session = sched.session
  PROVE  PassInv'
BY DEF PassInv, PassTyped, PassKnown, Claimed

-----------------------------------------------------------------------------
(* The pass of the scheduler, as far as it leaves the rows alone.          *)
LEMMA PassSteps ==
  ASSUME RemInv,
         SchedulerPicks \/ SchedulerLocks \/ SchedulerGivesUp \/ SchedulerHears
  PROVE  RemInv'
<1> USE Constants
<1>1. RowsInv' /\ ConnsInv' /\ UNCHANGED <<rem, att, edits, conn>>
  BY RowsKept, ConnsKept
     DEF RemInv, SchedulerPicks, SchedulerLocks, SchedulerGivesUp, SchedulerHears
<1>2. CASE SchedulerPicks
  <2>1. entry' = entry /\ sched' \in SchedRow
        /\ \/ sched'.pc = "picked" /\ sched'.session = entry.session
              /\ entry.session # None
           \/ sched'.pc = "idle"
    BY <1>2 DEF SchedulerPicks, Ready, Idle, RemInv, PassInv, PassTyped, EntryRow, SchedRow
  <2>2. sched'.pc \notin Busy /\ sched.pc \notin Busy
    BY <1>2, <2>1 DEF Busy, SchedulerPicks
  <2> QED
    BY <1>1, <2>1, <2>2 DEF RemInv, PassInv, PassTyped, PassKnown, Claimed
<1>3. CASE SchedulerLocks \/ SchedulerGivesUp \/ SchedulerHears
  <2>1. /\ sched' \in SchedRow /\ sched.pc \in Busy /\ sched'.pc \in Busy
        /\ sched'.attempt = sched.attempt /\ sched'.session = sched.session
    BY <1>3 DEF SchedulerLocks, SchedulerGivesUp, SchedulerHears, Goto, Busy, RemInv,
                PassInv, PassTyped, SchedRow
  <2>2. entry' \in EntryRow
    BY <1>3 DEF SchedulerLocks, SchedulerGivesUp, SchedulerHears, RemInv,
                PassInv, PassTyped, SchedRow, EntryRow
  <2> QED
    BY <1>1, <2>1, <2>2, PassKept DEF RemInv, PassInv, PassTyped
<1> QED
  BY <1>1, <1>2, <1>3

(* A call that the database refuses changes only where the pass is; a      *)
(* claim it leaves behind is known by its session as before.               *)
LEMMA FailsInv ==
  ASSUME RemInv, SchedulerFails
  PROVE  RemInv'
<1> USE Constants
<1>1. RowsInv' /\ ConnsInv' /\ UNCHANGED <<rem, att, conn, entry>>
  BY RowsKept, ConnsKept DEF RemInv, SchedulerFails
<1>2. edits' \in 0..MaxEdits /\ entry' \in EntryRow
  BY <1>1 DEF RemInv, PassInv, PassTyped, SchedulerFails
<1>3. CASE sched.pc = "accepted"
  <2>1. sched' \in SchedRow /\ sched'.pc = "void"
    BY <1>3 DEF SchedulerFails, Goto, RemInv, PassInv, PassTyped, SchedRow
  <2> QED
    BY <1>1, <1>2, <2>1 DEF RemInv, PassInv, PassTyped, PassKnown, Busy
<1>4. CASE sched.pc # "accepted"
  <2>1. sched' \in SchedRow /\ sched'.pc \notin Busy
    BY <1>4 DEF SchedulerFails, Goto, Idle, Busy, RemInv, PassInv, PassTyped, SchedRow
  <2> QED
    BY <1>1, <1>2, <2>1 DEF RemInv, PassInv, PassTyped, PassKnown
<1> QED
  BY <1>3, <1>4

(* The speech request goes to the current session.                         *)
LEMMA AsksInv ==
  ASSUME RemInv, SchedulerAsks
  PROVE  RemInv'
<1> USE Constants
<1>1. RowsInv' /\ UNCHANGED <<rem, att, edits, entry>>
  BY RowsKept DEF RemInv, SchedulerAsks
<1>2. sched \in SchedRow /\ entry \in EntryRow
  BY DEF RemInv, PassInv, PassTyped
<1>3. ConnsInv'
  <2>1. CASE UNCHANGED conn
    BY <2>1, ConnsKept DEF RemInv
  <2>2. CASE conn' = [conn EXCEPT ![entry.session].asked = sched.attempt]
             /\ entry.session # None
    <3> DEFINE t == entry.session
               c == [conn[t] EXCEPT !.asked = sched.attempt]
    <3>1. t \in Session /\ conn[t] \in ConnRow /\ Fine(conn[t])
      BY <1>2, <2>2 DEF EntryRow, RemInv, ConnsInv
    <3>2. c \in ConnRow
      BY <1>2, <3>1 DEF ConnRow, SchedRow
    <3>3. Fine(c)
      BY <3>1 DEF Fine, ConnRow
    <3>4. conn' = [conn EXCEPT ![t] = c]
      BY <2>2
    <3> HIDE DEF c, t
    <3> QED
      BY <3>1, <3>2, <3>3, <3>4, ConnGoesOn DEF RemInv
  <2> QED
    BY <2>1, <2>2 DEF SchedulerAsks
<1>4. /\ sched' \in SchedRow /\ sched.pc \in Busy /\ sched'.pc \in Busy
      /\ sched'.attempt = sched.attempt /\ sched'.session = sched.session
  BY <1>2 DEF SchedulerAsks, Goto, Busy, SchedRow, EntryRow
<1> QED
  BY <1>1, <1>2, <1>3, <1>4, PassKept DEF RemInv, PassInv, PassTyped

(* A new claim, of the session that was picked.                            *)
LEMMA ClaimsInv ==
  ASSUME RemInv, SchedulerClaims
  PROVE  RemInv'
<1> USE Constants
<1>1. UNCHANGED <<rem, revision, entry, conn, edits>> /\ ConnsInv'
  BY ConnsKept DEF RemInv, SchedulerClaims
<1>2. /\ rem \in [Reminder -> RemRow] /\ att \in [Attempt -> AttRow]
      /\ sched \in SchedRow /\ sched.pc = "picked"
      /\ sched.pc \notin Busy
  BY DEF RemInv, RowsInv, RowsTyped, PassInv, PassTyped, SchedulerClaims, Busy
<1>3. CASE sched' = Idle /\ UNCHANGED att
  <2>1. RowsInv'
    BY <1>1, <1>3, RowsKept DEF RemInv
  <2>2. Idle \in SchedRow /\ Idle.pc \notin Busy /\ Idle.pc # "picked"
    BY DEF Idle, SchedRow, Busy
  <2> QED
    BY <1>1, <1>2, <1>3, <2>1, <2>2
       DEF RemInv, PassInv, PassTyped, PassKnown, Claimed
<1>4. ASSUME NEW r \in Reminder, NEW a \in NextClaim, Claimable(r),
             att' = [att EXCEPT ![a] = [of |-> r, session |-> sched.session,
                       status |-> "claimed", started |-> FALSE, lapsed |-> FALSE]],
             sched' = [sched EXCEPT !.pc = "claimed", !.attempt = a]
      PROVE  RemInv'
  <2>1. a \in Attempt /\ att[a].of = "none"
    BY DEF NextClaim
  <2>2. sched' \in SchedRow /\ sched'.pc = "claimed" /\ sched'.attempt = a
        /\ sched'.session = sched.session /\ sched'.pc \in Busy
    BY <1>2, <1>4, <2>1 DEF SchedRow, Busy
  <2>3. /\ att'[a].of = r /\ att'[a].session = sched.session
        /\ att'[a].status = "claimed" /\ ~att'[a].started
        /\ \A b \in Attempt : b # a => att'[b] = att[b]
    BY <1>2, <1>4, <2>1
  <2>4. att' \in [Attempt -> AttRow]
    BY <1>2, <1>4, <2>1 DEF AttRow, SchedRow
  <2>5. QuotaExact'
    <3>1. QuotaExact
      BY DEF RemInv, RowsInv
    <3>2. \A b \in Attempt, q \in Reminder :
            (att[b].of = q /\ Counts(b))' <=> att[b].of = q /\ Counts(b)
      BY <2>1, <2>3 DEF Counts
    <3> QED
      BY <1>1, <3>1, <3>2, QuotaKept
  <2>6. RowsInv'
    BY <1>1, <1>2, <2>3, <2>4, <2>5 DEF RemInv, RowsInv, RowsTyped, NamedClaims, Claimed, WithinQuota
  <2>7. PassTyped'
    BY <1>1, <1>2, <2>2, <2>3
       DEF RemInv, PassInv, PassTyped, Claimed
  <2>8. PassKnown'
    BY <1>1, <1>4, <2>1, <2>2, <2>3 DEF PassKnown, Claimable
  <2> QED
    BY <1>1, <2>6, <2>7, <2>8 DEF RemInv, PassInv
<1> QED
  BY <1>3, <1>4 DEF SchedulerClaims

(* The pass marks its claim as begun, or finds it void and gives it up.    *)
LEMMA MarksInv ==
  ASSUME RemInv, SchedulerMarks
  PROVE  RemInv'
<1> USE Constants
<1>0. PICK a \in Attempt : a = sched.attempt
  BY DEF RemInv, PassInv, PassKnown, SchedulerMarks, Busy
<1> DEFINE r == att[a].of
<1>1. UNCHANGED <<revision, entry, conn, edits>> /\ ConnsInv'
  BY ConnsKept DEF RemInv, SchedulerMarks
<1>2. /\ rem \in [Reminder -> RemRow] /\ att \in [Attempt -> AttRow]
      /\ sched \in SchedRow /\ sched.pc = "accepted" /\ sched.pc \in Busy
      /\ sched.pc # "picked" /\ a = sched.attempt
      /\ QuotaExact /\ NamedClaims /\ WithinQuota /\ revision \in Nat
  BY <1>0 DEF RemInv, RowsInv, RowsTyped, PassInv, PassTyped, PassKnown, SchedulerMarks, Busy
<1>3. Claimed(a) => r \in Reminder /\ ~att[a].started /\ att[a].session = sched.session
  BY <1>2 DEF RemInv, PassInv, PassKnown, NamedClaims
<1>4. Idle \in SchedRow /\ Idle.pc \notin Busy /\ Idle.pc # "picked"
  BY DEF Idle, SchedRow, Busy
<1>5. CASE /\ Valid(a) /\ ~att[a].started
           /\ att' = [att EXCEPT ![a].started = TRUE, ![a].lapsed = FALSE]
           /\ rem' = [rem EXCEPT ![r].used = IF rem[r].status = "pending" THEN @ + 1 ELSE @]
           /\ sched' = Idle
  <2>1. /\ Claimed(a) /\ r \in Reminder /\ rem[r].status = "pending"
        /\ rem[r].used < MaxAttempts
    BY <1>3, <1>5 DEF Valid
  <2>2. /\ att' \in [Attempt -> AttRow] /\ att'[a].of = r /\ att'[a].started
        /\ att'[a].status = "claimed" /\ att'[a].session = att[a].session
        /\ \A b \in Attempt : b # a => att'[b] = att[b]
    <3>1. [att[a] EXCEPT !.started = TRUE, !.lapsed = FALSE] \in AttRow
      BY <1>2 DEF AttRow
    <3>2. att' = [att EXCEPT ![a] = [att[a] EXCEPT !.started = TRUE, !.lapsed = FALSE]]
      BY <1>5
    <3>3. att'[a] = [att[a] EXCEPT !.started = TRUE, !.lapsed = FALSE]
      BY <1>2, <3>2
    <3>4. att' \in [Attempt -> AttRow]
      BY <1>2, <3>1, <3>2
    <3>5. att[a] \in AttRow
      BY <1>2
    <3>6. /\ att'[a].of = r /\ att'[a].started
          /\ att'[a].status = "claimed" /\ att'[a].session = att[a].session
      BY <2>1, <3>3, <3>5 DEF Claimed, AttRow
    <3> QED
      BY <1>2, <3>2, <3>4, <3>6
  <2>3. /\ rem' \in [Reminder -> RemRow]
        /\ \A q \in Reminder :
             /\ rem'[q].used = IF q = r THEN rem[q].used + 1 ELSE rem[q].used
             /\ rem'[q].status = rem[q].status
    <3>1. rem[r].used + 1 \in 0..(MaxAttempts + 1)
      BY <1>2, <2>1 DEF RemRow
    <3>2. [rem[r] EXCEPT !.used = rem[r].used + 1] \in RemRow
      BY <1>2, <2>1, <3>1 DEF RemRow
    <3>3. rem' = [rem EXCEPT ![r] = [rem[r] EXCEPT !.used = rem[r].used + 1]]
      BY <1>5, <2>1
    <3>4. /\ [rem[r] EXCEPT !.used = rem[r].used + 1].used = rem[r].used + 1
          /\ [rem[r] EXCEPT !.used = rem[r].used + 1].status = rem[r].status
      BY <1>2, <2>1 DEF RemRow
    <3>5. r \in Reminder
      BY <2>1
    <3> HIDE DEF r
    <3> QED
      BY <1>2, <3>2, <3>3, <3>4, <3>5
  <2>4. QuotaExact'
    <3>1. ~Counts(a) /\ Counts(a)'
      BY <1>5, <2>1, <2>2 DEF Counts, Claimed
    <3> QED
      BY <1>2, <2>1, <2>2, <2>3, <3>1, QuotaTaken
  <2>5. WithinQuota'
    <3>1. WithinQuota /\ rem[r].used \in Nat /\ MaxAttempts \in Nat
      BY <1>2, <2>1 DEF RemInv, RowsInv, RemRow
    <3> HIDE DEF r
    <3> QED
      BY <2>1, <2>3, <3>1 DEF WithinQuota
  <2>9. RowsInv'
    BY <1>1, <1>2, <2>1, <2>2, <2>3, <2>4, <2>5 DEF RowsInv, RowsTyped, NamedClaims, Claimed
  <2>6. PassTyped'
    BY <1>1, <1>2, <1>4, <1>5, <2>1, <2>2
       DEF RemInv, PassInv, PassTyped, Claimed
  <2>7. PassKnown'
    BY <1>4, <1>5 DEF PassKnown
  <2> QED
    BY <1>1, <2>6, <2>7, <2>9 DEF RemInv, PassInv
<1>6. CASE Valid(a) /\ att[a].started
  BY <1>3, <1>6 DEF Valid
<1>7. CASE /\ ~Valid(a)
           /\ att' = Drop({b \in {a} : ValidClaim(b) /\ ~att[b].started})
           /\ Goto("void") /\ UNCHANGED rem
  <2>1. sched' \in SchedRow /\ sched'.pc = "void" /\ sched'.pc \notin Busy
    BY <1>2, <1>7 DEF Goto, SchedRow, Busy
  <2>2. /\ \A b \in Attempt : b # a => att'[b] = att[b]
        /\ Claimed(a) => att'[a] = Deleted(att[a])
        /\ ~Claimed(a) => att'[a] = att[a]
    BY <1>2, <1>3, <1>7 DEF Drop, ValidClaim
  <2>3. /\ Deleted(att[a]) \in AttRow /\ Deleted(att[a]).status = "absent"
        /\ ~Deleted(att[a]).started
    BY <1>2 DEF Deleted, AttRow
  <2>4. att' \in [Attempt -> AttRow]
    BY <1>2, <1>7, <2>2, <2>3 DEF Drop
  <2>5. QuotaExact'
    <3>1. \A b \in Attempt, q \in Reminder :
            (att[b].of = q /\ Counts(b))' <=> att[b].of = q /\ Counts(b)
      BY <1>3, <2>2, <2>3 DEF Counts, Claimed
    <3> QED
      BY <1>2, <1>7, <3>1, QuotaKept
  <2>6. \A b \in Attempt : Claimed(b)' => b # a /\ Claimed(b) /\ att'[b] = att[b]
    BY <2>2, <2>3 DEF Claimed
  <2>7. RowsInv'
    BY <1>1, <1>2, <1>7, <2>4, <2>5, <2>6 DEF RowsInv, RowsTyped, NamedClaims, WithinQuota
  <2>8. PassTyped' /\ PassKnown'
    BY <1>1, <2>1, <2>6 DEF RemInv, PassInv, PassTyped, PassKnown
  <2> QED
    BY <1>1, <2>7, <2>8 DEF RemInv, PassInv
<1> QED
  BY <1>0, <1>5, <1>6, <1>7 DEF SchedulerMarks

(* The lock is cleared; a refused claim is given up.                       *)
LEMMA UnlocksInv ==
  ASSUME RemInv, SchedulerUnlocks
  PROVE  RemInv'
<1> USE Constants
<1>1. RowsInv' /\ ConnsInv' /\ UNCHANGED <<rem, att, conn, edits>>
  BY RowsKept, ConnsKept DEF RemInv, SchedulerUnlocks
<1>2. entry' \in EntryRow
  BY DEF SchedulerUnlocks, Unlocked, RemInv, PassInv, PassTyped, EntryRow
<1>3. CASE sched.pc = "refused"
  <2>1. /\ sched' \in SchedRow /\ sched.pc \in Busy /\ sched'.pc \in Busy
        /\ sched'.attempt = sched.attempt /\ sched'.session = sched.session
    BY <1>3 DEF SchedulerUnlocks, Busy, RemInv, PassInv, PassTyped, SchedRow
  <2> QED
    BY <1>1, <1>2, <2>1, PassKept DEF RemInv, PassInv, PassTyped
<1>4. CASE sched.pc = "void"
  <2>1. /\ sched' \in SchedRow /\ sched'.pc = "idle"
        /\ sched'.pc \notin Busy \union {"picked"} /\ sched.pc \notin Busy
    BY <1>4 DEF SchedulerUnlocks, Idle, SchedRow, Busy
  <2> QED
    BY <1>1, <1>2, <2>1
       DEF RemInv, PassInv, PassTyped, PassKnown, Claimed
<1> QED
  BY <1>3, <1>4 DEF SchedulerUnlocks

LEMMA ReleasesInv ==
  ASSUME RemInv, SchedulerReleases
  PROVE  RemInv'
<1> USE Constants
<1>0. PICK a \in Attempt : a = sched.attempt
  BY DEF RemInv, PassInv, PassKnown, SchedulerReleases, Busy
<1> DEFINE r == att[a].of
<1>1. UNCHANGED <<revision, entry, conn, edits>> /\ ConnsInv'
  BY ConnsKept DEF RemInv, SchedulerReleases
<1>2. /\ rem \in [Reminder -> RemRow] /\ att \in [Attempt -> AttRow]
      /\ sched.pc = "unlocked" /\ sched.pc \in Busy
      /\ a = sched.attempt /\ QuotaExact /\ NamedClaims /\ WithinQuota /\ revision \in Nat
  BY <1>0 DEF RemInv, RowsInv, RowsTyped, PassInv, PassTyped, PassKnown, SchedulerReleases, Busy
<1>3. Claimed(a) => r \in Reminder /\ ~att[a].started /\ att[a].session = sched.session
  BY <1>2 DEF RemInv, PassInv, PassKnown, NamedClaims
<1>4. sched' = Idle /\ Idle \in SchedRow /\ Idle.pc \notin Busy /\ Idle.pc # "picked"
  BY DEF SchedulerReleases, Idle, SchedRow, Busy
<1>5. /\ \A b \in Attempt : b # a => att'[b] = att[b]
      /\ Claimed(a) => att'[a] = Deleted(att[a])
      /\ ~Claimed(a) => att'[a] = att[a]
  BY <1>2, <1>3 DEF SchedulerReleases, Release, Drop
<1>6. /\ Deleted(att[a]) \in AttRow /\ Deleted(att[a]).status = "absent"
      /\ ~Deleted(att[a]).started
  BY <1>2 DEF Deleted, AttRow
<1>7. att' \in [Attempt -> AttRow]
  BY <1>2, <1>5, <1>6 DEF SchedulerReleases, Release, Drop
<1>8. /\ rem' \in [Reminder -> RemRow]
      /\ \A q \in Reminder : rem'[q].used = rem[q].used /\ rem'[q].status = rem[q].status
  <2>1. CASE Claimed(a)
    <3>1. rem' = [rem EXCEPT ![r].used = rem[r].used]
      BY <1>0, <1>3, <2>1 DEF SchedulerReleases, Release
    <3>2. rem' = [rem EXCEPT ![r] = [rem[r] EXCEPT !.used = rem[r].used]]
      BY <3>1
    <3>3. [rem[r] EXCEPT !.used = rem[r].used] \in RemRow
      BY <1>2, <1>3, <2>1 DEF RemRow
    <3>4. r \in Reminder
      BY <1>3, <2>1
    <3> HIDE DEF r
    <3> QED
      BY <1>2, <3>2, <3>3, <3>4 DEF RemRow
  <2>2. CASE ~Claimed(a)
    BY <1>2, <2>2 DEF SchedulerReleases, Release
  <2> QED
    BY <2>1, <2>2
<1>9. QuotaExact'
  <2>1. \A b \in Attempt, q \in Reminder :
          (att[b].of = q /\ Counts(b))' <=> att[b].of = q /\ Counts(b)
    BY <1>3, <1>5, <1>6 DEF Counts, Claimed
  <2> QED
    BY <1>2, <1>8, <2>1, QuotaKept
<1>10. \A b \in Attempt : Claimed(b)' => b # a /\ Claimed(b) /\ att'[b] = att[b]
  BY <1>5, <1>6 DEF Claimed
<1>11. RowsInv'
  BY <1>1, <1>2, <1>7, <1>8, <1>9, <1>10 DEF RowsInv, RowsTyped, NamedClaims, WithinQuota
<1>12. PassTyped' /\ PassKnown'
  BY <1>1, <1>4, <1>10 DEF RemInv, PassInv, PassTyped, PassKnown
<1> QED
  BY <1>1, <1>11, <1>12 DEF RemInv, PassInv

-----------------------------------------------------------------------------
(* Retries leave the counters alone and expire only what is pending.       *)
LEMMA RetriesKeep ==
  ASSUME NEW R, NEW m \in [Reminder -> RemRow]
  PROVE  /\ Retries(R, m) \in [Reminder -> RemRow]
         /\ \A r \in Reminder :
              /\ Retries(R, m)[r].used = m[r].used
              /\ \/ Retries(R, m)[r].status = m[r].status
                 \/ m[r].status = "pending" /\ Retries(R, m)[r].status = "expired"
              /\ r \in R /\ m[r].status = "pending" /\ m[r].used >= MaxAttempts
                   => Retries(R, m)[r].status = "expired"
<1>1. ASSUME NEW r \in Reminder
      PROVE  /\ [m[r] EXCEPT !.status = "expired", !.waiting = FALSE] \in RemRow
             /\ [m[r] EXCEPT !.waiting = TRUE] \in RemRow
  <2>1. m[r] \in RemRow
    OBVIOUS
  <2> QED
    BY <2>1 DEF RemRow, Status
<1>2. ASSUME NEW r \in Reminder
      PROVE  /\ [m[r] EXCEPT !.status = "expired", !.waiting = FALSE].used = m[r].used
             /\ [m[r] EXCEPT !.waiting = TRUE].used = m[r].used
             /\ [m[r] EXCEPT !.waiting = TRUE].status = m[r].status
             /\ [m[r] EXCEPT !.status = "expired", !.waiting = FALSE].status = "expired"
  <2>1. m[r] \in RemRow
    OBVIOUS
  <2> QED
    BY <2>1 DEF RemRow
<1> QED
  BY <1>1, <1>2 DEF Retries

(* Claims are closed or deleted: what counts goes on counting, and no claim*)
(* is new.                                                                 *)
LEMMA ClaimsClose ==
  ASSUME RemInv, ConnsInv', entry' \in EntryRow, sched' \in SchedRow, UNCHANGED edits,
         rem' \in [Reminder -> RemRow], att' \in [Attempt -> AttRow], revision' \in Nat,
         \A r \in Reminder : rem'[r].used = rem[r].used /\ Stays(r),
         \A a \in Attempt :
           \/ att'[a] = att[a]
           \/ Claimed(a) /\ att[a].started /\ ~Claimed(a)'
              /\ att'[a].of = att[a].of /\ att'[a].started /\ att'[a].status # "absent"
           \/ Claimed(a) /\ ~att[a].started /\ att'[a].status = "absent"
              /\ att'[a].of = att[a].of,
         \/ sched' = sched
         \/ sched'.pc \notin Busy \union {"picked"} /\ sched.pc \notin Busy
  PROVE  RemInv'
<1>1. \A a \in Attempt : Claimed(a)' => Claimed(a) /\ att'[a] = att[a]
  BY DEF Claimed
<1>2. QuotaExact'
  <2>1. \A a \in Attempt, q \in Reminder :
          (att[a].of = q /\ Counts(a))' <=> att[a].of = q /\ Counts(a)
    BY DEF Counts, Claimed
  <2> QED
    BY <2>1, QuotaKept DEF RemInv, RowsInv
<1>3. RowsInv'
  BY <1>1, <1>2 DEF RemInv, RowsInv, RowsTyped, NamedClaims, WithinQuota, Stays
<1>4. PassTyped'
  BY DEF RemInv, PassInv, PassTyped
<1>6. PassKnown'
  BY <1>1 DEF RemInv, RowsInv, NamedClaims, PassInv, PassKnown
<1> QED
  BY <1>3, <1>4, <1>6 DEF RemInv, PassInv

(* The schedule's revision only grows.                                     *)
LEMMA RevisionGrows ==
  ASSUME revision \in Nat, NEW m
  PROVE  /\ RevisionAfter(m) \in Nat /\ revision <= RevisionAfter(m)
         /\ \A r \in Reminder : rem[r].status = "pending" /\ m[r].status # "pending"
              => RevisionAfter(m) > revision
BY DEF RevisionAfter

(* A row that is closed, a row that is deleted.                            *)
LEMMA RowsClosed ==
  ASSUME NEW t \in AttRow
  PROVE  /\ [t EXCEPT !.status = "uncertain"] \in AttRow
         /\ Deleted(t) \in AttRow
         /\ Deleted(t).status = "absent" /\ Deleted(t).of = t.of
         /\ [t EXCEPT !.status = "uncertain"].status = "uncertain"
         /\ [t EXCEPT !.status = "uncertain"].of = t.of
         /\ [t EXCEPT !.status = "uncertain"].started = t.started
BY DEF AttRow, Deleted

(* The scheduler reaps leases that passed.                                 *)
LEMMA ReapsInv ==
  ASSUME RemInv, SchedulerReaps
  PROVE  RemInv'
<1> USE Constants
<1> DEFINE lapsed  == {a \in Attempt : Claimed(a) /\ att[a].lapsed}
           started == {a \in lapsed : att[a].started}
           m == Retries({att[a].of : a \in started}, rem)
           n == [r \in Reminder |->
                   IF r \in Overdue(m) THEN [m[r] EXCEPT !.status = "expired",
                                                         !.waiting = FALSE]
                   ELSE m[r]]
<1>1. /\ rem \in [Reminder -> RemRow] /\ att \in [Attempt -> AttRow]
      /\ sched \in SchedRow /\ entry \in EntryRow /\ revision \in Nat
  BY DEF RemInv, RowsInv, RowsTyped, PassInv, PassTyped
<1>2. UNCHANGED <<entry, conn, edits>> /\ ConnsInv'
  BY ConnsKept DEF RemInv, SchedulerReaps
<1>3. /\ att' = [a \in Attempt |->
            IF a \in started THEN [att[a] EXCEPT !.status = "uncertain"]
            ELSE IF a \in lapsed THEN Deleted(att[a]) ELSE att[a]]
      /\ rem' = n /\ revision' = RevisionAfter(n)
  BY DEF SchedulerReaps, Reap, Store
<1>4. /\ m \in [Reminder -> RemRow]
      /\ \A r \in Reminder :
           /\ m[r].used = rem[r].used
           /\ m[r].status = rem[r].status \/ m[r].status = "expired"
  BY <1>1, RetriesKeep
<1>5. \A r \in Reminder : /\ n[r] \in RemRow /\ n[r].used = m[r].used
                          /\ n[r].status = m[r].status \/ n[r].status = "expired"
  <2> SUFFICES ASSUME NEW r \in Reminder
               PROVE  /\ n[r] \in RemRow /\ n[r].used = m[r].used
                      /\ n[r].status = m[r].status \/ n[r].status = "expired"
    OBVIOUS
  <2>1. m[r] \in RemRow
    BY <1>4
  <2> HIDE DEF m
  <2>2. [m[r] EXCEPT !.status = "expired", !.waiting = FALSE] \in RemRow
    BY <2>1 DEF RemRow, Status
  <2>3. /\ [m[r] EXCEPT !.status = "expired", !.waiting = FALSE].used = m[r].used
        /\ [m[r] EXCEPT !.status = "expired", !.waiting = FALSE].status = "expired"
    BY <2>1 DEF RemRow
  <2> QED
    BY <2>1, <2>2, <2>3
<1>6. /\ rem' \in [Reminder -> RemRow]
      /\ \A r \in Reminder : rem'[r].used = rem[r].used /\ Stays(r)
  <2> HIDE DEF m
  <2>1. n = [r \in Reminder |-> n[r]]
    OBVIOUS
  <2> HIDE DEF n
  <2>2. rem' \in [Reminder -> RemRow] /\ \A r \in Reminder : rem'[r] = n[r]
    BY <1>3, <1>5, <2>1
  <2> QED
    BY <1>4, <1>5, <2>2 DEF Stays
<1>7. \A a \in Attempt :
        /\ [att[a] EXCEPT !.status = "uncertain"] \in AttRow
        /\ Deleted(att[a]) \in AttRow
        /\ Deleted(att[a]).status = "absent" /\ Deleted(att[a]).of = att[a].of
        /\ [att[a] EXCEPT !.status = "uncertain"].status = "uncertain"
        /\ [att[a] EXCEPT !.status = "uncertain"].of = att[a].of
        /\ [att[a] EXCEPT !.status = "uncertain"].started = att[a].started
  BY <1>1, RowsClosed
<1>8. /\ att' \in [Attempt -> AttRow]
      /\ \A a \in Attempt :
           \/ att'[a] = att[a]
           \/ Claimed(a) /\ att[a].started /\ att'[a].status = "uncertain"
              /\ att'[a].of = att[a].of /\ att'[a].started
           \/ Claimed(a) /\ ~att[a].started /\ att'[a].status = "absent"
              /\ att'[a].of = att[a].of
  BY <1>1, <1>3, <1>7
<1>9. revision' \in Nat
  BY <1>1, <1>3, RevisionGrows
<1>10. /\ sched' \in SchedRow /\ sched'.pc = "reaped" /\ sched.pc = "idle"
       /\ sched'.pc \notin Busy \union {"picked"} /\ sched.pc \notin Busy
  BY <1>1 DEF SchedulerReaps, Goto, SchedRow, Busy
<1> HIDE DEF n, m, started, lapsed
<1> QED
  BY <1>1, <1>2, <1>6, <1>8, <1>9, <1>10, ClaimsClose DEF Claimed

(* A session that has ended gives its claims back.                         *)
LEMMA SettlesInv ==
  ASSUME RemInv, NEW s \in Session, SessionSettles(s)
  PROVE  RemInv'
<1> USE Constants
<1> DEFINE mine == {a \in Attempt : Claimed(a) /\ att[a].session = s}
           started == {a \in mine : att[a].started /\ rem[att[a].of].status = "pending"}
           m == Retries({att[a].of : a \in started}, rem)
<1>1. /\ rem \in [Reminder -> RemRow] /\ att \in [Attempt -> AttRow]
      /\ sched \in SchedRow /\ entry \in EntryRow /\ revision \in Nat
      /\ conn \in [Session -> ConnRow]
  BY DEF RemInv, RowsInv, RowsTyped, ConnsInv, PassInv, PassTyped
<1>2. UNCHANGED <<entry, sched, edits>> /\ conn' = [conn EXCEPT ![s] = Gone]
  BY DEF SessionSettles
<1>3. ConnsInv'
  BY <1>1, <1>2 DEF RemInv, ConnsInv
<1>4. /\ att' = [a \in Attempt |->
            IF a \in started THEN [att[a] EXCEPT !.status = "uncertain"]
            ELSE IF a \in mine /\ ~att[a].started THEN Deleted(att[a]) ELSE att[a]]
      /\ rem' = m /\ revision' = RevisionAfter(m)
  BY DEF SessionSettles, ForgetSession, Store
<1>5. /\ rem' \in [Reminder -> RemRow]
      /\ \A r \in Reminder : rem'[r].used = rem[r].used /\ Stays(r)
  BY <1>1, <1>4, RetriesKeep DEF Stays
<1>6. \A a \in Attempt :
        /\ [att[a] EXCEPT !.status = "uncertain"] \in AttRow
        /\ Deleted(att[a]) \in AttRow
        /\ Deleted(att[a]).status = "absent" /\ Deleted(att[a]).of = att[a].of
        /\ [att[a] EXCEPT !.status = "uncertain"].status = "uncertain"
        /\ [att[a] EXCEPT !.status = "uncertain"].of = att[a].of
        /\ [att[a] EXCEPT !.status = "uncertain"].started = att[a].started
  BY <1>1, RowsClosed
<1>7. /\ att' \in [Attempt -> AttRow]
      /\ \A a \in Attempt :
           \/ att'[a] = att[a]
           \/ Claimed(a) /\ att[a].started /\ att'[a].status = "uncertain"
              /\ att'[a].of = att[a].of /\ att'[a].started
           \/ Claimed(a) /\ ~att[a].started /\ att'[a].status = "absent"
              /\ att'[a].of = att[a].of
  BY <1>1, <1>4, <1>6
<1>8. revision' \in Nat
  BY <1>1, <1>4, RevisionGrows
<1> HIDE DEF m, started, mine
<1> QED
  BY <1>1, <1>2, <1>3, <1>5, <1>7, <1>8, ClaimsClose DEF Claimed

-----------------------------------------------------------------------------
(* The device's answer to a claim of a session that still works.           *)

LEMMA AnswerInv ==
  ASSUME RemInv, NEW a \in Attempt, Claimed(a), ConnsInv', UNCHANGED <<entry, sched, edits>>,
         att' \in [Attempt -> AttRow], \A b \in Attempt : b # a => att'[b] = att[b],
         att'[a].of = att[a].of,
         \/ att'[a].status = "played" /\ att'[a].started
         \/ att'[a].status = "failed",
         rem' \in [Reminder -> RemRow], revision' \in Nat,
         \A r \in Reminder :
           rem'[r].used = IF r = att[a].of /\ ~att[a].started
                          THEN rem[r].used + 1 ELSE rem[r].used,
         WithinQuota'
  PROVE  RemInv'
<1> USE Constants
<1>1. /\ att[a].of \in Reminder /\ QuotaExact /\ PassInv
      /\ rem \in [Reminder -> RemRow] /\ att \in [Attempt -> AttRow]
  BY DEF RemInv, RowsInv, RowsTyped, NamedClaims, WithinQuota, Stays
<1>2. QuotaExact'
  <2>1. Counts(a)'
    BY DEF Counts
  <2>2. Counts(a) <=> att[a].started
    BY DEF Counts, Claimed
  <2>3. CASE att[a].started
    <3>1. \A b \in Attempt, q \in Reminder :
            (att[b].of = q /\ Counts(b))' <=> att[b].of = q /\ Counts(b)
      BY <2>1, <2>2, <2>3 DEF Counts
    <3> QED
      BY <1>1, <2>3, <3>1, QuotaKept
  <2>4. CASE ~att[a].started
    BY <1>1, <2>1, <2>2, <2>4, QuotaTaken
  <2> QED
    BY <2>3, <2>4
<1>3. \A b \in Attempt : Claimed(b)' => b # a /\ Claimed(b) /\ att'[b] = att[b]
  BY DEF Claimed
<1>4. RowsInv'
  BY <1>2, <1>3 DEF RemInv, RowsInv, RowsTyped, NamedClaims, WithinQuota, Stays
<1>5. PassTyped'
  BY <1>1, <1>3 DEF PassInv, PassTyped
<1>6. PassKnown'
  <2> SUFFICES ASSUME sched.pc \in Busy, Claimed(sched.attempt)'
               PROVE  /\ ~att'[sched.attempt].started
                      /\ att'[sched.attempt].session = sched.session
    BY <1>1 DEF PassInv, PassKnown
  <2>1. sched.attempt \in Attempt
    BY <1>1 DEF PassInv, PassKnown
  <2> QED
    BY <1>1, <1>3, <2>1 DEF PassInv, PassKnown, Claimed
<1> QED
  BY <1>4, <1>5, <1>6 DEF RemInv, PassInv

(* complete_attempt_with_outcome and fail_attempt, as functions of rows.   *)
LEMMA Completed ==
  ASSUME RemInv, NEW s \in Session, NEW a \in Attempt,
         Completes(s, a), Complete(s, a)
  PROVE  /\ att' \in [Attempt -> AttRow] /\ \A b \in Attempt : b # a => att'[b] = att[b]
         /\ att'[a].of = att[a].of /\ att'[a].status = "played" /\ att'[a].started
         /\ rem' \in [Reminder -> RemRow] /\ revision' \in Nat /\ revision' > revision
         /\ WithinQuota'
         /\ \A r \in Reminder :
              /\ rem'[r].used = IF r = att[a].of /\ ~att[a].started
                                THEN rem[r].used + 1 ELSE rem[r].used
              /\ rem'[r].status # rem[r].status =>
                   r = att[a].of /\ rem[r].status = "pending"
<1> USE Constants
<1> DEFINE q == att[a].of
           u == IF att[a].started THEN rem[q].used ELSE rem[q].used + 1
           t == [rem[q] EXCEPT !.status = "completed", !.waiting = FALSE, !.used = u]
<1>1. /\ rem \in [Reminder -> RemRow] /\ att \in [Attempt -> AttRow] /\ revision \in Nat
      /\ Claimed(a) /\ q \in Reminder /\ rem[q].status = "pending" /\ att[a].session = s
      /\ att[a] \in AttRow /\ rem[q] \in RemRow
  BY DEF RemInv, RowsInv, RowsTyped, NamedClaims, Completes
<1>2. rem[q].used \in 0..MaxAttempts /\ u \in 0..(MaxAttempts + 1) /\ WithinQuota
  BY <1>1 DEF RemInv, RowsInv, WithinQuota, RemRow
<1>3. t \in RemRow /\ t.used = u /\ t.status = "completed"
  <2> HIDE DEF u, q
  <2> QED
    BY <1>1, <1>2 DEF RemRow, Status
<1>4. /\ att' = [att EXCEPT ![a] = [att[a] EXCEPT !.status = "played", !.started = TRUE]]
      /\ rem' = [rem EXCEPT ![q] = t]
      /\ revision' = RevisionAfter(rem')
  BY DEF Complete, Store
<1>5. /\ [att[a] EXCEPT !.status = "played", !.started = TRUE] \in AttRow
      /\ [att[a] EXCEPT !.status = "played", !.started = TRUE].of = att[a].of
      /\ [att[a] EXCEPT !.status = "played", !.started = TRUE].status = "played"
      /\ [att[a] EXCEPT !.status = "played", !.started = TRUE].started
  BY <1>1 DEF AttRow
<1>6. /\ att' \in [Attempt -> AttRow] /\ \A b \in Attempt : b # a => att'[b] = att[b]
      /\ att'[a].of = att[a].of /\ att'[a].status = "played" /\ att'[a].started
  BY <1>1, <1>4, <1>5
<1> HIDE DEF t
<1>7. /\ rem' \in [Reminder -> RemRow] /\ rem'[q] = t
      /\ \A r \in Reminder : r # q => rem'[r] = rem[r]
  BY <1>1, <1>3, <1>4
<1>8. revision' \in Nat /\ revision' > revision
  BY <1>1, <1>3, <1>4, <1>7, RevisionGrows
<1>9. WithinQuota'
  BY <1>2, <1>3, <1>7 DEF WithinQuota
<1> QED
  BY <1>1, <1>3, <1>6, <1>7, <1>8, <1>9

LEMMA Failed ==
  ASSUME RemInv, NEW s \in Session, NEW a \in Attempt,
         FailsWith(s, a), Fail(s, a)
  PROVE  /\ att' \in [Attempt -> AttRow] /\ \A b \in Attempt : b # a => att'[b] = att[b]
         /\ att'[a].of = att[a].of /\ att'[a].status = "failed"
         /\ rem' \in [Reminder -> RemRow] /\ revision' \in Nat /\ WithinQuota'
         /\ \A r \in Reminder :
              /\ rem'[r].used = IF r = att[a].of /\ ~att[a].started
                                THEN rem[r].used + 1 ELSE rem[r].used
              /\ rem'[r].status # rem[r].status =>
                   /\ rem[r].status = "pending" /\ rem'[r].status = "expired"
                   /\ revision' > revision
<1> USE Constants
<1> DEFINE q == att[a].of
           u == IF att[a].started THEN rem[q].used ELSE rem[q].used + 1
           t == [rem[q] EXCEPT !.used = u]
           m == [rem EXCEPT ![q] = t]
<1>1. /\ rem \in [Reminder -> RemRow] /\ att \in [Attempt -> AttRow] /\ revision \in Nat
      /\ Claimed(a) /\ q \in Reminder /\ att[a].session = s /\ rem[q].status = "pending"
      /\ att[a] \in AttRow /\ rem[q] \in RemRow
  BY DEF RemInv, RowsInv, RowsTyped, NamedClaims, FailsWith
<1>2. rem[q].used \in 0..MaxAttempts /\ u \in 0..(MaxAttempts + 1) /\ WithinQuota
  BY <1>1 DEF RemInv, RowsInv, WithinQuota, RemRow
<1>3. t \in RemRow /\ t.used = u /\ t.status = rem[q].status
  <2> HIDE DEF u, q
  <2> QED
    BY <1>1, <1>2 DEF RemRow
<1>4. /\ att' = [att EXCEPT ![a] = [att[a] EXCEPT !.status = "failed"]]
      /\ rem' = Retries({q}, m)
      /\ revision' = RevisionAfter(rem')
  BY DEF Fail, Store
<1>5. /\ [att[a] EXCEPT !.status = "failed"] \in AttRow
      /\ [att[a] EXCEPT !.status = "failed"].of = att[a].of
      /\ [att[a] EXCEPT !.status = "failed"].status = "failed"
  BY <1>1 DEF AttRow
<1>6. /\ att' \in [Attempt -> AttRow] /\ \A b \in Attempt : b # a => att'[b] = att[b]
      /\ att'[a].of = att[a].of /\ att'[a].status = "failed"
  BY <1>1, <1>4, <1>5
<1> HIDE DEF t
<1>7. /\ m \in [Reminder -> RemRow] /\ m[q] = t
      /\ \A r \in Reminder : r # q => m[r] = rem[r]
  BY <1>1, <1>3
<1> HIDE DEF m
<1>8. /\ rem' \in [Reminder -> RemRow]
      /\ \A r \in Reminder : /\ rem'[r].used = m[r].used
                              /\ \/ rem'[r].status = m[r].status
                                 \/ m[r].status = "pending" /\ rem'[r].status = "expired"
      /\ m[q].status = "pending" /\ m[q].used >= MaxAttempts => rem'[q].status = "expired"
  BY <1>1, <1>4, <1>7, RetriesKeep
<1>9. /\ revision' \in Nat
      /\ \A r \in Reminder : rem[r].status = "pending" /\ rem'[r].status # "pending"
           => revision' > revision
  BY <1>1, <1>4, RevisionGrows
<1>10. \A r \in Reminder : m[r].status = rem[r].status
  BY <1>3, <1>7
<1>11. WithinQuota'
  <2> SUFFICES ASSUME NEW r \in Reminder, rem'[r].status \in {"none", "pending"}
               PROVE  rem'[r].used <= MaxAttempts
    BY DEF WithinQuota
  <2>1. CASE r # q
    BY <1>2, <1>7, <1>8, <2>1 DEF WithinQuota
  <2>2. CASE r = q
    BY <1>1, <1>2, <1>3, <1>7, <1>8, <2>2
  <2> QED
    BY <2>1, <2>2
<1> QED
  BY <1>1, <1>3, <1>6, <1>7, <1>8, <1>9, <1>10, <1>11

LEMMA AppliesInv ==
  ASSUME RemInv, NEW s \in Session, WorkerApplies(s)
  PROVE  RemInv'
<1> USE Constants
<1> DEFINE c == [conn[s] EXCEPT !.worker = NoEvent]
<1>1. /\ conn \in [Session -> ConnRow] /\ Fine(conn[s]) /\ conn[s] \in ConnRow
      /\ conn[s].worker # NoEvent /\ conn[s].worker \in Event
  BY DEF RemInv, ConnsInv, WorkerApplies, ConnRow
<1>2. /\ conn[s].phase # "gone" /\ conn[s].phase # "new"
  BY <1>1 DEF Fine
<1>3. c \in ConnRow /\ Fine(c) /\ c.phase = conn[s].phase
  <2>1. c \in ConnRow /\ c.phase = conn[s].phase /\ c.worker = NoEvent
        /\ c.events = conn[s].events /\ c.up = conn[s].up /\ c.device = conn[s].device
    BY <1>1 DEF ConnRow
  <2> HIDE DEF c
  <2> QED
    BY <1>1, <2>1 DEF Fine
<1>4. conn' = [conn EXCEPT ![s] = c] /\ UNCHANGED <<entry, sched, edits>>
  BY DEF WorkerApplies
<1> HIDE DEF c
<1>5. ConnsInv'
  BY <1>3, <1>4, ConnGoesOn DEF RemInv
<1>6. PICK a \in Attempt : a = conn[s].worker.attempt
  BY <1>1 DEF Event
<1>7. CASE Complete(s, a) /\ Completes(s, a)
  <2>1. Claimed(a) /\ att[a].session = s
    BY <1>7 DEF Completes
  <2> QED
    BY <1>2, <1>4, <1>5, <1>7, <2>1, Completed, AnswerInv
<1>8. CASE Fail(s, a) /\ FailsWith(s, a)
  <2>1. Claimed(a) /\ att[a].session = s
    BY <1>8 DEF FailsWith
  <2> QED
    BY <1>2, <1>4, <1>5, <1>8, <2>1, Failed, AnswerInv
<1>9. CASE UNCHANGED <<att, rem, revision>>
  BY <1>4, <1>5, <1>9, RowsKept, PassKept DEF RemInv, PassInv, PassTyped
<1> QED
  BY <1>6, <1>7, <1>8, <1>9 DEF WorkerApplies, Complete, Fail

-----------------------------------------------------------------------------
(* Rows edited by other services, and the clock.                           *)

(* The counters stay, and no claim is new or marked.                       *)
LEMMA RowsEdited ==
  ASSUME RemInv, UNCHANGED <<entry, conn, sched>>, edits' \in 0..MaxEdits,
         rem' \in [Reminder -> RemRow], att' \in [Attempt -> AttRow], revision' \in Nat,
         \A r \in Reminder : rem'[r].used = rem[r].used /\ Stays(r),
         \A a \in Attempt :
           /\ att'[a].of = att[a].of /\ att'[a].session = att[a].session
           /\ \/ att'[a].status = att[a].status /\ att'[a].started = att[a].started
              \/ Claimed(a) /\ ~att[a].started /\ att'[a].status = "absent"
                 /\ ~att'[a].started
  PROVE  RemInv'
<1>1. \A a \in Attempt : Claimed(a)' =>
        /\ Claimed(a) /\ att'[a].of = att[a].of /\ att'[a].started = att[a].started
        /\ att'[a].session = att[a].session
  BY DEF Claimed
<1>2. QuotaExact'
  <2>1. \A a \in Attempt, q \in Reminder :
          (att[a].of = q /\ Counts(a))' <=> att[a].of = q /\ Counts(a)
    BY DEF Counts, Claimed
  <2> QED
    BY <2>1, QuotaKept DEF RemInv, RowsInv
<1>3. RowsInv'
  BY <1>1, <1>2 DEF RemInv, RowsInv, RowsTyped, NamedClaims, WithinQuota, Stays
<1>4. ConnsInv'
  BY ConnsKept DEF RemInv
<1>5. PassTyped'
  BY <1>1 DEF RemInv, PassInv, PassTyped
<1>6. PassKnown'
  BY <1>1 DEF RemInv, RowsInv, NamedClaims, PassInv, PassKnown
<1> QED
  BY <1>3, <1>4, <1>5, <1>6 DEF RemInv, PassInv

LEMMA CreateInv ==
  ASSUME RemInv, NEW r \in Reminder, Create(r)
  PROVE  RemInv'
<1>1. /\ rem \in [Reminder -> RemRow] /\ att \in [Attempt -> AttRow] /\ revision \in Nat
      /\ edits \in 0..MaxEdits /\ rem[r] \in RemRow
  BY DEF RemInv, RowsInv, RowsTyped, PassInv, PassTyped
<1>2. rem' = [rem EXCEPT ![r] = [rem[r] EXCEPT !.status = "pending"]] /\ rem[r].status = "none"
  BY DEF Create
<1>3. /\ [rem[r] EXCEPT !.status = "pending"] \in RemRow
      /\ [rem[r] EXCEPT !.status = "pending"].used = rem[r].used
  BY <1>1 DEF RemRow, Status
<1>4. /\ rem' \in [Reminder -> RemRow]
      /\ \A q \in Reminder : rem'[q].used = rem[q].used /\ Stays(q)
  BY <1>1, <1>2, <1>3 DEF Stays
<1> QED
  BY <1>1, <1>4, RowsEdited DEF Create, Stays

LEMMA UpdateInv ==
  ASSUME RemInv, NEW r \in Reminder, Update(r)
  PROVE  RemInv'
<1>1. /\ rem \in [Reminder -> RemRow] /\ att \in [Attempt -> AttRow] /\ revision \in Nat
      /\ edits \in 0..MaxEdits /\ rem[r] \in RemRow
  BY DEF RemInv, RowsInv, RowsTyped, PassInv, PassTyped
<1>2. PICK later \in BOOLEAN :
        rem' = [rem EXCEPT ![r] = [rem[r] EXCEPT !.waiting = FALSE,
                   !.due = rem[r].due /\ ~later, !.overdue = rem[r].overdue /\ ~later]]
  BY <1>1 DEF Update
<1> DEFINE t == [rem[r] EXCEPT !.waiting = FALSE,
                   !.due = rem[r].due /\ ~later, !.overdue = rem[r].overdue /\ ~later]
<1>3. t \in RemRow /\ t.used = rem[r].used /\ t.status = rem[r].status
  BY <1>1 DEF RemRow
<1> HIDE DEF t
<1>4. /\ rem' \in [Reminder -> RemRow]
      /\ \A q \in Reminder : rem'[q].used = rem[q].used /\ Stays(q)
  BY <1>1, <1>2, <1>3 DEF t, Stays
<1>5. edits' \in 0..MaxEdits
  BY <1>1, Constants DEF Update
<1> QED
  BY <1>1, <1>4, <1>5, RowsEdited DEF Update

LEMMA CancelInv ==
  ASSUME RemInv, NEW r \in Reminder, Cancel(r)
  PROVE  RemInv'
<1>1. /\ rem \in [Reminder -> RemRow] /\ att \in [Attempt -> AttRow] /\ revision \in Nat
      /\ edits \in 0..MaxEdits /\ rem[r] \in RemRow
  BY DEF RemInv, RowsInv, RowsTyped, PassInv, PassTyped
<1>2. rem' = [rem EXCEPT ![r] = [rem[r] EXCEPT !.status = "cancelled", !.waiting = FALSE]]
  BY DEF Cancel
<1>3. /\ [rem[r] EXCEPT !.status = "cancelled", !.waiting = FALSE] \in RemRow
      /\ [rem[r] EXCEPT !.status = "cancelled", !.waiting = FALSE].used = rem[r].used
      /\ [rem[r] EXCEPT !.status = "cancelled", !.waiting = FALSE].status = "cancelled"
  BY <1>1 DEF RemRow, Status
<1>4. /\ rem' \in [Reminder -> RemRow]
      /\ \A q \in Reminder : rem'[q].used = rem[q].used /\ Stays(q)
  BY <1>1, <1>2, <1>3 DEF Stays
<1>5. edits' \in 0..MaxEdits /\ revision' \in Nat
  BY <1>1, Constants DEF Cancel
<1>6. \A a \in Attempt : \/ att'[a] = att[a]
                         \/ Claimed(a) /\ ~att[a].started /\ att'[a] = Deleted(att[a])
  BY DEF Cancel, Drop, ClaimsOf
<1>7. \A a \in Attempt :
        /\ Deleted(att[a]) \in AttRow /\ Deleted(att[a]).of = att[a].of
        /\ Deleted(att[a]).session = att[a].session
        /\ ~Deleted(att[a]).started /\ Deleted(att[a]).status = "absent"
  <2> SUFFICES ASSUME NEW a \in Attempt
               PROVE  /\ Deleted(att[a]) \in AttRow /\ Deleted(att[a]).of = att[a].of
                      /\ Deleted(att[a]).session = att[a].session
                      /\ ~Deleted(att[a]).started /\ Deleted(att[a]).status = "absent"
    OBVIOUS
  <2>1. att[a] \in AttRow
    BY <1>1
  <2> QED
    BY <2>1 DEF Deleted, AttRow
<1>8. att' \in [Attempt -> AttRow]
  BY <1>1, <1>6, <1>7 DEF Cancel, Drop
<1>9. \A a \in Attempt :
        /\ att'[a].of = att[a].of /\ att'[a].session = att[a].session
        /\ \/ att'[a].status = att[a].status /\ att'[a].started = att[a].started
           \/ Claimed(a) /\ ~att[a].started /\ att'[a].status = "absent" /\ ~att'[a].started
  BY <1>6, <1>7
<1>10. UNCHANGED <<entry, conn, sched>>
  BY DEF Cancel
<1> QED
  BY <1>4, <1>5, <1>8, <1>9, <1>10, RowsEdited

LEMMA FallsInv ==
  ASSUME RemInv, NEW r \in Reminder, Falls(r)
  PROVE  RemInv'
<1>1. /\ rem \in [Reminder -> RemRow] /\ att \in [Attempt -> AttRow] /\ revision \in Nat
      /\ edits \in 0..MaxEdits /\ rem[r] \in RemRow
  BY DEF RemInv, RowsInv, RowsTyped, PassInv, PassTyped
<1>2. PICK t \in {[rem[r] EXCEPT !.due = TRUE], [rem[r] EXCEPT !.waiting = FALSE],
                  [rem[r] EXCEPT !.overdue = TRUE]} :
        rem' = [rem EXCEPT ![r] = t]
  BY DEF Falls
<1>3. t \in RemRow /\ t.used = rem[r].used /\ t.status = rem[r].status
  BY <1>1, <1>2 DEF RemRow
<1>4. /\ rem' \in [Reminder -> RemRow]
      /\ \A q \in Reminder : rem'[q].used = rem[q].used /\ Stays(q)
  BY <1>1, <1>2, <1>3 DEF Stays
<1> QED
  BY <1>1, <1>4, RowsEdited DEF Falls

LEMMA LapsesInv ==
  ASSUME RemInv, NEW a \in Attempt, Lapses(a)
  PROVE  RemInv'
<1>1. /\ rem \in [Reminder -> RemRow] /\ att \in [Attempt -> AttRow] /\ revision \in Nat
      /\ edits \in 0..MaxEdits /\ att[a] \in AttRow
  BY DEF RemInv, RowsInv, RowsTyped, PassInv, PassTyped
<1>2. att' = [att EXCEPT ![a] = [att[a] EXCEPT !.lapsed = TRUE]]
  BY DEF Lapses
<1>3. /\ [att[a] EXCEPT !.lapsed = TRUE] \in AttRow
      /\ [att[a] EXCEPT !.lapsed = TRUE].of = att[a].of
      /\ [att[a] EXCEPT !.lapsed = TRUE].session = att[a].session
      /\ [att[a] EXCEPT !.lapsed = TRUE].started = att[a].started
      /\ [att[a] EXCEPT !.lapsed = TRUE].status = att[a].status
  BY <1>1 DEF AttRow
<1>4. /\ att' \in [Attempt -> AttRow]
      /\ \A b \in Attempt : /\ att'[b].of = att[b].of /\ att'[b].started = att[b].started
                            /\ att'[b].session = att[b].session
                            /\ att'[b].status = att[b].status
  BY <1>1, <1>2, <1>3
<1> QED
  BY <1>1, <1>4, RowsEdited DEF Lapses, Stays

-----------------------------------------------------------------------------
(* The session.                                                            *)

(* An answer is posted or dropped; of what the device heard it may be any. *)
LEMMA PostedFine ==
  ASSUME NEW c \in ConnRow, Fine(c), NEW kind \in {"played", "failed"}, NEW a \in Attempt,
         kind = "played" => a \in c.device, c.phase \in {"open", "leaving"}
  PROVE  /\ Posted(c, kind, a) \in ConnRow /\ Fine(Posted(c, kind, a))
         /\ Posted(c, kind, a).phase = c.phase
         /\ Posted(c, kind, a).device = c.device
<1> USE Constants
<1> DEFINE e == [kind |-> kind, attempt |-> a]
           q == Append(c.events, e)
           d == [c EXCEPT !.events = q]
<1>1. e \in Event /\ e.kind = kind /\ e.attempt = a
  BY DEF Event
<1>2. c.events \in Seq(Event) /\ Len(c.events) \in Nat
  BY DEF ConnRow
<1> HIDE DEF e
<1>3. /\ q \in Seq(Event) /\ Len(q) = Len(c.events) + 1
      /\ \A i \in 1..Len(q) : q[i] = IF i = Len(q) THEN e ELSE c.events[i]
  BY <1>1, <1>2
<1> HIDE DEF q
<1>4. /\ d \in ConnRow /\ d.phase = c.phase /\ d.device = c.device /\ d.events = q
      /\ d.worker = c.worker
  BY <1>3 DEF ConnRow
<1> HIDE DEF d
<1>5. CASE Len(c.events) < EventQueue
  <2>1. Posted(c, kind, a) = d
    BY <1>2, <1>5 DEF Posted, d, q, e
  <2>2. Len(q) <= EventQueue
    BY <1>2, <1>3, <1>5
  <2>3. \A i \in 1..Len(q) : q[i].kind = "played" => q[i].attempt \in c.device
    <3> SUFFICES ASSUME NEW i \in 1..Len(q), q[i].kind = "played"
                 PROVE  q[i].attempt \in c.device
      OBVIOUS
    <3>1. CASE i = Len(q)
      BY <1>1, <1>3, <3>1
    <3>2. CASE i # Len(q)
      BY <1>2, <1>3, <3>2 DEF Fine
    <3> QED
      BY <3>1, <3>2
  <2> QED
    BY <1>4, <2>1, <2>2, <2>3 DEF Fine
<1>6. CASE ~(Len(c.events) < EventQueue)
  BY <1>2, <1>6 DEF Posted
<1> QED
  BY <1>5, <1>6

(* A session that works has opened and is not gone.                        *)
LEMMA UpIsOpen ==
  ASSUME RemInv, NEW s \in Session
  PROVE  /\ conn[s] \in ConnRow /\ Fine(conn[s])
         /\ conn[s].up => conn[s].phase \in {"open", "leaving"}
BY DEF RemInv, ConnsInv, Fine, ConnRow

(* Only the connection, and the pass that it answers, go on.               *)
LEMMA ConnStep ==
  ASSUME RemInv, NEW s \in Session, NEW c \in ConnRow, Fine(c),
         conn' = [conn EXCEPT ![s] = c],
         UNCHANGED <<rem, att, revision>>, edits' \in 0..MaxEdits, entry' \in EntryRow,
         sched' = sched \/ (sched.pc = "asked" /\ (Goto("answered") \/ Goto("refused")))
  PROVE  RemInv'
<1>1. RowsInv'
  BY RowsKept DEF RemInv
<1>2. ConnsInv'
  BY ConnGoesOn DEF RemInv
<1>3. CASE sched' = sched
  BY <1>1, <1>2, <1>3, PassKept DEF RemInv
<1>4. CASE sched.pc = "asked" /\ (Goto("answered") \/ Goto("refused"))
  <2>1. /\ sched' \in SchedRow /\ sched.pc \in Busy /\ sched'.pc \in Busy
        /\ sched'.attempt = sched.attempt /\ sched'.session = sched.session
    BY <1>4 DEF Goto, Busy, SchedRow, RemInv, PassInv, PassTyped
  <2> QED
    BY <1>1, <1>2, <2>1, PassKept DEF RemInv
<1> QED
  BY <1>3, <1>4

LEMMA AnswersInv ==
  ASSUME RemInv, NEW s \in Session, ActorAnswers(s)
  PROVE  RemInv'
<1> USE Constants
<1> DEFINE c == [conn[s] EXCEPT !.asked = None]
<1>1. PICK a \in Attempt : a = conn[s].asked
  BY UpIsOpen DEF ActorAnswers, ConnRow
<1>2. /\ conn[s] \in ConnRow /\ Fine(conn[s]) /\ conn[s].phase \in {"open", "leaving"}
  BY UpIsOpen DEF ActorAnswers
<1>3. /\ c \in ConnRow /\ c.phase = conn[s].phase /\ c.events = conn[s].events
      /\ c.worker = conn[s].worker /\ c.device = conn[s].device
  BY <1>2 DEF ConnRow
<1>4. Fine(c)
  <2> HIDE DEF c
  <2> QED
    BY <1>2, <1>3 DEF Fine
<1>5. UNCHANGED <<rem, att, revision>> /\ edits' \in 0..MaxEdits
      /\ entry' \in EntryRow
  BY DEF ActorAnswers, RemInv, PassInv, PassTyped
<1>6. CASE /\ Awaited(s)
           /\ conn' = [conn EXCEPT ![s] = [c EXCEPT !.speaking = a]]
           /\ Goto("answered")
  <2> DEFINE d == [c EXCEPT !.speaking = a]
  <2> HIDE DEF c
  <2>1. /\ d \in ConnRow /\ d.phase = c.phase /\ d.events = c.events
        /\ d.worker = c.worker /\ d.device = c.device
    BY <1>3 DEF ConnRow
  <2>2. Fine(d)
    <3> HIDE DEF d
    <3> QED
      BY <1>2, <1>3, <1>4, <2>1 DEF Fine
  <2> QED
    BY <1>3, <1>5, <1>6, <2>1, <2>2, ConnStep DEF Awaited
<1>7. CASE Awaited(s) /\ conn' = [conn EXCEPT ![s] = c] /\ Goto("refused")
  <2> HIDE DEF c
  <2> QED
    BY <1>3, <1>4, <1>5, <1>7, ConnStep DEF Awaited
<1>8. CASE conn' = [conn EXCEPT ![s] = c] /\ UNCHANGED sched
  <2> HIDE DEF c
  <2> QED
    BY <1>3, <1>4, <1>5, <1>8, ConnStep
<1>9. CASE conn' = [conn EXCEPT ![s] = Posted(c, "failed", a)] /\ UNCHANGED sched
  <2> HIDE DEF c
  <2>1. /\ Posted(c, "failed", a) \in ConnRow /\ Fine(Posted(c, "failed", a))
        /\ Posted(c, "failed", a).phase = c.phase
    BY <1>2, <1>3, <1>4, PostedFine
  <2> QED
    BY <1>3, <1>5, <1>9, <2>1, ConnStep
<1> QED
  BY <1>1, <1>6, <1>7, <1>8, <1>9 DEF ActorAnswers

(* The turn ends, delivered or cancelled, or the actor does; the device    *)
(* answers for what it heard; the reminder worker takes an answer.         *)
LEMMA DeliversInv ==
  ASSUME RemInv, NEW s \in Session, ActorDelivers(s)
  PROVE  RemInv'
<1> DEFINE c == [conn[s] EXCEPT !.speaking = None,
                               !.device = conn[s].device \union {conn[s].speaking}]
<1>1. /\ conn[s] \in ConnRow /\ Fine(conn[s]) /\ conn[s].phase \in {"open", "leaving"}
      /\ conn[s].speaking \in Attempt
  BY UpIsOpen DEF ActorDelivers, ConnRow
<1>2. /\ c \in ConnRow /\ c.phase = conn[s].phase /\ c.events = conn[s].events
      /\ c.worker = conn[s].worker /\ conn[s].device \subseteq c.device
  BY <1>1 DEF ConnRow
<1>3. conn' = [conn EXCEPT ![s] = c]
  BY DEF ActorDelivers
<1> HIDE DEF c
<1>4. Fine(c)
  BY <1>1, <1>2 DEF Fine
<1>5. /\ UNCHANGED <<rem, att, revision, sched>> /\ edits' \in 0..MaxEdits
      /\ entry' \in EntryRow
  BY DEF ActorDelivers, RemInv, PassInv, PassTyped
<1> QED
  BY <1>2, <1>3, <1>4, <1>5, ConnStep

LEMMA AbortsInv ==
  ASSUME RemInv, NEW s \in Session, ActorAborts(s)
  PROVE  RemInv'
<1> DEFINE d == Posted(conn[s], "failed", conn[s].speaking)
           c == [d EXCEPT !.speaking = None]
<1>1. /\ conn[s] \in ConnRow /\ Fine(conn[s]) /\ conn[s].phase \in {"open", "leaving"}
      /\ conn[s].speaking \in Attempt
  BY UpIsOpen DEF ActorAborts, ConnRow
<1>2. d \in ConnRow /\ Fine(d) /\ d.phase = conn[s].phase
  BY <1>1, PostedFine
<1>3. conn' = [conn EXCEPT ![s] = c]
  BY DEF ActorAborts
<1> HIDE DEF d
<1>4. /\ c \in ConnRow /\ c.phase = d.phase /\ c.events = d.events
      /\ c.worker = d.worker /\ c.device = d.device
  BY <1>2 DEF ConnRow
<1> HIDE DEF c
<1>5. Fine(c)
  BY <1>1, <1>2, <1>4 DEF Fine
<1>6. /\ UNCHANGED <<rem, att, revision, sched>> /\ edits' \in 0..MaxEdits
      /\ entry' \in EntryRow
  BY DEF ActorAborts, RemInv, PassInv, PassTyped
<1> QED
  BY <1>2, <1>3, <1>4, <1>5, <1>6, ConnStep

LEMMA ActorEndsInv ==
  ASSUME RemInv, NEW s \in Session, ActorEnds(s)
  PROVE  RemInv'
<1> DEFINE d == IF conn[s].speaking = None THEN conn[s]
                ELSE Posted(conn[s], "failed", conn[s].speaking)
           c == [d EXCEPT !.up = FALSE, !.asked = None, !.speaking = None]
<1>1. /\ conn[s] \in ConnRow /\ Fine(conn[s]) /\ conn[s].phase \in {"open", "leaving"}
      /\ conn[s].speaking \in Attempt \union {None}
  BY UpIsOpen DEF ActorEnds, ConnRow
<1>2. d \in ConnRow /\ Fine(d) /\ d.phase = conn[s].phase
  BY <1>1, PostedFine
<1>3. conn' = [conn EXCEPT ![s] = c]
  BY DEF ActorEnds
<1> HIDE DEF d
<1>4. /\ c \in ConnRow /\ c.phase = d.phase /\ c.events = d.events
      /\ c.worker = d.worker /\ c.device = d.device
  BY <1>2 DEF ConnRow
<1> HIDE DEF c
<1>5. Fine(c)
  BY <1>1, <1>2, <1>4 DEF Fine
<1>6. /\ UNCHANGED <<rem, att, revision, sched>> /\ edits' \in 0..MaxEdits
      /\ entry' \in EntryRow
  BY DEF ActorEnds, RemInv, PassInv, PassTyped
<1> QED
  BY <1>2, <1>3, <1>4, <1>5, <1>6, ConnStep

LEMMA DeviceInv ==
  ASSUME RemInv, NEW s \in Session, DeviceAnswers(s)
  PROVE  RemInv'
<1>1. conn[s] \in ConnRow /\ Fine(conn[s]) /\ conn[s].phase = "open"
  BY UpIsOpen DEF DeviceAnswers
<1>2. PICK a \in conn[s].device, kind \in {"played", "failed"} :
        conn' = [conn EXCEPT ![s] = Posted(conn[s], kind, a)]
  BY DEF DeviceAnswers
<1>3. /\ Posted(conn[s], kind, a) \in ConnRow /\ Fine(Posted(conn[s], kind, a))
      /\ Posted(conn[s], kind, a).phase = conn[s].phase
  <2>1. a \in Attempt
    BY <1>1 DEF ConnRow
  <2> QED
    BY <1>1, <2>1, PostedFine
<1>4. /\ UNCHANGED <<rem, att, revision, sched>> /\ edits' \in 0..MaxEdits
      /\ entry' \in EntryRow
  BY DEF DeviceAnswers, RemInv, PassInv, PassTyped
<1> QED
  BY <1>2, <1>3, <1>4, ConnStep

LEMMA TakesInv ==
  ASSUME RemInv, NEW s \in Session, WorkerTakes(s)
  PROVE  RemInv'
<1> USE Constants
<1> DEFINE q == conn[s].events
           c == [conn[s] EXCEPT !.worker = Head(q), !.events = Tail(q)]
<1>1. /\ conn[s] \in ConnRow /\ Fine(conn[s]) /\ q \in Seq(Event) /\ q # <<>>
  BY UpIsOpen DEF WorkerTakes, ConnRow
<1>2. /\ Head(q) \in Event /\ Head(q) = q[1] /\ Tail(q) \in Seq(Event)
      /\ Len(q) \in Nat /\ Len(q) >= 1 /\ Len(Tail(q)) = Len(q) - 1
      /\ \A i \in 1..Len(Tail(q)) : Tail(q)[i] = q[i + 1] /\ i + 1 \in 1..Len(q)
  BY <1>1
<1>3. conn' = [conn EXCEPT ![s] = c]
  BY DEF WorkerTakes
<1>4. /\ c \in ConnRow /\ c.phase = conn[s].phase /\ c.events = Tail(q)
      /\ c.worker = Head(q) /\ c.device = conn[s].device /\ conn[s].phase \notin {"new", "gone"}
  BY <1>1, <1>2 DEF ConnRow, Fine
<1> HIDE DEF c
<1>5. Fine(c)
  <2>1. \A i \in 1..Len(q) : q[i].kind = "played" => q[i].attempt \in conn[s].device
    BY <1>1 DEF Fine
  <2>2. Len(q) <= EventQueue
    BY <1>1 DEF Fine
  <2>3. 1 \in 1..Len(q)
    BY <1>2
  <2> HIDE DEF q
  <2>4. c.worker.kind = "played" => c.worker.attempt \in c.device
    BY <1>2, <1>4, <2>1, <2>3
  <2>5. \A i \in 1..Len(c.events) : c.events[i].kind = "played" => c.events[i].attempt \in c.device
    BY <1>2, <1>4, <2>1
  <2>6. Len(c.events) <= EventQueue
    BY <1>2, <1>4, <2>2
  <2> QED
    BY <1>4, <2>4, <2>5, <2>6 DEF Fine
<1>6. /\ UNCHANGED <<rem, att, revision, sched>> /\ edits' \in 0..MaxEdits
      /\ entry' \in EntryRow
  BY DEF WorkerTakes, Unlocked, RemInv, PassInv, PassTyped, EntryRow
<1> QED
  BY <1>3, <1>4, <1>5, <1>6, ConnStep

-----------------------------------------------------------------------------
(* Connections come and go; the process stops.                             *)

(* A connection opens and takes the entry.                                 *)
LEMMA OpensInv ==
  ASSUME RemInv, NEW s \in Session, SessionOpens(s)
  PROVE  RemInv'
<1> USE Constants
<1> DEFINE new == [NewConn EXCEPT !.phase = "open", !.up = TRUE]
<1>1. RowsInv' /\ UNCHANGED <<rem, att, revision, sched, edits>>
  BY RowsKept DEF RemInv, SessionOpens
<1>2. /\ new \in ConnRow /\ Fine(new) /\ new.phase = "open"
  <2>1. /\ new \in ConnRow /\ new.phase = "open" /\ new.events = NewConn.events
        /\ new.worker = NewConn.worker /\ new.device = NewConn.device
    BY DEF ConnRow, NewConn
  <2> HIDE DEF new
  <2> QED
    BY <2>1 DEF Fine
<1>3. ASSUME NEW t \in Session
      PROVE  /\ [conn[t] EXCEPT !.replaced = TRUE] \in ConnRow
             /\ Fine([conn[t] EXCEPT !.replaced = TRUE])
             /\ [conn[t] EXCEPT !.replaced = TRUE].phase = conn[t].phase
             /\ conn[t] \in ConnRow /\ Fine(conn[t])
  <2> DEFINE c == [conn[t] EXCEPT !.replaced = TRUE]
  <2>1. conn[t] \in ConnRow /\ Fine(conn[t])
    BY UpIsOpen
  <2>2. /\ c \in ConnRow /\ c.phase = conn[t].phase /\ c.events = conn[t].events
        /\ c.worker = conn[t].worker /\ c.device = conn[t].device /\ c.up = conn[t].up
    BY <2>1 DEF ConnRow
  <2> HIDE DEF c
  <2>3. Fine(c)
    BY <2>1, <2>2 DEF Fine
  <2> QED
    BY <2>1, <2>2, <2>3 DEF c
<1>4. conn[s].phase = "new" /\ entry' = [session |-> s, lock |-> None]
  BY DEF SessionOpens
<1>5. conn' = [t \in Session |-> IF t = s THEN new
                                 ELSE IF t = entry.session
                                      THEN [conn[t] EXCEPT !.replaced = TRUE] ELSE conn[t]]
  BY DEF SessionOpens
<1> HIDE DEF new
<1>6. ConnsInv' /\ \A t \in Session : IF t = s THEN conn'[t].phase = "open"
                                      ELSE conn'[t].phase = conn[t].phase
  BY <1>2, <1>3, <1>5 DEF ConnsInv
<1>7. PassTyped'
  BY <1>1, <1>4 DEF RemInv, PassInv, PassTyped, EntryRow
<1>9. PassKnown'
  BY <1>1 DEF RemInv, PassInv, PassKnown, Claimed
<1> QED
  BY <1>1, <1>6, <1>7, <1>9 DEF RemInv, PassInv

(* The reader ends and takes the entry away if it is its own.              *)
LEMMA ReaderInv ==
  ASSUME RemInv, NEW s \in Session, ReaderEnds(s)
  PROVE  RemInv'
<1> USE Constants
<1> DEFINE c == [conn[s] EXCEPT !.phase = "leaving"]
<1>1. RowsInv' /\ UNCHANGED <<rem, att, revision, sched, edits>>
  BY RowsKept DEF RemInv, ReaderEnds
<1>2. conn[s] \in ConnRow /\ Fine(conn[s]) /\ conn[s].phase = "open"
  BY UpIsOpen DEF ReaderEnds
<1>3. /\ c \in ConnRow /\ c.phase = "leaving" /\ c.events = conn[s].events
      /\ c.worker = conn[s].worker /\ c.device = conn[s].device
  BY <1>2 DEF ConnRow
<1>4. conn' = [conn EXCEPT ![s] = c]
  BY DEF ReaderEnds
<1> HIDE DEF c
<1>5. Fine(c)
  BY <1>2, <1>3 DEF Fine
<1>6. ConnsInv' /\ \A t \in Session : \/ conn'[t].phase = conn[t].phase
                                      \/ conn[t].phase = "open" /\ conn'[t].phase = "leaving"
  BY <1>2, <1>3, <1>4, <1>5 DEF RemInv, ConnsInv
<1>7. entry' \in EntryRow /\ (entry'.session # None => entry'.session = entry.session)
  BY DEF ReaderEnds, Unregistered, NoEntry, RemInv, PassInv, PassTyped, EntryRow
<1>8. PassTyped' /\ PassKnown'
  BY <1>1, <1>6, <1>7 DEF RemInv, PassInv, PassTyped, PassKnown, Claimed
<1> QED
  BY <1>1, <1>6, <1>8 DEF RemInv, PassInv

(* The database refuses an answer, or the end of a session.                *)
LEMMA SessionFailsInv ==
  ASSUME RemInv, NEW s \in Session, SessionFails(s)
  PROVE  RemInv'
<1> USE Constants
<1>1. RowsInv' /\ PassInv'
  <2>1. edits' \in 0..MaxEdits
    BY DEF RemInv, PassInv, PassTyped, SessionFails
  <2> QED
    BY <2>1, RowsKept, PassKept DEF RemInv, PassInv, PassTyped, SessionFails
<1>2. PICK c \in {[conn[s] EXCEPT !.worker = NoEvent], Gone} : conn' = [conn EXCEPT ![s] = c]
  BY DEF SessionFails
<1>3. Fine(conn[s]) /\ conn[s] \in ConnRow
  BY DEF RemInv, ConnsInv
<1>4. c \in ConnRow /\ Fine(c)
  <2> DEFINE d == [conn[s] EXCEPT !.worker = NoEvent]
  <2>1. /\ d \in ConnRow /\ d.phase = conn[s].phase /\ d.worker = NoEvent
        /\ d.events = conn[s].events /\ d.up = conn[s].up /\ d.device = conn[s].device
    BY <1>3 DEF ConnRow
  <2> HIDE DEF d
  <2>2. Fine(d)
    BY <1>3, <2>1 DEF Fine
  <2> QED
    BY <1>2, <2>1, <2>2 DEF d
<1> QED
  BY <1>1, <1>2, <1>4, ConnGoesOn DEF RemInv

(* The process stops: the rows and the counters stay.                      *)
LEMMA CrashInv ==
  ASSUME RemInv, Crash
  PROVE  RemInv'
<1> USE Constants
<1>1. RowsInv' /\ UNCHANGED <<rem, att, revision, edits>>
  BY RowsKept DEF RemInv, Crash
<1>2. ConnsInv' /\ \A s \in Session : IF conn[s].phase = "new" THEN conn'[s] = conn[s]
                                      ELSE conn'[s].phase = "gone"
  BY DEF RemInv, ConnsInv, Crash
<1>3. /\ entry' \in EntryRow /\ entry'.session = None
      /\ sched' \in SchedRow /\ sched'.pc \notin Busy \union {"picked"}
  BY DEF Crash, NoEntry, EntryRow, Idle, SchedRow, Busy
<1>4. PassTyped' /\ PassKnown'
  BY <1>1, <1>2, <1>3 DEF RemInv, PassInv, PassTyped, PassKnown, Claimed
<1> QED
  BY <1>1, <1>2, <1>4 DEF RemInv, PassInv

(* The administrator's switch touches no row of a reminder.                *)
LEMMA SwitchInv ==
  ASSUME RemInv, SwitchDevice
  PROVE  RemInv'
<1>1. RowsInv' /\ ConnsInv' /\ UNCHANGED <<rem, att, revision, entry, conn, sched>>
  BY RowsKept, ConnsKept DEF RemInv, SwitchDevice
<1>2. edits' \in 0..MaxEdits
  BY Constants DEF RemInv, PassInv, PassTyped, SwitchDevice
<1> QED
  BY <1>1, <1>2 DEF RemInv, PassInv, PassTyped, PassKnown, Claimed

-----------------------------------------------------------------------------
(* The invariant, and the theorems.                                        *)

LEMMA InitInv == Init => RemInv
<1> SUFFICES ASSUME Init PROVE RemInv
  OBVIOUS
<1> USE Constants
<1>1. RowsTyped
  BY DEF Init, RowsTyped, RemRow, AttRow, Status
<1>2. QuotaExact
  <2> SUFFICES ASSUME NEW r \in Reminder
               PROVE  rem[r].used = Cardinality({a \in Attempt : att[a].of = r /\ Counts(a)})
    BY DEF QuotaExact
  <2>1. {a \in Attempt : att[a].of = r /\ Counts(a)} = {}
    BY DEF Init, Counts
  <2>2. rem[r].used = 0
    BY DEF Init
  <2> QED
    BY <2>1, <2>2, FS_EmptySet
<1>3. RowsInv
  BY <1>1, <1>2 DEF Init, RowsInv, NamedClaims, Claimed, WithinQuota
<1>4. ConnsInv
  BY DEF Init, ConnsInv
<1>5. PassTyped
  BY DEF Init, PassTyped, EntryRow, NoEntry, SchedRow, Idle
<1>6. PassKnown
  BY DEF Init, PassKnown, Claimed, Idle, Busy
<1> QED
  BY <1>3, <1>4, <1>5, <1>6 DEF RemInv, PassInv

LEMMA NextInv == RemInv /\ [Next]_vars => RemInv'
<1> SUFFICES ASSUME RemInv, [Next]_vars PROVE RemInv'
  OBVIOUS
<1>1. CASE UNCHANGED vars
  <2>1. RowsInv' /\ ConnsInv'
    BY <1>1, RowsKept, ConnsKept DEF vars, RemInv
  <2> QED
    BY <1>1, <2>1 DEF vars, RemInv, PassInv, PassTyped, PassKnown, Claimed
<1>2. CASE SchedulerNext
  BY <1>2, ReapsInv, PassSteps, ClaimsInv, AsksInv, MarksInv, UnlocksInv, ReleasesInv,
     FailsInv DEF SchedulerNext
<1>3. ASSUME NEW s \in Session, SessionNext(s) PROVE RemInv'
  BY <1>3, AnswersInv, DeliversInv, AbortsInv, DeviceInv, TakesInv, AppliesInv, OpensInv,
     ReaderInv, ActorEndsInv, SettlesInv, SessionFailsInv DEF SessionNext
<1>4. ASSUME NEW r \in Reminder, Create(r) \/ Update(r) \/ Cancel(r) \/ Falls(r)
      PROVE  RemInv'
  BY <1>4, CreateInv, UpdateInv, CancelInv, FallsInv
<1>5. ASSUME NEW a \in Attempt, Lapses(a) PROVE RemInv'
  BY <1>5, LapsesInv
<1> QED
  BY <1>1, <1>2, <1>3, <1>4, <1>5, CrashInv, SwitchInv DEF Next

LEMMA Invariance == Spec => []RemInv
BY InitInv, NextInv, PTL DEF Spec

(* Nothing but the administrator's switch touches the device's row.        *)
LEMMA Switched == Spec => [](enabled \in BOOLEAN)
<1>1. Init => enabled \in BOOLEAN
  BY DEF Init
<1>2. enabled \in BOOLEAN /\ [Next]_vars => (enabled \in BOOLEAN)'
  <2> SUFFICES ASSUME enabled \in BOOLEAN, [Next]_vars PROVE (enabled \in BOOLEAN)'
    OBVIOUS
  <2>1. SchedulerNext => UNCHANGED enabled
    BY DEF SchedulerNext, SchedulerReaps, SchedulerPicks, SchedulerClaims, SchedulerLocks,
           SchedulerAsks, SchedulerGivesUp, SchedulerHears, SchedulerMarks,
           SchedulerUnlocks, SchedulerReleases, SchedulerFails
  <2>2. ASSUME NEW s \in Session, SessionNext(s) PROVE UNCHANGED enabled
    BY <2>2 DEF SessionNext, ActorAnswers, ActorDelivers, ActorAborts, DeviceAnswers,
                WorkerTakes, WorkerApplies, SessionOpens, ReaderEnds, ActorEnds,
                SessionSettles, SessionFails
  <2>3. ASSUME NEW r \in Reminder, Create(r) \/ Update(r) \/ Cancel(r) \/ Falls(r)
        PROVE  UNCHANGED enabled
    BY <2>3 DEF Create, Update, Cancel, Falls
  <2>4. (\E a \in Attempt : Lapses(a)) \/ Crash => UNCHANGED enabled
    BY DEF Lapses, Crash
  <2>5. SwitchDevice => enabled' \in BOOLEAN
    BY DEF SwitchDevice
  <2> QED
    BY <2>1, <2>2, <2>3, <2>4, <2>5 DEF Next, vars
<1> QED
  BY <1>1, <1>2, PTL DEF Spec

(* Every variable keeps its type: the counter of a reminder passes         *)
(* MAX_REMINDER_ATTEMPTS by one at most and the worker's channel never its *)
(* capacity, whatever answers, retries and failing calls meet.             *)
THEOREM RemindersTyped == Spec => []TypeOK
BY Typed, Invariance, Switched, PTL

(* attempts_used is the number of attempts whose rows say that they began  *)
(* to play: marks, early answers, releases, reaping, disconnects, crashes  *)
(* and failing calls count each exactly once (database/notifications).     *)
THEOREM QuotaCounted == Spec => []QuotaExact
<1>1. RemInv => QuotaExact
  BY DEF RemInv, RowsInv
<1> QED
  BY <1>1, Invariance, PTL

-----------------------------------------------------------------------------
(* How a status may change in a step.                                      *)
Heard(r) == \E a \in Attempt : /\ att[a].of = r /\ Claimed(a)
                               /\ att'[a].status = "played"
                               /\ a \in conn[att[a].session].device
Moves(r) ==
  rem'[r].status # rem[r].status =>
    /\ rem[r].status \in {"none", "pending"}
    /\ rem[r].status = "pending" => revision' > revision
    /\ rem'[r].status = "completed" => Heard(r)

LEMMA EditsMove ==
  ASSUME RemInv, NEW q \in Reminder, Create(q) \/ Update(q) \/ Cancel(q) \/ Falls(q),
         NEW r \in Reminder
  PROVE  Moves(r)
<1>1. rem \in [Reminder -> RemRow] /\ rem[q] \in RemRow /\ revision \in Nat
  BY DEF RemInv, RowsInv, RowsTyped
<1>2. CASE r # q
  BY <1>1, <1>2 DEF Create, Update, Cancel, Falls, Moves
<1>3. CASE r = q /\ (Update(q) \/ Falls(q))
  <2>1. CASE Update(q)
    <3>1. PICK later \in BOOLEAN :
            rem' = [rem EXCEPT ![q] = [rem[q] EXCEPT !.waiting = FALSE,
                       !.due = rem[q].due /\ ~later, !.overdue = rem[q].overdue /\ ~later]]
      BY <1>1, <2>1 DEF Update
    <3>2. rem'[q].status = rem[q].status
      BY <1>1, <3>1 DEF RemRow
    <3> QED
      BY <1>3, <3>2 DEF Moves
  <2>2. CASE Falls(q)
    <3>1. rem'[q].status = rem[q].status
      BY <1>1, <2>2 DEF Falls, RemRow
    <3> QED
      BY <1>3, <3>1 DEF Moves
  <2> QED
    BY <1>3, <2>1, <2>2
<1>4. CASE r = q /\ (Create(q) \/ Cancel(q))
  <2>1. rem[q].status \in {"none", "pending"} /\ revision' > revision
    BY <1>1, <1>4 DEF Create, Cancel
  <2>2. rem'[q].status \in {"pending", "cancelled"}
    BY <1>1, <1>4 DEF Create, Cancel, RemRow
  <2> QED
    BY <1>4, <2>1, <2>2 DEF Moves
<1> QED
  BY <1>2, <1>3, <1>4

LEMMA CountersMove ==
  ASSUME RemInv, SchedulerMarks \/ SchedulerReleases, NEW r \in Reminder
  PROVE  Moves(r)
<1>1. rem \in [Reminder -> RemRow] /\ rem[r] \in RemRow
  BY DEF RemInv, RowsInv, RowsTyped
<1>2. rem' = rem \/ \E q, u : rem' = [rem EXCEPT ![q].used = u]
  BY DEF SchedulerMarks, SchedulerReleases, Release
<1>3. rem'[r].status = rem[r].status
  BY <1>1, <1>2 DEF RemRow
<1> QED
  BY <1>3 DEF Moves

LEMMA ReapMoves ==
  ASSUME RemInv, SchedulerReaps, NEW r \in Reminder
  PROVE  Moves(r)
<1> DEFINE lapsed  == {a \in Attempt : Claimed(a) /\ att[a].lapsed}
           started == {a \in lapsed : att[a].started}
           m == Retries({att[a].of : a \in started}, rem)
           n == [q \in Reminder |->
                   IF q \in Overdue(m) THEN [m[q] EXCEPT !.status = "expired",
                                                         !.waiting = FALSE]
                   ELSE m[q]]
<1>1. rem \in [Reminder -> RemRow] /\ revision \in Nat
  BY DEF RemInv, RowsInv, RowsTyped
<1>2. rem' = n /\ revision' = RevisionAfter(n)
  BY DEF SchedulerReaps, Reap, Store
<1>3. /\ m[r] \in RemRow
      /\ \/ m[r].status = rem[r].status
         \/ rem[r].status = "pending" /\ m[r].status = "expired"
  BY <1>1, RetriesKeep
<1> HIDE DEF m
<1>4. [m[r] EXCEPT !.status = "expired", !.waiting = FALSE].status = "expired"
  BY <1>3 DEF RemRow
<1>5. \/ n[r].status = rem[r].status
      \/ rem[r].status = "pending" /\ n[r].status = "expired"
  BY <1>3, <1>4 DEF Overdue
<1> HIDE DEF n
<1> QED
  BY <1>1, <1>2, <1>5, RevisionGrows DEF Moves

LEMMA SettleMoves ==
  ASSUME RemInv, NEW s \in Session, SessionSettles(s), NEW r \in Reminder
  PROVE  Moves(r)
<1>1. rem \in [Reminder -> RemRow] /\ revision \in Nat
  BY DEF RemInv, RowsInv, RowsTyped
<1>2. PICK R : rem' = Retries(R, rem) /\ revision' = RevisionAfter(rem')
  BY DEF SessionSettles, ForgetSession, Store
<1>3. \/ rem'[r].status = rem[r].status
      \/ rem[r].status = "pending" /\ rem'[r].status = "expired"
  BY <1>1, <1>2, RetriesKeep
<1> QED
  BY <1>1, <1>2, <1>3, RevisionGrows DEF Moves

LEMMA AnswerMoves ==
  ASSUME RemInv, NEW s \in Session, WorkerApplies(s), NEW r \in Reminder
  PROVE  Moves(r)
<1>1. /\ Fine(conn[s]) /\ conn[s].worker # NoEvent /\ conn[s].worker \in Event
  BY DEF RemInv, ConnsInv, WorkerApplies, ConnRow
<1>2. conn[s].phase # "gone"
  BY <1>1 DEF Fine
<1>3. PICK a \in Attempt : a = conn[s].worker.attempt
  BY <1>1 DEF Event
<1>4. CASE conn[s].worker.kind = "played" /\ Complete(s, a) /\ Completes(s, a)
  <2>1. Claimed(a) /\ att[a].session = s /\ a \in conn[s].device
    BY <1>1, <1>3, <1>4 DEF Completes, Fine
  <2>2. /\ att'[a].status = "played" /\ revision' > revision
        /\ rem'[r].status # rem[r].status => r = att[a].of /\ rem[r].status = "pending"
    BY <1>2, <1>4, Completed
  <2> QED
    BY <2>1, <2>2 DEF Moves, Heard
<1>5. CASE Fail(s, a) /\ FailsWith(s, a)
  <2>1. rem'[r].status # rem[r].status =>
          /\ rem[r].status = "pending" /\ rem'[r].status = "expired"
          /\ revision' > revision
    BY <1>2, <1>5, Failed
  <2> QED
    BY <2>1 DEF Moves
<1>6. CASE UNCHANGED rem
  BY <1>6 DEF Moves
<1> QED
  BY <1>3, <1>4, <1>5, <1>6 DEF WorkerApplies, Complete, Fail

LEMMA StatusMoves ==
  ASSUME RemInv, [Next]_vars, NEW r \in Reminder
  PROVE  Moves(r)
<1>1. CASE UNCHANGED rem
  BY <1>1 DEF Moves
<1>2. CASE SchedulerNext
  <2>1. SchedulerReaps \/ SchedulerMarks \/ SchedulerReleases \/ UNCHANGED rem
    BY <1>2 DEF SchedulerNext, SchedulerPicks, SchedulerClaims, SchedulerLocks,
                SchedulerAsks, SchedulerGivesUp, SchedulerHears, SchedulerUnlocks,
                SchedulerFails
  <2> QED
    BY <1>1, <2>1, ReapMoves, CountersMove
<1>3. ASSUME NEW s \in Session, SessionNext(s) PROVE Moves(r)
  <2>1. WorkerApplies(s) \/ SessionSettles(s) \/ UNCHANGED rem
    BY <1>3 DEF SessionNext, ActorAnswers, ActorDelivers, ActorAborts, DeviceAnswers,
                WorkerTakes, SessionOpens, ReaderEnds, ActorEnds, SessionFails
  <2> QED
    BY <1>1, <2>1, AnswerMoves, SettleMoves
<1>4. ASSUME NEW q \in Reminder, Create(q) \/ Update(q) \/ Cancel(q) \/ Falls(q)
      PROVE  Moves(r)
  BY <1>4, EditsMove
<1>5. (\E a \in Attempt : Lapses(a)) \/ Crash \/ SwitchDevice => UNCHANGED rem
  BY DEF Lapses, Crash, SwitchDevice
<1> QED
  BY <1>1, <1>2, <1>3, <1>4, <1>5 DEF Next, vars

(* complete_attempt_with_outcome takes an answer only from the session that*)
(* was asked to speak the attempt and whose device heard it.               *)
THEOREM CompletionHeard == Spec => CompletedWasHeard
<1>1. RemInv /\ [Next]_vars =>
        [\A r \in Reminder :
           rem'[r].status = "completed" /\ rem[r].status # "completed" =>
             \E a \in Attempt : /\ att[a].of = r /\ Claimed(a)
                                /\ att'[a].status = "played"
                                /\ a \in conn[att[a].session].device]_vars
  BY StatusMoves DEF Moves, Heard
<1> QED
  BY <1>1, Invariance, PTL DEF Spec, CompletedWasHeard

(* bump_schedule_revision follows every way out of the schedule, and a     *)
(* terminal status is final.                                               *)
THEOREM RevisionFollows == Spec => LeavesWithRevision
<1>1. RemInv /\ [Next]_vars =>
        [\A r \in Reminder :
           rem[r].status # "none" /\ rem'[r].status # rem[r].status =>
             rem[r].status = "pending" /\ revision' > revision]_vars
  BY StatusMoves DEF Moves
<1> QED
  BY <1>1, Invariance, PTL DEF Spec, LeavesWithRevision
=============================================================================
