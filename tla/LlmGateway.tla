------------------------------ MODULE LlmGateway ------------------------------
(***************************************************************************)
(* The LLM gateway hub (services/llm_gateway/hub): accounts kept twice, as *)
(* rows of llm_gateway_accounts and as the snapshot in memory that leases  *)
(* are taken from.  Every operation that changes an account reads the      *)
(* snapshot, awaits the database or the provider, and writes the snapshot  *)
(* last; only renewals of one account exclude one another.                 *)
(*                                                                         *)
(* A task of the runtime is a program counter that stops at each await.    *)
(* The bundles of an account are numbered as the provider issues them: an  *)
(* exchange spends the newest one, as the providers with rotating refresh  *)
(* tokens do.  Clock readings are flags: a bundle is about to expire, an   *)
(* account cools down.                                                     *)
(***************************************************************************)
EXTENDS Naturals, FiniteSets

CONSTANTS
  Key,        (* account keys; a key is never used for a second account    *)
  Task,       (* requests and calls that use the hub at the same time      *)
  Loop,       (* the task of the proactive renewal loop                    *)
  None,       (* no task: a refresh lock is free                           *)
  MaxBundles, (* bound: bundles the provider issues to one account         *)
  MaxOps,     (* bound: operations other than the renewal loop             *)
  MaxCuts     (* bound: crashes, failed writes, answers lost, callers gone *)

ASSUME GatewayAssumption ==
  /\ Loop \in Task /\ None \notin Task
  /\ MaxBundles \in Nat \ {0} /\ MaxOps \in Nat /\ MaxCuts \in Nat

VARIABLES
  row,      (* per key: the row of llm_gateway_accounts                    *)
  ram,      (* per key: the LoadedGatewayAccount of the snapshot           *)
  lock,     (* per key: who holds its entry of refresh_locks               *)
  task,     (* per task: where it is and what it copied                    *)
  due,      (* what the pass of the renewal loop still has to visit        *)
  issued,   (* per key: the newest bundle; 0 before the account exists     *)
  aged,     (* per key: bundles up to this one are about to expire         *)
  lost,     (* per key: how the newest bundle was lost, if it was          *)
  left      (* what remains of MaxOps and MaxCuts                          *)
vars == <<row, ram, lock, task, due, issued, aged, lost, left>>

Bundle == 0..MaxBundles
Status == {"active", "reauth", "disabled"}

Absent == [there |-> FALSE, enabled |-> FALSE, status |-> "disabled",
           bundle |-> 0, expiry |-> 0, cooling |-> FALSE]
Fresh(b) == [there |-> TRUE, enabled |-> TRUE, status |-> "active",
             bundle |-> b, expiry |-> b, cooling |-> FALSE]
NoEdit == [enabled |-> FALSE, status |-> "disabled", toggled |-> FALSE]
Idle(k) == [pc |-> "idle", op |-> "pass", key |-> k, bundle |-> 0, limit |-> 0,
            again |-> FALSE, edit |-> NoEdit]

Init ==
  /\ issued \in [Key -> {0, 1}]
  /\ row = [k \in Key |-> IF issued[k] = 0 THEN Absent ELSE Fresh(1)]
  /\ ram = row
  /\ lock = [k \in Key |-> None]
  /\ \E k \in Key : task = [t \in Task |-> Idle(k)]
  /\ due = {}
  /\ aged = [k \in Key |-> 0]
  /\ lost = [k \in Key |-> {}]
  /\ left = [ops |-> MaxOps, cuts |-> MaxCuts]

-----------------------------------------------------------------------------
(* What the operations share.                                              *)

At(t, pc) == task[t].pc = pc
Move(t, pc) == task' = [task EXCEPT ![t].pc = pc]
Done(t) == task' = [task EXCEPT ![t] = Idle(@.key)]
Fails == left.cuts > 0 /\ left' = [left EXCEPT !.cuts = @ - 1]

(* is_ready_for_lease, which is also what a lease by account asks.         *)
Leasable(a) == a.there /\ a.enabled /\ a.status = "active" /\ ~a.cooling
Ready(k) == Leasable(ram[k])
Expiring(k) == ram[k].expiry <= aged[k]

(* A status after a renewal: the flag of the same store decides.           *)
StatusAlwaysActive(a) == "active"
RenewedStatus(a) == IF a.enabled THEN "active" ELSE "disabled"

(* An operation begins; the loop is none of them.                          *)
Starts(t, k, op, pc) ==
  /\ t # Loop /\ At(t, "idle") /\ left.ops > 0
  /\ task' = [task EXCEPT ![t] =
       [Idle(k) EXCEPT !.pc = pc, !.op = op,
          !.bundle = IF op = "chat" THEN ram[k].bundle ELSE 0,
          !.limit = IF op = "quota" THEN aged[k] ELSE 0]]
  /\ left' = [left EXCEPT !.ops = @ - 1]

-----------------------------------------------------------------------------
(* The renewal loop: proactive_refresh_expiring.                           *)

DueKeys == {k \in Key : Ready(k) /\ Expiring(k)}

(* A tick collects the accounts that expire, with the threshold of now.    *)
Tick ==
  /\ At(Loop, "idle") /\ due = {} /\ DueKeys # {}
  /\ due' = {[key |-> k, limit |-> aged[k]] : k \in DueKeys}
  /\ UNCHANGED <<row, ram, lock, task, issued, aged, lost, left>>

VisitDue ==
  /\ At(Loop, "idle")
  /\ \E d \in due :
       /\ due' = due \ {d}
       /\ task' = [task EXCEPT ![Loop] =
                    [Idle(d.key) EXCEPT !.pc = "waits", !.limit = d.limit]]
  /\ UNCHANGED <<row, ram, lock, issued, aged, lost, left>>

-----------------------------------------------------------------------------
(* A renewal: refresh_account_internal and try_refresh_on_unauthorized.    *)

(* The double check under the lock: somebody else has renewed already.     *)
RenewedAtThreshold(t) ==
  LET k == task[t].key IN
  \/ task[t].op = "pass" /\ ram[k].expiry >= task[t].limit
  \/ task[t].op = "chat" /\ ram[k].bundle # task[t].bundle
RenewedMeanwhile(t) ==
  LET k == task[t].key IN
  \/ /\ \/ task[t].op = "pass"
        \/ task[t].op = "quota" /\ ~task[t].again
     /\ ram[k].expiry > task[t].limit
  \/ task[t].op = "chat" /\ ram[k].bundle # task[t].bundle

(* What the caller does with the result, given the account as it then is.  *)
(* A quota request renews first and again after a 401; a call asks for a   *)
(* lease of the same account.                                              *)
Continue(t, ok, a) ==
  LET op == task[t].op IN
  CASE op = "quota" /\ (ok \/ ~task[t].again) -> Move(t, "fetches")
    [] op = "chat" /\ ok /\ Leasable(a) ->
         task' = [task EXCEPT ![t].pc = "calls", ![t].again = TRUE,
                              ![t].bundle = a.bundle]
    [] op = "chat" /\ ~(ok /\ Leasable(a)) -> Move(t, "rejected")
    [] OTHER -> Done(t)

(* The lock is taken and the bundle read under it, up to the next await.   *)
LockHeldByNobody(t) == TRUE
LockIsFree(t) == lock[task[t].key] = None
TakeLock(t) ==
  LET k == task[t].key IN
  /\ At(t, "waits") /\ LockIsFree(t)
  /\ \/ /\ ram[k].there /\ ~RenewedMeanwhile(t)
        /\ lock' = [lock EXCEPT ![k] = t]
        /\ task' = [task EXCEPT ![t].pc = "exchanges", ![t].limit = 0,
                                ![t].bundle = ram[k].bundle]
     \/ /\ ~ram[k].there \/ RenewedMeanwhile(t)
        /\ Continue(t, ram[k].there, ram[k])
        /\ UNCHANGED lock
  /\ UNCHANGED <<row, ram, due, issued, aged, lost, left>>

(* The provider takes the bundle and issues the next one.                  *)
Spends(t) == /\ task[t].bundle = issued[task[t].key]
             /\ issued[task[t].key] < MaxBundles

(* driver.refresh_token: a new bundle, a refusal, or an answer that never  *)
(* comes although the provider has spent the old one.                      *)
Exchange(t) ==
  LET k == task[t].key IN
  /\ At(t, "exchanges")
  /\ \/ /\ Spends(t)
        /\ issued' = [issued EXCEPT ![k] = @ + 1]
        /\ task' = [task EXCEPT ![t].pc = "stores", ![t].bundle = issued[k] + 1]
        /\ UNCHANGED <<lost, left>>
     \/ /\ Spends(t) /\ Fails
        /\ issued' = [issued EXCEPT ![k] = @ + 1]
        /\ lost' = [lost EXCEPT ![k] = @ \union {"answer"}]
        /\ Move(t, "marks")
     \/ /\ Move(t, "marks")
        /\ UNCHANGED <<issued, lost, left>>
  /\ UNCHANGED <<row, ram, lock, due, aged>>

Release(t) ==
  lock' = IF lock[task[t].key] = t THEN [lock EXCEPT ![task[t].key] = None]
          ELSE lock

(* persist_refreshed_bundle: the row, which may refuse.                    *)
StoreRow(t) ==
  LET k == task[t].key IN
  /\ At(t, "stores")
  /\ \/ /\ row' = IF ~row[k].there THEN row
                  ELSE [row EXCEPT ![k].bundle = task[t].bundle,
                                   ![k].expiry = task[t].bundle,
                                   ![k].status = RenewedStatus(row[k])]
        /\ Move(t, "publishes")
        /\ UNCHANGED <<lock, lost, left>>
     \/ /\ Fails
        /\ lost' = [lost EXCEPT ![k] = @ \union {"write"}]
        /\ Continue(t, FALSE, ram[k]) /\ Release(t)
        /\ UNCHANGED row
  /\ UNCHANGED <<ram, due, issued, aged>>

(* ... and then the snapshot.                                              *)
Renewed(a, b) ==
  [a EXCEPT !.bundle = b, !.expiry = b, !.status = RenewedStatus(a),
            !.cooling = FALSE]
PublishBundle(t) ==
  LET k == task[t].key
      a == IF ram[k].there THEN Renewed(ram[k], task[t].bundle) ELSE ram[k]
  IN
  /\ At(t, "publishes")
  /\ ram' = [ram EXCEPT ![k] = a]
  /\ Continue(t, a.there, a) /\ Release(t)
  /\ UNCHANGED <<row, due, issued, aged, lost, left>>

(* mark_account_reauth_required: a failed write of the row is ignored.     *)
MarkRow(t) ==
  LET k == task[t].key IN
  /\ At(t, "marks")
  /\ \/ /\ row' = IF row[k].there THEN [row EXCEPT ![k].status = "reauth"]
                  ELSE row
        /\ UNCHANGED left
     \/ Fails /\ UNCHANGED row
  /\ Move(t, "withdraws")
  /\ UNCHANGED <<ram, lock, due, issued, aged, lost>>

MarkRam(t) ==
  LET k == task[t].key IN
  /\ At(t, "withdraws")
  /\ ram' = IF ram[k].there THEN [ram EXCEPT ![k].status = "reauth"] ELSE ram
  /\ IF lock[k] = t THEN Continue(t, FALSE, ram[k]) ELSE Done(t)
  /\ Release(t)
  /\ UNCHANGED <<row, due, issued, aged, lost, left>>

(* refresh_account_now.                                                    *)
StartRenewal(t, k) ==
  /\ ram[k].there
  /\ Starts(t, k, "now", "waits")
  /\ UNCHANGED <<row, ram, lock, due, issued, aged, lost>>

-----------------------------------------------------------------------------
(* A model call on a lease (chat.rs): one renewal and one retry after 401. *)

StartCall(t, k) ==
  /\ Ready(k)
  /\ Starts(t, k, "chat", "calls")
  /\ UNCHANGED <<row, ram, lock, due, issued, aged, lost>>

(* report_outcome changes the snapshot alone.                              *)
Cool(k, flag) ==
  ram' = IF ram[k].there THEN [ram EXCEPT ![k].cooling = flag] ELSE ram
Unauthorized(k) ==
  ram' = IF ram[k].there THEN [ram EXCEPT ![k].status = "reauth"] ELSE ram

CallAnswered(t) ==
  LET k == task[t].key IN
  /\ At(t, "calls")
  /\ \/ \E limited \in BOOLEAN : Cool(k, limited) /\ Done(t)
     \/ UNCHANGED ram /\ Done(t)
     \/ ~task[t].again /\ UNCHANGED ram /\ Move(t, "waits")
     \/ task[t].again /\ Unauthorized(k) /\ Done(t)
  /\ UNCHANGED <<row, lock, due, issued, aged, lost, left>>

ReportUnauthorized(t) ==
  /\ At(t, "rejected")
  /\ Unauthorized(task[t].key) /\ Done(t)
  /\ UNCHANGED <<row, lock, due, issued, aged, lost, left>>

-----------------------------------------------------------------------------
(* A quota request: get_account_quota.                                     *)

StartQuota(t, k) ==
  /\ ram[k].there
  /\ Starts(t, k, "quota", IF Expiring(k) THEN "waits" ELSE "fetches")
  /\ UNCHANGED <<row, ram, lock, due, issued, aged, lost>>

(* persist_discovered_context_id: when the answer names a context the      *)
(* bundle is copied here, to be written back with it under no lock.        *)
Discover(t) ==
  LET k == task[t].key IN
  \/ Done(t)
  \/ /\ ram[k].there
     /\ task' = [task EXCEPT ![t].pc = "binds", ![t].bundle = ram[k].bundle]

(* fetch_quota fails, is refused (once: renew and fetch again; twice: mark *)
(* the account), or proves the token valid, which clears a stale mark.     *)
QuotaAnswered(t) ==
  LET k == task[t].key
      stale == ram[k].status = "reauth"
  IN
  /\ At(t, "fetches")
  /\ \/ Done(t) /\ UNCHANGED ram
     \/ /\ ram[k].there /\ ~task[t].again
        /\ task' = [task EXCEPT ![t].pc = "waits", ![t].again = TRUE]
        /\ UNCHANGED ram
     \/ ram[k].there /\ task[t].again /\ Move(t, "marks") /\ UNCHANGED ram
     \/ ram[k].there /\ ~stale /\ Discover(t) /\ UNCHANGED ram
     \/ /\ ram[k].there /\ stale
        /\ ram' = [ram EXCEPT ![k].status = RenewedStatus(ram[k])]
        /\ Move(t, "clears")
  /\ UNCHANGED <<row, lock, due, issued, aged, lost, left>>

(* clear_stale_unauthorized_on_valid_token, the row.                       *)
ClearRow(t) ==
  LET k == task[t].key IN
  /\ At(t, "clears")
  /\ \/ /\ row' = IF row[k].there /\ row[k].status = "reauth"
                  THEN [row EXCEPT ![k].status = RenewedStatus(row[k])] ELSE row
        /\ UNCHANGED left
     \/ Fails /\ UNCHANGED row
  /\ Discover(t)
  /\ UNCHANGED <<ram, lock, due, issued, aged, lost>>

Overwrites(a, b) == IF a.there /\ a.bundle > b THEN {"overwrite"} ELSE {}

BindRow(t) ==
  LET k == task[t].key  b == task[t].bundle IN
  /\ At(t, "binds")
  /\ \/ /\ row' = IF row[k].there THEN [row EXCEPT ![k].bundle = b] ELSE row
        /\ lost' = [lost EXCEPT ![k] = @ \union Overwrites(row[k], b)]
        /\ UNCHANGED left
     \/ Fails /\ UNCHANGED <<row, lost>>
  /\ Move(t, "bound")
  /\ UNCHANGED <<ram, lock, due, issued, aged>>

BindRam(t) ==
  LET k == task[t].key  b == task[t].bundle IN
  /\ At(t, "bound")
  /\ ram' = IF ram[k].there THEN [ram EXCEPT ![k].bundle = b] ELSE ram
  /\ lost' = [lost EXCEPT ![k] = @ \union Overwrites(ram[k], b)]
  /\ Done(t)
  /\ UNCHANGED <<row, lock, due, issued, aged, left>>

-----------------------------------------------------------------------------
(* The administrator: update_account, delete_account, a login completed.   *)

(* The next status, from the snapshot as it was read before the write.     *)
NextStatus(a, enabled, toggled) ==
  IF ~enabled THEN "disabled"
  ELSE IF a.status = "disabled" \/ (toggled /\ a.status = "reauth")
  THEN "active" ELSE a.status

StartEdit(t, k, enabled, toggled) ==
  /\ ram[k].there
  /\ ~toggled => enabled = ram[k].enabled
  /\ t # Loop /\ At(t, "idle") /\ left.ops > 0
  /\ task' = [task EXCEPT ![t] =
       [Idle(k) EXCEPT !.pc = "edits", !.op = "edit",
          !.edit = [enabled |-> enabled, toggled |-> toggled,
                    status |-> NextStatus(ram[k], enabled, toggled)]]]
  /\ left' = [left EXCEPT !.ops = @ - 1]
  /\ UNCHANGED <<row, ram, lock, due, issued, aged, lost>>

Edited(a, e) == [a EXCEPT !.enabled = e.enabled, !.status = e.status]
EditRow(t) ==
  LET k == task[t].key IN
  /\ At(t, "edits")
  /\ \/ /\ row' = IF row[k].there
                  THEN [row EXCEPT ![k] = Edited(@, task[t].edit)] ELSE row
        /\ Move(t, "edited")
        /\ UNCHANGED left
     \/ Fails /\ Done(t) /\ UNCHANGED row
  /\ UNCHANGED <<ram, lock, due, issued, aged, lost>>

EditRam(t) ==
  LET k == task[t].key  e == task[t].edit IN
  /\ At(t, "edited")
  /\ ram' = IF ~ram[k].there THEN ram
            ELSE [ram EXCEPT ![k] =
                   [Edited(@, e) EXCEPT !.cooling = ram[k].cooling /\ ~e.toggled]]
  /\ Done(t)
  /\ UNCHANGED <<row, lock, due, issued, aged, lost, left>>

StartDelete(t, k) ==
  /\ ram[k].there
  /\ Starts(t, k, "delete", "deletes")
  /\ UNCHANGED <<row, ram, lock, due, issued, aged, lost>>

DeleteRow(t) ==
  /\ At(t, "deletes")
  /\ \/ /\ row' = [row EXCEPT ![task[t].key] = Absent]
        /\ Move(t, "deleted")
        /\ UNCHANGED left
     \/ Fails /\ Done(t) /\ UNCHANGED row
  /\ UNCHANGED <<ram, lock, due, issued, aged, lost>>

(* The entry of refresh_locks goes too; who waits on it finds no account.  *)
DeleteRam(t) ==
  LET k == task[t].key IN
  /\ At(t, "deleted")
  /\ ram' = [ram EXCEPT ![k] = Absent]
  /\ lock' = [lock EXCEPT ![k] = None]
  /\ Done(t)
  /\ UNCHANGED <<row, due, issued, aged, lost, left>>

(* save_new_account, for a key that was never used.                        *)
StartConnect(t, k) ==
  /\ issued[k] = 0
  /\ Starts(t, k, "connect", "inserts")
  /\ issued' = [issued EXCEPT ![k] = 1]
  /\ UNCHANGED <<row, ram, lock, due, aged, lost>>

InsertRow(t) ==
  /\ At(t, "inserts")
  /\ \/ /\ row' = [row EXCEPT ![task[t].key] = Fresh(1)]
        /\ Move(t, "inserted")
        /\ UNCHANGED left
     \/ Fails /\ Done(t) /\ UNCHANGED row
  /\ UNCHANGED <<ram, lock, due, issued, aged, lost>>

InsertRam(t) ==
  /\ At(t, "inserted")
  /\ ram' = [ram EXCEPT ![task[t].key] = Fresh(1)]
  /\ Done(t)
  /\ UNCHANGED <<row, lock, due, issued, aged, lost, left>>

ClearCooldown(k) ==
  /\ ram[k].there /\ ram[k].cooling
  /\ Cool(k, FALSE)
  /\ UNCHANGED <<row, lock, task, due, issued, aged, lost, left>>

-----------------------------------------------------------------------------
(* Time and the process.                                                   *)

Ages(k) ==
  /\ aged[k] < issued[k]
  /\ aged' = [aged EXCEPT ![k] = @ + 1]
  /\ UNCHANGED <<row, ram, lock, task, due, issued, lost, left>>

(* The process stops anywhere; the next one loads the snapshot from the    *)
(* rows (reload_snapshot) before it serves anybody.                        *)
Restart ==
  /\ Fails
  /\ ram' = row
  /\ lock' = [k \in Key |-> None]
  /\ task' = [t \in Task |-> Idle(task[t].key)]
  /\ due' = {}
  /\ lost' = [k \in Key |->
       IF \E t \in Task : task[t].key = k /\ At(t, "stores")
       THEN lost[k] \union {"crash"} ELSE lost[k]]
  /\ UNCHANGED <<row, issued, aged>>

(* Only the loop is a task of the runtime.  Any other future is dropped at *)
(* an await when the deadline of its model call passes or its client hangs *)
(* up: a statement under way is done (the pc behind it) or not, the lock   *)
(* goes with its guard, and an exchange under way may have spent a bundle. *)
Drops(t) == lost' = [lost EXCEPT ![task[t].key] = @ \union {"drop"}]
Dropped(t) ==
  /\ t # Loop /\ task[t].pc \notin {"idle", "rejected"} /\ Fails
  /\ \/ /\ At(t, "exchanges") /\ Spends(t)
        /\ issued' = [issued EXCEPT ![task[t].key] = @ + 1]
        /\ Drops(t)
     \/ /\ IF task[t].pc \in {"stores", "publishes"} THEN Drops(t)
           ELSE UNCHANGED lost
        /\ UNCHANGED issued
  /\ Done(t) /\ Release(t)
  /\ UNCHANGED <<row, ram, due, aged>>

Begin(t) ==
  \E k \in Key :
    \/ StartRenewal(t, k) \/ StartCall(t, k) \/ StartQuota(t, k)
    \/ \E enabled, toggled \in BOOLEAN : StartEdit(t, k, enabled, toggled)
    \/ StartDelete(t, k) \/ StartConnect(t, k)

Progress(t) ==
  \/ Exchange(t) \/ StoreRow(t) \/ PublishBundle(t)
  \/ MarkRow(t) \/ MarkRam(t)
  \/ CallAnswered(t) \/ ReportUnauthorized(t)
  \/ QuotaAnswered(t) \/ ClearRow(t) \/ BindRow(t) \/ BindRam(t)
  \/ EditRow(t) \/ EditRam(t) \/ DeleteRow(t) \/ DeleteRam(t)
  \/ InsertRow(t) \/ InsertRam(t)

(* Nothing is under way: waiting for a request is no deadlock.             *)
Rests ==
  /\ \A t \in Task : At(t, "idle")
  /\ due = {} /\ DueKeys = {}
  /\ UNCHANGED vars

Next ==
  \/ Tick \/ VisitDue
  \/ \E t \in Task : Begin(t) \/ TakeLock(t) \/ Progress(t) \/ Dropped(t)
  \/ \E k \in Key : ClearCooldown(k) \/ Ages(k)
  \/ Restart
  \/ Rests

Spec == Init /\ [][Next]_vars

(* The loop ticks, requests to providers and database end by their         *)
(* timeouts, and the refresh lock is a fair mutex: the loop gets its turn. *)
(* Nothing has to be asked for, and other waiters need no turn.            *)
FairSpec ==
  /\ Spec
  /\ WF_vars(Tick \/ VisitDue) /\ SF_vars(TakeLock(Loop))
  /\ \A t \in Task : WF_vars(Progress(t))

-----------------------------------------------------------------------------
(* Properties.                                                             *)

Account == [there : BOOLEAN, enabled : BOOLEAN, status : Status,
            bundle : Bundle, expiry : Bundle, cooling : BOOLEAN]
PC == {"idle", "waits", "exchanges", "stores", "publishes", "marks",
       "withdraws", "calls", "rejected", "fetches", "clears",
       "binds", "bound", "edits", "edited", "deletes", "deleted", "inserts",
       "inserted"}
Op == {"pass", "now", "chat", "quota", "edit", "delete", "connect"}

(* The hub's two stores, locks and tasks have the shape the code declares. *)
TypeOK ==
  /\ row \in [Key -> Account] /\ ram \in [Key -> Account]
  /\ lock \in [Key -> Task \union {None}]
  /\ task \in [Task -> [pc : PC, op : Op, key : Key, bundle : Bundle,
                        limit : Bundle, again : BOOLEAN,
                        edit : [enabled : BOOLEAN, status : Status,
                                toggled : BOOLEAN]]]
  /\ due \in SUBSET [key : Key, limit : Bundle]
  /\ issued \in [Key -> Bundle] /\ aged \in [Key -> Bundle]
  /\ lost \in [Key -> SUBSET {"answer", "write", "crash", "overwrite", "drop"}]
  /\ left \in [ops : 0..MaxOps, cuts : 0..MaxCuts]

(* While an exchanged bundle is on its way into the stores.                *)
Storing(k, pcs) == \E t \in Task : task[t].key = k /\ task[t].pc \in pcs

(* Single-flight renewal (refresh.rs): the provider is never offered a     *)
(* bundle that was spent, and once the renewal has returned both the       *)
(* snapshot and the row, from which a restart loads, hold the newest one;  *)
(* unless a bundle was lost: with the answer, to a failed write or a crash *)
(* before the row, under an older one written back, or with its caller.    *)
BundleKept ==
  \A k \in Key : lost[k] = {} =>
    /\ \A t \in Task : task[t].key = k /\ At(t, "exchanges")
                       => task[t].bundle = issued[k]
    /\ ram[k].there /\ ~Storing(k, {"stores", "publishes"})
       => ram[k].bundle = issued[k]
    /\ row[k].there /\ ~Storing(k, {"stores"}) => row[k].bundle = issued[k]

(* The status agrees with the enabled flag in both stores, whatever edits, *)
(* renewals, marks and quota requests race on the account (accounts.rs,    *)
(* refresh.rs, runtime_credentials.rs): no enabled account is refused as   *)
(* disabled and none that is switched off counts as active.                *)
StatusFollowsEnabled ==
  \A k \in Key : \A a \in {row[k], ram[k]} :
    a.there => (a.enabled => a.status # "disabled")
            /\ (~a.enabled => a.status # "active")

(* An account that is offered for leases although its bundle expires is    *)
(* renewed, withdrawn or cooled down (proactive_refresh_expiring).         *)
ExpiringIsHandled == \A k \in Key : (Ready(k) /\ Expiring(k)) ~>
                                      ~(Ready(k) /\ Expiring(k))

(* A renewal's result is never overwritten with an older bundle.           *)
RenewalSurvives == \A k \in Key : "overwrite" \notin lost[k]

(* A renewal offers the bundle of the row, when the row has the newest one,*)
(* although the caller of an earlier renewal is gone.                      *)
RowIsOffered ==
  \A t \in Task : LET k == task[t].key IN
    At(t, "exchanges") /\ lost[k] \subseteq {"drop"} /\ row[k].bundle = issued[k]
      => task[t].bundle = issued[k]

(* When nothing is under way, snapshot and row agree on what is enabled.   *)
EnabledAgrees ==
  (\A t \in Task : At(t, "idle")) =>
    \A k \in Key : ram[k].there /\ row[k].there =>
      ram[k].enabled = row[k].enabled
==============================================================================
