--------------------------- MODULE LlmGateway_proofs ---------------------------
(***************************************************************************)
(* What the gateway's hub keeps for every number of accounts, concurrent   *)
(* requests, bundles, operations, crashes, failed writes and callers that  *)
(* hang up: the types, the agreement of status and flag, and the newest    *)
(* bundle.                                                                 *)
(*                                                                         *)
(* BundleKept rests on mutual exclusion of renewals (OneRenewal), which a  *)
(* deletion does not break although it removes the lock (HeldWhileThere),  *)
(* because a key is never given to a second account (Unborn, Inserting).   *)
(***************************************************************************)
EXTENDS LlmGateway, TLAPS

TaskRec == [pc : PC, op : Op, key : Key, bundle : Bundle, limit : Bundle,
            again : BOOLEAN,
            edit : [enabled : BOOLEAN, status : Status, toggled : BOOLEAN]]

(* Where a task stops with an exchange begun and its result not stored.    *)
Renewing == {"exchanges", "stores", "publishes"}
Renews(t, k) == task[t].key = k /\ task[t].pc \in Renewing

OneRenewal == \A t, u \in Task : \A k \in Key :
                Renews(t, k) /\ Renews(u, k) => t = u
HeldWhileThere == \A t \in Task : \A k \in Key :
                    Renews(t, k) /\ ram[k].there => lock[k] = t

(* Nobody is busy with the key, except perhaps one task.                   *)
Unused(k, but) == /\ \A t \in Task \ but : task[t].key = k => At(t, "idle")
                  /\ \A d \in due : d.key # k
Unborn == \A k \in Key : issued[k] = 0 =>
            ~ram[k].there /\ ~row[k].there /\ Unused(k, {})
Inserting == \A t \in Task : task[t].pc \in {"inserts", "inserted"} =>
               /\ issued[task[t].key] = 1 /\ ~ram[task[t].key].there
               /\ Unused(task[t].key, {t})

NoneNewer == \A k \in Key :
  /\ ram[k].bundle <= issued[k] /\ row[k].bundle <= issued[k]
  /\ \A t \in Task : task[t].key = k => task[t].bundle <= issued[k]

NewestHeld == \A k \in Key : lost[k] = {} =>
  /\ \A t \in Task : Renews(t, k) => task[t].bundle = issued[k]
  /\ ram[k].there /\ ~Storing(k, {"stores", "publishes"})
     => ram[k].bundle = issued[k]
  /\ row[k].there /\ ~Storing(k, {"stores"}) => row[k].bundle = issued[k]

-----------------------------------------------------------------------------
(* Type correctness.                                                       *)

LEMMA ContinueTypes ==
  ASSUME TypeOK, NEW t \in Task, NEW ok \in BOOLEAN, NEW a \in Account,
         Continue(t, ok, a)
  PROVE  \E r \in TaskRec :
           /\ task' = [task EXCEPT ![t] = r] /\ r.key = task[t].key
           /\ r.pc \in {"idle", "fetches", "calls", "rejected"}
           /\ r.bundle \in {0, task[t].bundle, a.bundle}
<1>0. task \in [Task -> TaskRec] BY DEF TypeOK, TaskRec
<1>1. CASE task' = [task EXCEPT ![t].pc = "fetches"]
  <2> DEFINE r == [task[t] EXCEPT !.pc = "fetches"]
  <2>1. r \in TaskRec /\ r.key = task[t].key /\ r.bundle = task[t].bundle
        /\ r.pc = "fetches"
    BY <1>0 DEF TaskRec, PC
  <2>2. task' = [task EXCEPT ![t] = r] BY <1>0, <1>1
  <2> QED BY <2>1, <2>2
<1>2. CASE task' = [task EXCEPT ![t].pc = "rejected"]
  <2> DEFINE r == [task[t] EXCEPT !.pc = "rejected"]
  <2>1. r \in TaskRec /\ r.key = task[t].key /\ r.bundle = task[t].bundle
        /\ r.pc = "rejected"
    BY <1>0 DEF TaskRec, PC
  <2>2. task' = [task EXCEPT ![t] = r] BY <1>0, <1>2
  <2> QED BY <2>1, <2>2
<1>3. CASE task' = [task EXCEPT ![t] = Idle(@.key)]
  <2> DEFINE r == Idle(task[t].key)
  <2>1. r \in TaskRec /\ r.key = task[t].key /\ r.bundle = 0 /\ r.pc = "idle"
    BY <1>0, GatewayAssumption
       DEF TaskRec, PC, Op, Idle, NoEdit, Bundle, Status
  <2>2. task' = [task EXCEPT ![t] = r] BY <1>0, <1>3
  <2> QED BY <2>1, <2>2
<1>4. CASE task' = [task EXCEPT ![t].pc = "calls", ![t].again = TRUE,
                                ![t].bundle = a.bundle]
  <2> DEFINE r == [task[t] EXCEPT !.pc = "calls", !.again = TRUE,
                                  !.bundle = a.bundle]
  <2>1. r \in TaskRec /\ r.key = task[t].key /\ r.bundle = a.bundle
        /\ r.pc = "calls"
    BY <1>0 DEF TaskRec, PC, Account
  <2>2. task' = [task EXCEPT ![t] = r] BY <1>0, <1>4
  <2> QED BY <2>1, <2>2
<1> QED BY <1>1, <1>2, <1>3, <1>4 DEF Continue, Move, Done

(* The other moves of a task, as the record it is left with.               *)
LEMMA MoveTypes ==
  ASSUME TypeOK, NEW t \in Task, NEW pc \in PC, Move(t, pc)
  PROVE  \E r \in TaskRec : /\ task' = [task EXCEPT ![t] = r]
                            /\ r.key = task[t].key /\ r.pc = pc
                            /\ r.bundle = task[t].bundle
<1> DEFINE r == [task[t] EXCEPT !.pc = pc]
<1>0. task \in [Task -> TaskRec] BY DEF TypeOK, TaskRec
<1>1. r \in TaskRec /\ r.key = task[t].key /\ r.bundle = task[t].bundle
      /\ r.pc = pc
  BY <1>0 DEF TaskRec
<1>2. task' = [task EXCEPT ![t] = r] BY <1>0 DEF Move
<1> QED BY <1>1, <1>2

LEMMA DoneTypes ==
  ASSUME TypeOK, NEW t \in Task, Done(t)
  PROVE  \E r \in TaskRec : /\ task' = [task EXCEPT ![t] = r]
                            /\ r.key = task[t].key /\ r.pc = "idle"
                            /\ r.bundle = 0
<1> DEFINE r == Idle(task[t].key)
<1>0. task \in [Task -> TaskRec] BY DEF TypeOK, TaskRec
<1>1. r \in TaskRec /\ r.key = task[t].key /\ r.bundle = 0 /\ r.pc = "idle"
  BY <1>0, GatewayAssumption DEF TaskRec, PC, Op, Idle, NoEdit, Bundle, Status
<1>2. task' = [task EXCEPT ![t] = r] BY <1>0 DEF Done
<1> QED BY <1>1, <1>2

LEMMA StartTypes ==
  ASSUME TypeOK, NEW t \in Task, NEW k \in Key, NEW op \in Op, NEW pc \in PC,
         Starts(t, k, op, pc)
  PROVE  /\ \E r \in TaskRec : /\ task' = [task EXCEPT ![t] = r]
                               /\ r.key = k /\ r.pc = pc
                               /\ r.bundle \in {0, ram[k].bundle}
         /\ left' \in [ops : 0..MaxOps, cuts : 0..MaxCuts]
         /\ At(t, "idle")
<1> DEFINE r == [Idle(k) EXCEPT !.pc = pc, !.op = op,
                   !.bundle = IF op = "chat" THEN ram[k].bundle ELSE 0,
                   !.limit = IF op = "quota" THEN aged[k] ELSE 0]
<1>0. /\ task \in [Task -> TaskRec] /\ ram[k].bundle \in Bundle
      /\ aged[k] \in Bundle /\ 0 \in Bundle
  BY GatewayAssumption DEF TypeOK, TaskRec, Account, Bundle
<1>1. r \in TaskRec /\ r.key = k /\ r.bundle \in {0, ram[k].bundle}
      /\ r.pc = pc
  BY <1>0 DEF TaskRec, Op, Idle, NoEdit, Status
<1>2. task' = [task EXCEPT ![t] = r] BY <1>0 DEF Starts
<1>3. left' \in [ops : 0..MaxOps, cuts : 0..MaxCuts]
  BY GatewayAssumption DEF Starts, TypeOK
<1> QED BY <1>1, <1>2, <1>3 DEF Starts

LEMMA FailsTypes ==
  ASSUME TypeOK, Fails
  PROVE  left' \in [ops : 0..MaxOps, cuts : 0..MaxCuts]
BY GatewayAssumption DEF Fails, TypeOK

LEMMA ReleaseTypes ==
  ASSUME TypeOK, NEW t \in Task, Release(t)
  PROVE  /\ lock' \in [Key -> Task \union {None}]
         /\ \A k \in Key : lock'[k] = lock[k] \/ lock[k] = t
BY DEF Release, TypeOK

(* A store in which one account at most is replaced.                       *)
LEMMA StoreTypes ==
  ASSUME NEW s, s \in [Key -> Account], NEW k \in Key, NEW a \in Account,
         NEW s2, s2 = s \/ s2 = [s EXCEPT ![k] = a]
  PROVE  s2 \in [Key -> Account]
OBVIOUS

(* Every operation of a task leaves it with a record of the right type;    *)
(* what else that record is, the lemmas above say.                         *)
Moves(t) == \E r \in TaskRec : task' = [task EXCEPT ![t] = r]
StoresTyped == row' \in [Key -> Account] /\ ram' \in [Key -> Account]
LeftTyped == left' \in [ops : 0..MaxOps, cuts : 0..MaxCuts]
Loss == {"answer", "write", "crash", "overwrite", "drop"}
LostTyped == lost' \in [Key -> SUBSET Loss]
LockTyped == lock' \in [Key -> Task \union {None}]

LEMMA TypesFromParts ==
  ASSUME TypeOK, NEW t \in Task, Moves(t), StoresTyped, LeftTyped, LostTyped,
         LockTyped, due' \in SUBSET due, issued' \in [Key -> Bundle],
         aged' = aged
  PROVE  TypeOK'
<1>1. task' \in [Task -> TaskRec] BY DEF TypeOK, TaskRec, Moves
<1>2. due' \in SUBSET [key : Key, limit : Bundle] BY DEF TypeOK
<1>3. aged' \in [Key -> Bundle] BY DEF TypeOK
<1> QED
  BY <1>1, <1>2, <1>3
     DEF TypeOK, TaskRec, StoresTyped, LeftTyped, LostTyped, LockTyped,
         Loss

(* The facts about the current state that the steps need.                  *)
LEMMA Reads ==
  ASSUME TypeOK
  PROVE  /\ \A k \in Key : row[k] \in Account /\ ram[k] \in Account
         /\ \A k \in Key : issued[k] \in Bundle /\ aged[k] \in Bundle
         /\ \A t \in Task : task[t] \in TaskRec /\ task[t].key \in Key
                            /\ task[t].bundle \in Bundle
         /\ Bundle \subseteq Nat /\ 0 \in Bundle /\ 1 \in Bundle
         /\ UNCHANGED row => row' \in [Key -> Account]
         /\ UNCHANGED ram => ram' \in [Key -> Account]
         /\ UNCHANGED <<row, ram>> => StoresTyped
         /\ UNCHANGED left => LeftTyped
         /\ UNCHANGED lost => LostTyped
         /\ UNCHANGED lock => LockTyped
         /\ UNCHANGED issued => issued' \in [Key -> Bundle]
         /\ UNCHANGED due => due' \in SUBSET due
<1>1. \A t \in Task : task[t] \in TaskRec /\ task[t].key \in Key
                      /\ task[t].bundle \in Bundle
  BY DEF TypeOK, TaskRec
<1>2. Bundle \subseteq Nat /\ 0 \in Bundle /\ 1 \in Bundle
  BY GatewayAssumption DEF Bundle
<1>3. UNCHANGED <<row, ram>> => StoresTyped BY DEF TypeOK, StoresTyped
<1>4. /\ UNCHANGED left => LeftTyped
      /\ UNCHANGED lost => LostTyped
      /\ UNCHANGED lock => LockTyped
  BY DEF TypeOK, LeftTyped, LostTyped, LockTyped, Loss
<1> QED BY <1>1, <1>2, <1>3, <1>4 DEF TypeOK

LEMMA BeginTypes ==
  ASSUME TypeOK, NEW t \in Task, Begin(t)
  PROVE  TypeOK'
<1>1. PICK k \in Key :
        \/ StartRenewal(t, k) \/ StartCall(t, k) \/ StartQuota(t, k)
        \/ \E enabled, toggled \in BOOLEAN : StartEdit(t, k, enabled, toggled)
        \/ StartDelete(t, k) \/ StartConnect(t, k)
  BY DEF Begin
<1>2. ASSUME NEW op \in Op, NEW pc \in PC, Starts(t, k, op, pc),
             UNCHANGED <<row, ram, lock, due, aged, lost>>,
             issued' \in [Key -> Bundle]
      PROVE  TypeOK'
  <2>1. Moves(t) /\ LeftTyped BY <1>2, StartTypes DEF Moves, LeftTyped
  <2> QED BY <1>2, <2>1, Reads, TypesFromParts
<1>3. CASE StartRenewal(t, k)
  BY <1>2, <1>3, Reads DEF StartRenewal, Op, PC
<1>4. CASE StartCall(t, k)
  BY <1>2, <1>4, Reads DEF StartCall, Op, PC
<1>5. CASE StartQuota(t, k)
  <2>1. (IF Expiring(k) THEN "waits" ELSE "fetches") \in PC BY DEF PC
  <2> QED BY <1>2, <1>5, <2>1, Reads DEF StartQuota, Op
<1>6. ASSUME NEW enabled \in BOOLEAN, NEW toggled \in BOOLEAN,
             StartEdit(t, k, enabled, toggled)
      PROVE  TypeOK'
  <2> DEFINE s == NextStatus(ram[k], enabled, toggled)
             r == [Idle(k) EXCEPT !.pc = "edits", !.op = "edit",
                     !.edit = [enabled |-> enabled, toggled |-> toggled,
                               status |-> s]]
  <2>1. ram[k].status \in Status BY Reads DEF Account
  <2>2. s \in Status BY <2>1 DEF NextStatus, Status
  <2>3. r \in TaskRec
    BY <2>2, Reads DEF TaskRec, PC, Op, Idle
  <2>4. task' = [task EXCEPT ![t] = r] BY <1>6 DEF StartEdit
  <2>5. Moves(t) BY <2>3, <2>4 DEF Moves
  <2>6. LeftTyped
    BY <1>6, GatewayAssumption DEF StartEdit, TypeOK, LeftTyped
  <2> QED BY <1>6, <2>5, <2>6, Reads, TypesFromParts DEF StartEdit
<1>7. CASE StartDelete(t, k)
  BY <1>2, <1>7, Reads DEF StartDelete, Op, PC
<1>8. CASE StartConnect(t, k)
  <2>1. issued' \in [Key -> Bundle]
    BY <1>8, Reads DEF StartConnect, TypeOK
  <2> QED BY <1>2, <1>8, <2>1 DEF StartConnect, Op, PC
<1> QED BY <1>1, <1>3, <1>4, <1>5, <1>6, <1>7, <1>8

LEMMA TaskMoves ==
  ASSUME TypeOK, NEW t \in Task
  PROVE  /\ \A pc \in PC : Move(t, pc) => Moves(t)
         /\ Done(t) => Moves(t)
         /\ \A ok \in BOOLEAN : \A a \in Account : Continue(t, ok, a) => Moves(t)
         /\ Release(t) => LockTyped
         /\ Fails => LeftTyped
         /\ Discover(t) => Moves(t)
<1>1. \A pc \in PC : Move(t, pc) => Moves(t) BY MoveTypes DEF Moves
<1>2. Done(t) => Moves(t) BY DoneTypes DEF Moves
<1>3. \A ok \in BOOLEAN : \A a \in Account : Continue(t, ok, a) => Moves(t)
  BY ContinueTypes DEF Moves
<1>4. Release(t) => LockTyped BY ReleaseTypes DEF LockTyped
<1>5. Fails => LeftTyped BY FailsTypes DEF LeftTyped
<1>6. ASSUME task' = [task EXCEPT ![t].pc = "binds",
                                  ![t].bundle = ram[task[t].key].bundle]
      PROVE  Moves(t)
  <2> DEFINE r == [task[t] EXCEPT !.pc = "binds",
                                  !.bundle = ram[task[t].key].bundle]
  <2>1. r \in TaskRec BY Reads DEF TaskRec, PC, Account
  <2>2. task' = [task EXCEPT ![t] = r] BY <1>6 DEF TypeOK
  <2> QED BY <2>1, <2>2 DEF Moves
<1> QED BY <1>1, <1>2, <1>3, <1>4, <1>5, <1>6 DEF Discover

LEMMA LossTypes ==
  ASSUME TypeOK, NEW k \in Key,
         NEW S \in SUBSET Loss,
         lost' = [lost EXCEPT ![k] = @ \union S]
  PROVE  LostTyped
<1>1. lost[k] \union S \in SUBSET Loss
  BY DEF TypeOK, Loss
<1> QED BY <1>1 DEF TypeOK, LostTyped, Loss

LEMMA RenewalTypes ==
  ASSUME TypeOK, NEW t \in Task,
         TakeLock(t) \/ Exchange(t) \/ StoreRow(t) \/ PublishBundle(t)
         \/ MarkRow(t) \/ MarkRam(t)
  PROVE  TypeOK'
<1> DEFINE k == task[t].key
<1>0. /\ k \in Key /\ row[k] \in Account /\ ram[k] \in Account
      /\ task[t] \in TaskRec /\ task[t].bundle \in Bundle
      /\ row \in [Key -> Account] /\ ram \in [Key -> Account]
      /\ TRUE \in BOOLEAN /\ FALSE \in BOOLEAN
  BY Reads DEF TypeOK
<1>1. CASE TakeLock(t)
  <2>1. CASE task' = [task EXCEPT ![t].pc = "exchanges", ![t].limit = 0,
                                  ![t].bundle = ram[k].bundle]
             /\ lock' = [lock EXCEPT ![k] = t]
    <3> DEFINE r == [task[t] EXCEPT !.pc = "exchanges", !.limit = 0,
                                    !.bundle = ram[k].bundle]
    <3>1. r \in TaskRec BY <1>0, Reads DEF TaskRec, PC, Account
    <3>2. task' = [task EXCEPT ![t] = r] BY <2>1 DEF TypeOK
    <3>3. Moves(t) BY <3>1, <3>2 DEF Moves
    <3>4. LockTyped BY <2>1 DEF TypeOK, LockTyped
    <3> QED BY <1>1, <3>3, <3>4, Reads, TypesFromParts DEF TakeLock
  <2>2. CASE Continue(t, ram[k].there, ram[k]) /\ UNCHANGED lock
    <3>1. ram[k].there \in BOOLEAN BY <1>0 DEF Account
    <3>2. Moves(t) BY <1>0, <2>2, <3>1, TaskMoves
    <3> QED BY <1>1, <2>2, <3>2, Reads, TypesFromParts DEF TakeLock
  <2> QED BY <1>1, <2>1, <2>2 DEF TakeLock
<1>2. CASE Exchange(t)
  <2>1. issued' \in [Key -> Bundle]
    <3>1. issued[k] < MaxBundles => issued[k] + 1 \in Bundle
      BY <1>0, Reads, GatewayAssumption DEF Bundle
    <3> QED BY <1>2, <1>0, <3>1 DEF Exchange, Spends, TypeOK
  <2>2. LostTyped BY <1>2, <1>0 DEF Exchange, TypeOK, LostTyped, Loss
  <2>3. LeftTyped BY <1>2, TaskMoves, Reads DEF Exchange
  <2>4. Moves(t)
    <3>1. ASSUME issued[k] < MaxBundles,
                 task' = [task EXCEPT ![t].pc = "stores",
                                      ![t].bundle = issued[k] + 1]
          PROVE  Moves(t)
      <4> DEFINE r == [task[t] EXCEPT !.pc = "stores", !.bundle = issued[k] + 1]
      <4>1. issued[k] + 1 \in Bundle
        BY <1>0, <3>1, Reads, GatewayAssumption DEF Bundle
      <4>2. r \in TaskRec BY <1>0, <4>1 DEF TaskRec, PC
      <4>3. task' = [task EXCEPT ![t] = r] BY <3>1 DEF TypeOK
      <4> QED BY <4>2, <4>3 DEF Moves
    <3>2. Move(t, "marks") => Moves(t) BY TaskMoves DEF PC
    <3> QED BY <1>2, <3>1, <3>2 DEF Exchange, Spends
  <2> QED BY <1>2, <2>1, <2>2, <2>3, <2>4, Reads, TypesFromParts DEF Exchange
<1>3. CASE StoreRow(t)
  <2>1. row' \in [Key -> Account]
    <3> DEFINE a == [row[k] EXCEPT !.bundle = task[t].bundle,
                                   !.expiry = task[t].bundle,
                                   !.status = RenewedStatus(row[k])]
    <3>1. a \in Account BY <1>0 DEF Account, Status, RenewedStatus
    <3>2. row' = row \/ row' = [row EXCEPT ![k] = a]
      BY <1>3, <1>0 DEF StoreRow
    <3> QED BY <1>0, <3>1, <3>2, StoreTypes
  <2>2. StoresTyped BY <1>3, <2>1, Reads DEF StoreRow, StoresTyped
  <2>3. LostTyped
    <3>1. {"write"} \in SUBSET Loss BY DEF Loss
    <3> QED BY <1>3, <1>0, <3>1, LossTypes, Reads DEF StoreRow, Loss
  <2>4. LeftTyped /\ LockTyped BY <1>3, TaskMoves, Reads DEF StoreRow
  <2>5. Moves(t) BY <1>3, <1>0, TaskMoves DEF StoreRow, PC
  <2> QED BY <1>3, <2>2, <2>3, <2>4, <2>5, Reads, TypesFromParts DEF StoreRow
<1>4. CASE PublishBundle(t)
  <2> DEFINE a == IF ram[k].there THEN Renewed(ram[k], task[t].bundle)
                  ELSE ram[k]
  <2>1. a \in Account
    BY <1>0 DEF Renewed, Account, Status, RenewedStatus
  <2>2. a.there \in BOOLEAN BY <2>1 DEF Account
  <2>3. ram' = [ram EXCEPT ![k] = a] /\ Continue(t, a.there, a) /\ Release(t)
    BY <1>4 DEF PublishBundle
  <2>4. ram' \in [Key -> Account] BY <1>0, <2>1, <2>3, StoreTypes
  <2>5. StoresTyped BY <1>4, <2>4, Reads DEF PublishBundle, StoresTyped
  <2>6. Moves(t) /\ LockTyped BY <2>1, <2>2, <2>3, TaskMoves
  <2> QED BY <1>4, <2>5, <2>6, Reads, TypesFromParts DEF PublishBundle
<1>5. CASE MarkRow(t)
  <2>1. [row[k] EXCEPT !.status = "reauth"] \in Account
    BY <1>0 DEF Account, Status
  <2>2. row' = row \/ row' = [row EXCEPT ![k] =
                                [row[k] EXCEPT !.status = "reauth"]]
    BY <1>5, <1>0 DEF MarkRow
  <2>3. row' \in [Key -> Account] BY <1>0, <2>1, <2>2, StoreTypes
  <2>4. StoresTyped BY <1>5, <2>3, Reads DEF MarkRow, StoresTyped
  <2>5. Moves(t) /\ LeftTyped BY <1>5, TaskMoves, Reads DEF MarkRow, PC
  <2> QED BY <1>5, <2>4, <2>5, Reads, TypesFromParts DEF MarkRow
<1>6. CASE MarkRam(t)
  <2>1. [ram[k] EXCEPT !.status = "reauth"] \in Account
    BY <1>0 DEF Account, Status
  <2>2. ram' = ram \/ ram' = [ram EXCEPT ![k] =
                                [ram[k] EXCEPT !.status = "reauth"]]
    BY <1>6, <1>0 DEF MarkRam
  <2>3. ram' \in [Key -> Account] BY <1>0, <2>1, <2>2, StoreTypes
  <2>4. StoresTyped BY <1>6, <2>3, Reads DEF MarkRam, StoresTyped
  <2>5. Moves(t) /\ LockTyped BY <1>6, <1>0, TaskMoves DEF MarkRam
  <2> QED BY <1>6, <2>4, <2>5, Reads, TypesFromParts DEF MarkRam
<1> QED BY <1>1, <1>2, <1>3, <1>4, <1>5, <1>6

LEMMA CallTypes ==
  ASSUME TypeOK, NEW t \in Task,
         CallAnswered(t) \/ ReportUnauthorized(t) \/ QuotaAnswered(t)
         \/ ClearRow(t) \/ BindRow(t) \/ BindRam(t)
  PROVE  TypeOK'
<1> DEFINE k == task[t].key
<1>0. /\ k \in Key /\ row[k] \in Account /\ ram[k] \in Account
      /\ task[t] \in TaskRec /\ task[t].bundle \in Bundle
      /\ row \in [Key -> Account] /\ ram \in [Key -> Account]
  BY Reads DEF TypeOK
<1>1. \A s \in {"active", "reauth", "disabled", RenewedStatus(ram[k]),
                RenewedStatus(row[k])} :
        /\ [row[k] EXCEPT !.status = s] \in Account
        /\ [ram[k] EXCEPT !.status = s] \in Account
  BY <1>0 DEF Account, Status, RenewedStatus
<1>2. /\ \A f \in BOOLEAN : [ram[k] EXCEPT !.cooling = f] \in Account
      /\ [row[k] EXCEPT !.bundle = task[t].bundle] \in Account
      /\ [ram[k] EXCEPT !.bundle = task[t].bundle] \in Account
  BY <1>0 DEF Account
<1>3. Unauthorized(k) => ram' \in [Key -> Account]
  <2>1. Unauthorized(k) =>
          ram' = ram \/ ram' = [ram EXCEPT ![k] =
                                  [ram[k] EXCEPT !.status = "reauth"]]
    BY <1>0 DEF Unauthorized
  <2> QED BY <1>0, <1>1, <2>1, StoreTypes
<1>4. CASE CallAnswered(t)
  <2>1. ram' \in [Key -> Account]
    <3>1. ASSUME NEW f \in BOOLEAN, Cool(k, f) PROVE ram' \in [Key -> Account]
      <4>1. ram' = ram \/ ram' = [ram EXCEPT ![k] =
                                    [ram[k] EXCEPT !.cooling = f]]
        BY <1>0, <3>1 DEF Cool
      <4> QED BY <1>0, <1>2, <4>1, StoreTypes
    <3> QED BY <1>0, <1>3, <1>4, <3>1 DEF CallAnswered
  <2>2. StoresTyped BY <1>4, <2>1, <1>0 DEF CallAnswered, StoresTyped
  <2>3. Moves(t) BY <1>4, TaskMoves DEF CallAnswered, PC
  <2> QED BY <1>4, <2>2, <2>3, Reads, TypesFromParts DEF CallAnswered
<1>5. CASE ReportUnauthorized(t)
  <2>1. StoresTyped /\ Moves(t)
    BY <1>5, <1>3, <1>0, TaskMoves DEF ReportUnauthorized, StoresTyped
  <2> QED BY <1>5, <2>1, Reads, TypesFromParts DEF ReportUnauthorized
<1>6. CASE QuotaAnswered(t)
  <2>1. ram' = ram \/ ram' = [ram EXCEPT ![k] =
                     [ram[k] EXCEPT !.status = RenewedStatus(ram[k])]]
    BY <1>6, <1>0 DEF QuotaAnswered
  <2>2. ram' \in [Key -> Account] BY <1>0, <1>1, <2>1, StoreTypes
  <2>3. StoresTyped BY <1>6, <2>2, <1>0 DEF QuotaAnswered, StoresTyped
  <2>4. ASSUME task' = [task EXCEPT ![t].pc = "waits", ![t].again = TRUE]
        PROVE  Moves(t)
    <3> DEFINE r == [task[t] EXCEPT !.pc = "waits", !.again = TRUE]
    <3>1. r \in TaskRec BY <1>0 DEF TaskRec, PC
    <3>2. task' = [task EXCEPT ![t] = r] BY <2>4 DEF TypeOK
    <3> QED BY <3>1, <3>2 DEF Moves
  <2>5. Moves(t) BY <1>6, <2>4, TaskMoves DEF QuotaAnswered, PC
  <2> QED BY <1>6, <2>3, <2>5, Reads, TypesFromParts DEF QuotaAnswered
<1>7. CASE ClearRow(t)
  <2>1. row' = row \/ row' = [row EXCEPT ![k] =
                     [row[k] EXCEPT !.status = RenewedStatus(row[k])]]
    BY <1>7, <1>0 DEF ClearRow
  <2>2. row' \in [Key -> Account] BY <1>0, <1>1, <2>1, StoreTypes
  <2>3. StoresTyped BY <1>7, <2>2, <1>0 DEF ClearRow, StoresTyped
  <2>4. Moves(t) /\ LeftTyped BY <1>7, TaskMoves, Reads DEF ClearRow
  <2> QED BY <1>7, <2>3, <2>4, Reads, TypesFromParts DEF ClearRow
<1>8. CASE BindRow(t)
  <2>1. row' = row \/ row' = [row EXCEPT ![k] =
                     [row[k] EXCEPT !.bundle = task[t].bundle]]
    BY <1>8, <1>0 DEF BindRow
  <2>2. row' \in [Key -> Account] BY <1>0, <1>2, <2>1, StoreTypes
  <2>3. StoresTyped BY <1>8, <2>2, <1>0 DEF BindRow, StoresTyped
  <2>4. LostTyped
    <3>1. Overwrites(row[k], task[t].bundle)
            \in SUBSET Loss
      BY DEF Overwrites, Loss
    <3> QED BY <1>8, <1>0, <3>1, LossTypes, Reads DEF BindRow, Loss
  <2>5. Moves(t) /\ LeftTyped BY <1>8, TaskMoves, Reads DEF BindRow, PC
  <2> QED BY <1>8, <2>3, <2>4, <2>5, Reads, TypesFromParts DEF BindRow
<1>9. CASE BindRam(t)
  <2>1. ram' = ram \/ ram' = [ram EXCEPT ![k] =
                     [ram[k] EXCEPT !.bundle = task[t].bundle]]
    BY <1>9, <1>0 DEF BindRam
  <2>2. ram' \in [Key -> Account] BY <1>0, <1>2, <2>1, StoreTypes
  <2>3. StoresTyped BY <1>9, <2>2, <1>0 DEF BindRam, StoresTyped
  <2>4. LostTyped
    <3>1. Overwrites(ram[k], task[t].bundle)
            \in SUBSET Loss
      BY DEF Overwrites, Loss
    <3> QED BY <1>9, <1>0, <3>1, LossTypes DEF BindRam, Loss
  <2>5. Moves(t) BY <1>9, TaskMoves DEF BindRam
  <2> QED BY <1>9, <2>3, <2>4, <2>5, Reads, TypesFromParts DEF BindRam
<1> QED BY <1>4, <1>5, <1>6, <1>7, <1>8, <1>9

LEMMA AdminTypes ==
  ASSUME TypeOK, NEW t \in Task,
         EditRow(t) \/ EditRam(t) \/ DeleteRow(t) \/ DeleteRam(t)
         \/ InsertRow(t) \/ InsertRam(t)
  PROVE  TypeOK'
<1> DEFINE k == task[t].key  e == task[t].edit
<1>0. /\ k \in Key /\ row[k] \in Account /\ ram[k] \in Account
      /\ row \in [Key -> Account] /\ ram \in [Key -> Account]
      /\ e \in [enabled : BOOLEAN, status : Status, toggled : BOOLEAN]
  BY Reads DEF TypeOK, TaskRec
<1>1. Absent \in Account /\ Fresh(1) \in Account
  BY Reads DEF Absent, Fresh, Account, Status
<1>2. Edited(row[k], e) \in Account /\ Edited(ram[k], e) \in Account
  BY <1>0 DEF Edited, Account
<1>3. CASE EditRow(t)
  <2>1. row' = row \/ row' = [row EXCEPT ![k] = Edited(row[k], e)]
    BY <1>3, <1>0 DEF EditRow
  <2>2. row' \in [Key -> Account] BY <1>0, <1>2, <2>1, StoreTypes
  <2>3. StoresTyped BY <1>3, <2>2, <1>0 DEF EditRow, StoresTyped
  <2>4. Moves(t) /\ LeftTyped BY <1>3, TaskMoves, Reads DEF EditRow, PC
  <2> QED BY <1>3, <2>3, <2>4, Reads, TypesFromParts DEF EditRow
<1>4. CASE EditRam(t)
  <2> DEFINE a == [Edited(ram[k], e)
                     EXCEPT !.cooling = ram[k].cooling /\ ~e.toggled]
  <2>1. ram' = ram \/ ram' = [ram EXCEPT ![k] = a]
    BY <1>4, <1>0 DEF EditRam
  <2>2. (ram[k].cooling /\ ~e.toggled) \in BOOLEAN OBVIOUS
  <2>3. a \in Account BY <1>2, <2>2 DEF Account
  <2>4. ram' \in [Key -> Account] BY <1>0, <2>1, <2>3, StoreTypes
  <2>5. StoresTyped BY <1>4, <2>4, <1>0 DEF EditRam, StoresTyped
  <2>6. Moves(t) BY <1>4, TaskMoves DEF EditRam
  <2> QED BY <1>4, <2>5, <2>6, Reads, TypesFromParts DEF EditRam
<1>5. CASE DeleteRow(t)
  <2>1. row' \in [Key -> Account] BY <1>5, <1>0, <1>1, StoreTypes DEF DeleteRow
  <2>2. StoresTyped BY <1>5, <2>1, <1>0 DEF DeleteRow, StoresTyped
  <2>3. Moves(t) /\ LeftTyped BY <1>5, TaskMoves, Reads DEF DeleteRow, PC
  <2> QED BY <1>5, <2>2, <2>3, Reads, TypesFromParts DEF DeleteRow
<1>6. CASE DeleteRam(t)
  <2>1. ram' \in [Key -> Account] BY <1>6, <1>0, <1>1, StoreTypes DEF DeleteRam
  <2>2. StoresTyped BY <1>6, <2>1, <1>0 DEF DeleteRam, StoresTyped
  <2>3. LockTyped BY <1>6 DEF DeleteRam, TypeOK, LockTyped
  <2>4. Moves(t) BY <1>6, TaskMoves DEF DeleteRam
  <2> QED BY <1>6, <2>2, <2>3, <2>4, Reads, TypesFromParts DEF DeleteRam
<1>7. CASE InsertRow(t)
  <2>1. row' \in [Key -> Account] BY <1>7, <1>0, <1>1, StoreTypes DEF InsertRow
  <2>2. StoresTyped BY <1>7, <2>1, <1>0 DEF InsertRow, StoresTyped
  <2>3. Moves(t) /\ LeftTyped BY <1>7, TaskMoves, Reads DEF InsertRow, PC
  <2> QED BY <1>7, <2>2, <2>3, Reads, TypesFromParts DEF InsertRow
<1>8. CASE InsertRam(t)
  <2>1. ram' \in [Key -> Account] BY <1>8, <1>0, <1>1, StoreTypes DEF InsertRam
  <2>2. StoresTyped BY <1>8, <2>1, <1>0 DEF InsertRam, StoresTyped
  <2>3. Moves(t) BY <1>8, TaskMoves DEF InsertRam
  <2> QED BY <1>8, <2>2, <2>3, Reads, TypesFromParts DEF InsertRam
<1> QED BY <1>3, <1>4, <1>5, <1>6, <1>7, <1>8

(* The steps of no task in particular.                                     *)
LEMMA DroppedTypes ==
  ASSUME TypeOK, NEW t \in Task, Dropped(t)
  PROVE  TypeOK'
<1> DEFINE k == task[t].key
<1>1. k \in Key /\ issued[k] \in Bundle BY Reads
<1>2. issued' \in [Key -> Bundle]
  <2>1. issued[k] < MaxBundles => issued[k] + 1 \in Bundle
    BY <1>1, GatewayAssumption DEF Bundle
  <2> QED BY <1>1, <2>1 DEF Dropped, Spends, TypeOK
<1>3. LostTyped
  <2>1. {"drop"} \in SUBSET Loss BY DEF Loss
  <2>2. Drops(t) => LostTyped BY <1>1, <2>1, LossTypes DEF Drops
  <2> QED BY <2>2, Reads DEF Dropped
<1>4. LeftTyped /\ LockTyped /\ Moves(t) BY TaskMoves DEF Dropped
<1> QED BY <1>2, <1>3, <1>4, Reads, TypesFromParts DEF Dropped

LEMMA TickTypes ==
  ASSUME TypeOK, Tick
  PROVE  TypeOK'
<1>1. due' \in SUBSET [key : Key, limit : Bundle]
  BY Reads DEF Tick, DueKeys
<1> QED BY <1>1 DEF Tick, TypeOK

LEMMA VisitTypes ==
  ASSUME TypeOK, VisitDue
  PROVE  TypeOK'
<1>1. PICK d \in due :
        /\ due' = due \ {d}
        /\ task' = [task EXCEPT ![Loop] =
                      [Idle(d.key) EXCEPT !.pc = "waits", !.limit = d.limit]]
  BY DEF VisitDue
<1> DEFINE r == [Idle(d.key) EXCEPT !.pc = "waits", !.limit = d.limit]
<1>2. d \in [key : Key, limit : Bundle] BY DEF TypeOK
<1>3. r \in TaskRec
  BY <1>2, Reads DEF TaskRec, PC, Op, Idle, NoEdit, Status
<1>4. Loop \in Task /\ Moves(Loop) BY <1>1, <1>3, GatewayAssumption DEF Moves
<1> QED BY <1>1, <1>4, Reads, TypesFromParts DEF VisitDue

LEMMA SystemTypes ==
  ASSUME TypeOK, NEW k \in Key, ClearCooldown(k) \/ Ages(k) \/ Restart
  PROVE  TypeOK'
<1>1. CASE ClearCooldown(k)
  <2>1. [ram[k] EXCEPT !.cooling = FALSE] \in Account BY Reads DEF Account
  <2>2. ram' = [ram EXCEPT ![k] = [ram[k] EXCEPT !.cooling = FALSE]]
    BY <1>1, Reads DEF ClearCooldown, Cool, TypeOK
  <2>3. ram' \in [Key -> Account] BY <2>1, <2>2 DEF TypeOK
  <2> QED BY <1>1, <2>3 DEF ClearCooldown, TypeOK
<1>2. CASE Ages(k)
  <2>1. aged[k] < issued[k] => aged[k] + 1 \in Bundle
    BY Reads, GatewayAssumption DEF Bundle
  <2>2. aged' \in [Key -> Bundle] BY <1>2, <2>1 DEF Ages, TypeOK
  <2> QED BY <1>2, <2>2 DEF Ages, TypeOK
<1>3. CASE Restart
  <2>1. \A j \in Key : Idle(j) \in TaskRec
    BY Reads DEF TaskRec, PC, Op, Idle, NoEdit, Status
  <2>2. task' \in [Task -> TaskRec] BY <1>3, <2>1, Reads DEF Restart
  <2>3. LostTyped BY <1>3 DEF Restart, TypeOK, LostTyped, Loss
  <2>4. LeftTyped BY <1>3, FailsTypes DEF Restart, LeftTyped
  <2>5. lock' \in [Key -> Task \union {None}] BY <1>3 DEF Restart
  <2> QED
    BY <1>3, <2>2, <2>3, <2>4, <2>5
       DEF Restart, TypeOK, TaskRec, LostTyped, LeftTyped, Loss
<1> QED BY <1>1, <1>2, <1>3

LEMMA TypeInit == Init => TypeOK
<1> SUFFICES ASSUME Init PROVE TypeOK OBVIOUS
<1>1. 0 \in Bundle /\ 1 \in Bundle BY GatewayAssumption DEF Bundle
<1>2. row \in [Key -> Account]
  BY <1>1 DEF Init, Absent, Fresh, Account, Status
<1>3. \A k \in Key : Idle(k) \in TaskRec
  BY <1>1 DEF TaskRec, PC, Op, Idle, NoEdit, Status
<1>4. task \in [Task -> TaskRec] BY <1>3 DEF Init
<1>5. left \in [ops : 0..MaxOps, cuts : 0..MaxCuts]
  BY GatewayAssumption DEF Init
<1> QED BY <1>1, <1>2, <1>4, <1>5 DEF Init, TypeOK, TaskRec

LEMMA TypeStep ==
  ASSUME TypeOK, [Next]_vars
  PROVE  TypeOK'
<1>1. CASE UNCHANGED vars BY <1>1 DEF vars, TypeOK
<1>2. CASE Tick BY <1>2, TickTypes
<1>3. CASE VisitDue BY <1>3, VisitTypes
<1>4. ASSUME NEW t \in Task, Begin(t) \/ TakeLock(t) \/ Progress(t) \/ Dropped(t)
      PROVE  TypeOK'
  BY <1>4, BeginTypes, RenewalTypes, CallTypes, AdminTypes, DroppedTypes DEF Progress
<1>5. ASSUME NEW k \in Key, ClearCooldown(k) \/ Ages(k)
      PROVE  TypeOK'
  BY <1>5, SystemTypes
<1>6. CASE Restart
  <2>1. task[Loop].key \in Key BY Reads, GatewayAssumption
  <2> QED BY <1>6, <2>1, SystemTypes
<1>7. CASE Rests BY <1>1, <1>7 DEF Rests
<1> QED BY <1>1, <1>2, <1>3, <1>4, <1>5, <1>6, <1>7 DEF Next

(* The hub's two stores, its locks and its tasks keep their shape through  *)
(* every request, failure and restart.                                     *)
THEOREM GatewayTyped == Spec => []TypeOK
<1>1. TypeOK /\ [Next]_vars => TypeOK' BY TypeStep
<1> QED BY <1>1, TypeInit, PTL DEF Spec

-----------------------------------------------------------------------------
(* Status and flag.                                                        *)

Agrees(a) == /\ a.enabled => a.status # "disabled"
             /\ ~a.enabled => a.status # "active"

(* What an edit will write agrees already when it is computed, from a      *)
(* snapshot that later steps change.                                       *)
EditsAgree == \A t \in Task : Agrees(task[t].edit)
StatusInv == StatusFollowsEnabled /\ EditsAgree

LEMMA StatusFromParts ==
  ASSUME StatusInv,
         \A k \in Key : /\ row'[k].there => Agrees(row'[k])
                        /\ ram'[k].there => Agrees(ram'[k]),
         \A t \in Task : Agrees(task'[t].edit)
  PROVE  StatusInv'
BY DEF StatusInv, StatusFollowsEnabled, EditsAgree, Agrees

(* A step whose task keeps its edit or forgets it.                         *)
Forgets(t) == \E r \in TaskRec : /\ task' = [task EXCEPT ![t] = r]
                                 /\ r.edit \in {task[t].edit, NoEdit}

LEMMA MovesForget ==
  ASSUME TypeOK, NEW t \in Task
  PROVE  /\ \A pc \in PC : Move(t, pc) => Forgets(t)
         /\ Done(t) => Forgets(t)
         /\ \A ok \in BOOLEAN : \A a \in Account :
              Continue(t, ok, a) => Forgets(t)
         /\ Discover(t) => Forgets(t)
<1>0. task \in [Task -> TaskRec] /\ task[t] \in TaskRec
      /\ 0 \in Bundle /\ task[t].key \in Key
  BY Reads DEF TypeOK, TaskRec
<1>1. ASSUME NEW pc \in PC, NEW b \in Bundle, NEW f \in BOOLEAN,
             \/ task' = [task EXCEPT ![t].pc = pc]
             \/ task' = [task EXCEPT ![t].pc = pc, ![t].bundle = b]
             \/ task' = [task EXCEPT ![t].pc = pc, ![t].again = TRUE]
             \/ task' = [task EXCEPT ![t].pc = pc, ![t].again = TRUE,
                                     ![t].bundle = b]
      PROVE  Forgets(t)
  <2> DEFINE r == task'[t]
  <2>1. r \in TaskRec /\ r.edit = task[t].edit BY <1>0, <1>1 DEF TaskRec
  <2>2. task' = [task EXCEPT ![t] = r] BY <1>0, <1>1
  <2> QED BY <2>1, <2>2 DEF Forgets
<1>2. \A pc \in PC : Move(t, pc) => Forgets(t) BY <1>0, <1>1 DEF Move
<1>3. Done(t) => Forgets(t)
  <2> SUFFICES ASSUME Done(t) PROVE Forgets(t) OBVIOUS
  <2> DEFINE r == Idle(task[t].key)
  <2>1. r \in TaskRec /\ r.edit = NoEdit
    BY <1>0 DEF TaskRec, PC, Op, Idle, NoEdit, Status
  <2>2. task' = [task EXCEPT ![t] = r] BY <1>0 DEF Done
  <2> QED BY <2>1, <2>2 DEF Forgets
<1>4. \A a \in Account : a.bundle \in Bundle BY DEF Account
<1>5. \A ok \in BOOLEAN : \A a \in Account : Continue(t, ok, a) => Forgets(t)
  BY <1>1, <1>2, <1>3, <1>4 DEF Continue, PC
<1>6. Discover(t) => Forgets(t)
  <2>1. ram[task[t].key].bundle \in Bundle BY <1>0, <1>4, Reads
  <2> QED BY <1>1, <1>3, <2>1 DEF Discover, PC
<1> QED BY <1>2, <1>3, <1>5, <1>6

LEMMA ForgetsAgrees ==
  ASSUME TypeOK, StatusInv, NEW t \in Task, Forgets(t)
  PROVE  \A u \in Task : Agrees(task'[u].edit)
<1>1. Agrees(NoEdit) BY DEF Agrees, NoEdit
<1>2. task \in [Task -> TaskRec] BY DEF TypeOK, TaskRec
<1> QED BY <1>1, <1>2 DEF Forgets, StatusInv, EditsAgree

LEMMA StatusStep ==
  ASSUME TypeOK, StatusInv, [Next]_vars
  PROVE  StatusInv'
<1> DEFINE Sound(s) == \A k \in Key : s[k].there => Agrees(s[k])
<1>0. /\ Sound(row) /\ Sound(ram)
      /\ row \in [Key -> Account] /\ ram \in [Key -> Account]
      /\ task \in [Task -> TaskRec]
  BY DEF StatusInv, StatusFollowsEnabled, Agrees, TypeOK, TaskRec
<1>1. ASSUME NEW s \in [Key -> Account], Sound(s), NEW k \in Key, NEW s2,
             NEW a, a.there => Agrees(a),
             s2 = s \/ s2 = [s EXCEPT ![k] = a]
      PROVE  Sound(s2)
  BY <1>1
<1>2. ASSUME Sound(row'), Sound(ram'), \A u \in Task : Agrees(task'[u].edit)
      PROVE  StatusInv'
  BY <1>2, StatusFromParts
<1>3. ASSUME NEW t \in Task, Forgets(t), Sound(row'), Sound(ram')
      PROVE  StatusInv'
  BY <1>2, <1>3, ForgetsAgrees
<1>4. UNCHANGED vars => StatusInv'
  BY DEF vars, StatusInv, StatusFollowsEnabled, EditsAgree
<1>5. Tick => StatusInv'
  BY <1>0, <1>2 DEF Tick, StatusInv, EditsAgree
<1>6. VisitDue => StatusInv'
  <2> SUFFICES ASSUME VisitDue PROVE StatusInv' OBVIOUS
  <2>1. PICK d \in due :
          task' = [task EXCEPT ![Loop] =
                    [Idle(d.key) EXCEPT !.pc = "waits", !.limit = d.limit]]
    BY DEF VisitDue
  <2> DEFINE r == [Idle(d.key) EXCEPT !.pc = "waits", !.limit = d.limit]
  <2>2. r.edit = NoEdit BY DEF Idle
  <2>3. \A u \in Task : Agrees(task'[u].edit)
    BY <1>0, <2>1, <2>2 DEF StatusInv, EditsAgree, Agrees, NoEdit
  <2> QED BY <1>0, <1>2, <2>3 DEF VisitDue
<1>7. ASSUME NEW t \in Task, Begin(t) PROVE StatusInv'
  <2>1. PICK k \in Key :
          \/ StartRenewal(t, k) \/ StartCall(t, k) \/ StartQuota(t, k)
          \/ \E enabled, toggled \in BOOLEAN : StartEdit(t, k, enabled, toggled)
          \/ StartDelete(t, k) \/ StartConnect(t, k)
    BY <1>7 DEF Begin
  <2>2. ASSUME NEW op, NEW pc, Starts(t, k, op, pc), UNCHANGED <<row, ram>>
        PROVE  StatusInv'
    <3> DEFINE r == [Idle(k) EXCEPT !.pc = pc, !.op = op,
                       !.bundle = IF op = "chat" THEN ram[k].bundle ELSE 0,
                       !.limit = IF op = "quota" THEN aged[k] ELSE 0]
    <3>1. task' = [task EXCEPT ![t] = r] BY <2>2 DEF Starts
    <3>2. r.edit = NoEdit BY DEF Idle
    <3>3. \A u \in Task : Agrees(task'[u].edit)
      BY <1>0, <3>1, <3>2 DEF StatusInv, EditsAgree, Agrees, NoEdit
    <3> QED BY <1>0, <1>2, <2>2, <3>3
  <2>3. ASSUME NEW enabled \in BOOLEAN, NEW toggled \in BOOLEAN,
               StartEdit(t, k, enabled, toggled)
        PROVE  StatusInv'
    <3> DEFINE e == [enabled |-> enabled, toggled |-> toggled,
                     status |-> NextStatus(ram[k], enabled, toggled)]
               r == [Idle(k) EXCEPT !.pc = "edits", !.op = "edit", !.edit = e]
    <3>1. ram[k].status \in Status BY Reads DEF Account
    <3>2. Agrees(e) BY <3>1 DEF Agrees, NextStatus, Status
    <3>3. task' = [task EXCEPT ![t] = r] BY <2>3 DEF StartEdit
    <3>4. r.edit = e BY DEF Idle
    <3>5. \A u \in Task : Agrees(task'[u].edit)
      BY <1>0, <3>2, <3>3, <3>4 DEF StatusInv, EditsAgree
    <3> QED BY <1>0, <1>2, <2>3, <3>5 DEF StartEdit
  <2>4. CASE StartRenewal(t, k) BY <2>2, <2>4 DEF StartRenewal
  <2>5. CASE StartCall(t, k) BY <2>2, <2>5 DEF StartCall
  <2>6. CASE StartQuota(t, k) BY <2>2, <2>6 DEF StartQuota
  <2>7. CASE StartDelete(t, k) BY <2>2, <2>7 DEF StartDelete
  <2>8. CASE StartConnect(t, k) BY <2>2, <2>8 DEF StartConnect
  <2> QED BY <2>1, <2>3, <2>4, <2>5, <2>6, <2>7, <2>8
<1>8. ASSUME NEW t \in Task, TakeLock(t) PROVE StatusInv'
  <2> DEFINE k == task[t].key
  <2>1. k \in Key /\ ram[k] \in Account /\ ram[k].there \in BOOLEAN
    BY Reads DEF Account
  <2>2. CASE task' = [task EXCEPT ![t].pc = "exchanges", ![t].limit = 0,
                                  ![t].bundle = ram[k].bundle]
    <3>1. \A u \in Task : task'[u].edit = task[u].edit
      BY <1>0, <2>2 DEF TaskRec
    <3> QED BY <1>0, <1>2, <1>8, <3>1 DEF TakeLock, StatusInv, EditsAgree
  <2>3. CASE Continue(t, ram[k].there, ram[k])
    BY <1>0, <1>3, <1>8, <2>1, <2>3, MovesForget DEF TakeLock
  <2> QED BY <1>8, <2>2, <2>3 DEF TakeLock
<1>9. ASSUME NEW t \in Task, Exchange(t) PROVE StatusInv'
  <2> DEFINE k == task[t].key
  <2>1. CASE task' = [task EXCEPT ![t].pc = "stores",
                                  ![t].bundle = issued[k] + 1]
    <3>1. \A u \in Task : task'[u].edit = task[u].edit
      BY <1>0, <2>1 DEF TaskRec
    <3> QED BY <1>0, <1>2, <1>9, <3>1 DEF Exchange, StatusInv, EditsAgree
  <2>2. CASE Move(t, "marks")
    BY <1>0, <1>3, <1>9, <2>2, MovesForget DEF Exchange, PC
  <2> QED BY <1>9, <2>1, <2>2 DEF Exchange
<1>10. ASSUME NEW t \in Task,
              \/ StoreRow(t) \/ PublishBundle(t) \/ MarkRow(t) \/ MarkRam(t)
              \/ CallAnswered(t) \/ ReportUnauthorized(t)
              \/ QuotaAnswered(t) \/ ClearRow(t) \/ BindRow(t) \/ BindRam(t)
       PROVE  StatusInv'
  <2> DEFINE k == task[t].key
  <2>1. /\ k \in Key /\ ram[k] \in Account /\ row[k] \in Account
        /\ ram[k].there \in BOOLEAN /\ task[t].bundle \in Bundle
        /\ ram[k].there => Agrees(ram[k])
        /\ row[k].there => Agrees(row[k])
    BY <1>0, Reads DEF Account
  <2>2. \A a \in Account :
          /\ Agrees([a EXCEPT !.status = RenewedStatus(a)])
          /\ Agrees([a EXCEPT !.status = "reauth"])
          /\ \A b \in Bundle :
               /\ Agrees([a EXCEPT !.bundle = b, !.expiry = b,
                                   !.status = RenewedStatus(a)])
               /\ Agrees(Renewed(a, b))
               /\ Agrees(a) => Agrees([a EXCEPT !.bundle = b])
          /\ \A f \in BOOLEAN :
               Agrees(a) => Agrees([a EXCEPT !.cooling = f])
    BY DEF Agrees, Account, RenewedStatus, Renewed
  <2>3. Unauthorized(k) => Sound(ram')
    <3>1. Unauthorized(k) =>
            ram' = ram \/ ram' = [ram EXCEPT ![k] =
                                    [ram[k] EXCEPT !.status = "reauth"]]
      BY <1>0, <2>1 DEF Unauthorized
    <3> QED BY <1>0, <1>1, <2>1, <2>2, <3>1
  <2>4. CASE StoreRow(t)
    <3>1. row' = row \/ row' = [row EXCEPT ![k] =
              [row[k] EXCEPT !.bundle = task[t].bundle,
                             !.expiry = task[t].bundle,
                             !.status = RenewedStatus(row[k])]]
      BY <1>0, <2>1, <2>4 DEF StoreRow
    <3> DEFINE a == [row[k] EXCEPT !.bundle = task[t].bundle,
                                   !.expiry = task[t].bundle,
                                   !.status = RenewedStatus(row[k])]
    <3>4. Agrees(a) BY <2>1, <2>2
    <3>5. row' = row \/ row' = [row EXCEPT ![k] = a] BY <3>1
    <3> HIDE DEF a
    <3>2. Sound(row') BY <1>0, <1>1, <2>1, <3>4, <3>5
    <3>3. Forgets(t) BY <2>1, <2>4, MovesForget DEF StoreRow, PC
    <3> QED BY <1>0, <1>3, <2>4, <3>2, <3>3 DEF StoreRow
  <2>5. CASE PublishBundle(t)
    <3> DEFINE a == IF ram[k].there THEN Renewed(ram[k], task[t].bundle)
                    ELSE ram[k]
    <3>1. a \in Account
      BY <2>1 DEF Renewed, Account, Status, RenewedStatus
    <3>2. a.there \in BOOLEAN BY <3>1 DEF Account
    <3>3. ram' = [ram EXCEPT ![k] = a] /\ Continue(t, a.there, a)
      BY <2>5 DEF PublishBundle
    <3>4. a.there => Agrees(a) BY <2>1, <2>2
    <3>5. Sound(ram') BY <1>0, <1>1, <2>1, <3>3, <3>4
    <3>6. Forgets(t) BY <3>1, <3>2, <3>3, MovesForget
    <3> QED BY <1>0, <1>3, <2>5, <3>5, <3>6 DEF PublishBundle
  <2>6. CASE MarkRow(t)
    <3>1. row' = row \/ row' = [row EXCEPT ![k] =
                                  [row[k] EXCEPT !.status = "reauth"]]
      BY <1>0, <2>1, <2>6 DEF MarkRow
    <3>2. Sound(row') BY <1>0, <1>1, <2>1, <2>2, <3>1
    <3>3. Forgets(t) BY <2>6, MovesForget DEF MarkRow, PC
    <3> QED BY <1>0, <1>3, <2>6, <3>2, <3>3 DEF MarkRow
  <2>7. CASE MarkRam(t)
    <3>1. ram' = ram \/ ram' = [ram EXCEPT ![k] =
                                  [ram[k] EXCEPT !.status = "reauth"]]
      BY <1>0, <2>1, <2>7 DEF MarkRam
    <3>2. Sound(ram') BY <1>0, <1>1, <2>1, <2>2, <3>1
    <3>3. Forgets(t) BY <2>1, <2>7, MovesForget DEF MarkRam
    <3> QED BY <1>0, <1>3, <2>7, <3>2, <3>3 DEF MarkRam
  <2>8. CASE CallAnswered(t)
    <3>1. ASSUME NEW f \in BOOLEAN, Cool(k, f) PROVE Sound(ram')
      <4> DEFINE a == [ram[k] EXCEPT !.cooling = f]
      <4>1. ram' = ram \/ ram' = [ram EXCEPT ![k] = a]
        BY <1>0, <2>1, <3>1 DEF Cool
      <4>2. a.there = ram[k].there BY <2>1 DEF Account
      <4>3. a.there => Agrees(a) BY <2>1, <2>2, <4>2
      <4> HIDE DEF a
      <4> QED BY <1>0, <1>1, <2>1, <4>1, <4>3
    <3>2. Sound(ram') BY <1>0, <2>3, <2>8, <3>1 DEF CallAnswered
    <3>3. Forgets(t) BY <2>8, MovesForget DEF CallAnswered, PC
    <3> QED BY <1>0, <1>3, <2>8, <3>2, <3>3 DEF CallAnswered
  <2>9. CASE ReportUnauthorized(t)
    <3>1. Sound(ram') /\ Forgets(t)
      BY <2>3, <2>9, MovesForget DEF ReportUnauthorized
    <3> QED BY <1>0, <1>3, <2>9, <3>1 DEF ReportUnauthorized
  <2>10. CASE QuotaAnswered(t)
    <3> DEFINE a == [ram[k] EXCEPT !.status = RenewedStatus(ram[k])]
    <3>1. ram' = ram \/ ram' = [ram EXCEPT ![k] = a]
      BY <1>0, <2>1, <2>10 DEF QuotaAnswered
    <3>4. Agrees(a) BY <2>1, <2>2
    <3> HIDE DEF a
    <3>2. Sound(ram') BY <1>0, <1>1, <2>1, <3>1, <3>4
    <3>3. \A u \in Task : Agrees(task'[u].edit)
      <4>1. CASE task' = [task EXCEPT ![t].pc = "waits", ![t].again = TRUE]
        <5>1. \A u \in Task : task'[u].edit = task[u].edit
          BY <1>0, <4>1 DEF TaskRec
        <5> QED BY <5>1 DEF StatusInv, EditsAgree
      <4>2. Forgets(t) => \A u \in Task : Agrees(task'[u].edit)
        BY ForgetsAgrees
      <4> QED BY <2>10, <4>1, <4>2, MovesForget DEF QuotaAnswered, PC
    <3> QED BY <1>0, <1>2, <2>10, <3>2, <3>3 DEF QuotaAnswered
  <2>11. CASE ClearRow(t)
    <3> DEFINE a == [row[k] EXCEPT !.status = RenewedStatus(row[k])]
    <3>1. row' = row \/ row' = [row EXCEPT ![k] = a]
      BY <1>0, <2>1, <2>11 DEF ClearRow
    <3>4. Agrees(a) BY <2>1, <2>2
    <3> HIDE DEF a
    <3>2. Sound(row') BY <1>0, <1>1, <2>1, <3>1, <3>4
    <3>3. Forgets(t) BY <2>11, MovesForget DEF ClearRow
    <3> QED BY <1>0, <1>3, <2>11, <3>2, <3>3 DEF ClearRow
  <2>12. CASE BindRow(t)
    <3> DEFINE a == [row[k] EXCEPT !.bundle = task[t].bundle]
    <3>1. row' = row \/ row' = [row EXCEPT ![k] = a]
      BY <1>0, <2>1, <2>12 DEF BindRow
    <3>4. a.there = row[k].there BY <2>1 DEF Account
    <3>5. a.there => Agrees(a) BY <2>1, <2>2, <3>4
    <3> HIDE DEF a
    <3>2. Sound(row') BY <1>0, <1>1, <2>1, <3>1, <3>5
    <3>3. Forgets(t) BY <2>12, MovesForget DEF BindRow, PC
    <3> QED BY <1>0, <1>3, <2>12, <3>2, <3>3 DEF BindRow
  <2>13. CASE BindRam(t)
    <3> DEFINE a == [ram[k] EXCEPT !.bundle = task[t].bundle]
    <3>1. ram' = ram \/ ram' = [ram EXCEPT ![k] = a]
      BY <1>0, <2>1, <2>13 DEF BindRam
    <3>4. a.there = ram[k].there BY <2>1 DEF Account
    <3>5. a.there => Agrees(a) BY <2>1, <2>2, <3>4
    <3> HIDE DEF a
    <3>2. Sound(ram') BY <1>0, <1>1, <2>1, <3>1, <3>5
    <3>3. Forgets(t) BY <2>13, MovesForget DEF BindRam
    <3> QED BY <1>0, <1>3, <2>13, <3>2, <3>3 DEF BindRam
  <2> QED BY <1>10, <2>4, <2>5, <2>6, <2>7, <2>8, <2>9, <2>10, <2>11, <2>12,
             <2>13
<1>11. ASSUME NEW t \in Task,
              EditRow(t) \/ EditRam(t) \/ DeleteRow(t) \/ DeleteRam(t)
              \/ InsertRow(t) \/ InsertRam(t)
       PROVE  StatusInv'
  <2> DEFINE k == task[t].key  e == task[t].edit
  <2>1. /\ k \in Key /\ ram[k] \in Account /\ row[k] \in Account
        /\ e \in [enabled : BOOLEAN, status : Status, toggled : BOOLEAN]
        /\ Agrees(e)
    BY Reads DEF TaskRec, StatusInv, EditsAgree
  <2>2. \A a \in Account : Agrees(Edited(a, e))
    BY <2>1 DEF Agrees, Account, Edited
  <2>3. Agrees(Fresh(1)) /\ Agrees(Absent) BY DEF Agrees, Fresh, Absent
  <2>4. CASE EditRow(t)
    <3>1. row' = row \/ row' = [row EXCEPT ![k] = Edited(row[k], e)]
      BY <1>0, <2>1, <2>4 DEF EditRow
    <3>2. Sound(row') BY <1>0, <1>1, <2>1, <2>2, <3>1
    <3>3. Forgets(t) BY <2>4, MovesForget DEF EditRow, PC
    <3> QED BY <1>0, <1>3, <2>4, <3>2, <3>3 DEF EditRow
  <2>5. CASE EditRam(t)
    <3> DEFINE a == [Edited(ram[k], e)
                       EXCEPT !.cooling = ram[k].cooling /\ ~e.toggled]
    <3>1. ram' = ram \/ ram' = [ram EXCEPT ![k] = a]
      BY <1>0, <2>1, <2>5 DEF EditRam
    <3>2. Agrees(a) BY <2>1 DEF Agrees, Account, Edited
    <3> HIDE DEF a
    <3>3. Sound(ram') BY <1>0, <1>1, <2>1, <3>1, <3>2
    <3>4. Forgets(t) BY <2>5, MovesForget DEF EditRam
    <3> QED BY <1>0, <1>3, <2>5, <3>3, <3>4 DEF EditRam
  <2>6. CASE DeleteRow(t)
    <3>1. row' = row \/ row' = [row EXCEPT ![k] = Absent]
      BY <2>6 DEF DeleteRow
    <3>2. Sound(row') BY <1>0, <1>1, <2>1, <2>3, <3>1
    <3>3. Forgets(t) BY <2>6, MovesForget DEF DeleteRow, PC
    <3> QED BY <1>0, <1>3, <2>6, <3>2, <3>3 DEF DeleteRow
  <2>7. CASE DeleteRam(t)
    <3>1. ram' = [ram EXCEPT ![k] = Absent] BY <2>7 DEF DeleteRam
    <3>2. Sound(ram') BY <1>0, <1>1, <2>1, <2>3, <3>1
    <3>3. Forgets(t) BY <2>7, MovesForget DEF DeleteRam
    <3> QED BY <1>0, <1>3, <2>7, <3>2, <3>3 DEF DeleteRam
  <2>8. CASE InsertRow(t)
    <3>1. row' = row \/ row' = [row EXCEPT ![k] = Fresh(1)]
      BY <2>8 DEF InsertRow
    <3>2. Sound(row') BY <1>0, <1>1, <2>1, <2>3, <3>1
    <3>3. Forgets(t) BY <2>8, MovesForget DEF InsertRow, PC
    <3> QED BY <1>0, <1>3, <2>8, <3>2, <3>3 DEF InsertRow
  <2>9. CASE InsertRam(t)
    <3>1. ram' = [ram EXCEPT ![k] = Fresh(1)] BY <2>9 DEF InsertRam
    <3>2. Sound(ram') BY <1>0, <1>1, <2>1, <2>3, <3>1
    <3>3. Forgets(t) BY <2>9, MovesForget DEF InsertRam
    <3> QED BY <1>0, <1>3, <2>9, <3>2, <3>3 DEF InsertRam
  <2> QED BY <1>11, <2>4, <2>5, <2>6, <2>7, <2>8, <2>9
<1>12. ASSUME NEW k \in Key, ClearCooldown(k) PROVE StatusInv'
  <2> DEFINE a == [ram[k] EXCEPT !.cooling = FALSE]
  <2>1. ram' = ram \/ ram' = [ram EXCEPT ![k] = a]
    BY <1>0, <1>12 DEF ClearCooldown, Cool
  <2>2. ram[k] \in Account /\ a.there = ram[k].there BY Reads DEF Account
  <2>3. a.there => Agrees(a) BY <1>0, <2>2 DEF Agrees, Account
  <2> HIDE DEF a
  <2>4. Sound(ram') BY <1>0, <1>1, <2>1, <2>3
  <2> QED BY <1>0, <1>2, <1>12, <2>4 DEF ClearCooldown, StatusInv, EditsAgree
<1>13. ASSUME NEW k \in Key, Ages(k) PROVE StatusInv'
  BY <1>0, <1>2, <1>13 DEF Ages, StatusInv, EditsAgree
<1>15. ASSUME NEW t \in Task, Dropped(t) PROVE StatusInv'
  <2>1. Forgets(t) /\ UNCHANGED <<row, ram>> BY <1>15, MovesForget DEF Dropped
  <2> QED BY <1>0, <1>3, <2>1
<1>14. Restart => StatusInv'
  <2>1. \A u \in Task : Restart => task'[u].edit = NoEdit BY DEF Restart, Idle
  <2>2. Agrees(NoEdit) BY DEF Agrees, NoEdit
  <2> QED BY <1>0, <1>2, <2>1, <2>2 DEF Restart
<1> QED
  BY <1>4, <1>5, <1>6, <1>7, <1>8, <1>9, <1>10, <1>11, <1>12, <1>13, <1>14,
     <1>15 DEF Next, Progress, Rests

(* Whatever edits, renewals, marks, quota requests and restarts race on an *)
(* account (accounts.rs, refresh.rs, runtime_credentials.rs), its status   *)
(* agrees with its flag in the row and in the snapshot.                    *)
THEOREM StatusAgrees == Spec => []StatusFollowsEnabled
<1>1. Init => StatusInv
  <2>1. Agrees(NoEdit) BY DEF Agrees, NoEdit
  <2> QED
    BY <2>1 DEF Init, StatusInv, StatusFollowsEnabled, EditsAgree, Agrees,
                Absent, Fresh, Idle
<1>2. TypeOK /\ StatusInv /\ [Next]_vars => StatusInv' BY StatusStep
<1>3. StatusInv => StatusFollowsEnabled BY DEF StatusInv
<1> QED BY <1>1, <1>2, <1>3, GatewayTyped, PTL DEF Spec

-----------------------------------------------------------------------------
(* Renewals.                                                               *)

Renewals == /\ OneRenewal /\ HeldWhileThere /\ Unborn /\ Inserting
            /\ NoneNewer /\ NewestHeld

(* A store that gains no account, and in which no bundle is replaced by an *)
(* older one unless that is recorded as a loss.                            *)
Keeps(old, new) ==
  \A k \in Key :
    /\ new[k].there => old[k].there
    /\ new[k].bundle <= issued[k]
    /\ lost'[k] = {} /\ new[k].there => old[k].bundle <= new[k].bundle

(* A busy task that starts no renewal and no insertion and gives up at     *)
(* most its own lock; when it leaves a renewal, the exchanged bundle is in *)
(* the store or recorded as lost.                                          *)
LEMMA BusyStep ==
  ASSUME TypeOK, TypeOK', Renewals, NEW t \in Task, NEW r \in TaskRec,
         task' = [task EXCEPT ![t] = r], r.key = task[t].key,
         ~At(t, "idle"), r.pc \notin {"inserts", "inserted"},
         r.bundle <= issued[r.key],
         r.pc \in Renewing =>
           task[t].pc \in Renewing /\ r.bundle = task[t].bundle,
         Keeps(ram, ram'), Keeps(row, row'), issued' = issued, due' = due,
         \A k \in Key : \/ lock'[k] = lock[k]
                        \/ lock[k] = t /\ r.pc \notin Renewing
                        \/ ~ram'[k].there,
         \A k \in Key : lost'[k] = {} => lost[k] = {},
         task[t].pc = "stores" /\ lost'[r.key] = {} =>
           /\ r.pc = "publishes"
           /\ row'[r.key].there => row'[r.key].bundle = issued[r.key],
         task[t].pc = "publishes" /\ lost'[r.key] = {} /\ ram'[r.key].there
           => ram'[r.key].bundle = issued[r.key]
  PROVE  Renewals'
<1>0. /\ task \in [Task -> TaskRec] /\ task'[t] = r /\ r.key \in Key
      /\ \A u \in Task \ {t} : task'[u] = task[u]
  BY DEF TypeOK, TaskRec
<1>1. \A u \in Task : \A k \in Key : Renews(u, k)' => Renews(u, k)
  BY <1>0 DEF Renews
<1>2. OneRenewal'
  BY <1>1 DEF Renewals, OneRenewal
<1>3. HeldWhileThere'
  <2> SUFFICES ASSUME NEW u \in Task, NEW k \in Key, Renews(u, k)',
                      ram'[k].there
               PROVE  lock'[k] = u
    BY DEF HeldWhileThere
  <2>1. ram[k].there /\ lock[k] = u
    BY <1>1 DEF Renewals, HeldWhileThere, Keeps
  <2>2. u = t => r.pc \in Renewing BY <1>0 DEF Renews
  <2> QED BY <2>1, <2>2
<1>4. \A k \in Key : Unused(k, {}) => Unused(k, {})'
  BY <1>0 DEF Unused, At
<1>5. Unborn'
  BY <1>4 DEF Renewals, Unborn, Keeps
<1>6. Inserting'
  <2> SUFFICES ASSUME NEW u \in Task, task'[u].pc \in {"inserts", "inserted"}
               PROVE  /\ issued'[task'[u].key] = 1 /\ ~ram'[task'[u].key].there
                      /\ Unused(task[u].key, {u})'
    BY <1>0 DEF Inserting
  <2>1. u # t /\ task'[u] = task[u] BY <1>0
  <2>2. task[u].key \in Key BY <1>0 DEF TaskRec
  <2>3. issued[task[u].key] = 1 /\ ~ram[task[u].key].there
        /\ Unused(task[u].key, {u})
    BY <2>1 DEF Renewals, Inserting
  <2>4. task[t].key # task[u].key BY <2>1, <2>3 DEF Unused
  <2>5. Unused(task[u].key, {u})' BY <1>0, <2>3, <2>4 DEF Unused, At
  <2> QED BY <2>1, <2>2, <2>3, <2>5 DEF Keeps
<1>7. NoneNewer'
  BY <1>0 DEF Renewals, NoneNewer, Keeps
<1>8. NewestHeld'
  <2> SUFFICES ASSUME NEW k \in Key, lost'[k] = {}
               PROVE  /\ \A u \in Task : Renews(u, k)' => task'[u].bundle = issued[k]
                      /\ ram'[k].there /\ ~Storing(k, {"stores", "publishes"})'
                         => ram'[k].bundle = issued[k]
                      /\ row'[k].there /\ ~Storing(k, {"stores"})'
                         => row'[k].bundle = issued[k]
    BY DEF NewestHeld
  <2>0. /\ lost[k] = {} /\ issued[k] \in Nat
        /\ ram[k].bundle \in Nat /\ row[k].bundle \in Nat
        /\ ram'[k].bundle \in Nat /\ row'[k].bundle \in Nat
    <3>1. lost[k] = {} OBVIOUS
    <3>2. Bundle \subseteq Nat BY GatewayAssumption DEF Bundle
    <3>3. /\ issued[k] \in Bundle
          /\ ram[k].bundle \in Bundle /\ row[k].bundle \in Bundle
      BY DEF TypeOK, Account
    <3>4. ram'[k].bundle \in Bundle /\ row'[k].bundle \in Bundle
      BY DEF TypeOK, Account
    <3> QED BY <3>1, <3>2, <3>3, <3>4
  <2>1. \A u \in Task : Renews(u, k)' => task'[u].bundle = issued[k]
    BY <1>0, <1>1, <2>0 DEF Renewals, NewestHeld, Renews
  <2>2. ASSUME ram'[k].there, ~Storing(k, {"stores", "publishes"})'
        PROVE  ram'[k].bundle = issued[k]
    <3>1. CASE Storing(k, {"stores", "publishes"})
      <4>1. task[t].key = k /\ task[t].pc \in {"stores", "publishes"}
        BY <1>0, <2>2, <3>1 DEF Storing
      <4>2. r.pc \notin {"stores", "publishes"}
        BY <1>0, <2>2, <4>1 DEF Storing
      <4> QED BY <2>2, <4>1, <4>2
    <3>2. CASE ~Storing(k, {"stores", "publishes"})
      <4>1. ram[k].there /\ ram[k].bundle <= ram'[k].bundle
            /\ ram'[k].bundle <= issued[k]
        BY <2>2 DEF Keeps
      <4>2. ram[k].bundle = issued[k]
        BY <2>0, <3>2, <4>1 DEF Renewals, NewestHeld
      <4> QED BY <2>0, <4>1, <4>2
    <3> QED BY <3>1, <3>2
  <2>3. ASSUME row'[k].there, ~Storing(k, {"stores"})'
        PROVE  row'[k].bundle = issued[k]
    <3>1. CASE Storing(k, {"stores"})
      <4>1. task[t].key = k /\ task[t].pc = "stores"
        BY <1>0, <2>3, <3>1 DEF Storing
      <4> QED BY <2>3, <4>1
    <3>2. CASE ~Storing(k, {"stores"})
      <4>1. row[k].there /\ row[k].bundle <= row'[k].bundle
            /\ row'[k].bundle <= issued[k]
        BY <2>3 DEF Keeps
      <4>2. row[k].bundle = issued[k]
        BY <2>0, <3>2, <4>1 DEF Renewals, NewestHeld
      <4> QED BY <2>0, <4>1, <4>2
    <3> QED BY <3>1, <3>2
  <2> QED BY <2>1, <2>2, <2>3
<1> QED BY <1>2, <1>3, <1>5, <1>6, <1>7, <1>8 DEF Renewals

(* An idle task turns to a key that exists and that nobody inserts.        *)
LEMMA BeginStep ==
  ASSUME TypeOK, Renewals, NEW t \in Task, NEW r \in TaskRec,
         task' = [task EXCEPT ![t] = r], At(t, "idle"),
         r.pc \notin Renewing \union {"inserts", "inserted"},
         r.bundle <= issued[r.key], issued[r.key] # 0,
         \A u \in Task : task[u].pc \in {"inserts", "inserted"}
                         => task[u].key # r.key,
         due' \in SUBSET due, UNCHANGED <<ram, row, lock, issued, lost>>
  PROVE  Renewals'
<1>0. task \in [Task -> TaskRec] /\ task'[t] = r
      /\ \A u \in Task \ {t} : task'[u] = task[u]
  BY DEF TypeOK, TaskRec
<1>1. \A u \in Task : \A k \in Key : Renews(u, k)' => u # t /\ Renews(u, k)
  BY <1>0 DEF Renews
<1>2. OneRenewal' /\ HeldWhileThere'
  BY <1>0, <1>1 DEF Renewals, OneRenewal, HeldWhileThere
<1>3. ASSUME NEW k \in Key, NEW S, k # r.key, Unused(k, S)
      PROVE  Unused(k, S)'
  BY <1>0, <1>3 DEF Unused, At
<1>4. Unborn'
  BY <1>3 DEF Renewals, Unborn
<1>5. Inserting'
  <2> SUFFICES ASSUME NEW u \in Task, task'[u].pc \in {"inserts", "inserted"}
               PROVE  /\ issued[task'[u].key] = 1 /\ ~ram[task'[u].key].there
                      /\ Unused(task[u].key, {u})'
    BY <1>0 DEF Inserting
  <2>1. u # t /\ task'[u] = task[u] /\ task[u].key \in Key
    BY <1>0 DEF TaskRec
  <2>2. task[u].key # r.key BY <2>1
  <2> QED BY <1>3, <2>1, <2>2 DEF Renewals, Inserting
<1>6. NoneNewer'
  BY <1>0 DEF Renewals, NoneNewer
<1>7. NewestHeld'
  <2>1. \A k \in Key :
          /\ Storing(k, {"stores"}) => Storing(k, {"stores"})'
          /\ Storing(k, {"stores", "publishes"})
             => Storing(k, {"stores", "publishes"})'
    BY <1>0 DEF Storing, At
  <2> QED BY <1>0, <1>1, <2>1 DEF Renewals, NewestHeld
<1> QED BY <1>2, <1>4, <1>5, <1>6, <1>7 DEF Renewals

(* One account of a store replaced, or none.                               *)
LEMMA KeepsOne ==
  ASSUME TypeOK, NEW s \in [Key -> Account],
         \A j \in Key : s[j].bundle <= issued[j],
         NEW k \in Key, NEW a \in Account, NEW s2,
         s2 = s \/ s2 = [s EXCEPT ![k] = a],
         a.there => s[k].there, a.bundle <= issued[k],
         lost'[k] = {} /\ a.there => s[k].bundle <= a.bundle
  PROVE  Keeps(s, s2)
<1>1. \A j \in Key : s[j].bundle \in Nat
  BY GatewayAssumption DEF Account, Bundle
<1> QED BY <1>1 DEF Keeps

LEMMA KeepsSame ==
  ASSUME TypeOK, Renewals
  PROVE  /\ UNCHANGED ram => Keeps(ram, ram')
         /\ UNCHANGED row => Keeps(row, row')
<1>1. \A j \in Key : ram[j].bundle \in Nat /\ row[j].bundle \in Nat
  BY Reads DEF Account
<1> QED BY <1>1 DEF Keeps, Renewals, NoneNewer

(* A task that leaves its await for one where no renewal is under way.     *)
Goes(t) ==
  \E r \in TaskRec :
    /\ task' = [task EXCEPT ![t] = r] /\ r.key = task[t].key
    /\ r.pc \notin Renewing \union {"inserts", "inserted"}
    /\ r.bundle <= issued[r.key]

LEMMA TaskGoes ==
  ASSUME TypeOK, Renewals, NEW t \in Task
  PROVE  /\ \A pc \in PC \ (Renewing \union {"inserts", "inserted"}) :
              Move(t, pc) => Goes(t)
         /\ Done(t) => Goes(t)
         /\ \A ok \in BOOLEAN : \A a \in Account :
              Continue(t, ok, a) /\ a.bundle <= issued[task[t].key] => Goes(t)
         /\ Discover(t) => Goes(t)
         /\ task' = [task EXCEPT ![t].pc = "waits", ![t].again = TRUE]
            => Goes(t)
<1> DEFINE k == task[t].key
<1>0. /\ k \in Key /\ task \in [Task -> TaskRec] /\ task[t] \in TaskRec
      /\ task[t].bundle <= issued[k] /\ ram[k].bundle <= issued[k]
      /\ 0 <= issued[k] /\ ram[k].bundle \in Bundle
  <2>1. k \in Key /\ task \in [Task -> TaskRec] /\ task[t] \in TaskRec
    BY Reads DEF TypeOK, TaskRec
  <2>2. ram[k].bundle \in Bundle /\ issued[k] \in Nat
    BY <2>1, Reads DEF Account
  <2> QED BY <2>1, <2>2 DEF Renewals, NoneNewer
<1>1. \A pc \in PC \ (Renewing \union {"inserts", "inserted"}) :
        Move(t, pc) => Goes(t)
  BY <1>0, MoveTypes DEF Goes
<1>2. Done(t) => Goes(t) BY <1>0, DoneTypes DEF Goes, Renewing
<1>3. ASSUME NEW ok \in BOOLEAN, NEW a \in Account, Continue(t, ok, a),
             a.bundle <= issued[k]
      PROVE  Goes(t)
  BY <1>0, <1>3, ContinueTypes DEF Goes, Renewing
<1>4. ASSUME task' = [task EXCEPT ![t].pc = "binds", ![t].bundle = ram[k].bundle]
      PROVE  Goes(t)
  <2> DEFINE r == [task[t] EXCEPT !.pc = "binds", !.bundle = ram[k].bundle]
  <2>1. r \in TaskRec /\ r.key = k /\ r.pc = "binds"
        /\ r.bundle = ram[k].bundle
    BY <1>0 DEF TaskRec, PC
  <2>2. task' = [task EXCEPT ![t] = r] BY <1>0, <1>4
  <2> QED BY <1>0, <2>1, <2>2 DEF Goes, Renewing
<1>5. ASSUME task' = [task EXCEPT ![t].pc = "waits", ![t].again = TRUE]
      PROVE  Goes(t)
  <2> DEFINE r == [task[t] EXCEPT !.pc = "waits", !.again = TRUE]
  <2>1. r \in TaskRec /\ r.key = k /\ r.pc = "waits"
        /\ r.bundle = task[t].bundle
    BY <1>0 DEF TaskRec, PC
  <2>2. task' = [task EXCEPT ![t] = r] BY <1>0, <1>5
  <2> QED BY <1>0, <2>1, <2>2 DEF Goes, Renewing
<1> QED BY <1>1, <1>2, <1>3, <1>4, <1>5 DEF Discover

LEMMA GoesStep ==
  ASSUME TypeOK, TypeOK', Renewals, NEW t \in Task, Goes(t), ~At(t, "idle"),
         Keeps(ram, ram'), Keeps(row, row'), issued' = issued, due' = due,
         \A k \in Key : lock'[k] = lock[k] \/ lock[k] = t \/ ~ram'[k].there,
         \A k \in Key : lost'[k] = {} => lost[k] = {},
         task[t].pc = "stores" => lost'[task[t].key] # {},
         task[t].pc = "publishes" /\ lost'[task[t].key] = {}
           /\ ram'[task[t].key].there
           => ram'[task[t].key].bundle = issued[task[t].key]
  PROVE  Renewals'
<1>1. PICK r \in TaskRec :
        /\ task' = [task EXCEPT ![t] = r] /\ r.key = task[t].key
        /\ r.pc \notin Renewing \union {"inserts", "inserted"}
        /\ r.bundle <= issued[r.key]
  BY DEF Goes
<1> QED BY <1>1, BusyStep

(* A recorded loss stays recorded, and so is a newer bundle overwritten.   *)
LEMMA LossMonotone ==
  ASSUME TypeOK, NEW k \in Key
  PROVE  /\ \A S : lost' = [lost EXCEPT ![k] = @ \union S] =>
              /\ \A j \in Key : lost'[j] = {} => lost[j] = {}
              /\ lost'[k] = {} => S = {}
         /\ UNCHANGED lost => \A j \in Key : lost'[j] = {} => lost[j] = {}
         /\ \A a, b : a \in Account /\ b \in Nat /\ Overwrites(a, b) = {}
                      => (a.there => a.bundle <= b)
<1>1. ASSUME NEW S, lost' = [lost EXCEPT ![k] = lost[k] \union S]
      PROVE  /\ \A j \in Key : lost'[j] = {} => lost[j] = {}
             /\ lost'[k] = {} => S = {}
  <2>1. lost'[k] = lost[k] \union S BY <1>1 DEF TypeOK
  <2>2. \A j \in Key \ {k} : lost'[j] = lost[j] BY <1>1 DEF TypeOK
  <2> QED BY <2>1, <2>2
<1>2. ASSUME NEW a \in Account, NEW b \in Nat, Overwrites(a, b) = {}, a.there
      PROVE  a.bundle <= b
  <2>1. a.bundle \in Nat BY GatewayAssumption DEF Account, Bundle
  <2>2. ~(a.bundle > b) BY <1>2 DEF Overwrites
  <2> QED BY <2>1, <2>2
<1> QED BY <1>1, <1>2

LEMMA QuietSteps ==
  ASSUME TypeOK, TypeOK', Renewals, NEW t \in Task,
         \/ MarkRow(t) \/ MarkRam(t)
         \/ CallAnswered(t) \/ ReportUnauthorized(t)
         \/ QuotaAnswered(t) \/ ClearRow(t) \/ BindRow(t) \/ BindRam(t)
         \/ EditRow(t) \/ EditRam(t) \/ DeleteRow(t) \/ DeleteRam(t)
  PROVE  Renewals'
<1> DEFINE k == task[t].key  b == task[t].bundle
<1>0. /\ k \in Key /\ row[k] \in Account /\ ram[k] \in Account
      /\ row \in [Key -> Account] /\ ram \in [Key -> Account]
      /\ \A j \in Key : row[j].bundle <= issued[j] /\ ram[j].bundle <= issued[j]
      /\ b <= issued[k] /\ 0 <= issued[k]
      /\ row[k].bundle \in Nat /\ ram[k].bundle \in Nat /\ b \in Nat
      /\ ram[k].bundle <= issued[k]
  <2>1. k \in Key /\ row[k] \in Account /\ ram[k] \in Account
        /\ row \in [Key -> Account] /\ ram \in [Key -> Account]
    BY Reads DEF TypeOK
  <2>2. /\ issued[k] \in Nat /\ b \in Nat
        /\ row[k].bundle \in Nat /\ ram[k].bundle \in Nat
    BY <2>1, Reads DEF Account
  <2>3. \A j \in Key : row[j].bundle <= issued[j] /\ ram[j].bundle <= issued[j]
    BY DEF Renewals, NoneNewer
  <2>4. b <= issued[k] BY <2>1 DEF Renewals, NoneNewer
  <2> QED BY <2>1, <2>2, <2>3, <2>4
<1>15. Absent \in Account /\ ~Absent.there /\ Absent.bundle = 0
  BY Reads DEF Absent, Account, Status
<1>1. ASSUME NEW a \in Account, a.there => row[k].there,
             a = Absent \/ a.bundle = row[k].bundle,
             row' = row \/ row' = [row EXCEPT ![k] = a]
      PROVE  Keeps(row, row')
  BY <1>0, <1>1, <1>15, KeepsOne
<1>2. ASSUME NEW a \in Account, a.there => ram[k].there,
             a = Absent \/ a.bundle = ram[k].bundle,
             ram' = ram \/ ram' = [ram EXCEPT ![k] = a]
      PROVE  Keeps(ram, ram')
  BY <1>0, <1>2, <1>15, KeepsOne
<1>3. ASSUME Goes(t), ~At(t, "idle"), task[t].pc \notin {"stores", "publishes"},
             Keeps(ram, ram'), Keeps(row, row'),
             UNCHANGED <<issued, due, lost>>,
             \A j \in Key : lock'[j] = lock[j] \/ lock[j] = t \/ ~ram'[j].there
      PROVE  Renewals'
  BY <1>3, GoesStep
<1>4. Unauthorized(k) => Keeps(ram, ram')
  <2> DEFINE a == [ram[k] EXCEPT !.status = "reauth"]
  <2>1. a \in Account /\ (a.there => ram[k].there) /\ a.bundle = ram[k].bundle
    BY <1>0 DEF Account, Status
  <2>2. Unauthorized(k) => ram' = ram \/ ram' = [ram EXCEPT ![k] = a]
    BY <1>0 DEF Unauthorized
  <2> HIDE DEF a
  <2> QED BY <1>2, <2>1, <2>2
<1>5. CASE MarkRow(t)
  <2> DEFINE a == [row[k] EXCEPT !.status = "reauth"]
  <2>1. a \in Account /\ (a.there => row[k].there) /\ a.bundle = row[k].bundle
    BY <1>0 DEF Account, Status
  <2>2. row' = row \/ row' = [row EXCEPT ![k] = a]
    BY <1>0, <1>5 DEF MarkRow
  <2> HIDE DEF a
  <2>3. Keeps(row, row') BY <1>1, <2>1, <2>2
  <2>4. Goes(t) BY <1>5, TaskGoes DEF MarkRow, PC, Renewing
  <2> QED BY <1>3, <1>5, <2>3, <2>4, KeepsSame DEF MarkRow, At
<1>6. CASE MarkRam(t)
  <2>1. Keeps(ram, ram')
    <3> DEFINE a == [ram[k] EXCEPT !.status = "reauth"]
    <3>1. a \in Account /\ (a.there => ram[k].there) /\ a.bundle = ram[k].bundle
      BY <1>0 DEF Account, Status
    <3>2. ram' = ram \/ ram' = [ram EXCEPT ![k] = a]
      BY <1>0, <1>6 DEF MarkRam
    <3> HIDE DEF a
    <3> QED BY <1>2, <3>1, <3>2
  <2>2. Goes(t) BY <1>0, <1>6, TaskGoes DEF MarkRam
  <2>3. \A j \in Key : lock'[j] = lock[j] \/ lock[j] = t
    BY <1>6, ReleaseTypes DEF MarkRam
  <2> QED BY <1>3, <1>6, <2>1, <2>2, <2>3, KeepsSame DEF MarkRam, At
<1>7. CASE CallAnswered(t)
  <2>1. ASSUME NEW f \in BOOLEAN, Cool(k, f) PROVE Keeps(ram, ram')
    <3> DEFINE a == [ram[k] EXCEPT !.cooling = f]
    <3>1. a \in Account /\ (a.there => ram[k].there) /\ a.bundle = ram[k].bundle
      BY <1>0 DEF Account
    <3>2. ram' = ram \/ ram' = [ram EXCEPT ![k] = a]
      BY <1>0, <2>1 DEF Cool
    <3> HIDE DEF a
    <3> QED BY <1>2, <3>1, <3>2
  <2>2. Keeps(ram, ram') BY <1>4, <1>7, <2>1, KeepsSame DEF CallAnswered
  <2>3. Goes(t) BY <1>7, TaskGoes DEF CallAnswered, PC, Renewing
  <2> QED BY <1>3, <1>7, <2>2, <2>3, KeepsSame DEF CallAnswered, At
<1>8. CASE ReportUnauthorized(t)
  <2>1. Keeps(ram, ram') /\ Goes(t)
    BY <1>4, <1>8, TaskGoes DEF ReportUnauthorized
  <2> QED BY <1>3, <1>8, <2>1, KeepsSame DEF ReportUnauthorized, At
<1>9. CASE QuotaAnswered(t)
  <2> DEFINE a == [ram[k] EXCEPT !.status = RenewedStatus(ram[k])]
  <2>1. a \in Account /\ (a.there => ram[k].there) /\ a.bundle = ram[k].bundle
    BY <1>0 DEF Account, Status, RenewedStatus
  <2>2. ram' = ram \/ ram' = [ram EXCEPT ![k] = a]
    BY <1>0, <1>9 DEF QuotaAnswered
  <2> HIDE DEF a
  <2>3. Keeps(ram, ram') BY <1>2, <2>1, <2>2
  <2>4. Goes(t) BY <1>9, TaskGoes DEF QuotaAnswered, PC, Renewing
  <2> QED BY <1>3, <1>9, <2>3, <2>4, KeepsSame DEF QuotaAnswered, At
<1>10. CASE ClearRow(t)
  <2> DEFINE a == [row[k] EXCEPT !.status = RenewedStatus(row[k])]
  <2>1. a \in Account /\ (a.there => row[k].there) /\ a.bundle = row[k].bundle
    BY <1>0 DEF Account, Status, RenewedStatus
  <2>2. row' = row \/ row' = [row EXCEPT ![k] = a]
    BY <1>0, <1>10 DEF ClearRow
  <2> HIDE DEF a
  <2>3. Keeps(row, row') BY <1>1, <2>1, <2>2
  <2>4. Goes(t) BY <1>10, TaskGoes DEF ClearRow
  <2> QED BY <1>3, <1>10, <2>3, <2>4, KeepsSame DEF ClearRow, At
<1>11. CASE BindRow(t)
  <2> DEFINE a == [row[k] EXCEPT !.bundle = b]
  <2>1. a \in Account /\ (a.there => row[k].there) /\ a.bundle = b
    BY <1>0, Reads DEF Account
  <2>2. row' = row \/ row' = [row EXCEPT ![k] = a]
    BY <1>0, <1>11 DEF BindRow
  <2>3. \A j \in Key : lost'[j] = {} => lost[j] = {}
    BY <1>0, <1>11, LossMonotone DEF BindRow
  <2>4. row' = row \/ (row[k].there /\ lost'[k] = {} => row[k].bundle <= b)
    <3>1. CASE lost' = [lost EXCEPT ![k] = @ \union Overwrites(row[k], b)]
      <4>1. lost'[k] = {} => Overwrites(row[k], b) = {}
        BY <1>0, <3>1, LossMonotone
      <4> QED BY <1>0, <4>1, LossMonotone
    <3> QED BY <1>11, <3>1 DEF BindRow
  <2> HIDE DEF a
  <2>5. Keeps(row, row')
    <3>1. CASE row' = row BY <3>1, KeepsSame
    <3>2. CASE row' # row BY <1>0, <2>1, <2>2, <2>4, <3>2, KeepsOne
    <3> QED BY <3>1, <3>2
  <2>6. Goes(t) BY <1>11, TaskGoes DEF BindRow, PC, Renewing
  <2> QED BY <1>11, <2>3, <2>5, <2>6, KeepsSame, GoesStep DEF BindRow, At
<1>12. CASE BindRam(t)
  <2> DEFINE a == [ram[k] EXCEPT !.bundle = b]
  <2>1. a \in Account /\ (a.there => ram[k].there) /\ a.bundle = b
    BY <1>0, Reads DEF Account
  <2>2. ram' = ram \/ ram' = [ram EXCEPT ![k] = a]
    BY <1>0, <1>12 DEF BindRam
  <2>3. \A j \in Key : lost'[j] = {} => lost[j] = {}
    BY <1>0, <1>12, LossMonotone DEF BindRam
  <2>4. ram[k].there /\ lost'[k] = {} => ram[k].bundle <= b
    <3>1. lost'[k] = {} => Overwrites(ram[k], b) = {}
      BY <1>0, <1>12, LossMonotone DEF BindRam
    <3> QED BY <1>0, <3>1, LossMonotone
  <2> HIDE DEF a
  <2>5. Keeps(ram, ram') BY <1>0, <2>1, <2>2, <2>4, KeepsOne
  <2>6. Goes(t) BY <1>12, TaskGoes DEF BindRam
  <2> QED BY <1>12, <2>3, <2>5, <2>6, KeepsSame, GoesStep DEF BindRam, At
<1>13. CASE EditRow(t)
  <2> DEFINE a == Edited(row[k], task[t].edit)
  <2>1. a \in Account /\ (a.there => row[k].there) /\ a.bundle = row[k].bundle
    BY <1>0, Reads DEF Account, Edited, TaskRec
  <2>2. row' = row \/ row' = [row EXCEPT ![k] = a]
    BY <1>0, <1>13 DEF EditRow
  <2> HIDE DEF a
  <2>3. Keeps(row, row') BY <1>1, <2>1, <2>2
  <2>4. Goes(t) BY <1>13, TaskGoes DEF EditRow, PC, Renewing
  <2> QED BY <1>3, <1>13, <2>3, <2>4, KeepsSame DEF EditRow, At
<1>14. CASE EditRam(t)
  <2> DEFINE e == task[t].edit
             a == [Edited(ram[k], e)
                     EXCEPT !.cooling = ram[k].cooling /\ ~e.toggled]
  <2>1. (ram[k].cooling /\ ~e.toggled) \in BOOLEAN OBVIOUS
  <2>2. a \in Account /\ (a.there => ram[k].there) /\ a.bundle = ram[k].bundle
    BY <1>0, <2>1, Reads DEF Account, Edited, TaskRec
  <2>3. ram' = ram \/ ram' = [ram EXCEPT ![k] = a]
    BY <1>0, <1>14 DEF EditRam
  <2> HIDE DEF a
  <2>4. Keeps(ram, ram') BY <1>2, <2>2, <2>3
  <2>5. Goes(t) BY <1>14, TaskGoes DEF EditRam
  <2> QED BY <1>3, <1>14, <2>4, <2>5, KeepsSame DEF EditRam, At
<1>16. CASE DeleteRow(t)
  <2>1. row' = row \/ row' = [row EXCEPT ![k] = Absent] BY <1>16 DEF DeleteRow
  <2>2. Keeps(row, row') BY <1>1, <1>15, <2>1
  <2>3. Goes(t) BY <1>16, TaskGoes DEF DeleteRow, PC, Renewing
  <2> QED BY <1>3, <1>16, <2>2, <2>3, KeepsSame DEF DeleteRow, At
<1>17. CASE DeleteRam(t)
  <2>1. ram' = [ram EXCEPT ![k] = Absent] BY <1>17 DEF DeleteRam
  <2>2. Keeps(ram, ram') BY <1>2, <1>15, <2>1
  <2>3. Goes(t) BY <1>17, TaskGoes DEF DeleteRam
  <2>4. \A j \in Key : lock'[j] = lock[j] \/ ~ram'[j].there
    BY <1>0, <1>15, <1>17 DEF DeleteRam, TypeOK
  <2> QED BY <1>3, <1>17, <2>2, <2>3, <2>4, KeepsSame DEF DeleteRam, At
<1> QED BY <1>5, <1>6, <1>7, <1>8, <1>9, <1>10, <1>11, <1>12, <1>13, <1>14,
           <1>16, <1>17

(* The new bundle goes to the row and then to the snapshot.                *)
LEMMA StoreSteps ==
  ASSUME TypeOK, TypeOK', Renewals, NEW t \in Task,
         StoreRow(t) \/ PublishBundle(t)
  PROVE  Renewals'
<1> DEFINE k == task[t].key  b == task[t].bundle
<1>0. /\ k \in Key /\ row[k] \in Account /\ ram[k] \in Account
      /\ row \in [Key -> Account] /\ ram \in [Key -> Account]
      /\ b \in Bundle /\ b \in Nat /\ issued[k] \in Nat
      /\ row[k].bundle \in Nat /\ ram[k].bundle \in Nat
  <2>1. /\ k \in Key /\ row[k] \in Account /\ ram[k] \in Account
        /\ row \in [Key -> Account] /\ ram \in [Key -> Account]
        /\ b \in Bundle
    BY Reads DEF TypeOK
  <2> QED BY <2>1, Reads DEF Account
<1>1. /\ \A j \in Key : row[j].bundle <= issued[j] /\ ram[j].bundle <= issued[j]
      /\ b <= issued[k]
      /\ ram[k].bundle <= issued[k] /\ row[k].bundle <= issued[k]
  BY <1>0 DEF Renewals, NoneNewer
<1>2. task[t].pc \in {"stores", "publishes"} /\ lost[k] = {} => b = issued[k]
  BY <1>0 DEF Renewals, NewestHeld, Renews, Renewing
<1>3. CASE StoreRow(t)
  <2>1. task[t].pc = "stores" BY <1>3 DEF StoreRow, At
  <2>2. CASE Move(t, "publishes") /\ UNCHANGED <<lock, lost>>
             /\ row' = IF ~row[k].there THEN row
                       ELSE [row EXCEPT ![k].bundle = b, ![k].expiry = b,
                                        ![k].status = RenewedStatus(row[k])]
    <3> DEFINE a == [row[k] EXCEPT !.bundle = b, !.expiry = b,
                                   !.status = RenewedStatus(row[k])]
    <3>1. a \in Account /\ (a.there => row[k].there) /\ a.bundle = b
      BY <1>0 DEF Account, Status, RenewedStatus
    <3>2. row' = row \/ row' = [row EXCEPT ![k] = a] BY <1>0, <2>2
    <3>3. row'[k].there => row'[k].bundle = b
      BY <1>0, <2>2, <3>1
    <3> HIDE DEF a
    <3>4. lost'[k] = {} => row[k].bundle <= a.bundle
      BY <1>0, <1>1, <1>2, <2>1, <2>2, <3>1
    <3>5. Keeps(row, row') BY <1>0, <1>1, <3>1, <3>2, <3>4, KeepsOne
    <3>6. PICK r \in TaskRec :
            /\ task' = [task EXCEPT ![t] = r] /\ r.key = k
            /\ r.pc = "publishes" /\ r.bundle = b
      BY <2>2, MoveTypes DEF PC
    <3>7. lost'[k] = {} =>
            (row'[k].there => row'[k].bundle = issued[k])
      BY <1>2, <2>1, <2>2, <3>3
    <3>8. ~At(t, "idle") BY <2>1 DEF At
    <3>9. Keeps(ram, ram') /\ UNCHANGED <<issued, due, lock, lost>>
      BY <1>3, <2>2, KeepsSame DEF StoreRow, Move
    <3> QED
      BY <1>1, <2>1, <3>5, <3>6, <3>7, <3>8, <3>9, BusyStep DEF Renewing
  <2>3. CASE lost' = [lost EXCEPT ![k] = @ \union {"write"}]
             /\ Continue(t, FALSE, ram[k]) /\ Release(t) /\ UNCHANGED row
    <3>1. Goes(t) BY <1>0, <1>1, <2>3, TaskGoes
    <3>2. lost'[k] # {} /\ \A j \in Key : lost'[j] = {} => lost[j] = {}
      BY <1>0, <2>3, LossMonotone
    <3>3. \A j \in Key : lock'[j] = lock[j] \/ lock[j] = t
      BY <2>3, ReleaseTypes
    <3> QED
      BY <1>3, <2>1, <2>3, <3>1, <3>2, <3>3, KeepsSame, GoesStep
         DEF StoreRow, At
  <2> QED BY <1>3, <2>2, <2>3 DEF StoreRow
<1>4. CASE PublishBundle(t)
  <2>1. task[t].pc = "publishes" BY <1>4 DEF PublishBundle, At
  <2> DEFINE a == IF ram[k].there THEN Renewed(ram[k], b) ELSE ram[k]
  <2>2. a \in Account /\ (a.there => ram[k].there)
        /\ (a.there => a.bundle = b)
        /\ (a.bundle = b \/ a.bundle = ram[k].bundle)
    BY <1>0 DEF Renewed, Account, Status, RenewedStatus
  <2>3. a.there \in BOOLEAN BY <2>2 DEF Account
  <2>4. ram' = [ram EXCEPT ![k] = a] /\ Continue(t, a.there, a) /\ Release(t)
        /\ UNCHANGED <<row, due, issued, lost>>
    BY <1>4 DEF PublishBundle
  <2> HIDE DEF a
  <2>5. ram'[k] = a BY <1>0, <2>4
  <2>6. a.bundle <= issued[k] BY <1>1, <2>2
  <2>7. lost'[k] = {} /\ a.there => ram[k].bundle <= a.bundle
        /\ a.bundle = issued[k]
    <3> SUFFICES ASSUME lost'[k] = {}, a.there
                 PROVE  ram[k].bundle <= a.bundle /\ a.bundle = issued[k]
      OBVIOUS
    <3>1. lost[k] = {} BY <2>4
    <3>2. b = issued[k] BY <1>2, <2>1, <3>1
    <3>3. a.bundle = b BY <2>2
    <3> QED BY <1>1, <3>2, <3>3
  <2>8. Keeps(ram, ram')
    <3>1. \A j \in Key : ram[j].bundle <= issued[j] BY <1>1
    <3>2. a \in Account /\ (a.there => ram[k].there) BY <2>2
    <3>3. lost'[k] = {} /\ a.there => ram[k].bundle <= a.bundle BY <2>7
    <3>4. ram' = ram \/ ram' = [ram EXCEPT ![k] = a] BY <2>4
    <3> QED BY <1>0, <2>6, <3>1, <3>2, <3>3, <3>4, KeepsOne
  <2>9. Goes(t) BY <2>2, <2>3, <2>4, <2>6, TaskGoes
  <2>10. \A j \in Key : lock'[j] = lock[j] \/ lock[j] = t
    BY <2>4, ReleaseTypes
  <2> QED
    BY <2>1, <2>4, <2>5, <2>7, <2>8, <2>9, <2>10, KeepsSame, GoesStep DEF At
<1> QED BY <1>3, <1>4

(* The provider issues a bundle, whether or not its answer arrives.        *)
LEMMA IssueStep ==
  ASSUME TypeOK, Renewals, NEW t \in Task, NEW r \in TaskRec,
         At(t, "exchanges"), task' = [task EXCEPT ![t] = r],
         r.key = task[t].key, r.pc \in {"stores", "marks", "idle"},
         issued' = [issued EXCEPT ![r.key] = @ + 1],
         r.bundle <= issued'[r.key],
         r.pc = "stores" => r.bundle = issued'[r.key],
         r.pc # "stores" => lost'[r.key] # {},
         \A k \in Key : lost'[k] = {} => lost[k] = {},
         \A k \in Key : lock'[k] = lock[k] \/ (lock[k] = t /\ r.pc # "stores"),
         UNCHANGED <<row, ram, due>>
  PROVE  Renewals'
<1> DEFINE k == r.key
<1>0. /\ task \in [Task -> TaskRec] /\ task'[t] = r /\ k \in Key
      /\ \A u \in Task \ {t} : task'[u] = task[u]
      /\ \A u \in Task : task'[u].key = task[u].key /\ task[u].key \in Key
  BY DEF TypeOK, TaskRec
<1>1. /\ \A j \in Key : issued[j] \in Nat /\ ram[j].bundle \in Nat
                        /\ row[j].bundle \in Nat
      /\ \A u \in Task : task[u].bundle \in Nat
      /\ issued'[k] = issued[k] + 1
      /\ \A j \in Key \ {k} : issued'[j] = issued[j]
  <2>1. \A j \in Key : issued[j] \in Nat /\ ram[j].bundle \in Nat
                       /\ row[j].bundle \in Nat
    BY Reads DEF Account
  <2>2. \A u \in Task : task[u].bundle \in Nat BY Reads
  <2>3. issued \in [Key -> Bundle] BY DEF TypeOK
  <2> QED BY <1>0, <2>1, <2>2, <2>3
<1>2. \A u \in Task : \A j \in Key : Renews(u, j)' => Renews(u, j)
  BY <1>0 DEF Renews, Renewing, At
<1>3. OneRenewal' /\ HeldWhileThere'
  <2>1. \A u \in Task : \A j \in Key : Renews(u, j)' /\ r.pc # "stores" => u # t
    BY <1>0 DEF Renews, Renewing
  <2> QED BY <1>2, <2>1 DEF Renewals, OneRenewal, HeldWhileThere
<1>4. \A j \in Key : Unused(j, {}) => Unused(j, {})' /\ j # k
  BY <1>0 DEF Unused, At
<1>5. Unborn' BY <1>0, <1>1, <1>4 DEF Renewals, Unborn
<1>6. Inserting'
  <2> SUFFICES ASSUME NEW u \in Task, task'[u].pc \in {"inserts", "inserted"}
               PROVE  /\ issued'[task'[u].key] = 1 /\ ~ram'[task'[u].key].there
                      /\ Unused(task[u].key, {u})'
    BY <1>0 DEF Inserting
  <2>1. u # t /\ task'[u] = task[u] BY <1>0
  <2>2. issued[task[u].key] = 1 /\ ~ram[task[u].key].there
        /\ Unused(task[u].key, {u})
    BY <2>1 DEF Renewals, Inserting
  <2>3. task[t].key # task[u].key BY <2>1, <2>2 DEF Unused, At
  <2>4. Unused(task[u].key, {u})' BY <1>0, <2>2, <2>3 DEF Unused, At
  <2> QED BY <1>0, <1>1, <2>1, <2>2, <2>3, <2>4
<1>7. NoneNewer'
  <2> SUFFICES ASSUME NEW j \in Key
               PROVE  /\ ram[j].bundle <= issued'[j] /\ row[j].bundle <= issued'[j]
                      /\ \A u \in Task : task'[u].key = j
                                        => task'[u].bundle <= issued'[j]
    BY DEF NoneNewer
  <2>1. issued[j] <= issued'[j] BY <1>1
  <2>2. issued'[j] \in Nat BY <1>1
  <2>3. ram[j].bundle <= issued[j] /\ row[j].bundle <= issued[j]
    BY DEF Renewals, NoneNewer
  <2>4. ASSUME NEW u \in Task, task'[u].key = j
        PROVE  task'[u].bundle <= issued'[j]
    <3>1. CASE u = t BY <1>0, <2>4, <3>1
    <3>2. CASE u # t
      <4>1. task'[u] = task[u] /\ task[u].bundle <= issued[j]
        BY <1>0, <2>4, <3>2 DEF Renewals, NoneNewer
      <4> QED BY <1>1, <2>1, <2>2, <4>1
    <3> QED BY <3>1, <3>2
  <2> QED BY <1>1, <2>1, <2>2, <2>3, <2>4
<1>8. NewestHeld'
  <2> SUFFICES ASSUME NEW j \in Key, lost'[j] = {}
               PROVE  /\ \A u \in Task : Renews(u, j)' => task'[u].bundle = issued'[j]
                      /\ ram[j].there /\ ~Storing(j, {"stores", "publishes"})'
                         => ram[j].bundle = issued'[j]
                      /\ row[j].there /\ ~Storing(j, {"stores"})'
                         => row[j].bundle = issued'[j]
    BY DEF NewestHeld
  <2>1. lost[j] = {} OBVIOUS
  <2>2. CASE j = k
    <3>1. r.pc = "stores" BY <2>2
    <3>2. Storing(j, {"stores"})' /\ Storing(j, {"stores", "publishes"})'
      BY <1>0, <2>2, <3>1 DEF Storing
    <3>3. \A u \in Task : Renews(u, j)' => u = t
      BY <1>0, <1>3, <2>2, <3>1 DEF OneRenewal, Renews, Renewing
    <3> QED BY <1>0, <2>2, <3>1, <3>2, <3>3
  <2>3. CASE j # k
    <3>1. /\ Storing(j, {"stores"}) => Storing(j, {"stores"})'
          /\ Storing(j, {"stores", "publishes"})
             => Storing(j, {"stores", "publishes"})'
      BY <1>0, <2>3 DEF Storing
    <3>2. \A u \in Task : Renews(u, j)' => Renews(u, j) /\ task'[u] = task[u]
      BY <1>0, <1>2, <2>3 DEF Renews
    <3> QED BY <1>1, <2>1, <2>3, <3>1, <3>2 DEF Renewals, NewestHeld
  <2> QED BY <2>2, <2>3
<1> QED BY <1>3, <1>5, <1>6, <1>7, <1>8 DEF Renewals

LEMMA ExchangeStep ==
  ASSUME TypeOK, TypeOK', Renewals, NEW t \in Task, Exchange(t)
  PROVE  Renewals'
<1> DEFINE k == task[t].key
<1>0. /\ k \in Key /\ task \in [Task -> TaskRec] /\ task[t] \in TaskRec
      /\ issued \in [Key -> Bundle] /\ issued[k] \in Nat
      /\ task[t].bundle \in Nat
  <2>1. k \in Key /\ task[t] \in TaskRec /\ task \in [Task -> TaskRec]
        /\ issued \in [Key -> Bundle]
    BY Reads DEF TypeOK, TaskRec
  <2> QED BY <2>1, Reads
<1>1. At(t, "exchanges") /\ UNCHANGED <<row, ram, lock, due>>
  BY DEF Exchange
<1>2. ASSUME issued[k] < MaxBundles, issued' = [issued EXCEPT ![k] = @ + 1],
             task' = [task EXCEPT ![t].pc = "stores",
                                  ![t].bundle = issued[k] + 1],
             UNCHANGED lost
      PROVE  Renewals'
  <2> DEFINE r == [task[t] EXCEPT !.pc = "stores", !.bundle = issued[k] + 1]
  <2>1. issued[k] + 1 \in Bundle
    BY <1>0, <1>2, GatewayAssumption DEF Bundle
  <2>2. r \in TaskRec /\ r.key = k /\ r.pc = "stores"
        /\ r.bundle = issued[k] + 1
    BY <1>0, <2>1 DEF TaskRec, PC
  <2>3. task' = [task EXCEPT ![t] = r] BY <1>0, <1>2
  <2>4. issued'[k] = issued[k] + 1 BY <1>0, <1>2
  <2> HIDE DEF r
  <2>5. r.bundle <= issued'[r.key] /\ r.bundle = issued'[r.key]
    BY <1>0, <2>2, <2>4
  <2>6. /\ r \in TaskRec /\ r.key = task[t].key /\ r.pc \in {"stores", "marks", "idle"}
        /\ r.pc # "stores" => lost'[r.key] # {}
    BY <2>2
  <2>7. issued' = [issued EXCEPT ![r.key] = @ + 1]
    BY <1>2, <2>2
  <2>8. /\ \A j \in Key : lost'[j] = {} => lost[j] = {}
        /\ \A j \in Key : lock'[j] = lock[j] \/ (lock[j] = t /\ r.pc # "stores")
    BY <1>1, <1>2
  <2> QED BY <1>1, <2>3, <2>5, <2>6, <2>7, <2>8, IssueStep
<1>3. ASSUME issued' = [issued EXCEPT ![k] = @ + 1], Move(t, "marks"),
             lost' = [lost EXCEPT ![k] = @ \union {"answer"}]
      PROVE  Renewals'
  <2>1. PICK r \in TaskRec :
          /\ task' = [task EXCEPT ![t] = r] /\ r.key = k /\ r.pc = "marks"
          /\ r.bundle = task[t].bundle
    BY <1>3, MoveTypes DEF PC
  <2>2. issued'[k] = issued[k] + 1 BY <1>0, <1>3
  <2>3. r.bundle <= issued[k] BY <1>0, <2>1 DEF Renewals, NoneNewer
  <2>4. r.bundle <= issued'[r.key] BY <1>0, <2>1, <2>2, <2>3
  <2>5. lost'[k] # {} /\ \A j \in Key : lost'[j] = {} => lost[j] = {}
    BY <1>0, <1>3, LossMonotone
  <2> QED BY <1>1, <1>3, <2>1, <2>4, <2>5, IssueStep
<1>4. ASSUME Move(t, "marks"), UNCHANGED <<issued, lost>>
      PROVE  Renewals'
  <2>1. Goes(t) BY <1>4, TaskGoes DEF PC, Renewing
  <2> QED BY <1>1, <1>4, <2>1, KeepsSame, GoesStep DEF At
<1> QED BY <1>2, <1>3, <1>4 DEF Exchange, Spends

(* The future is gone: an exchange, or a bundle not yet everywhere, is lost*)
(* with it, and nothing else was at stake.                                 *)
LEMMA DroppedStep ==
  ASSUME TypeOK, TypeOK', Renewals, NEW t \in Task, Dropped(t)
  PROVE  Renewals'
<1> DEFINE k == task[t].key
<1>0. k \in Key /\ issued[k] \in Nat /\ issued \in [Key -> Bundle]
  BY Reads DEF TypeOK
<1>1. /\ UNCHANGED <<row, ram, due>> /\ Goes(t) /\ ~At(t, "idle")
      /\ \A j \in Key : lock'[j] = lock[j] \/ lock[j] = t
  BY TaskGoes, ReleaseTypes DEF Dropped, At
<1>2. Drops(t) => /\ lost'[k] # {}
                  /\ \A j \in Key : lost'[j] = {} => lost[j] = {}
  BY <1>0, LossMonotone DEF Drops
<1>3. ASSUME At(t, "exchanges"), Drops(t), issued' = [issued EXCEPT ![k] = @ + 1]
      PROVE  Renewals'
  <2>1. PICK r \in TaskRec : /\ task' = [task EXCEPT ![t] = r] /\ r.key = k
                             /\ r.pc = "idle" /\ r.bundle = 0
    BY DoneTypes DEF Dropped
  <2>2. r.bundle <= issued'[r.key] BY <1>0, <1>3, <2>1
  <2> QED BY <1>1, <1>2, <1>3, <2>1, <2>2, IssueStep
<1>4. ASSUME UNCHANGED issued,
             IF task[t].pc \in {"stores", "publishes"} THEN Drops(t)
             ELSE UNCHANGED lost
      PROVE  Renewals'
  <2>1. /\ \A j \in Key : lost'[j] = {} => lost[j] = {}
        /\ task[t].pc \in {"stores", "publishes"} => lost'[k] # {}
    BY <1>2, <1>4
  <2> QED BY <1>1, <1>4, <2>1, KeepsSame, GoesStep
<1> QED BY <1>3, <1>4 DEF Dropped

(* The lock is free, so nobody renews the account while it is there.       *)
LEMMA LockStep ==
  ASSUME TypeOK, TypeOK', Renewals, NEW t \in Task, TakeLock(t)
  PROVE  Renewals'
<1> DEFINE k == task[t].key
<1>0. /\ k \in Key /\ task \in [Task -> TaskRec] /\ task[t] \in TaskRec
      /\ ram[k] \in Account /\ ram[k].there \in BOOLEAN
      /\ ram[k].bundle \in Bundle /\ 0 \in Bundle
      /\ task[t].pc = "waits" /\ lock[k] = None
      /\ UNCHANGED <<row, ram, due, issued, lost>>
  <2>1. k \in Key /\ task \in [Task -> TaskRec] /\ task[t] \in TaskRec
        /\ ram[k] \in Account
    BY Reads DEF TypeOK, TaskRec
  <2> QED BY <2>1, Reads DEF Account, TakeLock, At, LockIsFree
<1>1. CASE Continue(t, ram[k].there, ram[k]) /\ UNCHANGED lock
  <2>1. ram[k].bundle <= issued[k] BY <1>0 DEF Renewals, NoneNewer
  <2>2. Goes(t) BY <1>0, <1>1, <2>1, TaskGoes
  <2> QED BY <1>0, <1>1, <2>2, KeepsSame, GoesStep DEF At
<1>2. CASE /\ ram[k].there
           /\ lock' = [lock EXCEPT ![k] = t]
           /\ task' = [task EXCEPT ![t].pc = "exchanges", ![t].limit = 0,
                                   ![t].bundle = ram[k].bundle]
  <2> DEFINE r == [task[t] EXCEPT !.pc = "exchanges", !.limit = 0,
                                  !.bundle = ram[k].bundle]
  <2>1. r \in TaskRec /\ r.key = k /\ r.pc = "exchanges"
        /\ r.bundle = ram[k].bundle
    BY <1>0 DEF TaskRec, PC
  <2>2. task' = [task EXCEPT ![t] = r] BY <1>0, <1>2
  <2> HIDE DEF r
  <2>3. /\ task'[t] = r /\ \A u \in Task \ {t} : task'[u] = task[u]
        /\ \A u \in Task : task'[u].key = task[u].key /\ task[u].key \in Key
        /\ lock'[k] = t /\ \A j \in Key \ {k} : lock'[j] = lock[j]
    BY <1>0, <1>2, <2>1, <2>2 DEF TypeOK, TaskRec
  <2>4. \A u \in Task : ~Renews(u, k)
    BY <1>0, <1>2, GatewayAssumption DEF Renewals, HeldWhileThere
  <2>5. \A u \in Task : \A j \in Key :
          Renews(u, j)' => \/ u = t /\ j = k
                           \/ u # t /\ j # k /\ Renews(u, j)
    <3> SUFFICES ASSUME NEW u \in Task, NEW j \in Key, Renews(u, j)'
                 PROVE  \/ u = t /\ j = k
                        \/ u # t /\ j # k /\ Renews(u, j)
      OBVIOUS
    <3>1. CASE u = t BY <2>1, <2>3, <3>1 DEF Renews
    <3>2. CASE u # t
      <4>1. Renews(u, j) BY <2>3, <3>2 DEF Renews
      <4>2. j # k BY <2>4, <4>1
      <4> QED BY <3>2, <4>1, <4>2
    <3> QED BY <3>1, <3>2
  <2>6. OneRenewal' BY <2>5 DEF Renewals, OneRenewal
  <2>7. HeldWhileThere'
    BY <1>0, <2>3, <2>5 DEF Renewals, HeldWhileThere
  <2>8. issued[k] # 0 BY <1>0, <1>2 DEF Renewals, Unborn
  <2>9. \A j \in Key \ {k} : \A S : Unused(j, S) => Unused(j, S)'
    BY <1>0, <2>1, <2>3 DEF Unused, At
  <2>10. Unborn' BY <1>0, <2>8, <2>9 DEF Renewals, Unborn
  <2>11. Inserting'
    <3> SUFFICES ASSUME NEW u \in Task, task'[u].pc \in {"inserts", "inserted"}
                 PROVE  /\ issued'[task'[u].key] = 1
                        /\ ~ram'[task'[u].key].there
                        /\ Unused(task[u].key, {u})'
      BY <2>3 DEF Inserting
    <3>1. u # t /\ task'[u] = task[u] BY <2>1, <2>3
    <3>2. issued[task[u].key] = 1 /\ ~ram[task[u].key].there
          /\ Unused(task[u].key, {u})
      BY <3>1 DEF Renewals, Inserting
    <3>3. task[u].key # k BY <1>2, <3>2
    <3> QED BY <1>0, <2>3, <2>9, <3>1, <3>2, <3>3
  <2>12. NoneNewer'
    BY <1>0, <2>1, <2>3 DEF Renewals, NoneNewer
  <2>13. NewestHeld'
    <3> SUFFICES ASSUME NEW j \in Key, lost[j] = {}
                 PROVE  /\ \A u \in Task : Renews(u, j)' => task'[u].bundle = issued[j]
                        /\ ram[j].there /\ ~Storing(j, {"stores", "publishes"})'
                           => ram[j].bundle = issued[j]
                        /\ row[j].there /\ ~Storing(j, {"stores"})'
                           => row[j].bundle = issued[j]
      BY <1>0 DEF NewestHeld
    <3>1. /\ Storing(j, {"stores"}) => Storing(j, {"stores"})'
          /\ Storing(j, {"stores", "publishes"})
             => Storing(j, {"stores", "publishes"})'
      BY <1>0, <2>3 DEF Storing
    <3>2. ~Storing(k, {"stores", "publishes"})
      BY <2>4 DEF Storing, Renews, Renewing
    <3>3. j = k => ram[k].bundle = issued[k]
      BY <1>0, <1>2, <3>2 DEF Renewals, NewestHeld
    <3>4. \A u \in Task : Renews(u, j)' => task'[u].bundle = issued[j]
      <4>1. ASSUME NEW u \in Task, Renews(u, j)', u = t
            PROVE  task'[u].bundle = issued[j]
        BY <2>1, <2>3, <2>5, <3>3, <4>1
      <4>2. ASSUME NEW u \in Task, Renews(u, j)', u # t
            PROVE  task'[u].bundle = issued[j]
        BY <2>3, <2>5, <4>2 DEF Renewals, NewestHeld
      <4> QED BY <4>1, <4>2
    <3> QED BY <3>1, <3>4 DEF Renewals, NewestHeld
  <2> QED BY <2>6, <2>7, <2>10, <2>11, <2>12, <2>13 DEF Renewals
<1> QED BY <1>0, <1>1, <1>2 DEF TakeLock

(* A login completed: the key is new, and nobody else has heard of it.     *)
LEMMA ConnectStep ==
  ASSUME TypeOK, Renewals, NEW t \in Task, NEW k \in Key, StartConnect(t, k)
  PROVE  Renewals'
<1>1. PICK r \in TaskRec : /\ task' = [task EXCEPT ![t] = r]
                           /\ r.key = k /\ r.pc = "inserts"
                           /\ r.bundle \in {0, ram[k].bundle}
  BY StartTypes DEF StartConnect, Op, PC
<1>2. /\ At(t, "idle") /\ issued[k] = 0 /\ UNCHANGED <<row, ram, lock, due, lost>>
      /\ issued' = [issued EXCEPT ![k] = 1]
  BY StartTypes DEF StartConnect, Starts
<1>0. /\ task \in [Task -> TaskRec] /\ task'[t] = r
      /\ \A u \in Task \ {t} : task'[u] = task[u]
      /\ \A u \in Task : task[u].key \in Key
      /\ issued'[k] = 1 /\ \A j \in Key \ {k} : issued'[j] = issued[j]
  BY <1>1, <1>2 DEF TypeOK, TaskRec
<1>3. ~ram[k].there /\ ~row[k].there /\ Unused(k, {})
  BY <1>2 DEF Renewals, Unborn
<1>4. ram[k].bundle <= 0 /\ row[k].bundle <= 0
      /\ ram[k].bundle \in Nat /\ row[k].bundle \in Nat
  BY <1>2, Reads DEF Account, Renewals, NoneNewer
<1>5. \A u \in Task : \A j \in Key : Renews(u, j)' => Renews(u, j) /\ u # t /\ j # k
  BY <1>0, <1>1, <1>3 DEF Renews, Renewing, Unused, At
<1>6. OneRenewal' /\ HeldWhileThere'
  BY <1>2, <1>5 DEF Renewals, OneRenewal, HeldWhileThere
<1>7. \A j \in Key \ {k} : \A S : Unused(j, S) => Unused(j, S)'
  BY <1>0, <1>1, <1>2 DEF Unused, At
<1>8. Unborn' BY <1>0, <1>2, <1>7 DEF Renewals, Unborn
<1>9. Inserting'
  <2> SUFFICES ASSUME NEW u \in Task, task'[u].pc \in {"inserts", "inserted"}
               PROVE  /\ issued'[task'[u].key] = 1 /\ ~ram'[task'[u].key].there
                      /\ Unused(task[u].key, {u})'
    BY DEF Inserting
  <2>1. CASE u = t
    <3>1. Unused(task[u].key, {u})'
      BY <1>0, <1>1, <1>2, <1>3, <2>1 DEF Unused, At
    <3> QED BY <1>0, <1>1, <1>2, <1>3, <2>1, <3>1
  <2>2. CASE u # t
    <3>1. task'[u] = task[u] /\ task[u].key \in Key BY <1>0, <2>2
    <3>2. issued[task[u].key] = 1 /\ ~ram[task[u].key].there
          /\ Unused(task[u].key, {u})
      BY <3>1 DEF Renewals, Inserting
    <3>3. task[u].key # k BY <1>2, <3>2
    <3> QED BY <1>0, <1>2, <1>7, <3>1, <3>2, <3>3
  <2> QED BY <2>1, <2>2
<1>10. NoneNewer'
  <2> SUFFICES ASSUME NEW j \in Key
               PROVE  /\ ram[j].bundle <= issued'[j] /\ row[j].bundle <= issued'[j]
                      /\ \A u \in Task : task'[u].key = j
                                        => task'[u].bundle <= issued'[j]
    BY <1>2 DEF NoneNewer
  <2>1. CASE j # k
    BY <1>0, <1>1, <2>1 DEF Renewals, NoneNewer
  <2>2. CASE j = k
    <3>1. ram[j].bundle <= issued'[j] /\ row[j].bundle <= issued'[j]
      BY <1>0, <1>4, <2>2
    <3>2. ASSUME NEW u \in Task, task'[u].key = j
          PROVE  task'[u].bundle <= issued'[j]
      <4>1. CASE u = t
        <5>1. r.bundle = 0 \/ r.bundle = ram[k].bundle BY <1>1
        <5>2. r.bundle <= 1 BY <1>4, <5>1
        <5> QED BY <1>0, <2>2, <4>1, <5>2
      <4>2. CASE u # t
        <5>1. task'[u] = task[u] /\ task[u].bundle \in Nat
          BY <1>0, <4>2, Reads
        <5>2. task[u].bundle <= 0
          BY <1>2, <2>2, <3>2, <5>1 DEF Renewals, NoneNewer
        <5>3. task[u].bundle <= 1 BY <5>1, <5>2
        <5> QED BY <1>0, <2>2, <5>1, <5>3
      <4> QED BY <4>1, <4>2
    <3> QED BY <3>1, <3>2
  <2> QED BY <2>1, <2>2
<1>11. NewestHeld'
  <2> SUFFICES ASSUME NEW j \in Key, lost[j] = {}
               PROVE  /\ \A u \in Task : Renews(u, j)' => task'[u].bundle = issued'[j]
                      /\ ram[j].there /\ ~Storing(j, {"stores", "publishes"})'
                         => ram[j].bundle = issued'[j]
                      /\ row[j].there /\ ~Storing(j, {"stores"})'
                         => row[j].bundle = issued'[j]
    BY <1>2 DEF NewestHeld
  <2>1. \A u \in Task : Renews(u, j)' => task'[u].bundle = issued'[j]
    BY <1>0, <1>5 DEF Renewals, NewestHeld
  <2>2. /\ Storing(j, {"stores"}) => Storing(j, {"stores"})'
        /\ Storing(j, {"stores", "publishes"})
           => Storing(j, {"stores", "publishes"})'
    BY <1>0, <1>2 DEF Storing, At
  <2>3. j = k => ~ram[j].there /\ ~row[j].there BY <1>3
  <2> QED BY <1>0, <2>1, <2>2, <2>3 DEF Renewals, NewestHeld
<1> QED BY <1>6, <1>8, <1>9, <1>10, <1>11 DEF Renewals

LEMMA InsertSteps ==
  ASSUME TypeOK, TypeOK', Renewals, NEW t \in Task, InsertRow(t) \/ InsertRam(t)
  PROVE  Renewals'
<1> DEFINE k == task[t].key
<1>0. /\ k \in Key /\ task \in [Task -> TaskRec]
      /\ task[t].pc \in {"inserts", "inserted"}
      /\ issued[k] = 1 /\ ~ram[k].there /\ Unused(k, {t})
      /\ UNCHANGED <<lock, due, issued, lost>>
      /\ row \in [Key -> Account] /\ ram \in [Key -> Account]
  <2>1. k \in Key /\ task \in [Task -> TaskRec]
        /\ row \in [Key -> Account] /\ ram \in [Key -> Account]
    BY Reads DEF TypeOK, TaskRec
  <2>2. task[t].pc \in {"inserts", "inserted"}
    BY DEF InsertRow, InsertRam, At
  <2>3. UNCHANGED <<lock, due, issued, lost>> BY DEF InsertRow, InsertRam
  <2> QED BY <2>1, <2>2, <2>3 DEF Renewals, Inserting
<1>1. ASSUME Done(t), UNCHANGED <<row, ram>> PROVE Renewals'
  <2>1. Goes(t) BY <1>1, TaskGoes
  <2> QED BY <1>0, <1>1, <2>1, KeepsSame, GoesStep DEF At
<1>2. ASSUME NEW r \in TaskRec, task' = [task EXCEPT ![t] = r], r.key = k,
             r.pc \in {"idle", "inserted"}, r.bundle <= 1,
             \/ row' = [row EXCEPT ![k] = Fresh(1)] /\ UNCHANGED ram
                  /\ r.pc = "inserted"
             \/ ram' = [ram EXCEPT ![k] = Fresh(1)] /\ UNCHANGED row
                  /\ r.pc = "idle"
      PROVE  Renewals'
  <2>1. /\ task'[t] = r /\ \A u \in Task \ {t} : task'[u] = task[u]
        /\ \A u \in Task : task'[u].key = task[u].key /\ task[u].key \in Key
    BY <1>0, <1>2 DEF TaskRec
  <2>2. \A j \in Key \ {k} : row'[j] = row[j] /\ ram'[j] = ram[j]
    BY <1>0, <1>2
  <2>3. /\ row'[k] = row[k] \/ row'[k].bundle = 1
        /\ ram'[k] = ram[k] \/ ram'[k].bundle = 1
        /\ r.pc = "inserted" => ~ram'[k].there
    BY <1>0, <1>2 DEF Fresh
  <2>4. \A u \in Task : \A j \in Key :
          Renews(u, j)' => Renews(u, j) /\ j # k /\ u # t
    BY <1>0, <1>2, <2>1 DEF Renews, Renewing, Unused, At
  <2>5. OneRenewal' /\ HeldWhileThere'
    BY <1>0, <2>2, <2>4 DEF Renewals, OneRenewal, HeldWhileThere
  <2>6. \A j \in Key \ {k} : \A S : Unused(j, S) => Unused(j, S)'
    BY <1>0, <1>2, <2>1 DEF Unused, At
  <2>7. Unborn' BY <1>0, <2>2, <2>6 DEF Renewals, Unborn
  <2>8. Inserting'
    <3> SUFFICES ASSUME NEW u \in Task, task'[u].pc \in {"inserts", "inserted"}
                 PROVE  /\ issued'[task'[u].key] = 1
                        /\ ~ram'[task'[u].key].there
                        /\ Unused(task[u].key, {u})'
      BY DEF Inserting
    <3>1. CASE u = t
      <4>1. Unused(task[u].key, {u})' BY <1>0, <2>1, <3>1 DEF Unused, At
      <4> QED BY <1>0, <1>2, <2>1, <2>3, <3>1, <4>1
    <3>2. CASE u # t
      <4>1. task'[u] = task[u] /\ task[u].key \in Key BY <2>1, <3>2
      <4>2. task[u].key # k BY <1>0, <3>2, <4>1 DEF Unused, At
      <4>3. issued[task[u].key] = 1 /\ ~ram[task[u].key].there
            /\ Unused(task[u].key, {u})
        BY <4>1 DEF Renewals, Inserting
      <4> QED BY <1>0, <2>2, <2>6, <4>1, <4>2, <4>3
    <3> QED BY <3>1, <3>2
  <2>9. NoneNewer'
    <3> SUFFICES ASSUME NEW j \in Key
                 PROVE  /\ ram'[j].bundle <= issued[j]
                        /\ row'[j].bundle <= issued[j]
                        /\ \A u \in Task : task'[u].key = j
                                          => task'[u].bundle <= issued[j]
      BY <1>0 DEF NoneNewer
    <3>1. ram'[j].bundle <= issued[j] /\ row'[j].bundle <= issued[j]
      BY <1>0, <2>2, <2>3 DEF Renewals, NoneNewer
    <3>2. \A u \in Task : task'[u].key = j => task'[u].bundle <= issued[j]
      BY <1>0, <1>2, <2>1 DEF Renewals, NoneNewer
    <3> QED BY <3>1, <3>2
  <2>10. NewestHeld'
    <3> SUFFICES ASSUME NEW j \in Key, lost[j] = {}
                 PROVE  /\ \A u \in Task : Renews(u, j)' => task'[u].bundle = issued[j]
                        /\ ram'[j].there /\ ~Storing(j, {"stores", "publishes"})'
                           => ram'[j].bundle = issued[j]
                        /\ row'[j].there /\ ~Storing(j, {"stores"})'
                           => row'[j].bundle = issued[j]
      BY <1>0 DEF NewestHeld
    <3>1. \A u \in Task : Renews(u, j)' => task'[u].bundle = issued[j]
      BY <2>1, <2>4 DEF Renewals, NewestHeld
    <3>2. /\ Storing(j, {"stores"}) => Storing(j, {"stores"})'
          /\ Storing(j, {"stores", "publishes"})
             => Storing(j, {"stores", "publishes"})'
      BY <1>0, <2>1 DEF Storing
    <3> QED BY <1>0, <2>2, <2>3, <3>1, <3>2 DEF Renewals, NewestHeld
  <2> QED BY <2>5, <2>7, <2>8, <2>9, <2>10 DEF Renewals
<1>3. task[t].bundle <= 1 BY <1>0 DEF Renewals, NoneNewer
<1>4. CASE InsertRow(t)
  <2>1. CASE row' = [row EXCEPT ![k] = Fresh(1)] /\ Move(t, "inserted")
    <3>1. PICK r \in TaskRec :
            /\ task' = [task EXCEPT ![t] = r] /\ r.key = k
            /\ r.pc = "inserted" /\ r.bundle = task[t].bundle
      BY <2>1, MoveTypes DEF PC
    <3>2. UNCHANGED ram BY <1>4 DEF InsertRow
    <3>3. r.bundle <= 1 BY <1>3, <3>1
    <3> QED BY <1>2, <2>1, <3>1, <3>2, <3>3
  <2> QED BY <1>1, <1>4, <2>1 DEF InsertRow
<1>5. CASE InsertRam(t)
  <2>1. PICK r \in TaskRec :
          /\ task' = [task EXCEPT ![t] = r] /\ r.key = k
          /\ r.pc = "idle" /\ r.bundle = 0
    BY <1>5, DoneTypes DEF InsertRam
  <2>2. ram' = [ram EXCEPT ![k] = Fresh(1)] /\ UNCHANGED row
    BY <1>5 DEF InsertRam
  <2>3. r.bundle <= 1 BY <2>1
  <2> QED BY <1>2, <2>1, <2>2, <2>3
<1> QED BY <1>4, <1>5

LEMMA BeginSteps ==
  ASSUME TypeOK, Renewals, NEW t \in Task, Begin(t)
  PROVE  Renewals'
<1>1. PICK k \in Key :
        \/ StartRenewal(t, k) \/ StartCall(t, k) \/ StartQuota(t, k)
        \/ \E enabled, toggled \in BOOLEAN : StartEdit(t, k, enabled, toggled)
        \/ StartDelete(t, k) \/ StartConnect(t, k)
  BY DEF Begin
<1>2. CASE StartConnect(t, k) BY <1>2, ConnectStep
<1>3. ASSUME NEW r \in TaskRec, ram[k].there, At(t, "idle"),
             task' = [task EXCEPT ![t] = r], r.key = k,
             r.pc \in {"waits", "calls", "fetches", "edits", "deletes"},
             r.bundle \in {0, ram[k].bundle},
             UNCHANGED <<row, ram, lock, due, issued, lost>>
      PROVE  Renewals'
  <2>1. issued[k] # 0 BY <1>3 DEF Renewals, Unborn
  <2>2. r.bundle <= issued[k]
    <3>1. 0 <= issued[k] BY Reads
    <3>2. ram[k].bundle <= issued[k] BY DEF Renewals, NoneNewer
    <3> QED BY <1>3, <3>1, <3>2
  <2>3. \A u \in Task : task[u].pc \in {"inserts", "inserted"}
                        => task[u].key # k
    BY <1>3 DEF Renewals, Inserting
  <2>4. r.pc \notin Renewing \union {"inserts", "inserted"}
    BY <1>3 DEF Renewing
  <2> QED BY <1>3, <2>1, <2>2, <2>3, <2>4, BeginStep
<1>4. ASSUME NEW op \in Op,
             NEW pc \in {"waits", "calls", "fetches", "deletes"},
             Starts(t, k, op, pc), ram[k].there,
             UNCHANGED <<row, ram, lock, due, issued, lost>>
      PROVE  Renewals'
  <2>1. pc \in PC BY DEF PC
  <2>2. PICK r \in TaskRec : /\ task' = [task EXCEPT ![t] = r]
                             /\ r.key = k /\ r.pc = pc
                             /\ r.bundle \in {0, ram[k].bundle}
    BY <1>4, <2>1, StartTypes
  <2>3. At(t, "idle") BY <1>4 DEF Starts
  <2> QED BY <1>3, <1>4, <2>2, <2>3
<1>5. CASE StartRenewal(t, k) BY <1>4, <1>5 DEF StartRenewal, Op
<1>6. CASE StartCall(t, k)
  BY <1>4, <1>6 DEF StartCall, Op, Ready, Leasable
<1>7. CASE StartQuota(t, k)
  <2>1. (IF Expiring(k) THEN "waits" ELSE "fetches") \in {"waits", "fetches"}
    OBVIOUS
  <2> QED BY <1>4, <1>7, <2>1 DEF StartQuota, Op
<1>8. ASSUME NEW enabled \in BOOLEAN, NEW toggled \in BOOLEAN,
             StartEdit(t, k, enabled, toggled)
      PROVE  Renewals'
  <2> DEFINE s == NextStatus(ram[k], enabled, toggled)
             r == [Idle(k) EXCEPT !.pc = "edits", !.op = "edit",
                     !.edit = [enabled |-> enabled, toggled |-> toggled,
                               status |-> s]]
  <2>1. ram[k].status \in Status BY Reads DEF Account
  <2>2. s \in Status BY <2>1 DEF NextStatus, Status
  <2>3. r \in TaskRec /\ r.key = k /\ r.pc = "edits" /\ r.bundle = 0
    BY <2>2, Reads DEF TaskRec, PC, Op, Idle
  <2>4. task' = [task EXCEPT ![t] = r] BY <1>8 DEF StartEdit
  <2>5. ram[k].there /\ At(t, "idle")
        /\ UNCHANGED <<row, ram, lock, due, issued, lost>>
    BY <1>8 DEF StartEdit
  <2> HIDE DEF r
  <2> QED BY <1>3, <2>3, <2>4, <2>5
<1>9. CASE StartDelete(t, k) BY <1>4, <1>9 DEF StartDelete, Op
<1> QED BY <1>1, <1>2, <1>5, <1>6, <1>7, <1>8, <1>9

LEMMA LoopSteps ==
  ASSUME TypeOK, Renewals, Tick \/ VisitDue
  PROVE  Renewals'
<1>1. CASE Tick
  <2>0. UNCHANGED <<row, ram, lock, task, issued, lost>> BY <1>1 DEF Tick
  <2>1. \A k \in Key, S \in SUBSET Task :
          ~ram[k].there /\ Unused(k, S) => Unused(k, S)'
    BY <1>1 DEF Tick, DueKeys, Ready, Leasable, Unused, At
  <2>2. OneRenewal' /\ HeldWhileThere' /\ NoneNewer' /\ NewestHeld'
    BY <2>0 DEF Renewals, OneRenewal, HeldWhileThere, NoneNewer, NewestHeld,
                Renews, Storing
  <2>3. Unborn' BY <2>0, <2>1 DEF Renewals, Unborn
  <2>4. Inserting'
    <3> SUFFICES ASSUME NEW u \in Task, task[u].pc \in {"inserts", "inserted"}
                 PROVE  /\ issued[task[u].key] = 1 /\ ~ram[task[u].key].there
                        /\ Unused(task[u].key, {u})'
      BY <2>0 DEF Inserting
    <3>1. task[u].key \in Key BY Reads
    <3> QED BY <2>0, <2>1, <3>1 DEF Renewals, Inserting
  <2> QED BY <2>2, <2>3, <2>4 DEF Renewals
<1>2. CASE VisitDue
  <2>1. PICK d \in due :
          /\ due' = due \ {d}
          /\ task' = [task EXCEPT ![Loop] =
                        [Idle(d.key) EXCEPT !.pc = "waits", !.limit = d.limit]]
    BY <1>2 DEF VisitDue
  <2> DEFINE r == [Idle(d.key) EXCEPT !.pc = "waits", !.limit = d.limit]
  <2>2. d \in [key : Key, limit : Bundle] /\ d.key \in Key BY DEF TypeOK
  <2>3. r \in TaskRec /\ r.key = d.key /\ r.pc = "waits" /\ r.bundle = 0
    BY <2>2, Reads DEF TaskRec, PC, Op, Idle, NoEdit, Status
  <2>4. Loop \in Task /\ At(Loop, "idle")
        /\ UNCHANGED <<row, ram, lock, issued, lost>>
    BY <1>2, GatewayAssumption DEF VisitDue
  <2>5. issued[d.key] # 0 BY <2>2 DEF Renewals, Unborn, Unused
  <2>6. r.bundle <= issued[d.key] BY <2>2, <2>3, Reads
  <2>7. \A u \in Task : task[u].pc \in {"inserts", "inserted"}
                        => task[u].key # d.key
    BY DEF Renewals, Inserting, Unused
  <2> HIDE DEF r
  <2>8. task' = [task EXCEPT ![Loop] = r] BY <2>1 DEF r
  <2>9. r.pc \notin Renewing \union {"inserts", "inserted"}
    BY <2>3 DEF Renewing
  <2>10. due' \in SUBSET due BY <2>1
  <2>11. r.bundle <= issued[r.key] /\ issued[r.key] # 0
         /\ \A u \in Task : task[u].pc \in {"inserts", "inserted"}
                            => task[u].key # r.key
    BY <2>3, <2>5, <2>6, <2>7
  <2>12. r \in TaskRec BY <2>3
  <2> QED BY <2>4, <2>8, <2>9, <2>10, <2>11, <2>12, BeginStep
<1> QED BY <1>1, <1>2

LEMMA SystemSteps ==
  ASSUME TypeOK, Renewals,
         (\E k \in Key : ClearCooldown(k) \/ Ages(k)) \/ Restart
  PROVE  Renewals'
<1>1. ASSUME UNCHANGED <<row, lock, task, due, issued, lost>>,
             \A k \in Key : /\ ram'[k].there <=> ram[k].there
                            /\ ram'[k].bundle = ram[k].bundle
      PROVE  Renewals'
  <2>1. \A t \in Task : task[t].key \in Key BY Reads
  <2>2. OneRenewal' /\ HeldWhileThere'
    BY <1>1 DEF Renewals, OneRenewal, HeldWhileThere, Renews
  <2>3. Unborn' BY <1>1 DEF Renewals, Unborn, Unused, At
  <2>4. Inserting' BY <1>1, <2>1 DEF Renewals, Inserting, Unused, At
  <2>5. NoneNewer' BY <1>1 DEF Renewals, NoneNewer
  <2>6. NewestHeld' BY <1>1 DEF Renewals, NewestHeld, Renews, Storing
  <2> QED BY <2>2, <2>3, <2>4, <2>5, <2>6 DEF Renewals
<1>2. ASSUME NEW k \in Key, ClearCooldown(k) PROVE Renewals'
  <2>1. \A j \in Key : /\ ram'[j].there <=> ram[j].there
                       /\ ram'[j].bundle = ram[j].bundle
    BY <1>2, Reads DEF ClearCooldown, Cool, TypeOK, Account
  <2> QED BY <1>1, <1>2, <2>1 DEF ClearCooldown
<1>3. ASSUME NEW k \in Key, Ages(k) PROVE Renewals'
  BY <1>1, <1>3 DEF Ages
<1>4. CASE Restart
  <2>0. /\ \A t \in Task : task'[t].pc = "idle" /\ task'[t].bundle = 0
                           /\ task'[t].key = task[t].key /\ task[t].key \in Key
        /\ due' = {} /\ UNCHANGED <<row, issued>> /\ ram' = row
        /\ \A k \in Key : issued[k] \in Nat
    BY <1>4, Reads DEF Restart, Idle
  <2>1. \A t \in Task : \A k \in Key : ~Renews(t, k)'
    BY <2>0 DEF Renews, Renewing
  <2>2. OneRenewal' /\ HeldWhileThere'
    BY <2>1 DEF OneRenewal, HeldWhileThere
  <2>3. \A k \in Key : Unused(k, {})' BY <2>0 DEF Unused, At
  <2>4. Unborn' BY <2>0, <2>3 DEF Renewals, Unborn
  <2>5. Inserting' BY <2>0 DEF Inserting
  <2>6. NoneNewer' BY <2>0 DEF Renewals, NoneNewer
  <2>7. \A k \in Key : lost'[k] = {} => lost[k] = {} /\ ~Storing(k, {"stores"})
    BY <1>4 DEF Restart, Storing, At
  <2>8. NewestHeld' BY <2>0, <2>1, <2>7 DEF Renewals, NewestHeld
  <2> QED BY <2>2, <2>4, <2>5, <2>6, <2>8 DEF Renewals
<1> QED BY <1>2, <1>3, <1>4

LEMMA RenewalsInit == Init => Renewals
<1> SUFFICES ASSUME Init PROVE Renewals OBVIOUS
<1>1. /\ \A t \in Task : task[t].pc = "idle" /\ task[t].bundle = 0
      /\ due = {} /\ ram = row
      /\ \A k \in Key : issued[k] \in {0, 1}
      /\ \A k \in Key : row[k] = IF issued[k] = 0 THEN Absent ELSE Fresh(1)
  BY DEF Init, Idle
<1>2. /\ ~Absent.there /\ Absent.bundle = 0
      /\ Fresh(1).there /\ Fresh(1).bundle = 1
  BY DEF Absent, Fresh
<1>3. OneRenewal /\ HeldWhileThere /\ Inserting
  BY <1>1 DEF OneRenewal, HeldWhileThere, Inserting, Renews, Renewing
<1>4. Unborn BY <1>1, <1>2 DEF Unborn, Unused, At
<1>5. NoneNewer BY <1>1, <1>2 DEF NoneNewer
<1>6. NewestHeld
  BY <1>1, <1>2 DEF NewestHeld, Renews, Renewing
<1> QED BY <1>3, <1>4, <1>5, <1>6 DEF Renewals

LEMMA RenewalsStep ==
  ASSUME TypeOK, TypeOK', Renewals, [Next]_vars
  PROVE  Renewals'
<1>1. CASE UNCHANGED vars
  BY <1>1 DEF vars, Renewals, OneRenewal, HeldWhileThere, NoneNewer,
              NewestHeld, Unborn, Inserting, Unused, Renews, Storing, At
<1>2. ASSUME NEW t \in Task, Begin(t) \/ TakeLock(t) \/ Progress(t) \/ Dropped(t)
      PROVE  Renewals'
  BY <1>2, BeginSteps, LockStep, ExchangeStep, StoreSteps, QuietSteps,
     InsertSteps, DroppedStep DEF Progress
<1> QED BY <1>1, <1>2, LoopSteps, SystemSteps DEF Next, Rests

(* Single-flight renewal (refresh.rs): unless a bundle was lost on the way *)
(* (a crash or a failed write between exchange and row, an answer that     *)
(* never came, a caller gone before the snapshot had it, an older bundle   *)
(* written back), the provider is offered the newest bundle, and snapshot  *)
(* and row hold it when no renewal is storing.                             *)
THEOREM NewestBundleKept == Spec => []BundleKept
<1>1. Renewals => BundleKept
  BY DEF Renewals, NewestHeld, BundleKept, Renews, Renewing, At
<1>2. TypeOK /\ TypeOK' /\ Renewals /\ [Next]_vars => Renewals'
  BY RenewalsStep
<1> QED BY <1>1, <1>2, RenewalsInit, GatewayTyped, PTL DEF Spec
==============================================================================
