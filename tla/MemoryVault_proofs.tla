------------------------- MODULE MemoryVault_proofs -------------------------
(* Proofs about MemoryVault: type correctness, that what a receipt said    *)
(* stays so (PromisesHold) and that every reader is shown it               *)
(* (AnswersFollow), for all facts, texts and bounds.                       *)
(*                                                                         *)
(* IInv has one part per stage of a writer (what is already true of the    *)
(* file under change, of its tombstone and of the index) and one per thing *)
(* that runs beside it: the owner's edits, a sweep nobody waits for, a     *)
(* power loss.  A lemma per action says what the action does to each       *)
(* variable and then proves IInv part by part.                             *)
EXTENDS MemoryVault, TLAPS

USE DEF Synced, Silence, Asleep, told

FactKinds == {"remember", "correct", "pin"}
ChangeKinds == FactKinds \union {"discard", "forget"}
PastCommit == {"index", "publish", "summary", "cleanup", "reply"}

(* Where each kind of writer can be.                                       *)
Fits ==
  /\ op.kind = "none" <=> op.pc = "idle"
  /\ op.kind = "purge" <=> op.pc = "wipe"
  /\ op.kind = "reconcile" => op.pc \in {"sweep", "reindex", "publish", "summary"}
  /\ op.pc \in {"sweep", "reindex"} => op.kind = "reconcile"
  /\ op.pc = "lift" => op.kind \in {"remember", "correct"}
  /\ op.pc = "cleanup" => op.kind = "forget"
  /\ op.kind \in ChangeKinds => op.fact \in Fact /\ op.version \in Version

WriterShape ==
  /\ Fits
  /\ sweep.pc = "idle" => sweep = Asleep
  /\ op.kind = "reconcile" => (op.pc = "sweep" <=> sweep.pc # "idle")
  /\ op.kind = "forget" \/ op.pc \in {"sweep", "reindex"} => dir # "absent"

(* What the last receipt of a file said and no forget has overtaken.       *)
Said == [f \in Fact |-> IF f \in eclipsed THEN None ELSE said[f]]
SaidTyped == Said \in [Fact -> Body \union {None, Gone}]

(* PromisesHold, file by file.                                             *)
Kept ==
  \A f \in Fact :
    /\ Said[f] \in Body => /\ file[f] # None /\ file[f].body = Said[f]
                           /\ Said[f] \notin tombs
    /\ Said[f] = Gone => file[f] = None \/ file[f].body \in tombs

(* An edit that is not adopted settles nothing.                            *)
EditsAreOpen ==
  \A f \in Fact : file[f] # None /\ file[f].edited => Said[f] = None

(* A sweep removes only what no receipt keeps, and writes only files about *)
(* which no receipt says anything.                                         *)
SweepIsSafe ==
  /\ \A f \in sweep.drop : Said[f] \notin Body
  /\ \A r \in sweep.adopt : Said[r[1]] = None

(* Before a tombstone is lifted, what it hides is removed.                 *)
LiftIsSafe == op.pc = "lift" =>
  /\ \A f \in op.todo : Said[f] \notin Body
  /\ \A f \in Fact : /\ file[f] # None /\ file[f].body \in Folded(op.version.body)
                     /\ Said[f] = Gone
                     => f \in op.todo

Mine == ~op.touched /\ sweep = Asleep

CommitIsSafe == op.pc = "commit" =>
  /\ op.kind \in FactKinds => op.version.body \notin tombs
  /\ op.kind \in {"discard", "forget"} /\ Mine => file[op.fact] = op.version

(* After the commit point: the file is as the receipt will say, and durable*)
(* if nothing is pending.                                                  *)
ChangeIsDone == op.kind \in ChangeKinds /\ op.pc \in PastCommit =>
  /\ Said[op.fact] = None
  /\ op.kind \in FactKinds => op.version.body \notin tombs
  /\ op.kind = "forget" => op.version.body \in tombs
  /\ Mine =>
       /\ op.kind \in FactKinds => file[op.fact] = op.version
       /\ op.kind = "discard" => file[op.fact] = None
       /\ op.kind = "forget" =>
            \/ file[op.fact] = op.version /\ (op.pc = "reply" => op.pending)
            \/ file[op.fact] = None /\ op.pc = "reply"
       /\ ~op.pending /\ (op.kind = "forget" => op.pc = "reply")
            => oldFile[op.fact] = {}
  /\ ~op.pending /\ op.pc \in {"cleanup", "reply"} => oldTombs = {}

WipeIsSafe == op.pc = "wipe" => Said = Silence /\ firm = {} /\ eclipsed = {}

Swept == /\ op.kind = "reconcile"
         /\ \/ op.pc = "sweep" /\ sweep.pc = "writes"
            \/ op.pc \in {"reindex", "summary"}
            \/ op.pc = "publish" /\ dir # "absent"

(* When reconcile has swept, what receipts say is on disk for good.        *)
ReconcileIsSafe == Swept =>
  \A f \in Fact : Said[f] # None =>
    /\ oldFile[f] = {}
    /\ Said[f] = Gone => file[f] = None \/ f \in sweep.drop

(* No power loss undoes what a receipt with nothing pending said.          *)
FirmIsSafe ==
  \A f \in firm :
    /\ Said[f] # None /\ oldFile[f] = {}
    /\ Said[f] = Gone => file[f] = None
    /\ Said[f] \in Body => dir = "firm" /\ \A T \in oldTombs : Said[f] \notin T

(* What the readers see (AnswersFollow).                                   *)
Calm == "index" \notin behind     (* nothing is left to reconcile          *)

(* A file that a reader must be shown as it is.                            *)
Settled(f) == file[f] # None /\ file[f].body \notin tombs /\ ~file[f].edited
InIndex(f) == <<f, file[f].body>> \in index
InContext(f) == /\ \A r \in ctx : r[1] = f => r[2] = file[f].body
                /\ loaded => <<f, file[f].body>> \in ctx

(* AnswersFollow, for what no forget has overtaken.                        *)
ReadersFollow ==
  /\ \A r \in ctx : Said[r[1]] \in {None, r[2]}
  /\ \A f \in Fact : Said[f] \in Body =>
       /\ loaded => <<f, Said[f]>> \in ctx
       /\ index # None /\ Calm => <<f, Said[f]>> \in index

(* A sweep that nobody waits for left something to reconcile.              *)
SweepIsKnown == sweep # Asleep => op.pc = "sweep" \/ ~Calm

IndexFollows ==
  Calm /\ op.pc \notin {"wipe", "sweep", "reindex"} /\ index # None =>
    \A f \in Fact : Settled(f) /\ ~(op.pc = "index" /\ f = op.fact) => InIndex(f)

ContextFollows ==
  /\ Calm /\ op.pc \notin {"wipe", "sweep", "reindex"}
  /\ ~(op.kind = "reconcile" /\ op.pc = "publish")
  => \A f \in Fact : Settled(f) /\ ~(op.pc \in {"index", "publish"} /\ f = op.fact)
                       => InContext(f)

(* The file under change is as the writer leaves it, or the owner has      *)
(* edited it.                                                              *)
ChangeFollows == op.kind \in ChangeKinds /\ Calm =>
  /\ op.pc = "lift" =>
       \A f \in Fact : /\ file[f] # None /\ ~file[f].edited
                        /\ file[f].body \in Folded(op.version.body) \intersect tombs
                        => f \in op.todo
  /\ op.pc = "commit" /\ op.kind \in {"discard", "forget"} =>
       file[op.fact] # None /\ (file[op.fact] = op.version \/ file[op.fact].edited)
  /\ op.pc \in PastCommit =>
       /\ op.kind \in FactKinds =>
            file[op.fact] # None /\ (file[op.fact] = op.version \/ file[op.fact].edited)
       /\ op.kind = "discard" => file[op.fact] = None
       /\ op.kind = "forget" => ~Settled(op.fact)
  /\ op.kind = "pin" /\ ~op.version.edited /\ index # None =>
       <<op.fact, op.version.body>> \in index

(* What the receipt will say is published.                                 *)
ContextIsNew ==
  op.kind \in ChangeKinds /\ op.pc \in {"summary", "cleanup", "reply"} /\ Mine =>
    /\ op.kind \in FactKinds => /\ \A r \in ctx : r[1] = op.fact => r[2] = op.version.body
                                /\ loaded => <<op.fact, op.version.body>> \in ctx
    /\ op.kind \in {"discard", "forget"} => \A r \in ctx : r[1] # op.fact

ReconcileFollows ==
  op.kind = "reconcile" /\ (op.pc = "summary" \/ (op.pc = "publish" /\ dir # "absent"))
  => \A f \in Fact : Settled(f) => /\ index # None => InIndex(f)
                                   /\ op.pc = "summary" => InContext(f)

WipeShowsNothing == op.pc = "wipe" => ctx = {}

Follows ==
  /\ SweepIsKnown /\ IndexFollows /\ ContextFollows /\ ChangeFollows
  /\ ContextIsNew /\ ReconcileFollows /\ WipeShowsNothing /\ ReadersFollow

IInv ==
  /\ TypeOK /\ SaidTyped /\ Kept /\ WriterShape /\ EditsAreOpen /\ SweepIsSafe
  /\ LiftIsSafe /\ CommitIsSafe /\ ChangeIsDone /\ WipeIsSafe
  /\ ReconcileIsSafe /\ FirmIsSafe /\ Follows

-----------------------------------------------------------------------------
LEMMA KeptIsPromised == Kept <=> PromisesHold
  BY VaultAssumption DEF Kept, PromisesHold, Visible, Live, Said

LEMMA ReadersAreAnswered == TypeOK => (ReadersFollow <=> AnswersFollow)
  BY VaultAssumption DEF TypeOK, Row, ReadersFollow, AnswersFollow, Said, Calm

LEMMA ToldKeeps == UNCHANGED <<said, eclipsed>> => UNCHANGED Said
  BY DEF Said

Sayable == Body \union {None, Gone}

LEMMA Unsettled ==
  ASSUME TypeOK, NEW F, Unsettle(F)
  PROVE  /\ said' \in [Fact -> Sayable] /\ eclipsed' \in SUBSET Fact
         /\ firm' = firm \ F /\ firm' \in SUBSET Fact
         /\ Said' = [g \in Fact |-> IF g \in F THEN None ELSE Said[g]]
  BY DEF TypeOK, Unsettle, Said, Sayable

LEMMA ToldAnew ==
  ASSUME TypeOK, NEW f \in Fact, NEW v \in Sayable, Tells(f, v)
  PROVE  /\ said' \in [Fact -> Sayable] /\ eclipsed' \in SUBSET Fact
         /\ Said' = [Said EXCEPT ![f] = v]
         /\ Said'[f] = v /\ \A g \in Fact : g # f => Said'[g] = Said[g]
<1>1. said' \in [Fact -> Sayable] /\ eclipsed' \in SUBSET Fact
  BY DEF TypeOK, Tells, Sayable
<1>2. said'[f] = v /\ \A g \in Fact : g # f => said'[g] = said[g]
  BY DEF TypeOK, Tells
<1>3. f \notin eclipsed' /\ \A g \in Fact : g # f => (g \in eclipsed' <=> g \in eclipsed)
  BY DEF Tells
<1>4. Said'[f] = v /\ \A g \in Fact : g # f => Said'[g] = Said[g]
  BY <1>2, <1>3 DEF Said
<1>5. Said' = [Said EXCEPT ![f] = v]
  BY <1>4 DEF Said
<1> QED BY <1>1, <1>4, <1>5

LEMMA SaidIsTyped == TypeOK => SaidTyped
  BY DEF TypeOK, SaidTyped, Said

(* Helpers, typed.                                                         *)

Typed == TypeOK /\ WriterShape

Pc == {"idle", "lift", "commit", "index", "publish", "summary", "cleanup", "reply",
       "wipe", "sweep", "reindex"}
Left == [{"changes", "edits", "faults", "cuts"} -> Nat]

LEMMA IdleTyped == Idle \in Writer /\ Idle.kind = "none" /\ Idle.pc = "idle"
                   /\ Idle.fact = None /\ Asleep \in Sweeper /\ Asleep.pc = "idle"
                   /\ Asleep.drop = {} /\ Asleep.adopt = {}
  BY DEF Idle, Writer, Sweeper

LEMMA SpendTyped ==
  ASSUME left \in Left, NEW x \in {"changes", "edits", "faults", "cuts"}, Spend(x)
  PROVE  left' \in Left /\ (x # "cuts" => left'["cuts"] = left["cuts"])
  BY DEF Left, Spend

LEMMA PutTyped ==
  ASSUME file \in [Fact -> Version \union {None}],
         oldFile \in [Fact -> SUBSET (Version \union {None})],
         NEW f \in Fact, NEW v \in Version \union {None}, NEW s \in BOOLEAN,
         Put(f, v, s)
  PROVE  /\ file' \in [Fact -> Version \union {None}]
         /\ oldFile' \in [Fact -> SUBSET (Version \union {None})]
         /\ file'[f] = v /\ \A g \in Fact \ {f} : file'[g] = file[g]
         /\ \A g \in Fact : oldFile[g] = {} /\ g # f => oldFile'[g] = {}
         /\ s => \A g \in Fact : oldFile'[g] = {}
  BY DEF Put

LEMMA RemoveTyped ==
  ASSUME file \in [Fact -> Version \union {None}],
         oldFile \in [Fact -> SUBSET (Version \union {None})],
         NEW f \in Fact, NEW s \in BOOLEAN, Remove(f, s)
  PROVE  /\ file' \in [Fact -> Version \union {None}]
         /\ oldFile' \in [Fact -> SUBSET (Version \union {None})]
         /\ file'[f] = None /\ \A g \in Fact \ {f} : file'[g] = file[g]
         /\ \A g \in Fact : oldFile[g] = {} /\ (g # f \/ file[f] = None)
                => oldFile'[g] = {}
         /\ s => \A g \in Fact : oldFile[g] = {} \/ file[f] # None
                => oldFile'[g] = {}
<1>1. CASE file[f] = None
  BY <1>1 DEF Remove
<1>2. CASE file[f] # None
  BY <1>2, PutTyped DEF Remove
<1> QED BY <1>1, <1>2

LEMMA GotoTyped ==
  ASSUME op \in Writer, NEW pc \in Pc, NEW pending \in BOOLEAN, Goto(pc, pending)
  PROVE  /\ op' \in Writer /\ op'.pc = pc /\ op'.kind = op.kind
         /\ op'.fact = op.fact /\ op'.version = op.version /\ op'.todo = op.todo
         /\ op'.touched = op.touched /\ op'.pending = (op.pending \/ pending)
<1>1. op.pending \in BOOLEAN BY DEF Writer
<1>2. (op.pending \/ pending) \in BOOLEAN OBVIOUS
<1>3. op' = [op EXCEPT !.pc = pc, !.pending = op.pending \/ pending]
  BY DEF Goto
<1> QED BY <1>2, <1>3 DEF Writer, Pc

LEMMA TakesTyped ==
  ASSUME Typed, NEW kind \in {"remember", "correct", "pin", "discard", "forget",
                              "purge", "reconcile"},
         NEW pc \in Pc, NEW f \in Fact \union {None},
         NEW v \in Version \union {None}, NEW todo \in SUBSET Fact,
         Takes(kind, pc, f, v, todo)
  PROVE  /\ op' \in Writer /\ op'.pc = pc /\ op'.kind = kind
         /\ op'.fact = f /\ op'.version = v /\ op'.todo = todo
         /\ ~op'.touched /\ ~op'.pending /\ left' \in Left
         /\ op.kind = "none" /\ op.pc = "idle"
  BY SpendTyped DEF Typed, TypeOK, WriterShape, Fits, Takes, Free, Writer, Pc, Left

LEMMA TouchTyped ==
  ASSUME op \in Writer
  PROVE  LET t == [op EXCEPT !.touched = TRUE] IN
         /\ t \in Writer /\ t.pc = op.pc /\ t.kind = op.kind /\ t.fact = op.fact
         /\ t.version = op.version /\ t.todo = op.todo /\ t.pending = op.pending
         /\ t.touched
  BY DEF Writer

LEMMA TodoTyped ==
  ASSUME op \in Writer, NEW S \in SUBSET Fact
  PROVE  LET t == [op EXCEPT !.todo = S] IN
         /\ t \in Writer /\ t.pc = op.pc /\ t.kind = op.kind /\ t.fact = op.fact
         /\ t.version = op.version /\ t.todo = S /\ t.pending = op.pending
         /\ t.touched = op.touched
  BY DEF Writer

LEMMA HoldsTyped ==
  ASSUME left \in Left, NEW s \in BOOLEAN, Holds(s)
  PROVE  left' \in Left
  BY SpendTyped DEF Holds, Fault

LEMMA RefusedTyped ==
  ASSUME left \in Left, Refused
  PROVE  op' = Idle /\ op' \in Writer /\ left' \in Left
  BY SpendTyped, IdleTyped DEF Refused, Fault

LEMMA SweepTyped ==
  TypeOK => /\ sweep.drop \in SUBSET Fact
            /\ \A r \in sweep.adopt : r[1] \in Fact /\ r[2] \in Body
  BY DEF TypeOK, Sweeper, Row

LEMMA DropShrinks ==
  ASSUME sweep \in Sweeper, NEW D \in SUBSET Fact
  PROVE  LET t == [sweep EXCEPT !.drop = D] IN
         t \in Sweeper /\ t.pc = sweep.pc /\ t.drop = D /\ t.adopt = sweep.adopt
  BY DEF Sweeper

LEMMA AdoptShrinks ==
  ASSUME sweep \in Sweeper, NEW A \in SUBSET Row
  PROVE  LET t == [sweep EXCEPT !.adopt = A] IN
         t \in Sweeper /\ t.pc = sweep.pc /\ t.drop = sweep.drop /\ t.adopt = A
  BY DEF Sweeper

LEMMA KindAt ==
  ASSUME Typed
  PROVE  /\ op.pc \in {"lift", "commit", "index", "cleanup", "reply"}
              => op.kind \in ChangeKinds
         /\ op.kind \in ChangeKinds <=> op.kind \notin {"none", "purge", "reconcile"}
         /\ op.kind \in ChangeKinds =>
              /\ op.fact \in Fact /\ op.version \in Version
              /\ op.version.body \in Body
  BY DEF Typed, TypeOK, Writer, WriterShape, Fits, ChangeKinds, FactKinds, Version

LEMMA RowsTyped == TypeOK => Visible \in SUBSET Row
  BY DEF TypeOK, Visible, Live, Row, Version

-----------------------------------------------------------------------------
(* One lemma per action.                                                   *)

LEMMA FoldedHolds ==
  ASSUME NEW b \in Body
  PROVE  b \in Folded(b) /\ Folded(b) \in SUBSET Body
  BY DEF Body, Folded

LEMMA VisibleRows ==
  ASSUME TypeOK
  PROVE  /\ Visible \in SUBSET Row
         /\ \A r \in Visible : /\ r[1] \in Fact /\ file[r[1]] # None
                               /\ r[2] = file[r[1]].body /\ r[2] \notin tombs
         /\ \A f \in Fact : file[f] # None /\ file[f].body \notin tombs
                            => <<f, file[f].body>> \in Visible
  BY DEF TypeOK, Visible, Live, Row, Version

LEMMA TakesWriteStep ==
  ASSUME IInv, NEW kind \in {"remember", "correct"}, NEW f \in Fact,
         NEW b \in Body, TakesWrite(kind, f, b)
  PROVE  IInv'
<1> USE VaultAssumption DEF IInv
<1>1. /\ op' \in Writer /\ op'.kind = kind /\ op'.fact = f /\ op'.version \in Version
      /\ op'.version.body = b
      /\ ~op'.touched /\ ~op'.pending /\ left' \in Left /\ op.kind = "none"
      /\ op.pc = "idle"
      /\ b \in tombs => op'.pc = "lift"
      /\ b \in tombs => \A g \in Fact : g \in op'.todo <=>
             file[g] # None /\ file[g].body \in Folded(b) \intersect tombs
      /\ b \notin tombs => op'.pc = "commit" /\ op'.todo = {}
      /\ UNCHANGED <<dir, file, tombs, oldFile, oldTombs, said, eclipsed, Said, firm,
                     sweep>>
      /\ UNCHANGED <<index, ctx, loaded, recall, behind>>
      /\ op'.todo \in SUBSET Fact
  <2> DEFINE v == [body |-> b, edited |-> FALSE]
             pc == IF b \in tombs THEN "lift" ELSE "commit"
  <2>1. v \in Version /\ v.body = b
    BY DEF Version
  <2>2. /\ Leftovers(b) \in SUBSET Fact
        /\ b \notin tombs => Leftovers(b) = {}
        /\ b \in tombs => \A g \in Fact : g \in Leftovers(b) <=>
               file[g] # None /\ file[g].body \in Folded(b) \intersect tombs
    BY DEF Leftovers, Holding, Residual
  <2>3. Takes(kind, pc, f, v, Leftovers(b)) /\ pc \in Pc
    BY DEF TakesWrite, Pc
  <2>4. UNCHANGED <<diskVars, readVars, sweep, recall, said, eclipsed, Said, firm,
                    behind>>
    BY ToldKeeps DEF TakesWrite
  <2> HIDE DEF v, pc
  <2>5. /\ op' \in Writer /\ op'.pc = pc /\ op'.kind = kind /\ op'.fact = f
        /\ op'.version = v /\ op'.todo = Leftovers(b) /\ ~op'.touched
        /\ ~op'.pending /\ left' \in Left /\ op.kind = "none" /\ op.pc = "idle"
    BY <2>1, <2>2, <2>3, TakesTyped DEF Typed
  <2> QED BY <2>1, <2>2, <2>4, <2>5 DEF pc, diskVars, readVars
<1>2. TypeOK' /\ SaidTyped'
  BY <1>1 DEF SaidTyped, TypeOK, Left
<1>3. WriterShape'
  BY <1>1 DEF WriterShape, Fits
<1>4. Kept' /\ EditsAreOpen'
  BY <1>1 DEF Kept, EditsAreOpen
<1>5. SweepIsSafe'
  BY <1>1 DEF SweepIsSafe
<1>6. LiftIsSafe' /\ CommitIsSafe'
  <2>1. CASE b \in tombs
    BY <1>1, <2>1 DEF SaidTyped, TypeOK, Kept, LiftIsSafe, CommitIsSafe
  <2>2. CASE b \notin tombs
    BY <1>1, <2>2 DEF LiftIsSafe, CommitIsSafe
  <2> QED BY <2>1, <2>2
<1>7. ChangeIsDone'
  BY <1>1 DEF ChangeIsDone, PastCommit
<1>8. WipeIsSafe' /\ ReconcileIsSafe'
  BY <1>1 DEF WipeIsSafe, ReconcileIsSafe, Swept
<1>9. FirmIsSafe'
  BY <1>1 DEF FirmIsSafe
<1> USE DEF Follows
<1>11. SweepIsKnown' /\ WipeShowsNothing'
  BY <1>1 DEF WipeShowsNothing, Calm, SweepIsKnown
<1>12. IndexFollows'
  BY <1>1 DEF IndexFollows, InIndex, Calm, Settled
<1>13. ContextFollows'
  BY <1>1 DEF ContextFollows, InContext, Calm, Settled
<1>14. ChangeFollows'
  BY <1>1 DEF ChangeFollows, PastCommit
<1>15. ContextIsNew'
  BY <1>1 DEF ContextIsNew
<1>16. ReconcileFollows'
  BY <1>1 DEF ReconcileFollows
<1>17. ReadersFollow'
  BY <1>1 DEF ReadersFollow, Calm
<1> QED BY <1>2, <1>3, <1>4, <1>5, <1>6, <1>7, <1>8, <1>9, <1>11, <1>12, <1>13, <1>14,
     <1>15, <1>16, <1>17

LEMMA StartOtherStep ==
  ASSUME IInv, NEW kind \in {"pin", "discard", "forget"}, NEW f \in Fact,
         StartOther(kind, f)
  PROVE  IInv'
<1> USE VaultAssumption DEF IInv
<1>1. /\ op' \in Writer /\ op'.kind = kind /\ op'.fact = f /\ op'.version = file[f]
      /\ op'.pc = "commit"
      /\ ~op'.touched /\ ~op'.pending /\ left' \in Left /\ op.kind = "none"
      /\ op.pc = "idle"
      /\ file[f] \in Version /\ file[f].body \notin tombs /\ dir # "absent"
      /\ UNCHANGED <<dir, file, tombs, oldFile, oldTombs, said, eclipsed, Said, firm,
                     sweep>>
      /\ UNCHANGED <<index, ctx, loaded, recall, behind>>
  BY ToldKeeps, TakesTyped DEF StartOther, TypeOK, Live, Pc, Typed, diskVars, readVars
<1>2. TypeOK' /\ SaidTyped'
  BY <1>1 DEF SaidTyped, TypeOK, Left
<1>3. WriterShape'
  BY <1>1 DEF WriterShape, Fits
<1>4. Kept' /\ EditsAreOpen'
  BY <1>1 DEF Kept, EditsAreOpen
<1>5. SweepIsSafe'
  BY <1>1 DEF SweepIsSafe
<1>6. LiftIsSafe' /\ CommitIsSafe'
  BY <1>1 DEF LiftIsSafe, CommitIsSafe
<1>7. ChangeIsDone'
  BY <1>1 DEF ChangeIsDone, PastCommit
<1>8. WipeIsSafe' /\ ReconcileIsSafe'
  BY <1>1 DEF WipeIsSafe, ReconcileIsSafe, Swept
<1>9. FirmIsSafe'
  BY <1>1 DEF FirmIsSafe
<1> USE DEF Follows
<1>11. SweepIsKnown' /\ WipeShowsNothing'
  BY <1>1 DEF WipeShowsNothing, Calm, SweepIsKnown
<1>12. IndexFollows'
  BY <1>1 DEF IndexFollows, InIndex, Calm, Settled
<1>13. ContextFollows'
  BY <1>1 DEF ContextFollows, InContext, Calm, Settled
<1>14. ChangeFollows'
  BY <1>1 DEF IndexFollows, InIndex, ChangeFollows, PastCommit, Calm, Settled
<1>15. ContextIsNew'
  BY <1>1 DEF ContextIsNew
<1>16. ReconcileFollows'
  BY <1>1 DEF ReconcileFollows
<1>17. ReadersFollow'
  BY <1>1 DEF ReadersFollow, Calm
<1> QED BY <1>2, <1>3, <1>4, <1>5, <1>6, <1>7, <1>8, <1>9, <1>11, <1>12, <1>13, <1>14,
     <1>15, <1>16, <1>17

LEMMA StartPurgeStep ==
  ASSUME IInv, StartPurge
  PROVE  IInv'
<1> USE VaultAssumption DEF IInv
<1>1. /\ op' \in Writer /\ op'.kind = "purge" /\ op'.pc = "wipe" /\ op'.fact = None
      /\ left' \in Left /\ op.kind = "none" /\ op.pc = "idle"
      /\ Said' = Silence /\ firm' = {} /\ ctx' = {} /\ loaded' = TRUE
      /\ said' \in [Fact -> Sayable] /\ eclipsed' = {}
      /\ UNCHANGED <<dir, file, tombs, oldFile, oldTombs, sweep, index, recall, behind>>
  BY TakesTyped DEF Said, Sayable, StartPurge, TypeOK, Pc, Typed, Unsettle, diskVars
<1>2. TypeOK' /\ SaidTyped'
  BY <1>1 DEF Sayable, SaidTyped, TypeOK, Left
<1>3. WriterShape'
  BY <1>1 DEF WriterShape, Fits, ChangeKinds, FactKinds
<1>4. Kept' /\ EditsAreOpen'
  BY <1>1 DEF Kept, EditsAreOpen
<1>5. SweepIsSafe'
  BY <1>1, SweepTyped DEF SweepIsSafe
<1>6. LiftIsSafe' /\ CommitIsSafe'
  BY <1>1 DEF LiftIsSafe, CommitIsSafe
<1>7. ChangeIsDone'
  BY <1>1 DEF ChangeIsDone, PastCommit
<1>8. WipeIsSafe' /\ ReconcileIsSafe'
  BY <1>1 DEF WipeIsSafe, ReconcileIsSafe
<1>9. FirmIsSafe'
  BY <1>1 DEF FirmIsSafe
<1> USE DEF Follows
<1>11. SweepIsKnown' /\ WipeShowsNothing'
  BY <1>1 DEF WipeShowsNothing, Calm, SweepIsKnown
<1>12. IndexFollows'
  BY <1>1 DEF IndexFollows
<1>13. ContextFollows'
  BY <1>1 DEF ContextFollows
<1>14. ChangeFollows'
  BY <1>1 DEF ChangeFollows, PastCommit
<1>15. ContextIsNew'
  BY <1>1 DEF ContextIsNew
<1>16. ReconcileFollows'
  BY <1>1 DEF ReconcileFollows
<1>17. ReadersFollow'
  BY <1>1 DEF ReadersFollow, Calm
<1> QED BY <1>2, <1>3, <1>4, <1>5, <1>6, <1>7, <1>8, <1>9, <1>11, <1>12, <1>13, <1>14,
     <1>15, <1>16, <1>17

LEMMA StartReconcileStep ==
  ASSUME IInv, StartReconcile
  PROVE  IInv'
<1> USE VaultAssumption DEF IInv
<1>1. /\ op' \in Writer /\ op'.kind = "reconcile" /\ op'.fact = None
      /\ left' \in Left /\ op.kind = "none" /\ op.pc = "idle"
      /\ \/ dir = "absent" /\ op'.pc = "publish" /\ sweep' = sweep /\ sweep' = Asleep
         \/ /\ dir # "absent" /\ op'.pc = "sweep"
            /\ sweep' = [pc |-> "reads", drop |-> {}, adopt |-> {}]
            /\ sweep' \in Sweeper
      /\ UNCHANGED <<dir, file, tombs, oldFile, oldTombs, said, eclipsed, Said, firm>>
      /\ UNCHANGED <<index, ctx, loaded, recall, behind>>
  <2>1. sweep = Asleep /\ UNCHANGED <<diskVars, readVars, recall, said, eclipsed, Said,
                                      firm, behind>>
    BY ToldKeeps DEF StartReconcile
  <2>2. CASE dir = "absent"
    <3>1. Takes("reconcile", "publish", None, None, {}) /\ sweep' = sweep
      BY <2>2 DEF StartReconcile
    <3> QED BY <2>1, <2>2, <3>1, TakesTyped DEF Typed, Pc, diskVars, readVars
  <2>3. CASE dir # "absent"
    <3>1. /\ Takes("reconcile", "sweep", None, None, {})
          /\ sweep' = [pc |-> "reads", drop |-> {}, adopt |-> {}]
      BY <2>3 DEF StartReconcile
    <3>2. sweep' \in Sweeper
      BY <3>1 DEF Sweeper
    <3> QED BY <2>1, <2>3, <3>1, <3>2, TakesTyped DEF Typed, Pc, diskVars, readVars
  <2> QED BY <2>2, <2>3
<1>2. TypeOK' /\ SaidTyped'
  BY <1>1 DEF SaidTyped, TypeOK, Left
<1>3. WriterShape'
  BY <1>1 DEF WriterShape, Fits, ChangeKinds, FactKinds
<1>4. Kept' /\ EditsAreOpen'
  BY <1>1 DEF Kept, EditsAreOpen
<1>5. SweepIsSafe'
  BY <1>1 DEF SweepIsSafe
<1>6. LiftIsSafe' /\ CommitIsSafe'
  BY <1>1 DEF LiftIsSafe, CommitIsSafe
<1>7. ChangeIsDone'
  BY <1>1 DEF ChangeIsDone, ChangeKinds, FactKinds
<1>8. WipeIsSafe' /\ ReconcileIsSafe'
  BY <1>1 DEF WipeIsSafe, ReconcileIsSafe, Swept
<1>9. FirmIsSafe'
  BY <1>1 DEF FirmIsSafe
<1> USE DEF Follows
<1>11. SweepIsKnown' /\ WipeShowsNothing'
  BY <1>1 DEF WipeShowsNothing, SweepIsKnown
<1>12. IndexFollows'
  BY <1>1 DEF IndexFollows, TypeOK
<1>13. ContextFollows'
  BY <1>1 DEF ContextFollows
<1>14. ChangeFollows'
  BY <1>1 DEF ChangeFollows, FactKinds
<1>15. ContextIsNew'
  BY <1>1 DEF ContextIsNew
<1>16. ReconcileFollows'
  BY <1>1 DEF ReconcileFollows
<1>17. ReadersFollow'
  BY <1>1 DEF ReadersFollow, Calm
<1> QED BY <1>2, <1>3, <1>4, <1>5, <1>6, <1>7, <1>8, <1>9, <1>11, <1>12, <1>13, <1>14,
     <1>15, <1>16, <1>17

LEMMA RememberKnownStep ==
  ASSUME IInv, NEW f \in Fact, NEW b \in Body, RememberKnown(f, b)
  PROVE  IInv'
<1> USE VaultAssumption DEF IInv
<1>1. /\ left' \in Left /\ op.kind = "none" /\ op.pc = "idle" /\ file[f] \in Version
      /\ file[f].body = b /\ b \notin tombs
      /\ said' \in [Fact -> Sayable] /\ eclipsed' \in SUBSET Fact
      /\ \/ Said' = Said
         \/ ~file[f].edited /\ sweep = Asleep /\ behind = {} /\ Said' = [Said EXCEPT ![f] = b]
      /\ UNCHANGED <<dir, file, tombs, oldFile, oldTombs, op, firm, sweep>>
      /\ UNCHANGED <<index, ctx, loaded, recall, behind>>
  <2>1. /\ left' \in Left /\ op.kind = "none" /\ op.pc = "idle" /\ file[f] \in Version
        /\ file[f].body = b /\ b \notin tombs
        /\ UNCHANGED <<dir, file, tombs, oldFile, oldTombs, op, firm, sweep>>
        /\ UNCHANGED <<index, ctx, loaded, recall, behind>>
    BY SpendTyped DEF RememberKnown, Visible, Live, TypeOK, WriterShape, Fits, Free, Left,
       diskVars, readVars
  <2>2. CASE file[f].edited \/ behind # {} \/ sweep # Asleep
    <3>1. UNCHANGED <<said, eclipsed, Said>>
      BY <2>2, ToldKeeps DEF RememberKnown
    <3> QED BY <2>1, <3>1 DEF TypeOK, Sayable
  <2>3. CASE ~file[f].edited /\ behind = {} /\ sweep = Asleep
    <3>1. Tells(f, b) /\ b \in Sayable
      BY <2>3 DEF RememberKnown, Sayable
    <3>2. /\ said' \in [Fact -> Sayable] /\ eclipsed' \in SUBSET Fact
          /\ Said' = [Said EXCEPT ![f] = b]
      BY <3>1, ToldAnew
    <3> QED BY <2>1, <2>3, <3>2
  <2> QED BY <2>2, <2>3
<1>2. TypeOK' /\ SaidTyped'
  BY <1>1 DEF Sayable, SaidTyped, TypeOK, Left
<1>3. WriterShape'
  BY <1>1 DEF WriterShape, Fits
<1>4. Kept' /\ EditsAreOpen'
  BY <1>1 DEF SaidTyped, Kept, EditsAreOpen
<1>5. SweepIsSafe'
  BY <1>1 DEF SweepIsSafe
<1>6. LiftIsSafe' /\ CommitIsSafe'
  BY <1>1 DEF LiftIsSafe, CommitIsSafe
<1>7. ChangeIsDone'
  BY <1>1 DEF ChangeIsDone, PastCommit
<1>8. WipeIsSafe' /\ ReconcileIsSafe'
  BY <1>1 DEF WipeIsSafe, ReconcileIsSafe, Swept
<1>9. FirmIsSafe'
  BY <1>1 DEF SaidTyped, TypeOK, Kept, FirmIsSafe
<1> USE DEF Follows
<1>11. SweepIsKnown' /\ WipeShowsNothing'
  BY <1>1 DEF WipeShowsNothing, Calm, SweepIsKnown
<1>12. IndexFollows'
  BY <1>1 DEF IndexFollows, InIndex, Calm, Settled
<1>13. ContextFollows'
  BY <1>1 DEF ContextFollows, InContext, Calm, Settled
<1>14. ChangeFollows'
  BY <1>1 DEF ChangeFollows, Calm
<1>15. ContextIsNew'
  BY <1>1 DEF ContextIsNew
<1>16. ReconcileFollows'
  BY <1>1 DEF ReconcileFollows
<1>17. ReadersFollow'
  <2>1. CASE Said' = Said
    BY <1>1, <2>1 DEF ReadersFollow, Calm
  <2>2. CASE Said' # Said
    <3>1. behind = {} /\ ~file[f].edited /\ Said' = [Said EXCEPT ![f] = b]
      BY <1>1, <2>2
    <3>2. Said \in [Fact -> Body \union {None, Gone}] /\ file[f] # None
      BY <1>1 DEF SaidTyped
    <3>3. Settled(f) /\ Calm
      BY <1>1, <3>1, <3>2 DEF Settled, Calm
    <3>4. index # None => <<f, b>> \in index
      BY <1>1, <3>3 DEF IndexFollows, InIndex
    <3>5. /\ \A r \in ctx : r[1] = f => r[2] = b
          /\ loaded => <<f, b>> \in ctx
      BY <1>1, <3>3 DEF ContextFollows, InContext
    <3>6. Said'[f] = b /\ \A g \in Fact : g # f => Said'[g] = Said[g]
      BY <3>1, <3>2
    <3>7. \A r \in ctx : r[1] \in Fact
      BY DEF TypeOK, Row
    <3>8. \A r \in ctx : Said'[r[1]] \in {None, r[2]}
      BY <3>5, <3>6, <3>7 DEF ReadersFollow, Calm
    <3>9. \A g \in Fact : Said'[g] \in Body =>
            /\ loaded => <<g, Said'[g]>> \in ctx
            /\ index # None /\ Calm => <<g, Said'[g]>> \in index
      BY <3>4, <3>5, <3>6 DEF ReadersFollow, Calm
    <3> QED BY <1>1, <3>8, <3>9 DEF ReadersFollow, Calm
  <2> QED BY <2>1, <2>2
<1> QED BY <1>2, <1>3, <1>4, <1>5, <1>6, <1>7, <1>8, <1>9, <1>11, <1>12, <1>13, <1>14,
     <1>15, <1>16, <1>17

LEMMA LiftRemovesStep ==
  ASSUME IInv, NEW f \in Fact, LiftRemoves(f)
  PROVE  IInv'
<1> USE VaultAssumption DEF IInv
<1>1. /\ op.pc = "lift" /\ f \in op.todo /\ op' \in Writer /\ left' \in Left
      /\ \/ /\ op'.pc = op.pc /\ op'.kind = op.kind /\ op'.fact = op.fact
            /\ op'.version = op.version
            /\ op'.todo = op.todo \ {f} /\ file'[f] = None
         \/ op' = Idle
      /\ file' \in [Fact -> Version \union {None}]
      /\ oldFile' \in [Fact -> SUBSET (Version \union {None})]
      /\ \A g \in Fact : g # f => file'[g] = file[g]
      /\ \A g \in Fact : g # f /\ oldFile[g] = {} => oldFile'[g] = {}
      /\ file[f] = None => file'[f] = None /\ oldFile'[f] = oldFile[f]
      /\ file'[f] \in {None, file[f]}
      /\ UNCHANGED <<dir, tombs, oldTombs>>
      /\ UNCHANGED <<index, ctx, loaded, recall, behind, said, eclipsed, Said, firm,
                     sweep>>
  <2>1. /\ op.pc = "lift" /\ f \in op.todo /\ op \in Writer /\ op.todo \in SUBSET Fact
        /\ UNCHANGED <<dir, tombs, oldTombs, readVars, sweep, recall, said, eclipsed,
                       Said, firm, behind>>
    BY ToldKeeps DEF LiftRemoves, TypeOK, Writer
  <2>2. ASSUME NEW s \in BOOLEAN, Remove(f, s) \/ UNCHANGED <<file, oldFile>>
        PROVE  /\ file' \in [Fact -> Version \union {None}]
               /\ oldFile' \in [Fact -> SUBSET (Version \union {None})]
               /\ \A g \in Fact : g # f => file'[g] = file[g]
               /\ \A g \in Fact : g # f /\ oldFile[g] = {} => oldFile'[g] = {}
               /\ file[f] = None => file'[f] = None /\ oldFile'[f] = oldFile[f]
               /\ file'[f] \in {None, file[f]}
    BY <2>2, RemoveTyped DEF TypeOK, Remove
  <2>3. CASE /\ Remove(f, TRUE) /\ op' = [op EXCEPT !.todo = @ \ {f}]
             /\ UNCHANGED left
    <3> DEFINE S == op.todo \ {f}
    <3>1. S \in SUBSET Fact /\ op' = [op EXCEPT !.todo = S]
      BY <2>1, <2>3, Zenon
    <3>2. /\ op' \in Writer /\ op'.pc = op.pc /\ op'.kind = op.kind
          /\ op'.fact = op.fact /\ op'.version = op.version /\ op'.todo = S
      BY <2>1, <3>1, TodoTyped, Zenon
    <3>3. file'[f] = None /\ left' \in Left
      BY <2>3, RemoveTyped DEF TypeOK, Left
    <3> QED BY <2>1, <2>2, <2>3, <3>2, <3>3 DEF readVars
  <2>4. CASE Refused /\ (Remove(f, FALSE) \/ UNCHANGED <<file, oldFile>>)
    BY <2>1, <2>2, <2>4, RefusedTyped DEF TypeOK, Left, readVars
  <2> QED BY <2>3, <2>4 DEF LiftRemoves
<1>2. TypeOK' /\ SaidTyped'
  BY <1>1 DEF SaidTyped, TypeOK, Left
<1>3. WriterShape'
  BY <1>1, IdleTyped DEF WriterShape, Fits, ChangeKinds, FactKinds
<1>4. Kept' /\ EditsAreOpen'
  BY <1>1 DEF Kept, EditsAreOpen, LiftIsSafe
<1>5. SweepIsSafe'
  BY <1>1 DEF SweepIsSafe
<1>6. LiftIsSafe' /\ CommitIsSafe'
  BY <1>1, IdleTyped DEF LiftIsSafe, CommitIsSafe
<1>7. ChangeIsDone'
  BY <1>1, IdleTyped DEF ChangeIsDone, PastCommit
<1>8. WipeIsSafe' /\ ReconcileIsSafe'
  BY <1>1, IdleTyped DEF WipeIsSafe, ReconcileIsSafe, Swept
<1>9. FirmIsSafe'
  BY <1>1 DEF SaidTyped, TypeOK, FirmIsSafe, LiftIsSafe
<1> USE DEF Follows
<1>11. SweepIsKnown' /\ WipeShowsNothing'
  BY <1>1, IdleTyped DEF WipeShowsNothing, Calm, SweepIsKnown
<1>12. IndexFollows'
  BY <1>1 DEF IndexFollows, InIndex, Calm, Settled
<1>13. ContextFollows'
  BY <1>1 DEF ContextFollows, InContext, Calm, Settled
<1>14. ChangeFollows'
  BY <1>1, IdleTyped DEF ChangeFollows, PastCommit, Calm
<1>15. ContextIsNew'
  BY <1>1, IdleTyped DEF ContextIsNew
<1>16. ReconcileFollows'
  BY <1>1, IdleTyped DEF ReconcileFollows
<1>17. ReadersFollow'
  BY <1>1 DEF ReadersFollow, Calm
<1> QED BY <1>2, <1>3, <1>4, <1>5, <1>6, <1>7, <1>8, <1>9, <1>11, <1>12, <1>13, <1>14,
     <1>15, <1>16, <1>17

LEMMA LiftWritesStep ==
  ASSUME IInv, LiftWrites
  PROVE  IInv'
<1> USE VaultAssumption DEF IInv
<1>1. /\ op.pc = "lift" /\ op.todo = {} /\ op.kind \in {"remember", "correct"}
      /\ op' \in Writer /\ left' \in Left
      /\ \/ op' = Idle
         \/ /\ op'.pc = "commit" /\ op'.kind = op.kind /\ op'.fact = op.fact
            /\ op'.version = op.version
            /\ op.version.body \notin tombs'
      /\ tombs' \in {tombs, tombs \ Folded(op.version.body)}
      /\ oldTombs' \in {{}, oldTombs, oldTombs \union {tombs}}
      /\ UNCHANGED <<dir, file, oldFile>>
      /\ UNCHANGED <<index, ctx, loaded, recall, behind, said, eclipsed, Said, firm,
                     sweep>>
  <2> DEFINE T == tombs \ Folded(op.version.body)
  <2>1. /\ op.pc = "lift" /\ op.todo = {} /\ op.kind \in {"remember", "correct"}
        /\ op \in Writer /\ left \in Left /\ op.version.body \in Body
        /\ UNCHANGED <<dir, file, oldFile>>
        /\ UNCHANGED <<index, ctx, loaded, recall, behind, said, eclipsed, Said, firm,
                       sweep>>
    BY ToldKeeps, KindAt DEF LiftWrites, Typed, WriterShape, Fits, ChangeKinds, FactKinds,
       TypeOK, Left, readVars
  <2>2. op.version.body \notin T
    BY <2>1, FoldedHolds
  <2>3. \/ PutTombs(T, TRUE) /\ Goto("commit", FALSE) /\ UNCHANGED left
        \/ Refused /\ (PutTombs(T, FALSE) \/ UNCHANGED <<tombs, oldTombs>>)
    BY DEF LiftWrites
  <2> HIDE DEF T
  <2>4. /\ tombs' \in {tombs, T} /\ oldTombs' \in {{}, oldTombs, oldTombs \union {tombs}}
    BY <2>3 DEF PutTombs
  <2>5. CASE PutTombs(T, TRUE) /\ Goto("commit", FALSE) /\ UNCHANGED left
    <3>1. /\ op' \in Writer /\ op'.pc = "commit" /\ op'.kind = op.kind
          /\ op'.fact = op.fact /\ op'.version = op.version
      BY <2>1, <2>5, GotoTyped DEF Pc
    <3>2. tombs' = T /\ left' \in Left
      BY <2>1, <2>5 DEF PutTombs
    <3> QED BY <2>1, <2>2, <2>4, <3>1, <3>2 DEF T
  <2>6. CASE Refused
    <3>1. op' = Idle /\ op' \in Writer /\ left' \in Left
      BY <2>1, <2>6, RefusedTyped
    <3> QED BY <2>1, <2>4, <3>1 DEF T
  <2> QED BY <2>3, <2>5, <2>6
<1>2. TypeOK' /\ SaidTyped'
  BY <1>1 DEF SaidTyped, TypeOK, Left
<1>3. WriterShape'
  BY <1>1, IdleTyped DEF WriterShape, Fits, ChangeKinds, FactKinds
<1>4. Kept' /\ EditsAreOpen'
  BY <1>1 DEF Kept, EditsAreOpen, LiftIsSafe
<1>5. SweepIsSafe'
  BY <1>1 DEF SweepIsSafe
<1>6. LiftIsSafe' /\ CommitIsSafe'
  BY <1>1, IdleTyped DEF LiftIsSafe, CommitIsSafe
<1>7. ChangeIsDone'
  BY <1>1, IdleTyped DEF ChangeIsDone, PastCommit
<1>8. WipeIsSafe' /\ ReconcileIsSafe'
  BY <1>1, IdleTyped DEF WipeIsSafe, ReconcileIsSafe, Swept
<1>9. FirmIsSafe'
  BY <1>1 DEF SaidTyped, TypeOK, Kept, FirmIsSafe
<1> USE DEF Follows
<1>11. SweepIsKnown' /\ WipeShowsNothing'
  BY <1>1, IdleTyped DEF WipeShowsNothing, Calm, SweepIsKnown
<1>12. IndexFollows'
  BY <1>1 DEF IndexFollows, InIndex, ChangeFollows, ChangeKinds, FactKinds, Calm, Settled
<1>13. ContextFollows'
  BY <1>1 DEF ContextFollows, InContext, ChangeFollows, ChangeKinds, FactKinds, Calm,
     Settled
<1>14. ChangeFollows'
  BY <1>1, IdleTyped DEF ChangeFollows, PastCommit
<1>15. ContextIsNew'
  BY <1>1, IdleTyped DEF ContextIsNew
<1>16. ReconcileFollows'
  BY <1>1, IdleTyped DEF ReconcileFollows
<1>17. ReadersFollow'
  BY <1>1 DEF ReadersFollow, Calm
<1> QED BY <1>2, <1>3, <1>4, <1>5, <1>6, <1>7, <1>8, <1>9, <1>11, <1>12, <1>13, <1>14,
     <1>15, <1>16, <1>17

LEMMA CommitFactStep ==
  ASSUME IInv, CommitFact
  PROVE  IInv'
<1> USE VaultAssumption DEF IInv
<1>1. /\ op.pc = "commit" /\ op.kind \in FactKinds /\ op.fact \in Fact
      /\ op.version \in Version
      /\ op' \in Writer /\ op'.pc = "index" /\ op'.kind = op.kind /\ op'.fact = op.fact
      /\ op'.version = op.version /\ op'.touched = op.touched
      /\ left' \in Left /\ dir' \in {"loose", "firm"} /\ (dir = "firm" => dir' = "firm")
      /\ behind' \in SUBSET {"index", "purge"}
      /\ file' \in [Fact -> Version \union {None}]
      /\ oldFile' \in [Fact -> SUBSET (Version \union {None})]
      /\ file'[op.fact] = op.version /\ \A g \in Fact : g # op.fact => file'[g] = file[g]
      /\ \A g \in Fact : g # op.fact /\ oldFile[g] = {} => oldFile'[g] = {}
      /\ op'.pending = FALSE => oldFile'[op.fact] = {}
      /\ Said' = [g \in Fact |-> IF g = op.fact THEN None ELSE Said[g]]
      /\ said' \in [Fact -> Sayable] /\ eclipsed' \in SUBSET Fact
      /\ firm' = firm \ {op.fact} /\ firm' \in SUBSET Fact
      /\ UNCHANGED <<tombs, oldTombs, index, ctx, loaded, recall, sweep>>
  <2>1. /\ op.kind \in ChangeKinds /\ op.fact \in Fact /\ op.version \in Version
        /\ op.version.body \in Body
    BY KindAt DEF Typed, CommitFact
  <2>2. PICK s \in BOOLEAN : Holds(s) /\ Put(op.fact, op.version, s) /\ Goto("index", ~s)
    BY DEF CommitFact
  <2>3. /\ op' \in Writer /\ op'.pc = "index" /\ op'.kind = op.kind
        /\ op'.fact = op.fact /\ op'.version = op.version
        /\ op'.touched = op.touched /\ (op'.pending = FALSE => s)
    BY <2>2, GotoTyped DEF TypeOK, Pc
  <2>4. left' \in Left
    BY <2>2, HoldsTyped DEF TypeOK, Left
  <2>5. /\ file' \in [Fact -> Version \union {None}]
        /\ oldFile' \in [Fact -> SUBSET (Version \union {None})]
        /\ file'[op.fact] = op.version /\ \A g \in Fact : g # op.fact => file'[g] = file[g]
        /\ \A g \in Fact : g # op.fact /\ oldFile[g] = {} => oldFile'[g] = {}
        /\ s => oldFile'[op.fact] = {}
    BY <2>1, <2>2, PutTyped DEF TypeOK
  <2>6. /\ dir' = Made(dir) /\ Unsettle({op.fact}) /\ behind' = behind \ {"purge"}
        /\ op.pc = "commit" /\ op.kind \in FactKinds
        /\ UNCHANGED <<tombs, oldTombs, readVars, sweep, recall>>
    BY DEF CommitFact, FactKinds
  <2>7. /\ said' \in [Fact -> Sayable] /\ eclipsed' \in SUBSET Fact
        /\ firm' = firm \ {op.fact} /\ firm' \in SUBSET Fact
        /\ Said' = [g \in Fact |-> IF g \in {op.fact} THEN None ELSE Said[g]]
    BY <2>6, Unsettled
  <2> QED BY <2>1, <2>3, <2>4, <2>5, <2>6, <2>7 DEF Made, TypeOK, readVars
<1>2. TypeOK' /\ SaidTyped'
  BY <1>1 DEF Sayable, SaidTyped, TypeOK, Left
<1>3. WriterShape'
  BY <1>1 DEF WriterShape, Fits
<1>4. Kept' /\ EditsAreOpen'
  BY <1>1 DEF Kept, EditsAreOpen
<1>5. SweepIsSafe'
  BY <1>1, SweepTyped DEF SweepIsSafe
<1>6. LiftIsSafe' /\ CommitIsSafe'
  BY <1>1 DEF LiftIsSafe, CommitIsSafe
<1>7. ChangeIsDone'
  BY <1>1 DEF CommitIsSafe, ChangeIsDone, FactKinds
<1>8. WipeIsSafe' /\ ReconcileIsSafe'
  BY <1>1 DEF WipeIsSafe, ReconcileIsSafe, Swept
<1>9. FirmIsSafe'
  BY <1>1 DEF SaidTyped, TypeOK, FirmIsSafe
<1> USE DEF Follows
<1>10. behind' = behind \ {"purge"}
  BY <1>1 DEF CommitFact
<1>11. SweepIsKnown' /\ WipeShowsNothing'
  BY <1>1, <1>10 DEF WipeShowsNothing, Calm, SweepIsKnown
<1>12. IndexFollows'
  BY <1>1, <1>10 DEF IndexFollows, InIndex, Calm, Settled
<1>13. ContextFollows'
  BY <1>1, <1>10 DEF ContextFollows, InContext, Calm, Settled
<1>14. ChangeFollows'
  BY <1>1, <1>10 DEF ChangeFollows, FactKinds, Calm
<1>15. ContextIsNew'
  BY <1>1 DEF ContextIsNew
<1>16. ReconcileFollows'
  BY <1>1 DEF ReconcileFollows
<1>17. ReadersFollow'
  BY <1>1, <1>10 DEF ReadersFollow, Calm, SaidTyped, TypeOK, Row
<1> QED BY <1>2, <1>3, <1>4, <1>5, <1>6, <1>7, <1>8, <1>9, <1>11, <1>12, <1>13, <1>14,
     <1>15, <1>16, <1>17

LEMMA CommitDiscardStep ==
  ASSUME IInv, CommitDiscard
  PROVE  IInv'
<1> USE VaultAssumption DEF IInv
<1>1. /\ op.pc = "commit" /\ op.kind = "discard" /\ op.fact \in Fact
      /\ op.version \in Version
      /\ op' \in Writer /\ op'.pc = "index" /\ op'.kind = op.kind /\ op'.fact = op.fact
      /\ op'.version = op.version /\ op'.touched = op.touched
      /\ left' \in Left
      /\ file' \in [Fact -> Version \union {None}]
      /\ oldFile' \in [Fact -> SUBSET (Version \union {None})]
      /\ file'[op.fact] = None /\ \A g \in Fact : g # op.fact => file'[g] = file[g]
      /\ \A g \in Fact : g # op.fact /\ oldFile[g] = {} => oldFile'[g] = {}
      /\ op'.pending = FALSE /\ file[op.fact] # None => oldFile'[op.fact] = {}
      /\ Said' = [g \in Fact |-> IF g = op.fact THEN None ELSE Said[g]]
      /\ said' \in [Fact -> Sayable] /\ eclipsed' \in SUBSET Fact
      /\ firm' = firm \ {op.fact} /\ firm' \in SUBSET Fact
      /\ UNCHANGED <<dir, tombs, oldTombs, index, ctx, loaded, recall, sweep, behind>>
  <2>1. /\ op.kind \in ChangeKinds /\ op.fact \in Fact /\ op.version \in Version
        /\ op.version.body \in Body
    BY KindAt DEF Typed, CommitDiscard
  <2>2. PICK s \in BOOLEAN : Holds(s) /\ Remove(op.fact, s) /\ Goto("index", ~s)
    BY DEF CommitDiscard
  <2>3. /\ op' \in Writer /\ op'.pc = "index" /\ op'.kind = op.kind
        /\ op'.fact = op.fact /\ op'.version = op.version
        /\ op'.touched = op.touched /\ (op'.pending = FALSE => s)
    BY <2>2, GotoTyped DEF TypeOK, Pc
  <2>4. left' \in Left
    BY <2>2, HoldsTyped DEF TypeOK, Left
  <2>5. /\ file' \in [Fact -> Version \union {None}]
        /\ oldFile' \in [Fact -> SUBSET (Version \union {None})]
        /\ file'[op.fact] = None /\ \A g \in Fact : g # op.fact => file'[g] = file[g]
        /\ \A g \in Fact : g # op.fact /\ oldFile[g] = {} => oldFile'[g] = {}
        /\ s /\ file[op.fact] # None => oldFile'[op.fact] = {}
    BY <2>1, <2>2, RemoveTyped DEF TypeOK
  <2>6. /\ Unsettle({op.fact}) /\ op.pc = "commit" /\ op.kind = "discard"
        /\ UNCHANGED <<dir, tombs, oldTombs, readVars, sweep, recall, behind>>
    BY DEF CommitDiscard
  <2>7. /\ said' \in [Fact -> Sayable] /\ eclipsed' \in SUBSET Fact
        /\ firm' = firm \ {op.fact} /\ firm' \in SUBSET Fact
        /\ Said' = [g \in Fact |-> IF g \in {op.fact} THEN None ELSE Said[g]]
    BY <2>6, Unsettled
  <2> QED BY <2>1, <2>3, <2>4, <2>5, <2>6, <2>7 DEF readVars
<1>2. TypeOK' /\ SaidTyped'
  BY <1>1 DEF Sayable, SaidTyped, TypeOK, Left
<1>3. WriterShape'
  BY <1>1 DEF WriterShape, Fits
<1>4. Kept' /\ EditsAreOpen'
  BY <1>1 DEF Kept, EditsAreOpen
<1>5. SweepIsSafe'
  BY <1>1, SweepTyped DEF SweepIsSafe
<1>6. LiftIsSafe' /\ CommitIsSafe'
  BY <1>1 DEF LiftIsSafe, CommitIsSafe
<1>7. ChangeIsDone'
  BY <1>1 DEF CommitIsSafe, ChangeIsDone, Mine, FactKinds
<1>8. WipeIsSafe' /\ ReconcileIsSafe'
  BY <1>1 DEF WipeIsSafe, ReconcileIsSafe, Swept
<1>9. FirmIsSafe'
  BY <1>1 DEF SaidTyped, TypeOK, FirmIsSafe
<1> USE DEF Follows
<1>11. SweepIsKnown' /\ WipeShowsNothing'
  BY <1>1 DEF WipeShowsNothing, Calm, SweepIsKnown
<1>12. IndexFollows'
  BY <1>1 DEF IndexFollows, InIndex, Calm, Settled
<1>13. ContextFollows'
  BY <1>1 DEF ContextFollows, InContext, Calm, Settled
<1>14. ChangeFollows'
  BY <1>1 DEF ChangeFollows, FactKinds
<1>15. ContextIsNew'
  BY <1>1 DEF ContextIsNew
<1>16. ReconcileFollows'
  BY <1>1 DEF ReconcileFollows
<1>17. ReadersFollow'
  BY <1>1 DEF ReadersFollow, Calm, SaidTyped, TypeOK, Row
<1> QED BY <1>2, <1>3, <1>4, <1>5, <1>6, <1>7, <1>8, <1>9, <1>11, <1>12, <1>13, <1>14,
     <1>15, <1>16, <1>17

LEMMA CommitForgetStep ==
  ASSUME IInv, CommitForget
  PROVE  IInv'
<1> USE VaultAssumption DEF IInv
<1>1. /\ op.pc = "commit" /\ op.kind = "forget" /\ op.fact \in Fact
      /\ op.version \in Version /\ op.version.body \in Body
      /\ op' \in Writer /\ op'.pc = "index" /\ op'.kind = op.kind /\ op'.fact = op.fact
      /\ op'.version = op.version /\ op'.touched = op.touched
      /\ left' \in Left
      /\ tombs' = tombs \union Folded(op.version.body)
      /\ oldTombs' \in {{}, oldTombs \union {tombs}} /\ oldTombs' \in SUBSET SUBSET Body
      /\ Said' = [g \in Fact |->
                     IF g = op.fact
                        \/ (file[g] # None /\ file[g].body \in Folded(op.version.body))
                     THEN None ELSE Said[g]]
      /\ firm' \subseteq firm
      /\ \A g \in firm' :
           g # op.fact /\ ~(file[g] # None /\ file[g].body \in Folded(op.version.body))
      /\ UNCHANGED <<dir, file, oldFile, index, ctx, loaded, recall, sweep, behind>>
      /\ said' \in [Fact -> Body \union {None, Gone}] /\ eclipsed' \in SUBSET Fact
      /\ Folded(op.version.body) \in SUBSET Body
      /\ op.version.body \in Folded(op.version.body)
  <2>1. /\ op.kind \in ChangeKinds /\ op.fact \in Fact /\ op.version \in Version
        /\ op.version.body \in Body
        /\ Folded(op.version.body) \in SUBSET Body
        /\ op.version.body \in Folded(op.version.body)
    BY KindAt, FoldedHolds DEF Typed, CommitForget
  <2>2. PICK s \in BOOLEAN
         : Holds(s) /\ PutTombs(tombs \union Folded(op.version.body), s) /\ Goto("index", ~s)
    BY DEF CommitForget
  <2>3. /\ op' \in Writer /\ op'.pc = "index" /\ op'.kind = op.kind
        /\ op'.fact = op.fact /\ op'.version = op.version
        /\ op'.touched = op.touched /\ (op'.pending = FALSE => s)
    BY <2>2, GotoTyped DEF TypeOK, Pc
  <2>4. left' \in Left
    BY <2>2, HoldsTyped DEF TypeOK, Left
  <2>5. /\ tombs' = tombs \union Folded(op.version.body) /\ tombs' \in SUBSET Body
        /\ oldTombs' \in {{}, oldTombs \union {tombs}} /\ oldTombs' \in SUBSET SUBSET Body
    BY <2>1, <2>2 DEF PutTombs, TypeOK
  <2> DEFINE same == {op.fact} \union Holding({op.version.body})
             alike == Holding(Folded(op.version.body)) \ same
  <2>6. /\ said' = [f \in Fact |-> IF f \in same THEN None ELSE said[f]]
        /\ eclipsed' = (eclipsed \ same) \union {f \in alike : said[f] # None}
        /\ firm' = firm \ (same \union alike)
        /\ op.pc = "commit" /\ op.kind = "forget"
        /\ UNCHANGED <<dir, file, oldFile, readVars, sweep, recall, behind>>
    BY DEF CommitForget
  <2>7. /\ \A g \in Fact : (g \in same \/ g \in alike) <=>
             (g = op.fact \/ (file[g] # None /\ file[g].body \in Folded(op.version.body)))
        /\ same \in SUBSET Fact /\ alike \in SUBSET Fact
        /\ \A g \in same : g \notin alike
    BY <2>1 DEF Holding
  <2> HIDE DEF same, alike
  <2>8. /\ said' \in [Fact -> Body \union {None, Gone}] /\ eclipsed' \in SUBSET Fact
        /\ firm' \subseteq firm
    BY <2>6, <2>7 DEF TypeOK
  <2>9. Said' = [g \in Fact |-> IF g \in same \/ g \in alike THEN None ELSE Said[g]]
    <3>1. ASSUME NEW g \in Fact
          PROVE  (IF g \in eclipsed' THEN None ELSE said'[g])
                   = (IF g \in same \/ g \in alike THEN None
                      ELSE IF g \in eclipsed THEN None ELSE said[g])
      BY <2>6, <2>7
    <3> QED BY <3>1, Zenon DEF Said
  <2>10. /\ Said' = [g \in Fact |->
                       IF g = op.fact
                          \/ (file[g] # None /\ file[g].body \in Folded(op.version.body))
                       THEN None ELSE Said[g]]
         /\ \A g \in firm' :
              g # op.fact /\ ~(file[g] # None /\ file[g].body \in Folded(op.version.body))
    <3>1. \A g \in firm' : g \in Fact /\ g \notin same /\ g \notin alike
      BY <2>6 DEF TypeOK
    <3> QED BY <2>7, <2>9, <3>1
  <2> QED BY <2>1, <2>3, <2>4, <2>5, <2>6, <2>8, <2>10 DEF readVars
<1>2. TypeOK' /\ SaidTyped'
  BY <1>1 DEF SaidTyped, TypeOK, WriterShape, Left
<1>3. WriterShape'
  BY <1>1 DEF WriterShape, Fits
<1>4. Kept' /\ EditsAreOpen'
  BY <1>1 DEF Kept, EditsAreOpen
<1>5. SweepIsSafe'
  BY <1>1, SweepTyped DEF SweepIsSafe
<1>6. LiftIsSafe' /\ CommitIsSafe'
  BY <1>1 DEF LiftIsSafe, CommitIsSafe
<1>7. ChangeIsDone'
  BY <1>1 DEF CommitIsSafe, ChangeIsDone, Mine, FactKinds
<1>8. WipeIsSafe' /\ ReconcileIsSafe'
  BY <1>1 DEF WipeIsSafe, ReconcileIsSafe, Swept
<1>9. FirmIsSafe'
  BY <1>1 DEF SaidTyped, TypeOK, Kept, FirmIsSafe
<1> USE DEF Follows
<1>11. SweepIsKnown' /\ WipeShowsNothing'
  BY <1>1 DEF WipeShowsNothing, Calm, SweepIsKnown
<1>12. IndexFollows'
  BY <1>1 DEF IndexFollows, InIndex, Calm, Settled
<1>13. ContextFollows'
  BY <1>1 DEF ContextFollows, InContext, Calm, Settled
<1>14. ChangeFollows'
  BY <1>1 DEF ChangeFollows, Calm, Settled
<1>15. ContextIsNew'
  BY <1>1 DEF ContextIsNew
<1>16. ReconcileFollows'
  BY <1>1 DEF ReconcileFollows
<1>17. ReadersFollow'
  BY <1>1 DEF ReadersFollow, Calm, SaidTyped, TypeOK, Row
<1> QED BY <1>2, <1>3, <1>4, <1>5, <1>6, <1>7, <1>8, <1>9, <1>11, <1>12, <1>13, <1>14,
     <1>15, <1>16, <1>17

LEMMA CommitFailsStep ==
  ASSUME IInv, CommitFails
  PROVE  IInv'
<1> USE VaultAssumption DEF IInv
<1>1. /\ op' = Idle /\ op' \in Writer /\ left' \in Left /\ op.pc = "commit"
      /\ dir' = dir \/ (dir = "absent" /\ dir' = "loose")
      /\ UNCHANGED <<file, tombs, oldFile, oldTombs, index, ctx, loaded, recall,
                     said, eclipsed, Said, firm, sweep, behind>>
  BY ToldKeeps, IdleTyped, SpendTyped DEF CommitFails, Refused, Fault, TypeOK, Left,
     readVars
<1>2. TypeOK' /\ SaidTyped'
  BY <1>1 DEF SaidTyped, TypeOK, Left
<1>3. WriterShape'
  BY <1>1, IdleTyped DEF WriterShape, Fits, ChangeKinds, FactKinds
<1>4. Kept' /\ EditsAreOpen'
  BY <1>1 DEF Kept, EditsAreOpen
<1>5. SweepIsSafe'
  BY <1>1 DEF SweepIsSafe
<1>6. LiftIsSafe' /\ CommitIsSafe'
  BY <1>1, IdleTyped DEF LiftIsSafe, CommitIsSafe
<1>7. ChangeIsDone'
  BY <1>1, IdleTyped DEF ChangeIsDone, PastCommit
<1>8. WipeIsSafe' /\ ReconcileIsSafe'
  BY <1>1, IdleTyped DEF WipeIsSafe, ReconcileIsSafe, Swept
<1>9. FirmIsSafe'
  BY <1>1 DEF FirmIsSafe
<1> USE DEF Follows
<1>11. SweepIsKnown' /\ WipeShowsNothing'
  BY <1>1, IdleTyped DEF WipeShowsNothing, Calm, SweepIsKnown
<1>12. IndexFollows'
  BY <1>1 DEF IndexFollows, InIndex, Calm, Settled
<1>13. ContextFollows'
  BY <1>1 DEF ContextFollows, InContext, Calm, Settled
<1>14. ChangeFollows'
  BY <1>1, IdleTyped DEF ChangeFollows, PastCommit
<1>15. ContextIsNew'
  BY <1>1, IdleTyped DEF ContextIsNew
<1>16. ReconcileFollows'
  BY <1>1, IdleTyped DEF ReconcileFollows
<1>17. ReadersFollow'
  BY <1>1 DEF ReadersFollow, Calm
<1> QED BY <1>2, <1>3, <1>4, <1>5, <1>6, <1>7, <1>8, <1>9, <1>11, <1>12, <1>13, <1>14,
     <1>15, <1>16, <1>17

LEMMA UpdateIndexStep ==
  ASSUME IInv, UpdateIndex
  PROVE  IInv'
<1> USE VaultAssumption DEF IInv
<1>1. /\ op.pc = "index" /\ op.kind \in ChangeKinds /\ op' \in Writer
      /\ op'.pc = "publish" /\ op'.kind = op.kind /\ op'.fact = op.fact
      /\ op'.version = op.version /\ op'.touched = op.touched
      /\ (op.pending => op'.pending)
      /\ left' \in Left /\ behind' \in SUBSET {"index", "purge"}
      /\ index' = None \/ (index # None /\ index' \in SUBSET Row)
      /\ UNCHANGED <<dir, file, tombs, oldFile, oldTombs, ctx, loaded, recall, said,
                     eclipsed, Said,
                     firm, sweep>>
  <2>1. /\ op.pc = "index" /\ op.kind \in ChangeKinds /\ op.fact \in Fact
        /\ op.version.body \in Body
        /\ UNCHANGED <<diskVars, ctx, loaded, sweep, recall, said, eclipsed, Said, firm>>
    BY ToldKeeps, KindAt DEF Typed, UpdateIndex
  <2>2. PICK p \in BOOLEAN : Goto("publish", p)
    BY DEF UpdateIndex
  <2>3. /\ op' \in Writer /\ op'.pc = "publish" /\ op'.kind = op.kind
        /\ op'.fact = op.fact /\ op'.version = op.version
        /\ op'.touched = op.touched /\ (op.pending => op'.pending)
    BY <2>2, GotoTyped DEF TypeOK, Pc
  <2>4. left' \in Left /\ behind' \in SUBSET {"index", "purge"}
    BY SpendTyped DEF UpdateIndex, Fault, TypeOK, Left
  <2>5. index' \in {index, None} \/ index' = Updated
    BY DEF UpdateIndex
  <2>6. index # None => Updated \in SUBSET Row
    BY <2>1 DEF Updated, Row, TypeOK
  <2>7. index = None => Updated = None
    BY DEF Updated
  <2>8. index' = None \/ (index # None /\ index' \in SUBSET Row)
    BY <2>5, <2>6, <2>7 DEF TypeOK
  <2> QED BY <2>1, <2>3, <2>4, <2>8 DEF diskVars
<1>2. TypeOK' /\ SaidTyped'
  BY <1>1 DEF SaidTyped, TypeOK, Left
<1>3. WriterShape'
  BY <1>1 DEF WriterShape, Fits
<1>4. Kept' /\ EditsAreOpen'
  BY <1>1 DEF Kept, EditsAreOpen
<1>5. SweepIsSafe'
  BY <1>1 DEF SweepIsSafe
<1>6. LiftIsSafe' /\ CommitIsSafe'
  BY <1>1 DEF LiftIsSafe, CommitIsSafe
<1>7. ChangeIsDone'
  BY <1>1 DEF ChangeIsDone, Mine, PastCommit
<1>8. WipeIsSafe' /\ ReconcileIsSafe'
  BY <1>1 DEF WriterShape, Fits, WipeIsSafe, ReconcileIsSafe, Swept
<1>9. FirmIsSafe'
  BY <1>1 DEF FirmIsSafe
<1> USE DEF Follows
<1>10. /\ op.fact \in Fact /\ op.version.body \in Body /\ op.version \in Version
       /\ \/ index' = None /\ behind' = behind
          \/ index' = index /\ "index" \in behind'
          \/ /\ behind' = behind
             /\ op.kind = "pin" => index' = index
             /\ \A r \in index : r[1] # op.fact => r \in index'
             /\ op.kind \in {"remember", "correct"} =>
                  <<op.fact, op.version.body>> \in index'
  <2>1. op.fact \in Fact /\ op.version.body \in Body /\ op.version \in Version
    BY <1>1, KindAt DEF Typed
  <2>2. \/ index' = None /\ behind' = behind
        \/ index' = index /\ "index" \in behind'
        \/ index' = Updated /\ behind' = behind
    BY DEF UpdateIndex
  <2>3. index # None =>
          /\ op.kind = "pin" => Updated = index
          /\ \A r \in index : r[1] # op.fact => r \in Updated
          /\ op.kind \in {"remember", "correct"} =>
               <<op.fact, op.version.body>> \in Updated
    BY DEF Updated
  <2>4. index = None => Updated = None
    BY DEF Updated
  <2> QED BY <2>1, <2>2, <2>3, <2>4
<1>11. SweepIsKnown' /\ WipeShowsNothing'
  BY <1>1, <1>10 DEF WipeShowsNothing, Calm, SweepIsKnown
<1>12. IndexFollows'
  <2> SUFFICES ASSUME Calm', index' # None, NEW f \in Fact, Settled(f)'
               PROVE  InIndex(f)'
    BY DEF IndexFollows
  <2>1. Calm /\ index # None /\ Settled(f) /\ file' = file
    BY <1>1, <1>10 DEF Calm, Settled
  <2>2. CASE f # op.fact
    BY <1>1, <1>10, <2>1, <2>2 DEF IndexFollows, InIndex, Calm
  <2>3. CASE f = op.fact
    <3>1. op.kind \in FactKinds /\ file[f] = op.version /\ ~op.version.edited
      BY <1>1, <2>1, <2>3 DEF ChangeFollows, Settled, PastCommit, ChangeKinds
    <3>2. op.kind = "pin" => <<op.fact, op.version.body>> \in index
      BY <1>1, <2>1, <3>1 DEF ChangeFollows
    <3> QED BY <1>1, <1>10, <2>1, <2>3, <3>1, <3>2 DEF InIndex, FactKinds, Calm
  <2> QED BY <2>2, <2>3
<1>13. ContextFollows'
  BY <1>1, <1>10 DEF ContextFollows, InContext, Calm, Settled
<1>14. ChangeFollows'
  <2>1. Calm' => Calm
    BY <1>1, <1>10 DEF Calm
  <2>2. Calm' /\ op.kind = "pin" /\ index' # None => index' = index
    BY <1>1, <1>10 DEF Calm
  <2> QED BY <1>1, <2>1, <2>2 DEF ChangeFollows, PastCommit, Settled
<1>15. ContextIsNew'
  BY <1>1 DEF ContextIsNew
<1>16. ReconcileFollows'
  BY <1>1 DEF ReconcileFollows, ChangeKinds, FactKinds
<1>17. ReadersFollow'
  <2>1. Said[op.fact] = None
    BY <1>1 DEF ChangeIsDone, PastCommit
  <2>2. ASSUME NEW f \in Fact, Said[f] \in Body, index' # None, Calm'
        PROVE  <<f, Said[f]>> \in index'
    <3>1. f # op.fact /\ <<f, Said[f]>> \in index
      BY <1>1, <1>10, <2>1, <2>2 DEF ReadersFollow, Calm
    <3> QED BY <1>10, <2>2, <3>1 DEF Calm
  <2> QED BY <1>1, <2>2 DEF ReadersFollow, Calm
<1> QED BY <1>2, <1>3, <1>4, <1>5, <1>6, <1>7, <1>8, <1>9, <1>11, <1>12, <1>13, <1>14,
     <1>15, <1>16, <1>17

LEMMA PublishChangeStep ==
  ASSUME IInv, PublishChange
  PROVE  IInv'
<1> USE VaultAssumption DEF IInv
<1>1. /\ op.pc = "publish" /\ op.kind \in ChangeKinds /\ op' \in Writer
      /\ op'.kind = op.kind /\ op'.fact = op.fact /\ op'.version = op.version
      /\ op'.touched = op.touched /\ (op.pending => op'.pending)
      /\ op'.pc = "summary"
         \/ (op'.pc = (IF op.kind = "forget" THEN "cleanup" ELSE "reply") /\ op'.pending)
      /\ left' \in Left /\ ctx' \in SUBSET Row /\ loaded' \in BOOLEAN
      /\ UNCHANGED <<dir, file, tombs, oldFile, oldTombs, index, behind, recall,
                     said, eclipsed, Said, firm, sweep>>
  <2>1. /\ op.pc = "publish" /\ op.kind \in ChangeKinds
        /\ UNCHANGED <<diskVars, index, sweep, recall, said, eclipsed, Said, firm,
                       behind>>
    BY ToldKeeps, KindAt DEF Typed, PublishChange, WriterShape, Fits
  <2>2. left' \in Left /\ ctx' \in SUBSET Row /\ loaded' \in BOOLEAN
    BY SpendTyped, RowsTyped DEF PublishChange, Publish, PublishDegraded, Fault, TypeOK,
       Left
  <2>3. Goto("summary", FALSE) \/ Goto(AfterSummary, TRUE)
    BY DEF PublishChange
  <2>4. AfterSummary \in Pc /\ AfterSummary = (IF op.kind = "forget" THEN "cleanup" ELSE "reply")
    BY DEF AfterSummary, Pc
  <2>5. "summary" \in Pc
    BY DEF Pc
  <2>6. /\ op' \in Writer /\ op'.kind = op.kind /\ op'.fact = op.fact
        /\ op'.version = op.version /\ op'.touched = op.touched
        /\ (op.pending => op'.pending)
        /\ op'.pc = "summary" \/ (op'.pc = AfterSummary /\ op'.pending)
    BY <2>3, <2>4, <2>5, GotoTyped DEF TypeOK
  <2> QED BY <2>1, <2>2, <2>4, <2>6 DEF diskVars
<1>2. TypeOK' /\ SaidTyped'
  BY <1>1 DEF SaidTyped, TypeOK, Left
<1>3. WriterShape'
  BY <1>1 DEF WriterShape, Fits, ChangeKinds, FactKinds
<1>4. Kept' /\ EditsAreOpen'
  BY <1>1 DEF Kept, EditsAreOpen
<1>5. SweepIsSafe'
  BY <1>1 DEF SweepIsSafe
<1>6. LiftIsSafe' /\ CommitIsSafe'
  BY <1>1 DEF LiftIsSafe, CommitIsSafe
<1>7. ChangeIsDone'
  BY <1>1 DEF ChangeIsDone, Mine, PastCommit
<1>8. WipeIsSafe' /\ ReconcileIsSafe'
  BY <1>1 DEF WipeIsSafe, ReconcileIsSafe, Swept, ChangeKinds, FactKinds
<1>9. FirmIsSafe'
  BY <1>1 DEF FirmIsSafe
<1> USE DEF Follows
<1>10. \/ ctx' = Visible /\ loaded' = TRUE
       \/ ctx' = {} /\ loaded' = FALSE
  BY DEF PublishChange, Publish, PublishDegraded
<1>11. SweepIsKnown' /\ WipeShowsNothing'
  BY <1>1 DEF WipeShowsNothing, Calm, SweepIsKnown
<1>12. IndexFollows'
  BY <1>1 DEF IndexFollows, InIndex, Calm, Settled
<1>13. ContextFollows'
  BY <1>1, <1>10, VisibleRows DEF ContextFollows, InContext, Settled
<1>14. ChangeFollows'
  BY <1>1 DEF ChangeFollows, PastCommit, Calm, Settled
<1>15. ContextIsNew'
  BY <1>1, <1>10, VisibleRows DEF ContextIsNew, Mine, ChangeIsDone, WriterShape, Fits,
     PastCommit
<1>16. ReconcileFollows'
  BY <1>1 DEF ReconcileFollows, ChangeKinds, FactKinds
<1>17. ReadersFollow'
  BY <1>1, <1>10, VisibleRows DEF ReadersFollow, Calm, Kept, SaidTyped, TypeOK
<1> QED BY <1>2, <1>3, <1>4, <1>5, <1>6, <1>7, <1>8, <1>9, <1>11, <1>12, <1>13, <1>14,
     <1>15, <1>16, <1>17

LEMMA WriteSummaryStep ==
  ASSUME IInv, WriteSummary
  PROVE  IInv'
<1> USE VaultAssumption DEF IInv
<1>1. /\ op.pc = "summary" /\ op.kind \in ChangeKinds /\ op' \in Writer
      /\ op'.kind = op.kind /\ op'.fact = op.fact /\ op'.version = op.version
      /\ op'.touched = op.touched /\ (op.pending => op'.pending)
      /\ op'.pc = (IF op.kind = "forget" THEN "cleanup" ELSE "reply")
      /\ left' \in Left /\ oldTombs' \in {{}, oldTombs} /\ (~op'.pending => oldTombs' = {})
      /\ UNCHANGED <<dir, file, tombs, oldFile, index, ctx, loaded, behind, recall,
                     said, eclipsed, Said, firm, sweep>>
  <2>1. /\ op.pc = "summary" /\ op.kind \in ChangeKinds
        /\ UNCHANGED <<dir, file, tombs, oldFile, readVars, sweep, recall, said,
                       eclipsed, Said,
                       firm, behind>>
    BY ToldKeeps, KindAt DEF Typed, WriteSummary, WriterShape, Fits
  <2>2. PICK w \in BOOLEAN : /\ Holds(w) /\ Goto(AfterSummary, ~w)
                             /\ oldTombs' = IF w THEN {} ELSE oldTombs
    BY DEF WriteSummary
  <2>3. AfterSummary \in Pc /\ AfterSummary = (IF op.kind = "forget" THEN "cleanup" ELSE "reply")
    BY DEF AfterSummary, Pc
  <2>4. left' \in Left
    BY <2>2, HoldsTyped DEF TypeOK, Left
  <2>5. /\ op' \in Writer /\ op'.kind = op.kind /\ op'.fact = op.fact
        /\ op'.version = op.version /\ op'.touched = op.touched
        /\ (op.pending => op'.pending) /\ op'.pc = AfterSummary /\ (~op'.pending => w)
    BY <2>2, <2>3, GotoTyped DEF TypeOK
  <2> QED BY <2>1, <2>2, <2>3, <2>4, <2>5 DEF readVars
<1>2. TypeOK' /\ SaidTyped'
  BY <1>1 DEF SaidTyped, TypeOK, Left
<1>3. WriterShape'
  BY <1>1 DEF WriterShape, Fits, ChangeKinds, FactKinds
<1>4. Kept' /\ EditsAreOpen'
  BY <1>1 DEF Kept, EditsAreOpen
<1>5. SweepIsSafe'
  BY <1>1 DEF SweepIsSafe
<1>6. LiftIsSafe' /\ CommitIsSafe'
  BY <1>1 DEF LiftIsSafe, CommitIsSafe
<1>7. ChangeIsDone'
  BY <1>1 DEF ChangeIsDone, Mine, PastCommit
<1>8. WipeIsSafe' /\ ReconcileIsSafe'
  BY <1>1 DEF WipeIsSafe, ReconcileIsSafe, Swept
<1>9. FirmIsSafe'
  BY <1>1 DEF FirmIsSafe
<1> USE DEF Follows
<1>11. SweepIsKnown' /\ WipeShowsNothing'
  BY <1>1 DEF WipeShowsNothing, Calm, SweepIsKnown
<1>12. IndexFollows'
  BY <1>1 DEF IndexFollows, InIndex, Calm, Settled
<1>13. ContextFollows'
  BY <1>1 DEF ContextFollows, InContext, Calm, Settled
<1>14. ChangeFollows'
  BY <1>1 DEF ChangeFollows, PastCommit, Calm, Settled
<1>15. ContextIsNew'
  BY <1>1 DEF ContextIsNew, Mine
<1>16. ReconcileFollows'
  BY <1>1 DEF ReconcileFollows
<1>17. ReadersFollow'
  BY <1>1 DEF ReadersFollow, Calm
<1> QED BY <1>2, <1>3, <1>4, <1>5, <1>6, <1>7, <1>8, <1>9, <1>11, <1>12, <1>13, <1>14,
     <1>15, <1>16, <1>17

LEMMA CleanupStep ==
  ASSUME IInv, Cleanup
  PROVE  IInv'
<1> USE VaultAssumption DEF IInv
<1>1. /\ op.pc = "cleanup" /\ op.kind = "forget" /\ op.fact \in Fact
      /\ op.version \in Version /\ op' \in Writer /\ op'.pc = "reply"
      /\ op'.kind = op.kind /\ op'.fact = op.fact /\ op'.version = op.version
      /\ op'.touched = op.touched /\ (op.pending => op'.pending)
      /\ left' \in Left
      /\ file' \in [Fact -> Version \union {None}]
      /\ oldFile' \in [Fact -> SUBSET (Version \union {None})]
      /\ \A g \in Fact : g # op.fact => file'[g] = file[g]
      /\ \A g \in Fact : g # op.fact /\ oldFile[g] = {} => oldFile'[g] = {}
      /\ \/ file'[op.fact] = None /\ (~op'.pending /\ file[op.fact] # None => oldFile'[op.fact] = {})
         \/ file' = file /\ oldFile' = oldFile /\ op'.pending
      /\ Said[op.fact] = None /\ UNCHANGED <<dir, tombs, oldTombs>>
      /\ UNCHANGED <<index, ctx, loaded, recall, behind, said, eclipsed, Said, firm,
                     sweep>>
  <2>1. /\ op.pc = "cleanup" /\ op.kind = "forget" /\ Said[op.fact] = None
        /\ op.fact \in Fact /\ op.version \in Version
        /\ UNCHANGED <<dir, tombs, oldTombs, readVars, sweep, recall, said, eclipsed,
                       Said, firm, behind>>
    BY ToldKeeps, KindAt DEF Typed, Cleanup, WriterShape, Fits, ChangeIsDone,
       ChangeKinds, PastCommit
  <2>2. "reply" \in Pc
    BY DEF Pc
  <2>3. CASE \E s \in BOOLEAN : Holds(s) /\ Remove(op.fact, s) /\ Goto("reply", ~s)
    <3>1. PICK s \in BOOLEAN : Holds(s) /\ Remove(op.fact, s) /\ Goto("reply", ~s)
      BY <2>3
    <3>2. left' \in Left
      BY <3>1, HoldsTyped DEF TypeOK, Left
    <3>3. /\ op' \in Writer /\ op'.pc = "reply" /\ op'.kind = op.kind
          /\ op'.fact = op.fact /\ op'.version = op.version /\ op'.touched = op.touched
          /\ (op.pending => op'.pending) /\ (~op'.pending => s)
      BY <2>2, <3>1, GotoTyped DEF TypeOK
    <3>4. /\ file' \in [Fact -> Version \union {None}]
          /\ oldFile' \in [Fact -> SUBSET (Version \union {None})]
          /\ \A g \in Fact : g # op.fact => file'[g] = file[g]
          /\ \A g \in Fact : g # op.fact /\ oldFile[g] = {} => oldFile'[g] = {}
          /\ file'[op.fact] = None
          /\ s /\ file[op.fact] # None => oldFile'[op.fact] = {}
      BY <2>1, <3>1, RemoveTyped DEF TypeOK
    <3> QED BY <2>1, <3>2, <3>3, <3>4 DEF readVars
  <2>4. CASE Fault /\ Goto("reply", TRUE) /\ UNCHANGED <<file, oldFile>>
    <3>1. left' \in Left
      BY <2>4, SpendTyped DEF Fault, TypeOK, Left
    <3> QED BY <2>1, <2>2, <2>4, <3>1, GotoTyped DEF TypeOK, readVars
  <2> QED BY <2>3, <2>4 DEF Cleanup
<1>2. TypeOK' /\ SaidTyped'
  BY <1>1 DEF SaidTyped, TypeOK, Left
<1>3. WriterShape'
  BY <1>1 DEF WriterShape, Fits
<1>4. Kept' /\ EditsAreOpen'
  BY <1>1 DEF Kept, EditsAreOpen
<1>5. SweepIsSafe'
  BY <1>1 DEF SweepIsSafe
<1>6. LiftIsSafe' /\ CommitIsSafe'
  BY <1>1 DEF LiftIsSafe, CommitIsSafe
<1>7. ChangeIsDone'
  BY <1>1 DEF ChangeIsDone, Mine, PastCommit
<1>8. WipeIsSafe' /\ ReconcileIsSafe'
  BY <1>1 DEF WipeIsSafe, ReconcileIsSafe, Swept
<1>9. FirmIsSafe'
  BY <1>1 DEF SaidTyped, TypeOK, FirmIsSafe
<1> USE DEF Follows
<1>11. SweepIsKnown' /\ WipeShowsNothing'
  BY <1>1 DEF WipeShowsNothing, Calm, SweepIsKnown
<1>12. IndexFollows'
  BY <1>1 DEF IndexFollows, InIndex, Calm, Settled
<1>13. ContextFollows'
  BY <1>1 DEF ContextFollows, InContext, Calm, Settled
<1>14. ChangeFollows'
  BY <1>1 DEF ChangeFollows, FactKinds, PastCommit, Calm, Settled
<1>15. ContextIsNew'
  BY <1>1 DEF ContextIsNew, Mine
<1>16. ReconcileFollows'
  BY <1>1 DEF ReconcileFollows
<1>17. ReadersFollow'
  BY <1>1 DEF ReadersFollow, Calm
<1> QED BY <1>2, <1>3, <1>4, <1>5, <1>6, <1>7, <1>8, <1>9, <1>11, <1>12, <1>13, <1>14,
     <1>15, <1>16, <1>17

LEMMA ReplyStep ==
  ASSUME IInv, Reply
  PROVE  IInv'
<1> USE VaultAssumption DEF IInv
<1>1. /\ op' = Idle /\ op' \in Writer /\ op.fact \in Fact /\ op.version.body \in Body
      /\ Said' \in [Fact -> Body \union {None, Gone}] /\ firm' \in SUBSET Fact
      /\ said' \in [Fact -> Body \union {None, Gone}] /\ eclipsed' \in SUBSET Fact
      /\ \A g \in Fact : g # op.fact => Said'[g] = Said[g] /\ (g \in firm' <=> g \in firm)
      /\ Said[op.fact] = None
      /\ \/ Said' = Said /\ firm' = firm
         \/ /\ sweep = Asleep /\ op.pc = "reply"
            /\ \/ /\ Said'[op.fact] = op.version.body /\ op.version.body \notin tombs
                  /\ file[op.fact] # None /\ file[op.fact].body = op.version.body
                  /\ ~file[op.fact].edited
               \/ /\ Said'[op.fact] = Gone
                  /\ file[op.fact] = None
                     \/ (~file[op.fact].edited /\ file[op.fact].body \in tombs)
            /\ op.fact \in firm' =>
                 /\ dir = "firm" /\ oldFile[op.fact] = {} /\ oldTombs = {}
                 /\ Said'[op.fact] = Gone => file[op.fact] = None
      /\ UNCHANGED <<dir, file, tombs, oldFile, oldTombs, index, ctx, loaded, recall,
                     sweep, behind, left>>
  <2> DEFINE fact == IF op.kind \in {"discard", "forget"} THEN Gone ELSE op.version.body
             untouched == Undisturbed /\ (file[op.fact] = None \/ ~file[op.fact].edited)
  <2>1. /\ op.pc = "reply" /\ op.kind \in ChangeKinds /\ op.fact \in Fact
        /\ op.version \in Version /\ op.version.body \in Body /\ op' = Idle
        /\ op' \in Writer
        /\ UNCHANGED <<diskVars, readVars, recall, sweep, behind, left>>
    BY KindAt, IdleTyped DEF Typed, Reply
  <2>2. /\ IF untouched THEN Tells(op.fact, fact) ELSE UNCHANGED <<said, eclipsed>>
        /\ firm' = IF untouched /\ ~op.pending /\ dir = "firm"
                   THEN firm \union {op.fact} ELSE firm
    BY DEF Reply
  <2>3. /\ Said \in [Fact -> Body \union {None, Gone}] /\ firm \in SUBSET Fact
        /\ said \in [Fact -> Body \union {None, Gone}] /\ eclipsed \in SUBSET Fact
    BY DEF TypeOK, SaidTyped
  <2>4. op.version # None
    BY <2>1
  <2>5. /\ Said[op.fact] = None
        /\ op.kind \in FactKinds => op.version.body \notin tombs
        /\ op.kind = "forget" => op.version.body \in tombs
        /\ Mine => /\ op.kind \in FactKinds => file[op.fact] = op.version
                   /\ op.kind = "discard" => file[op.fact] = None
                   /\ op.kind = "forget" =>
                        \/ file[op.fact] = op.version /\ op.pending
                        \/ file[op.fact] = None
                   /\ ~op.pending => oldFile[op.fact] = {}
        /\ ~op.pending => oldTombs = {}
    BY <2>1 DEF ChangeIsDone, PastCommit
  <2>6. op.fact \notin firm
    BY <2>1, <2>5 DEF FirmIsSafe
  <2>7. untouched => Mine
    BY DEF Undisturbed, Mine
  <2> HIDE DEF untouched
  <2>8. CASE ~untouched
    <3>1. UNCHANGED <<said, eclipsed, Said>> /\ UNCHANGED firm
      BY <2>2, <2>8, ToldKeeps
    <3> QED BY <2>1, <2>3, <2>5, <3>1 DEF diskVars, readVars
  <2>9. CASE untouched
    <3>1. /\ Tells(op.fact, fact)
          /\ firm' \in {firm, firm \union {op.fact}}
          /\ op.fact \in firm' => ~op.pending /\ dir = "firm"
      BY <2>2, <2>6, <2>9
    <3>2. file[op.fact] = None \/ ~file[op.fact].edited
      BY <2>9 DEF untouched
    <3>3. fact \in Body \union {None, Gone}
      BY <2>1
    <3>4. /\ Said'[op.fact] = fact /\ \A g \in Fact : g # op.fact => Said'[g] = Said[g]
          /\ Said' \in [Fact -> Body \union {None, Gone}]
          /\ said' \in [Fact -> Body \union {None, Gone}] /\ eclipsed' \in SUBSET Fact
      <4> HIDE DEF fact
      <4> QED BY <2>1, <2>3, <3>1, <3>3, ToldAnew DEF Sayable
    <3>5. /\ firm' \in SUBSET Fact
          /\ \A g \in Fact : g # op.fact => (g \in firm' <=> g \in firm)
      BY <2>1, <2>3, <3>1
    <3>6. sweep = Asleep
      BY <2>9 DEF untouched, Undisturbed
    <3>7. CASE op.kind \in FactKinds
      <4>1. fact = op.version.body
        BY <3>7 DEF FactKinds
      <4>2. Said'[op.fact] # Gone
        BY <2>1, <3>4, <4>1
      <4> HIDE DEF fact
      <4> QED BY <2>1, <2>4, <2>5, <2>7, <2>9, <3>1, <3>2, <3>4, <3>5, <3>6, <3>7, <4>1,
                 <4>2 DEF diskVars, readVars
    <3>8. CASE op.kind \in {"discard", "forget"}
      <4>1. fact = Gone
        BY <3>8
      <4> HIDE DEF fact
      <4>2. file[op.fact] = None \/ (op.pending /\ file[op.fact].body \in tombs)
        BY <2>5, <2>7, <2>9, <3>8
      <4> QED BY <2>1, <2>5, <2>7, <2>9, <3>1, <3>2, <3>4, <3>5, <3>6, <4>1, <4>2
              DEF diskVars, readVars
    <3> QED BY <2>1, <3>7, <3>8 DEF ChangeKinds
  <2> QED BY <2>8, <2>9
<1>2. TypeOK' /\ SaidTyped'
  BY <1>1 DEF SaidTyped, TypeOK
<1>3. WriterShape'
  BY <1>1, IdleTyped DEF WriterShape, Fits, ChangeKinds, FactKinds
<1>4. Kept' /\ EditsAreOpen'
  BY <1>1 DEF Kept, EditsAreOpen
<1>5. SweepIsSafe'
  BY <1>1 DEF SweepIsSafe
<1>6. LiftIsSafe' /\ CommitIsSafe'
  BY <1>1, IdleTyped DEF LiftIsSafe, CommitIsSafe
<1>7. ChangeIsDone'
  BY <1>1, IdleTyped DEF ChangeIsDone, PastCommit
<1>8. WipeIsSafe' /\ ReconcileIsSafe'
  BY <1>1, IdleTyped DEF WipeIsSafe, ReconcileIsSafe, Swept
<1>9. FirmIsSafe'
  BY <1>1 DEF FirmIsSafe
<1> USE DEF Follows
<1>10. /\ op.pc = "reply" /\ op.kind \in ChangeKinds
       /\ Said' # Said =>
            /\ Mine
            /\ op.kind \in FactKinds => Said'[op.fact] = op.version.body
            /\ op.kind \in {"discard", "forget"} => Said'[op.fact] = Gone
  <2>1. op.pc = "reply" /\ op.kind \in ChangeKinds
    BY KindAt DEF Reply, Typed
  <2> DEFINE fact == IF op.kind \in {"discard", "forget"} THEN Gone ELSE op.version.body
  <2>2. Said' # Said => Undisturbed /\ Tells(op.fact, fact)
    BY ToldKeeps DEF Reply
  <2>3. fact \in Sayable
    BY <1>1 DEF Sayable
  <2>4. Said' # Said => Said'[op.fact] = fact
    <3> HIDE DEF fact
    <3> QED BY <1>1, <2>2, <2>3, ToldAnew
  <2>5. Said' # Said /\ op.kind \in FactKinds => Said'[op.fact] = op.version.body
    BY <2>4 DEF FactKinds
  <2>6. Said' # Said /\ op.kind \in {"discard", "forget"} => Said'[op.fact] = Gone
    BY <2>4
  <2> QED BY <2>1, <2>2, <2>5, <2>6 DEF Undisturbed, Mine
<1>11. SweepIsKnown' /\ WipeShowsNothing'
  BY <1>1, <1>10, IdleTyped DEF WipeShowsNothing, Calm, SweepIsKnown
<1>12. IndexFollows'
  BY <1>1, <1>10 DEF IndexFollows, InIndex, Calm, Settled
<1>13. ContextFollows'
  BY <1>1, <1>10 DEF ContextFollows, InContext, Calm, Settled
<1>14. ChangeFollows'
  BY <1>1, IdleTyped DEF ChangeFollows, PastCommit
<1>15. ContextIsNew'
  BY <1>1, IdleTyped DEF ContextIsNew
<1>16. ReconcileFollows'
  BY <1>1, IdleTyped DEF ReconcileFollows
<1>17. ReadersFollow'
  <2>1. CASE Said' = Said
    BY <1>1, <2>1 DEF ReadersFollow, Calm
  <2>2. CASE Said' # Said
    <3> DEFINE f == op.fact
               b == op.version.body
    <3>1. /\ f \in Fact /\ op.pc = "reply" /\ op.kind \in ChangeKinds /\ Mine
          /\ \A g \in Fact : g # f => Said'[g] = Said[g]
      BY <1>1, <1>10, <2>2
    <3>2. \A r \in ctx : r[1] \in Fact
      BY DEF TypeOK, Row
    <3>3. CASE op.kind \in FactKinds
      <4>1. Said'[f] = b /\ file[f] = op.version /\ b \notin tombs
        BY <1>10, <2>2, <3>1, <3>3 DEF ChangeIsDone, PastCommit
      <4>2. ~file[f].edited /\ file[f] # None
        BY <1>1, <2>2, <3>3, <4>1
      <4>3. Calm /\ index # None => <<f, b>> \in index
        BY <3>1, <4>1, <4>2 DEF IndexFollows, InIndex, Settled
      <4>4. /\ \A r \in ctx : r[1] = f => r[2] = b
            /\ loaded => <<f, b>> \in ctx
        BY <3>1, <3>3 DEF ContextIsNew
      <4> HIDE DEF f, b
      <4>5. \A r \in ctx : Said'[r[1]] \in {None, r[2]}
        BY <3>1, <3>2, <4>1, <4>4 DEF ReadersFollow, Calm
      <4>6. \A g \in Fact : Said'[g] \in Body =>
              /\ loaded => <<g, Said'[g]>> \in ctx
              /\ index # None /\ Calm => <<g, Said'[g]>> \in index
        BY <3>1, <4>1, <4>3, <4>4 DEF ReadersFollow, Calm
      <4> QED BY <1>1, <4>5, <4>6 DEF ReadersFollow, Calm
    <3>4. CASE op.kind \in {"discard", "forget"}
      <4>1. Said'[f] = Gone /\ Gone \notin Body
        BY <1>10, <2>2, <3>4
      <4>2. \A r \in ctx : r[1] # f
        BY <3>1, <3>4 DEF ContextIsNew
      <4> HIDE DEF f, b
      <4> QED BY <1>1, <3>1, <3>2, <4>1, <4>2 DEF ReadersFollow, Calm
    <3> QED BY <3>1, <3>3, <3>4 DEF ChangeKinds
  <2> QED BY <2>1, <2>2
<1> QED BY <1>2, <1>3, <1>4, <1>5, <1>6, <1>7, <1>8, <1>9, <1>11, <1>12, <1>13, <1>14,
     <1>15, <1>16, <1>17

LEMMA WipeFileStep ==
  ASSUME IInv, NEW f \in Fact, WipeFile(f)
  PROVE  IInv'
<1> USE VaultAssumption DEF IInv
<1>1. /\ op.pc = "wipe" /\ op.kind = "purge"
      /\ file' \in [Fact -> Version \union {None}]
      /\ oldFile' \in [Fact -> SUBSET (Version \union {None})]
      /\ \A g \in Fact : file'[g] \in {None, file[g]}
      /\ UNCHANGED <<tombs, oldTombs, index>>
      /\ UNCHANGED <<dir, ctx, loaded, op, sweep, recall, said, eclipsed, Said, firm,
                     behind, left>>
  <2>1. /\ op.pc = "wipe" /\ op.kind = "purge" /\ Put(f, None, FALSE)
        /\ UNCHANGED <<tombs, oldTombs, index>>
        /\ UNCHANGED <<dir, ctx, loaded, op, sweep, recall, said, eclipsed, Said, firm,
                       behind, left>>
    BY ToldKeeps DEF WipeFile, Wiping, WriterShape, Fits
  <2>2. /\ file \in [Fact -> Version \union {None}]
        /\ oldFile \in [Fact -> SUBSET (Version \union {None})]
    BY DEF TypeOK
  <2>3. /\ file' \in [Fact -> Version \union {None}]
        /\ oldFile' \in [Fact -> SUBSET (Version \union {None})]
        /\ file'[f] = None /\ \A g \in Fact \ {f} : file'[g] = file[g]
    BY <2>1, <2>2, PutTyped
  <2> QED BY <2>1, <2>3
<1>2. TypeOK' /\ SaidTyped'
  BY <1>1 DEF SaidTyped, TypeOK
<1>3. WriterShape'
  BY <1>1 DEF WriterShape, Fits
<1>4. Kept' /\ EditsAreOpen'
  BY <1>1 DEF Kept, EditsAreOpen, WipeIsSafe
<1>5. SweepIsSafe'
  BY <1>1 DEF SweepIsSafe
<1>6. LiftIsSafe' /\ CommitIsSafe'
  BY <1>1 DEF LiftIsSafe, CommitIsSafe
<1>7. ChangeIsDone'
  BY <1>1 DEF ChangeIsDone, PastCommit
<1>8. WipeIsSafe' /\ ReconcileIsSafe'
  BY <1>1 DEF WipeIsSafe, ReconcileIsSafe
<1>9. FirmIsSafe'
  BY <1>1 DEF FirmIsSafe, WipeIsSafe
<1> USE DEF Follows
<1>11. SweepIsKnown' /\ WipeShowsNothing'
  BY <1>1 DEF WipeShowsNothing, Calm, SweepIsKnown
<1>12. IndexFollows'
  BY <1>1 DEF IndexFollows
<1>13. ContextFollows'
  BY <1>1 DEF ContextFollows
<1>14. ChangeFollows'
  BY <1>1 DEF ChangeFollows, PastCommit
<1>15. ContextIsNew'
  BY <1>1 DEF ContextIsNew
<1>16. ReconcileFollows'
  BY <1>1 DEF ReconcileFollows
<1>17. ReadersFollow'
  BY <1>1 DEF ReadersFollow, Calm
<1> QED BY <1>2, <1>3, <1>4, <1>5, <1>6, <1>7, <1>8, <1>9, <1>11, <1>12, <1>13, <1>14,
     <1>15, <1>16, <1>17

LEMMA WipeOthersStep ==
  ASSUME IInv, WipeTombs \/ WipeIndex
  PROVE  IInv'
<1> USE VaultAssumption DEF IInv
<1>1. /\ op.pc = "wipe" /\ op.kind = "purge"
      /\ tombs' \in {{}, tombs} /\ oldTombs' \in {oldTombs, oldTombs \union {tombs}}
      /\ index' \in {None, index}
      /\ UNCHANGED <<file, oldFile>>
      /\ UNCHANGED <<dir, ctx, loaded, op, sweep, recall, said, eclipsed, Said, firm,
                     behind, left>>
  BY ToldKeeps, TypeOK DEF WipeTombs, WipeIndex, Wiping, PutTombs, WriterShape, Fits,
     ChangeKinds,
     FactKinds, TypeOK
<1>2. TypeOK' /\ SaidTyped'
  BY <1>1 DEF SaidTyped, TypeOK
<1>3. WriterShape'
  BY <1>1 DEF WriterShape, Fits
<1>4. Kept' /\ EditsAreOpen'
  BY <1>1 DEF Kept, EditsAreOpen, WipeIsSafe
<1>5. SweepIsSafe'
  BY <1>1 DEF SweepIsSafe
<1>6. LiftIsSafe' /\ CommitIsSafe'
  BY <1>1 DEF LiftIsSafe, CommitIsSafe
<1>7. ChangeIsDone'
  BY <1>1 DEF ChangeIsDone, Mine
<1>8. WipeIsSafe' /\ ReconcileIsSafe'
  BY <1>1 DEF WipeIsSafe, ReconcileIsSafe
<1>9. FirmIsSafe'
  BY <1>1 DEF SaidTyped, TypeOK, Kept, FirmIsSafe
<1> USE DEF Follows
<1>11. SweepIsKnown' /\ WipeShowsNothing'
  BY <1>1 DEF WipeShowsNothing, Calm, SweepIsKnown
<1>12. IndexFollows'
  BY <1>1 DEF IndexFollows
<1>13. ContextFollows'
  BY <1>1 DEF ContextFollows
<1>14. ChangeFollows'
  BY <1>1 DEF ChangeFollows, Calm
<1>15. ContextIsNew'
  BY <1>1 DEF ContextIsNew
<1>16. ReconcileFollows'
  BY <1>1 DEF ReconcileFollows
<1>17. ReadersFollow'
  BY <1>1 DEF ReadersFollow, Calm
<1> QED BY <1>2, <1>3, <1>4, <1>5, <1>6, <1>7, <1>8, <1>9, <1>11, <1>12, <1>13, <1>14,
     <1>15, <1>16, <1>17

LEMMA WipeEndsStep ==
  ASSUME IInv, WipeEnds
  PROVE  IInv'
<1> USE VaultAssumption DEF IInv
<1>1. /\ op.pc = "wipe" /\ op.kind = "purge"
      /\ op' = Idle /\ op' \in Writer /\ left' \in Left /\ dir' = "absent"
      /\ (\A f \in Fact : file[f] = None) /\ tombs = {} /\ index = None
      /\ oldFile' = oldFile \/ oldFile' = Synced
      /\ oldTombs' = oldTombs \/ oldTombs' = {}
      /\ \/ Said' = Said /\ firm' = firm
         \/ sweep = Asleep /\ Said' = [f \in Fact |-> Gone] /\
              (firm' = firm \/ (oldFile' = Synced /\ firm' = Fact))
      /\ said' \in [Fact -> Sayable] /\ eclipsed' \in SUBSET Fact /\ firm' \in SUBSET Fact
      /\ behind' \in SUBSET {"index", "purge"}
      /\ UNCHANGED <<file, tombs, index, ctx, loaded, sweep, recall>>
  <2>1. /\ op.pc = "wipe" /\ op.kind = "purge" /\ op' = Idle /\ op' \in Writer
        /\ dir' = "absent" /\ (\A f \in Fact : file[f] = None) /\ tombs = {} /\ index = None
        /\ UNCHANGED <<file, tombs, index, ctx, loaded, sweep, recall>>
    BY IdleTyped DEF WipeEnds, WriterShape, Fits
  <2>6. eclipsed = {} /\ eclipsed' = {} /\ said \in [Fact -> Sayable] /\ firm \in SUBSET Fact
    BY <2>1 DEF WipeEnds, WipeIsSafe, TypeOK, Sayable
  <2>7. /\ said' = said => Said' = Said
        /\ said' = [f \in Fact |-> Gone] => Said' = [f \in Fact |-> Gone]
    BY <2>6 DEF Said
  <2>8. [f \in Fact |-> Gone] \in [Fact -> Sayable]
    BY DEF Sayable
  <2>2. left \in Left /\ behind \in SUBSET {"index", "purge"}
    BY DEF TypeOK, Left
  <2>3. CASE /\ oldFile' = Synced /\ oldTombs' = {} /\ UNCHANGED left
             /\ IF Undisturbed
                THEN said' = [f \in Fact |-> Gone] /\ firm' = Fact /\ behind' = {}
                ELSE UNCHANGED <<said, firm, behind>>
    BY <2>1, <2>2, <2>6, <2>7, <2>8, <2>3 DEF Undisturbed
  <2>4. CASE /\ said' = IF Undisturbed THEN [f \in Fact |-> Gone] ELSE said
             /\ UNCHANGED <<oldFile, oldTombs, firm, behind, left>>
    BY <2>1, <2>2, <2>6, <2>7, <2>8, <2>4 DEF Undisturbed
  <2>5. CASE Fault /\ UNCHANGED <<oldFile, oldTombs, said, firm, behind>>
    BY <2>1, <2>2, <2>6, <2>7, <2>8, <2>5, SpendTyped DEF Fault
  <2> QED BY <2>3, <2>4, <2>5 DEF WipeEnds
<1>2. TypeOK' /\ SaidTyped'
  BY <1>1 DEF Sayable, SaidTyped, TypeOK, Left
<1>3. WriterShape'
  BY <1>1, IdleTyped DEF WriterShape, Fits, ChangeKinds, FactKinds
<1>4. Kept' /\ EditsAreOpen'
  BY <1>1 DEF Kept, EditsAreOpen
<1>5. SweepIsSafe'
  BY <1>1 DEF SweepIsSafe
<1>6. LiftIsSafe' /\ CommitIsSafe'
  BY <1>1, IdleTyped DEF LiftIsSafe, CommitIsSafe
<1>7. ChangeIsDone'
  BY <1>1, IdleTyped DEF ChangeIsDone, PastCommit
<1>8. WipeIsSafe' /\ ReconcileIsSafe'
  BY <1>1, IdleTyped DEF WipeIsSafe, ReconcileIsSafe, Swept
<1>9. FirmIsSafe'
  BY <1>1 DEF SaidTyped, TypeOK, Kept, FirmIsSafe
<1> USE DEF Follows
<1>10. /\ behind' = behind \/ (sweep = Asleep /\ behind' = {})
       /\ Said' = Said \/ Said' = [f \in Fact |-> Gone]
       /\ ctx = {}
  <2>1. behind' = behind \/ (sweep = Asleep /\ behind' = {})
    <3>1. CASE Undisturbed
      BY <3>1 DEF WipeEnds, Undisturbed
    <3>2. CASE ~Undisturbed
      BY <3>2 DEF WipeEnds
    <3> QED BY <3>1, <3>2
  <2> QED BY <1>1, <2>1 DEF WipeShowsNothing
<1>11. SweepIsKnown' /\ WipeShowsNothing'
  BY <1>1, <1>10 DEF WipeShowsNothing, Calm, SweepIsKnown
<1>12. IndexFollows'
  BY <1>1 DEF IndexFollows
<1>13. ContextFollows'
  BY <1>1 DEF ContextFollows, Settled
<1>14. ChangeFollows'
  BY <1>1, IdleTyped DEF ChangeFollows, PastCommit
<1>15. ContextIsNew'
  BY <1>1, IdleTyped DEF ContextIsNew
<1>16. ReconcileFollows'
  BY <1>1, IdleTyped DEF ReconcileFollows
<1>17. ReadersFollow'
  BY <1>1, <1>10 DEF ReadersFollow, Calm
<1> QED BY <1>2, <1>3, <1>4, <1>5, <1>6, <1>7, <1>8, <1>9, <1>11, <1>12, <1>13, <1>14,
     <1>15, <1>16, <1>17

LEMMA WipeFailsStep ==
  ASSUME IInv, WipeFails
  PROVE  IInv'
<1> USE VaultAssumption DEF IInv
<1>1. /\ op' = Idle /\ op' \in Writer /\ left' \in Left
      /\ behind' \in SUBSET {"index", "purge"}
      /\ UNCHANGED <<dir, file, tombs, oldFile, oldTombs, said, eclipsed, Said, firm,
                     sweep>>
      /\ UNCHANGED <<index, ctx, loaded, recall>>
  BY ToldKeeps, IdleTyped, SpendTyped DEF WipeFails, Refused, Fault, TypeOK, Left,
     diskVars, readVars
<1>2. TypeOK' /\ SaidTyped'
  BY <1>1 DEF SaidTyped, TypeOK, Left
<1>3. WriterShape'
  BY <1>1, IdleTyped DEF WriterShape, Fits, ChangeKinds, FactKinds
<1>4. Kept' /\ EditsAreOpen'
  BY <1>1 DEF Kept, EditsAreOpen
<1>5. SweepIsSafe'
  BY <1>1 DEF SweepIsSafe
<1>6. LiftIsSafe' /\ CommitIsSafe'
  BY <1>1, IdleTyped DEF LiftIsSafe, CommitIsSafe
<1>7. ChangeIsDone'
  BY <1>1, IdleTyped DEF ChangeIsDone, PastCommit
<1>8. WipeIsSafe' /\ ReconcileIsSafe'
  BY <1>1, IdleTyped DEF WipeIsSafe, ReconcileIsSafe, Swept
<1>9. FirmIsSafe'
  BY <1>1 DEF FirmIsSafe
<1> USE DEF Follows
<1>10. "index" \in behind'
  BY <1>1 DEF WipeFails
<1>11. SweepIsKnown' /\ WipeShowsNothing'
  BY <1>1, <1>10, IdleTyped DEF WipeShowsNothing, Calm, SweepIsKnown
<1>12. IndexFollows'
  BY <1>1, <1>10 DEF IndexFollows, Calm
<1>13. ContextFollows'
  BY <1>1, <1>10 DEF ContextFollows, Calm
<1>14. ChangeFollows'
  BY <1>1, <1>10 DEF ChangeFollows, Calm
<1>15. ContextIsNew'
  BY <1>1, IdleTyped DEF ContextIsNew
<1>16. ReconcileFollows'
  BY <1>1, IdleTyped DEF ReconcileFollows
<1>17. ReadersFollow'
  BY <1>1, <1>10 DEF ReadersFollow, Calm
<1> QED BY <1>2, <1>3, <1>4, <1>5, <1>6, <1>7, <1>8, <1>9, <1>11, <1>12, <1>13, <1>14,
     <1>15, <1>16, <1>17

LEMMA SweepReadsStep ==
  ASSUME IInv, SweepReads
  PROVE  IInv'
<1> USE VaultAssumption DEF IInv
<1>1. /\ sweep.pc = "reads" /\ oldFile' \in {oldFile, Synced}
      /\ dir # "absent" => oldFile' = Synced
      /\ sweep'.pc = "writes" /\ sweep' \in Sweeper
      /\ \A f \in Fact : f \in sweep'.drop <=> file[f] # None /\ file[f].body \in tombs
      /\ \A r \in sweep'.adopt : r[1] \in Fact /\ Said[r[1]] = None
      /\ UNCHANGED <<dir, file, op, behind, left>>
      /\ UNCHANGED <<tombs, oldTombs, index, ctx, loaded, recall, said, eclipsed, Said,
                     firm>>
  <2> DEFINE A == {r \in Visible : file[r[1]].edited}
  <2>1. /\ sweep.pc = "reads" /\ oldFile' \in {oldFile, Synced}
        /\ dir # "absent" => oldFile' = Synced
        /\ sweep' = [pc |-> "writes", drop |-> Residual, adopt |-> A]
        /\ UNCHANGED <<dir, file, tombs, oldTombs, readVars, op, recall, said,
                       eclipsed, Said, firm,
                       behind, left>>
    BY ToldKeeps DEF SweepReads
  <2>2. /\ Residual \in SUBSET Fact
        /\ \A f \in Fact : f \in Residual <=> file[f] # None /\ file[f].body \in tombs
    BY DEF Residual
  <2>3. A \in SUBSET Row
    BY RowsTyped
  <2>4. ASSUME NEW r \in A PROVE r[1] \in Fact /\ Said[r[1]] = None
    <3>1. PICK f \in Live : r = <<f, file[f].body>>
      BY <2>4 DEF Visible
    <3>2. r[1] = f /\ f \in Fact /\ file[f] # None
      BY <3>1 DEF Live
    <3>3. file[f].edited
      BY <2>4, <3>2
    <3> QED BY <3>2, <3>3 DEF EditsAreOpen
  <2> HIDE DEF A
  <2>5. /\ sweep' \in Sweeper /\ sweep'.pc = "writes" /\ sweep'.drop = Residual
        /\ sweep'.adopt = A
    BY <2>1, <2>2, <2>3 DEF Sweeper
  <2> QED BY <2>1, <2>2, <2>4, <2>5 DEF readVars
<1>2. TypeOK' /\ SaidTyped'
  BY <1>1 DEF SaidTyped, TypeOK
<1>3. WriterShape'
  BY <1>1 DEF WriterShape, Fits
<1>4. Kept' /\ EditsAreOpen'
  BY <1>1 DEF Kept, EditsAreOpen
<1>5. SweepIsSafe'
  BY <1>1 DEF SweepIsSafe, Kept, Sweeper
<1>6. LiftIsSafe' /\ CommitIsSafe'
  BY <1>1 DEF LiftIsSafe, CommitIsSafe, Mine
<1>7. ChangeIsDone'
  BY <1>1 DEF ChangeIsDone, Mine
<1>8. WipeIsSafe' /\ ReconcileIsSafe'
  BY <1>1 DEF Kept, WipeIsSafe, ReconcileIsSafe, Swept, WriterShape
<1>9. FirmIsSafe'
  BY <1>1 DEF SaidTyped, TypeOK, FirmIsSafe
<1> USE DEF Follows
<1>11. SweepIsKnown' /\ WipeShowsNothing'
  BY <1>1 DEF WipeShowsNothing, Calm, SweepIsKnown
<1>12. IndexFollows'
  BY <1>1 DEF IndexFollows, Calm, SweepIsKnown
<1>13. ContextFollows'
  BY <1>1 DEF ContextFollows, Calm, SweepIsKnown
<1>14. ChangeFollows'
  BY <1>1 DEF ChangeFollows, Calm, Settled
<1>15. ContextIsNew'
  BY <1>1 DEF ContextIsNew, Mine
<1>16. ReconcileFollows'
  BY <1>1 DEF ReconcileFollows, WriterShape
<1>17. ReadersFollow'
  BY <1>1 DEF ReadersFollow, Calm
<1> QED BY <1>2, <1>3, <1>4, <1>5, <1>6, <1>7, <1>8, <1>9, <1>11, <1>12, <1>13, <1>14,
     <1>15, <1>16, <1>17

LEMMA SweepDropsStep ==
  ASSUME IInv, NEW f \in Fact, SweepDrops(f)
  PROVE  IInv'
<1> USE VaultAssumption DEF IInv
<1>1. /\ f \in sweep.drop /\ f \in Fact /\ Said[f] \notin Body
      /\ sweep' \in Sweeper /\ sweep'.pc = sweep.pc /\ sweep'.drop = sweep.drop \ {f}
      /\ sweep'.adopt = sweep.adopt /\ sweep.pc # "idle"
      /\ file' \in [Fact -> Version \union {None}]
      /\ oldFile' \in [Fact -> SUBSET (Version \union {None})]
      /\ file'[f] = None /\ \A g \in Fact : g # f => file'[g] = file[g]
      /\ \A g \in Fact : oldFile[g] = {} => oldFile'[g] = {}
      /\ UNCHANGED <<dir, op, behind, left>>
      /\ UNCHANGED <<tombs, oldTombs, index, ctx, loaded, recall, said, eclipsed, Said,
                     firm>>
  <2> DEFINE D == sweep.drop \ {f}
  <2>1. /\ f \in sweep.drop /\ Remove(f, TRUE) /\ sweep' = [sweep EXCEPT !.drop = D]
        /\ UNCHANGED <<dir, tombs, oldTombs, readVars, op, recall, said, eclipsed,
                       Said, firm,
                       behind, left>>
    BY ToldKeeps DEF SweepDrops
  <2>2. D \in SUBSET Fact /\ sweep \in Sweeper
    BY SweepTyped DEF TypeOK
  <2>3. /\ sweep' \in Sweeper /\ sweep'.pc = sweep.pc /\ sweep'.drop = D
        /\ sweep'.adopt = sweep.adopt
    BY <2>1, <2>2, DropShrinks, Zenon
  <2>4. sweep.pc # "idle" /\ Said[f] \notin Body
    BY <2>1 DEF WriterShape, SweepIsSafe
  <2>5. /\ file' \in [Fact -> Version \union {None}]
        /\ oldFile' \in [Fact -> SUBSET (Version \union {None})]
        /\ file'[f] = None /\ \A g \in Fact : g # f => file'[g] = file[g]
        /\ \A g \in Fact : oldFile[g] = {} => oldFile'[g] = {}
    BY <2>1, RemoveTyped DEF TypeOK
  <2> QED BY <2>1, <2>3, <2>4, <2>5 DEF readVars
<1>2. TypeOK' /\ SaidTyped'
  BY <1>1 DEF SaidTyped, TypeOK
<1>3. WriterShape'
  BY <1>1 DEF WriterShape, Fits
<1>4. Kept' /\ EditsAreOpen'
  BY <1>1 DEF Kept, EditsAreOpen
<1>5. SweepIsSafe'
  BY <1>1 DEF SweepIsSafe
<1>6. LiftIsSafe' /\ CommitIsSafe'
  BY <1>1 DEF LiftIsSafe, CommitIsSafe, Mine
<1>7. ChangeIsDone'
  BY <1>1 DEF ChangeIsDone, Mine
<1>8. WipeIsSafe' /\ ReconcileIsSafe'
  BY <1>1 DEF WipeIsSafe, ReconcileIsSafe, Swept
<1>9. FirmIsSafe'
  BY <1>1 DEF SaidTyped, TypeOK, FirmIsSafe
<1> USE DEF Follows
<1>11. SweepIsKnown' /\ WipeShowsNothing'
  BY <1>1 DEF WipeShowsNothing, Calm, SweepIsKnown
<1>12. IndexFollows'
  BY <1>1 DEF IndexFollows, Calm, SweepIsKnown
<1>13. ContextFollows'
  BY <1>1 DEF ContextFollows, Calm, SweepIsKnown
<1>14. ChangeFollows'
  BY <1>1 DEF ChangeFollows, PastCommit, Calm, SweepIsKnown
<1>15. ContextIsNew'
  BY <1>1 DEF ContextIsNew, Mine
<1>16. ReconcileFollows'
  BY <1>1 DEF ReconcileFollows, WriterShape
<1>17. ReadersFollow'
  BY <1>1 DEF ReadersFollow, Calm
<1> QED BY <1>2, <1>3, <1>4, <1>5, <1>6, <1>7, <1>8, <1>9, <1>11, <1>12, <1>13, <1>14,
     <1>15, <1>16, <1>17

LEMMA SweepAdoptsStep ==
  ASSUME IInv, NEW f \in Fact, NEW b \in Body, SweepAdopts(f, b)
  PROVE  IInv'
<1> USE VaultAssumption DEF IInv
<1>1. /\ sweep.drop = {} /\ <<f, b>> \in sweep.adopt /\ sweep.pc # "idle" /\ Said[f] = None
      /\ sweep' \in Sweeper /\ sweep'.pc = sweep.pc /\ sweep'.drop = {}
      /\ sweep'.adopt \subseteq sweep.adopt
      /\ file' \in [Fact -> Version \union {None}]
      /\ oldFile' \in [Fact -> SUBSET (Version \union {None})]
      /\ file'[f] = [body |-> b, edited |-> FALSE] /\ \A g \in Fact : g # f => file'[g] = file[g]
      /\ \A g \in Fact : oldFile'[g] = {}
      /\ dir' \in {"loose", "firm"} /\ (dir = "firm" => dir' = "firm")
      /\ UNCHANGED <<op, behind, left>>
      /\ UNCHANGED <<tombs, oldTombs, index, ctx, loaded, recall, said, eclipsed, Said,
                     firm>>
  <2> DEFINE A == sweep.adopt \ {<<f, b>>}
             v == [body |-> b, edited |-> FALSE]
  <2>1. /\ sweep.drop = {} /\ <<f, b>> \in sweep.adopt /\ Put(f, v, TRUE)
        /\ dir' = Made(dir) /\ sweep' = [sweep EXCEPT !.adopt = A]
        /\ UNCHANGED <<tombs, oldTombs, readVars, op, recall, said, eclipsed, Said,
                       firm, behind, left>>
    BY ToldKeeps DEF SweepAdopts
  <2>2. A \in SUBSET Row /\ sweep \in Sweeper /\ v \in Version
    BY DEF TypeOK, Sweeper, Version
  <2>3. /\ sweep' \in Sweeper /\ sweep'.pc = sweep.pc /\ sweep'.drop = sweep.drop
        /\ sweep'.adopt = A
    BY <2>1, <2>2, AdoptShrinks, Zenon
  <2>4. sweep.pc # "idle"
    BY <2>1 DEF WriterShape
  <2>5. Said[f] = None
    <3>1. Said[<<f, b>>[1]] = None
      BY <2>1 DEF SweepIsSafe
    <3> QED BY <3>1
  <2>6. /\ file' \in [Fact -> Version \union {None}]
        /\ oldFile' \in [Fact -> SUBSET (Version \union {None})]
        /\ file'[f] = v /\ \A g \in Fact : g # f => file'[g] = file[g]
        /\ \A g \in Fact : oldFile'[g] = {}
    <3> HIDE DEF v
    <3>1. /\ file \in [Fact -> Version \union {None}]
          /\ oldFile \in [Fact -> SUBSET (Version \union {None})]
      BY DEF TypeOK
    <3>2. Put(f, v, TRUE) /\ v \in Version \union {None}
      BY <2>1, <2>2
    <3> QED BY <3>1, <3>2, PutTyped
  <2>7. dir' \in {"loose", "firm"} /\ (dir = "firm" => dir' = "firm")
    BY <2>1 DEF Made, TypeOK
  <2> QED BY <2>1, <2>3, <2>4, <2>5, <2>6, <2>7 DEF readVars
<1>2. TypeOK' /\ SaidTyped'
  BY <1>1 DEF SaidTyped, TypeOK
<1>3. WriterShape'
  BY <1>1 DEF WriterShape, Fits
<1>4. Kept' /\ EditsAreOpen'
  BY <1>1 DEF Kept, EditsAreOpen
<1>5. SweepIsSafe'
  BY <1>1 DEF SweepIsSafe
<1>6. LiftIsSafe' /\ CommitIsSafe'
  BY <1>1 DEF LiftIsSafe, CommitIsSafe, Mine
<1>7. ChangeIsDone'
  BY <1>1 DEF ChangeIsDone, Mine
<1>8. WipeIsSafe' /\ ReconcileIsSafe'
  BY <1>1 DEF TypeOK, WipeIsSafe, ReconcileIsSafe, Swept
<1>9. FirmIsSafe'
  BY <1>1 DEF SaidTyped, TypeOK, FirmIsSafe
<1> USE DEF Follows
<1>11. SweepIsKnown' /\ WipeShowsNothing'
  BY <1>1 DEF WipeShowsNothing, Calm, SweepIsKnown
<1>12. IndexFollows'
  BY <1>1 DEF IndexFollows, Calm, SweepIsKnown
<1>13. ContextFollows'
  BY <1>1 DEF ContextFollows, Calm, SweepIsKnown
<1>14. ChangeFollows'
  BY <1>1 DEF ChangeFollows, PastCommit, Calm, SweepIsKnown
<1>15. ContextIsNew'
  BY <1>1 DEF ContextIsNew, Mine
<1>16. ReconcileFollows'
  BY <1>1 DEF ReconcileFollows, WriterShape
<1>17. ReadersFollow'
  BY <1>1 DEF ReadersFollow, Calm
<1> QED BY <1>2, <1>3, <1>4, <1>5, <1>6, <1>7, <1>8, <1>9, <1>11, <1>12, <1>13, <1>14,
     <1>15, <1>16, <1>17

LEMMA SweepEndsStep ==
  ASSUME IInv, SweepEnds
  PROVE  IInv'
<1> USE VaultAssumption DEF IInv
<1>1. /\ sweep.pc = "writes" /\ sweep.drop = {} /\ sweep' = Asleep /\ sweep' \in Sweeper
      /\ op' \in Writer
      /\ \/ op.kind = "reconcile" /\ op.pc = "sweep" /\ op'.kind = op.kind /\ op'.pc = "reindex"
         \/ /\ ~(op.kind = "reconcile" /\ op.pc = "sweep") /\ op'.pc = op.pc
            /\ op'.kind = op.kind /\ op'.fact = op.fact /\ op'.version = op.version 
            /\ op'.todo = op.todo /\ op'.pending = op.pending
            /\ (op.kind = "none" \/ op'.touched)
      /\ UNCHANGED <<dir, file, oldFile, behind, left>>
      /\ UNCHANGED <<tombs, oldTombs, index, ctx, loaded, recall, said, eclipsed, Said,
                     firm>>
  <2>1. /\ sweep.pc = "writes" /\ sweep.drop = {} /\ sweep' = Asleep /\ sweep' \in Sweeper
        /\ UNCHANGED <<diskVars, readVars, recall, said, eclipsed, Said, firm, behind,
                       left>>
    BY ToldKeeps, IdleTyped DEF SweepEnds
  <2>2. ASSUME Disturbed
        PROVE  /\ op' \in Writer /\ op'.pc = op.pc /\ op'.kind = op.kind
               /\ op'.fact = op.fact /\ op'.version = op.version
               /\ op'.todo = op.todo /\ op'.pending = op.pending
               /\ op.kind = "none" \/ op'.touched
    <3>1. CASE Free
      BY <2>2, <3>1 DEF Disturbed, Free, TypeOK
    <3>2. CASE ~Free
      <4>1. op' = [op EXCEPT !.touched = TRUE] /\ op \in Writer
        BY <2>2, <3>2 DEF Disturbed, TypeOK
      <4> QED BY <4>1, TouchTyped, Zenon
    <3> QED BY <3>1, <3>2
  <2>3. CASE Waiting
    <3>1. Goto("reindex", FALSE) /\ op \in Writer /\ "reindex" \in Pc
      BY <2>3 DEF SweepEnds, TypeOK, Pc
    <3>2. op' \in Writer /\ op'.pc = "reindex" /\ op'.kind = op.kind
      BY <3>1, GotoTyped
    <3> QED BY <2>1, <2>3, <3>2 DEF Waiting, diskVars, readVars
  <2>4. CASE ~Waiting
    <3>1. Disturbed
      BY <2>4 DEF SweepEnds
    <3> QED BY <2>1, <2>2, <2>4, <3>1 DEF Waiting, diskVars, readVars
  <2> QED BY <2>3, <2>4
<1>2. TypeOK' /\ SaidTyped'
  BY <1>1 DEF SaidTyped, TypeOK
<1>3. WriterShape'
  BY <1>1 DEF WriterShape, Fits, ChangeKinds, FactKinds
<1>4. Kept' /\ EditsAreOpen'
  BY <1>1 DEF Kept, EditsAreOpen
<1>5. SweepIsSafe'
  BY <1>1 DEF SweepIsSafe
<1>6. LiftIsSafe' /\ CommitIsSafe'
  BY <1>1 DEF LiftIsSafe, CommitIsSafe, Mine
<1>7. ChangeIsDone'
  BY <1>1 DEF WriterShape, Fits, ChangeIsDone, Mine, PastCommit
<1>8. WipeIsSafe' /\ ReconcileIsSafe'
  BY <1>1 DEF WipeIsSafe, ReconcileIsSafe, Swept
<1>9. FirmIsSafe'
  BY <1>1 DEF FirmIsSafe
<1> USE DEF Follows
<1>11. SweepIsKnown' /\ WipeShowsNothing'
  BY <1>1 DEF WipeShowsNothing, SweepIsKnown
<1>12. IndexFollows'
  BY <1>1 DEF IndexFollows, Calm, SweepIsKnown
<1>13. ContextFollows'
  BY <1>1 DEF ContextFollows, Calm, SweepIsKnown
<1>14. ChangeFollows'
  BY <1>1 DEF ChangeFollows, PastCommit, Calm, Settled
<1>15. ContextIsNew'
  BY <1>1 DEF ContextIsNew, Mine, FactKinds
<1>16. ReconcileFollows'
  BY <1>1 DEF ReconcileFollows, WriterShape
<1>17. ReadersFollow'
  BY <1>1 DEF ReadersFollow, Calm
<1> QED BY <1>2, <1>3, <1>4, <1>5, <1>6, <1>7, <1>8, <1>9, <1>11, <1>12, <1>13, <1>14,
     <1>15, <1>16, <1>17

LEMMA SweepFailsStep ==
  ASSUME IInv, SweepFails
  PROVE  IInv'
<1> USE VaultAssumption DEF IInv
<1>1. /\ sweep.pc # "idle" /\ sweep' = Asleep /\ sweep' \in Sweeper /\ op' \in Writer
      /\ left' \in Left /\ behind' \in SUBSET {"index", "purge"}
      /\ file' \in [Fact -> Version \union {None}]
      /\ oldFile' \in [Fact -> SUBSET (Version \union {None})]
      /\ dir' \in {"absent", "loose", "firm"} /\ (dir = "firm" => dir' = "firm")
      /\ (dir' = "absent" => dir = "absent" /\ \A g \in Fact : file'[g] = None)
      /\ \A g \in Fact : Said[g] \in Body => file'[g] = file[g] /\ (oldFile[g] = {} => oldFile'[g] = {})
      /\ \A g \in Fact : Said[g] = Gone => file'[g] \in {None, file[g]}
      /\ \A g \in Fact : file'[g] \in {None, file[g]} \/ (Said[g] = None /\ ~file'[g].edited)
      /\ \A g \in Fact : file[g] = None /\ Said[g] # None
           => file'[g] = None /\ (oldFile[g] = {} => oldFile'[g] = {})
      /\ \/ op.kind = "reconcile" /\ op.pc = "sweep" /\ op' = Idle
         \/ /\ ~(op.kind = "reconcile" /\ op.pc = "sweep") /\ op'.pc = op.pc
            /\ op'.kind = op.kind /\ op'.fact = op.fact /\ op'.version = op.version 
            /\ op'.todo = op.todo /\ op'.pending = op.pending
            /\ (op.kind = "none" \/ op'.touched)
      /\ UNCHANGED <<tombs, oldTombs, index, ctx, loaded, recall, said, eclipsed, Said,
                     firm>>
  <2>1. /\ sweep.pc # "idle" /\ sweep' = Asleep /\ sweep' \in Sweeper /\ left' \in Left
        /\ behind' \in SUBSET {"index", "purge"}
        /\ UNCHANGED <<tombs, oldTombs, readVars, recall, said, eclipsed, Said, firm>>
    BY ToldKeeps, IdleTyped, SpendTyped DEF SweepFails, Unfinished, Fault, TypeOK, Left
  <2>2. ASSUME Disturbed
        PROVE  /\ op' \in Writer /\ op'.pc = op.pc /\ op'.kind = op.kind
               /\ op'.fact = op.fact /\ op'.version = op.version
               /\ op'.todo = op.todo /\ op'.pending = op.pending
               /\ op.kind = "none" \/ op'.touched
    <3>1. CASE Free
      BY <2>2, <3>1 DEF Disturbed, Free, TypeOK
    <3>2. CASE ~Free
      <4>1. op' = [op EXCEPT !.touched = TRUE] /\ op \in Writer
        BY <2>2, <3>2 DEF Disturbed, TypeOK
      <4> QED BY <4>1, TouchTyped, Zenon
    <3> QED BY <3>1, <3>2
  <2>3. /\ op' \in Writer
        /\ \/ Waiting /\ op' = Idle
           \/ /\ ~Waiting /\ op'.pc = op.pc /\ op'.kind = op.kind
              /\ op'.fact = op.fact /\ op'.version = op.version
              /\ op'.todo = op.todo /\ op'.pending = op.pending
              /\ op.kind = "none" \/ op'.touched
    BY <2>2, IdleTyped DEF SweepFails
  <2>4. /\ file' \in [Fact -> Version \union {None}]
        /\ oldFile' \in [Fact -> SUBSET (Version \union {None})]
        /\ dir' \in {"absent", "loose", "firm"} /\ (dir = "firm" => dir' = "firm")
        /\ dir' = "absent" => dir = "absent" /\ \A g \in Fact : file'[g] = None
        /\ \A g \in Fact :
             /\ Said[g] \in Body => /\ file'[g] = file[g]
                                    /\ oldFile[g] = {} => oldFile'[g] = {}
             /\ Said[g] = Gone => file'[g] \in {None, file[g]}
             /\ file'[g] \in {None, file[g]} \/ (Said[g] = None /\ ~file'[g].edited)
             /\ file[g] = None /\ Said[g] # None =>
                  file'[g] = None /\ (oldFile[g] = {} => oldFile'[g] = {})
    <3>1. CASE UNCHANGED <<file, oldFile>> /\ dir' \in {dir, "loose"}
               /\ (dir' = dir \/ dir = "absent")
      BY <3>1 DEF TypeOK
    <3>2. CASE UNCHANGED dir /\ \E f \in sweep.drop : Remove(f, FALSE)
      <4>1. PICK f \in sweep.drop : Remove(f, FALSE)
        BY <3>2
      <4>2. f \in Fact /\ Said[f] \notin Body
        BY <4>1, SweepTyped DEF SweepIsSafe
      <4>3. /\ file' \in [Fact -> Version \union {None}]
            /\ oldFile' \in [Fact -> SUBSET (Version \union {None})]
            /\ file'[f] = None /\ \A g \in Fact : g # f => file'[g] = file[g]
            /\ \A g \in Fact : oldFile[g] = {} /\ (g # f \/ file[f] = None)
                 => oldFile'[g] = {}
        <5>1. /\ file \in [Fact -> Version \union {None}]
              /\ oldFile \in [Fact -> SUBSET (Version \union {None})]
          BY DEF TypeOK
        <5> QED BY <4>1, <4>2, <5>1, RemoveTyped
      <4> QED BY <3>2, <4>2, <4>3 DEF TypeOK
    <3>3. CASE /\ dir' = Made(dir)
               /\ \E r \in sweep.adopt : Put(r[1], [body |-> r[2], edited |-> FALSE], FALSE)
      <4>1. PICK r \in sweep.adopt : Put(r[1], [body |-> r[2], edited |-> FALSE], FALSE)
        BY <3>3
      <4> DEFINE f == r[1]
                 v == [body |-> r[2], edited |-> FALSE]
      <4>2. f \in Fact /\ v \in Version /\ ~v.edited /\ Said[f] = None
        BY SweepTyped DEF SweepIsSafe, Version
      <4>3. Put(f, v, FALSE)
        BY <4>1
      <4> HIDE DEF f, v
      <4>4. /\ file' \in [Fact -> Version \union {None}]
            /\ oldFile' \in [Fact -> SUBSET (Version \union {None})]
            /\ file'[f] = v /\ \A g \in Fact : g # f => file'[g] = file[g]
            /\ \A g \in Fact : oldFile[g] = {} /\ g # f => oldFile'[g] = {}
        BY <4>2, <4>3, PutTyped DEF TypeOK
      <4>5. dir' \in {"loose", "firm"} /\ (dir = "firm" => dir' = "firm")
        BY <3>3 DEF Made, TypeOK
      <4> QED BY <4>2, <4>4, <4>5
    <3> QED BY <3>1, <3>2, <3>3 DEF SweepFails
  <2> QED BY <2>1, <2>3, <2>4 DEF Waiting, readVars
<1>2. TypeOK' /\ SaidTyped'
  BY <1>1 DEF SaidTyped, TypeOK, Left
<1>3. WriterShape'
  BY <1>1, IdleTyped DEF WriterShape, Fits, ChangeKinds, FactKinds
<1>4. Kept' /\ EditsAreOpen'
  BY <1>1 DEF Kept, EditsAreOpen
<1>5. SweepIsSafe'
  BY <1>1 DEF SweepIsSafe
<1>6. LiftIsSafe' /\ CommitIsSafe'
  BY <1>1, IdleTyped DEF LiftIsSafe, CommitIsSafe, Mine
<1>7. ChangeIsDone'
  BY <1>1, IdleTyped DEF WriterShape, Fits, ChangeIsDone, Mine, PastCommit
<1>8. WipeIsSafe' /\ ReconcileIsSafe'
  BY <1>1, IdleTyped DEF WriterShape, WipeIsSafe, ReconcileIsSafe, Swept
<1>9. FirmIsSafe'
  BY <1>1 DEF SaidTyped, TypeOK, FirmIsSafe
<1> USE DEF Follows
<1>10. "index" \in behind'
  BY <1>1 DEF SweepFails, Unfinished
<1>11. SweepIsKnown' /\ WipeShowsNothing'
  BY <1>1, IdleTyped DEF WipeShowsNothing, SweepIsKnown
<1>12. IndexFollows'
  BY <1>1, <1>10 DEF IndexFollows, Calm
<1>13. ContextFollows'
  BY <1>1, <1>10 DEF ContextFollows, Calm
<1>14. ChangeFollows'
  BY <1>1, <1>10 DEF ChangeFollows, Calm
<1>15. ContextIsNew'
  BY <1>1, IdleTyped DEF ContextIsNew, Mine, FactKinds
<1>16. ReconcileFollows'
  BY <1>1, IdleTyped DEF ReconcileFollows, WriterShape
<1>17. ReadersFollow'
  BY <1>1, <1>10 DEF ReadersFollow, Calm
<1> QED BY <1>2, <1>3, <1>4, <1>5, <1>6, <1>7, <1>8, <1>9, <1>11, <1>12, <1>13, <1>14,
     <1>15, <1>16, <1>17

LEMMA ReindexStep ==
  ASSUME IInv, Reindex
  PROVE  IInv'
<1> USE VaultAssumption DEF IInv
<1>1. /\ op.pc = "reindex" /\ op.kind = "reconcile" /\ dir # "absent" /\ op' \in Writer
      /\ left' \in Left /\ behind' \in SUBSET {"index", "purge"}
      /\ op' = Idle \/ (op'.pc = "publish" /\ op'.kind = "reconcile")
      /\ index' \in {None, index} \/ index' \in SUBSET Row
      /\ UNCHANGED <<dir, file, tombs, oldFile, oldTombs, said, eclipsed, Said, firm,
                     sweep>>
      /\ UNCHANGED <<ctx, loaded, recall>>
  BY ToldKeeps, GotoTyped, IdleTyped, SpendTyped, RowsTyped DEF Reindex, Refused,
     Unfinished, Fault,
     WriterShape, Fits, ChangeKinds, FactKinds, PastCommit, TypeOK, Left, Pc, diskVars
<1>2. TypeOK' /\ SaidTyped'
  BY <1>1 DEF SaidTyped, TypeOK, Left
<1>3. WriterShape'
  BY <1>1, IdleTyped DEF WriterShape, Fits, ChangeKinds, FactKinds
<1>4. Kept' /\ EditsAreOpen'
  BY <1>1 DEF Kept, EditsAreOpen
<1>5. SweepIsSafe'
  BY <1>1 DEF SweepIsSafe
<1>6. LiftIsSafe' /\ CommitIsSafe'
  BY <1>1, IdleTyped DEF LiftIsSafe, CommitIsSafe
<1>7. ChangeIsDone'
  BY <1>1, IdleTyped DEF ChangeIsDone, ChangeKinds, FactKinds
<1>8. WipeIsSafe' /\ ReconcileIsSafe'
  BY <1>1, IdleTyped DEF WipeIsSafe, ReconcileIsSafe, Swept
<1>9. FirmIsSafe'
  BY <1>1 DEF FirmIsSafe
<1> USE DEF Follows
<1>10. \/ op'.pc = "publish" /\ index' \in {Visible, None} /\ behind' = behind
       \/ op' = Idle /\ index' = index /\ "index" \in behind'
  BY <1>1, GotoTyped DEF Reindex, Unfinished, Refused, TypeOK, Pc
<1>11. SweepIsKnown' /\ WipeShowsNothing'
  BY <1>1, <1>10, IdleTyped DEF WipeShowsNothing, Calm, SweepIsKnown
<1>12. IndexFollows'
  BY <1>1, <1>10, VisibleRows DEF IndexFollows, InIndex, Calm, Settled
<1>13. ContextFollows'
  BY <1>1, <1>10, IdleTyped DEF ContextFollows, Calm
<1>14. ChangeFollows'
  BY <1>1, IdleTyped DEF ChangeFollows, FactKinds
<1>15. ContextIsNew'
  BY <1>1, IdleTyped DEF ContextIsNew
<1>16. ReconcileFollows'
  BY <1>1, <1>10, VisibleRows, IdleTyped DEF ReconcileFollows, InIndex, Settled
<1>17. ReadersFollow'
  BY <1>1, <1>10, VisibleRows DEF ReadersFollow, Calm, Kept
<1> QED BY <1>2, <1>3, <1>4, <1>5, <1>6, <1>7, <1>8, <1>9, <1>11, <1>12, <1>13, <1>14,
     <1>15, <1>16, <1>17

LEMMA ReconcilePublishesStep ==
  ASSUME IInv, ReconcilePublishes
  PROVE  IInv'
<1> USE VaultAssumption DEF IInv
<1>1. /\ op.kind = "reconcile" /\ op.pc = "publish" /\ op' \in Writer /\ left' \in Left
      /\ behind' \in SUBSET {"index", "purge"}
      /\ op' = Idle \/ (op'.pc = "summary" /\ op'.kind = "reconcile" /\ dir # "absent")
      /\ ctx' \in SUBSET Row /\ loaded' \in BOOLEAN
      /\ UNCHANGED <<dir, file, tombs, oldFile, oldTombs, said, eclipsed, Said, firm,
                     sweep>>
      /\ UNCHANGED <<index, recall>>
  <2>1. /\ op.kind = "reconcile" /\ op.pc = "publish" /\ op \in Writer
        /\ UNCHANGED <<diskVars, index, sweep, recall, said, eclipsed, Said, firm>>
    BY ToldKeeps DEF ReconcilePublishes, TypeOK
  <2>2. left' \in Left /\ behind' \in SUBSET {"index", "purge"}
    BY SpendTyped DEF ReconcilePublishes, Refused, Unfinished, Fault, TypeOK, Left
  <2>3. ctx' \in SUBSET Row /\ loaded' \in BOOLEAN
    BY RowsTyped DEF ReconcilePublishes, Publish, PublishDegraded
  <2>4. op' = Idle \/ (dir # "absent" /\ Goto("summary", FALSE))
    BY DEF ReconcilePublishes, Refused
  <2>5. "summary" \in Pc
    BY DEF Pc
  <2>6. /\ op' \in Writer
        /\ op' = Idle \/ (op'.pc = "summary" /\ op'.kind = "reconcile" /\ dir # "absent")
    BY <2>1, <2>4, <2>5, GotoTyped, IdleTyped
  <2> QED BY <2>1, <2>2, <2>3, <2>6 DEF diskVars
<1>2. TypeOK' /\ SaidTyped'
  BY <1>1 DEF SaidTyped, TypeOK, Left
<1>3. WriterShape'
  BY <1>1, IdleTyped DEF WriterShape, Fits, ChangeKinds, FactKinds
<1>4. Kept' /\ EditsAreOpen'
  BY <1>1 DEF Kept, EditsAreOpen
<1>5. SweepIsSafe'
  BY <1>1 DEF SweepIsSafe
<1>6. LiftIsSafe' /\ CommitIsSafe'
  BY <1>1, IdleTyped DEF LiftIsSafe, CommitIsSafe
<1>7. ChangeIsDone'
  BY <1>1, IdleTyped DEF ChangeIsDone, ChangeKinds, FactKinds
<1>8. WipeIsSafe' /\ ReconcileIsSafe'
  BY <1>1, IdleTyped DEF WipeIsSafe, ReconcileIsSafe, Swept
<1>9. FirmIsSafe'
  BY <1>1 DEF FirmIsSafe
<1> USE DEF Follows
<1>10. \/ /\ ctx' = Visible /\ loaded' = TRUE /\ behind' = behind
          /\ dir = "absent" => op' = Idle
          /\ dir # "absent" => op'.pc = "summary"
       \/ ctx' = {} /\ loaded' = FALSE /\ op' = Idle /\ "index" \in behind'
  <2>1. op \in Writer /\ "summary" \in Pc
    BY DEF TypeOK, Pc
  <2>2. CASE /\ Publish /\ UNCHANGED <<left, behind>>
             /\ IF dir = "absent" THEN op' = Idle ELSE Goto("summary", FALSE)
    BY <2>1, <2>2, GotoTyped DEF Publish
  <2>3. CASE PublishDegraded /\ Refused /\ Unfinished
    BY <2>3 DEF PublishDegraded, Refused, Unfinished
  <2> QED BY <2>2, <2>3 DEF ReconcilePublishes
<1>11. SweepIsKnown' /\ WipeShowsNothing'
  BY <1>1, <1>10, IdleTyped DEF WipeShowsNothing, Calm, SweepIsKnown
<1>12. IndexFollows'
  BY <1>1, <1>10 DEF IndexFollows, InIndex, Calm, Settled
<1>13. ContextFollows'
  BY <1>1, <1>10, VisibleRows DEF ContextFollows, InContext, Settled
<1>14. ChangeFollows'
  BY <1>1, IdleTyped DEF ChangeFollows, FactKinds
<1>15. ContextIsNew'
  BY <1>1, IdleTyped DEF ContextIsNew, FactKinds
<1>16. ReconcileFollows'
  BY <1>1, <1>10, VisibleRows, IdleTyped DEF ReconcileFollows, InIndex, InContext, Settled
<1>17. ReadersFollow'
  BY <1>1, <1>10, VisibleRows DEF ReadersFollow, Calm, Kept, SaidTyped, TypeOK
<1> QED BY <1>2, <1>3, <1>4, <1>5, <1>6, <1>7, <1>8, <1>9, <1>11, <1>12, <1>13, <1>14,
     <1>15, <1>16, <1>17

LEMMA ReconcileSumsStep ==
  ASSUME IInv, ReconcileSums
  PROVE  IInv'
<1> USE VaultAssumption DEF IInv
<1>1. /\ op.kind = "reconcile" /\ op.pc = "summary" /\ op' = Idle /\ op' \in Writer
      /\ left' \in Left /\ behind' \in SUBSET {"index", "purge"}
      /\ \/ oldTombs' = oldTombs /\ firm' = firm
         \/ oldTombs' = {} /\ (firm' = firm \/ (dir = "firm" /\ firm' = {f \in Fact : Said[f] # None}))
      /\ UNCHANGED <<dir, file, tombs, oldFile, index, ctx, loaded, recall, said,
                     eclipsed, Said, sweep>>
  <2>1. /\ op.kind = "reconcile" /\ op.pc = "summary" /\ op' = Idle /\ op' \in Writer
        /\ UNCHANGED <<dir, file, tombs, oldFile, readVars, sweep, recall, said,
                       eclipsed, Said>>
    BY ToldKeeps, IdleTyped DEF ReconcileSums, Refused
  <2>2. left' \in Left /\ behind' \in SUBSET {"index", "purge"}
    BY SpendTyped DEF ReconcileSums, Refused, Unfinished, Fault, TypeOK, Left
  <2>3. \/ oldTombs' = oldTombs /\ firm' = firm
        \/ oldTombs' = {}
           /\ (firm' = firm \/ (dir = "firm" /\ firm' = {f \in Fact : Said[f] # None}))
    BY VaultAssumption DEF ReconcileSums, Said
  <2> QED BY <2>1, <2>2, <2>3 DEF readVars
<1>2. TypeOK' /\ SaidTyped'
  BY <1>1 DEF SaidTyped, TypeOK, Left
<1>3. WriterShape'
  BY <1>1, IdleTyped DEF WriterShape, Fits, ChangeKinds, FactKinds
<1>4. Kept' /\ EditsAreOpen'
  BY <1>1 DEF Kept, EditsAreOpen
<1>5. SweepIsSafe'
  BY <1>1 DEF SweepIsSafe
<1>6. LiftIsSafe' /\ CommitIsSafe'
  BY <1>1, IdleTyped DEF LiftIsSafe, CommitIsSafe
<1>7. ChangeIsDone'
  BY <1>1, IdleTyped DEF ChangeIsDone, PastCommit
<1>8. WipeIsSafe' /\ ReconcileIsSafe'
  BY <1>1, IdleTyped DEF WipeIsSafe, ReconcileIsSafe, Swept
<1>9. FirmIsSafe'
  BY <1>1 DEF FirmIsSafe, ReconcileIsSafe, Swept, WriterShape
<1> USE DEF Follows
<1>10. behind' = {} \/ "index" \in behind'
  BY <1>1 DEF ReconcileSums, Unfinished
<1>11. SweepIsKnown' /\ WipeShowsNothing'
  BY <1>1, IdleTyped DEF WipeShowsNothing, WriterShape, SweepIsKnown
<1>12. IndexFollows'
  BY <1>1 DEF IndexFollows, InIndex, ReconcileFollows, Settled
<1>13. ContextFollows'
  BY <1>1 DEF ContextFollows, InContext, ReconcileFollows, Settled
<1>14. ChangeFollows'
  BY <1>1, IdleTyped DEF ChangeFollows, PastCommit
<1>15. ContextIsNew'
  BY <1>1, IdleTyped DEF ContextIsNew
<1>16. ReconcileFollows'
  BY <1>1, IdleTyped DEF ReconcileFollows
<1>17. ReadersFollow'
  <2>1. ASSUME NEW f \in Fact, Said[f] \in Body, index # None
        PROVE  <<f, Said[f]>> \in index
    <3>1. Settled(f) /\ file[f].body = Said[f]
      BY <2>1 DEF Kept, EditsAreOpen, Settled
    <3> QED BY <1>1, <2>1, <3>1 DEF ReconcileFollows, InIndex
  <2> QED BY <1>1, <2>1 DEF ReadersFollow, Calm
<1> QED BY <1>2, <1>3, <1>4, <1>5, <1>6, <1>7, <1>8, <1>9, <1>11, <1>12, <1>13, <1>14,
     <1>15, <1>16, <1>17

LEMMA LeavesStep ==
  ASSUME IInv, Abandon \/ Crash
  PROVE  IInv'
<1> USE VaultAssumption DEF IInv
<1>1. /\ op' = Idle /\ op' \in Writer /\ left' \in Left
      /\ behind' \in SUBSET {"index", "purge"}
      /\ sweep' \in {Asleep, sweep}
      /\ ctx' \in {ctx, {}} /\ loaded' \in BOOLEAN /\ recall' \in BOOLEAN
      /\ UNCHANGED <<dir, file, tombs, oldFile, oldTombs, index, said, eclipsed, Said,
                     firm>>
  BY ToldKeeps, IdleTyped, SpendTyped DEF Abandon, Crash, Restarts, Unfinished, TypeOK,
     Left,
     diskVars, readVars
<1>2. TypeOK' /\ SaidTyped'
  BY <1>1, IdleTyped DEF SaidTyped, TypeOK, Left
<1>3. WriterShape'
  BY <1>1, IdleTyped DEF WriterShape, Fits, ChangeKinds, FactKinds
<1>4. Kept' /\ EditsAreOpen'
  BY <1>1 DEF Kept, EditsAreOpen
<1>5. SweepIsSafe'
  BY <1>1 DEF SweepIsSafe
<1>6. LiftIsSafe' /\ CommitIsSafe'
  BY <1>1, IdleTyped DEF LiftIsSafe, CommitIsSafe
<1>7. ChangeIsDone'
  BY <1>1, IdleTyped DEF ChangeIsDone, PastCommit
<1>8. WipeIsSafe' /\ ReconcileIsSafe'
  BY <1>1, IdleTyped DEF WipeIsSafe, ReconcileIsSafe, Swept
<1>9. FirmIsSafe'
  BY <1>1 DEF FirmIsSafe
<1> USE DEF Follows
<1>10. /\ \/ ctx' = ctx /\ loaded' = loaded
          \/ ctx' = {} /\ loaded' = FALSE
       /\ \/ "index" \in behind'
          \/ op.pc = "idle" /\ sweep = Asleep /\ behind' = behind /\ ctx' = {} /\ loaded' = FALSE
  <2>1. CASE Abandon
    BY <2>1 DEF Abandon, Unfinished, readVars
  <2>2. CASE Crash
    <3>1. ctx' = {} /\ loaded' = FALSE
      BY <2>2 DEF Crash, Restarts
    <3>2. CASE Free /\ sweep = Asleep
      BY <2>2, <3>1, <3>2 DEF Crash, Free, WriterShape, Fits
    <3>3. CASE ~(Free /\ sweep = Asleep)
      BY <2>2, <3>1, <3>3 DEF Crash
    <3> QED BY <3>2, <3>3
  <2> QED BY <2>1, <2>2
<1>11. SweepIsKnown' /\ WipeShowsNothing'
  BY <1>1, <1>10, IdleTyped DEF WipeShowsNothing, Calm, SweepIsKnown
<1>12. IndexFollows'
  BY <1>1, <1>10 DEF IndexFollows, InIndex, Calm, Settled
<1>13. ContextFollows'
  BY <1>1, <1>10 DEF ContextFollows, InContext, Calm
<1>14. ChangeFollows'
  BY <1>1, IdleTyped DEF ChangeFollows, PastCommit
<1>15. ContextIsNew'
  BY <1>1, IdleTyped DEF ContextIsNew
<1>16. ReconcileFollows'
  BY <1>1, IdleTyped DEF ReconcileFollows
<1>17. ReadersFollow'
  BY <1>1, <1>10 DEF ReadersFollow, Calm
<1> QED BY <1>2, <1>3, <1>4, <1>5, <1>6, <1>7, <1>8, <1>9, <1>11, <1>12, <1>13, <1>14,
     <1>15, <1>16, <1>17

LEMMA ReadsStep ==
  ASSUME IInv, Republish \/ RecallLooks \/ RecallRebuilds
  PROVE  IInv'
<1> USE VaultAssumption DEF IInv
<1>1. /\ left' \in Left /\ ctx' \in SUBSET Row /\ loaded' \in BOOLEAN /\ recall' \in BOOLEAN
      /\ op.kind = "none" \/ dir' = dir
      /\ (dir' = dir /\ index' = index)
         \/ (dir' \in {"loose", "firm"} /\ (dir # "absent" => dir' = dir)
             /\ (index' = index \/ index' \in SUBSET Row))
      /\ UNCHANGED <<file, tombs, oldFile, oldTombs, op, sweep, said, eclipsed, Said,
                     firm, behind>>
  BY ToldKeeps, SpendTyped, RowsTyped DEF Republish, RecallLooks, RecallRebuilds, Publish,
     PublishDegraded, Made, Free, Fault, TypeOK, Left, diskVars, readVars
<1>2. TypeOK' /\ SaidTyped'
  BY <1>1 DEF SaidTyped, TypeOK, Left
<1>3. WriterShape'
  BY <1>1 DEF WriterShape, Fits
<1>4. Kept' /\ EditsAreOpen'
  BY <1>1 DEF Kept, EditsAreOpen
<1>5. SweepIsSafe'
  BY <1>1 DEF SweepIsSafe
<1>6. LiftIsSafe' /\ CommitIsSafe'
  BY <1>1 DEF LiftIsSafe, CommitIsSafe, Mine
<1>7. ChangeIsDone'
  BY <1>1 DEF ChangeIsDone, Mine
<1>8. WipeIsSafe' /\ ReconcileIsSafe'
  BY <1>1 DEF WipeIsSafe, ReconcileIsSafe, Swept
<1>9. FirmIsSafe'
  BY <1>1 DEF FirmIsSafe
<1> USE DEF Follows
<1>10. /\ index' = index \/ (index' = Visible /\ op.pc = "idle")
       /\ \/ ctx' = ctx /\ loaded' = loaded
          \/ op.pc = "idle" /\ ctx' = Visible /\ loaded' = TRUE
          \/ op.pc = "idle" /\ ctx' = {} /\ loaded' = FALSE
  BY <1>1 DEF Republish, RecallLooks, RecallRebuilds, Publish, PublishDegraded, Free,
     WriterShape, Fits, readVars
<1>11. SweepIsKnown' /\ WipeShowsNothing'
  BY <1>1, <1>10 DEF WipeShowsNothing, Calm, SweepIsKnown
<1>12. IndexFollows'
  BY <1>1, <1>10, VisibleRows DEF IndexFollows, InIndex, Calm, Settled
<1>13. ContextFollows'
  BY <1>1, <1>10, VisibleRows DEF ContextFollows, InContext, Calm, Settled
<1>14. ChangeFollows'
  BY <1>1, <1>10 DEF ChangeFollows, WriterShape, Fits, Calm, Settled
<1>15. ContextIsNew'
  BY <1>1, <1>10 DEF ContextIsNew, Mine
<1>16. ReconcileFollows'
  BY <1>1, <1>10 DEF ReconcileFollows, InIndex, InContext, Settled
<1>17. ReadersFollow'
  BY <1>1, <1>10, VisibleRows DEF ReadersFollow, Calm, Kept, SaidTyped, TypeOK
<1> QED BY <1>2, <1>3, <1>4, <1>5, <1>6, <1>7, <1>8, <1>9, <1>11, <1>12, <1>13, <1>14,
     <1>15, <1>16, <1>17

LEMMA OwnerEditStep ==
  ASSUME IInv, NEW f \in Fact, NEW b \in Body, OwnerEdit(f, b)
  PROVE  IInv'
<1> USE VaultAssumption DEF IInv
<1>1. /\ file[f] # None /\ left' \in Left /\ dir # "absent" /\ op' \in Writer
      /\ op'.kind = op.kind /\ op'.pc = op.pc /\ op'.fact = op.fact
      /\ op'.version = op.version /\ op'.todo = op.todo
      /\ op'.pending = op.pending /\ (op'.touched \/ (op' = op /\ op.fact # f))
      /\ op'.touched \/ ~op.touched
      /\ file' \in [Fact -> Version \union {None}]
      /\ oldFile' \in [Fact -> SUBSET (Version \union {None})]
      /\ file'[f] = [body |-> b, edited |-> TRUE] /\ \A g \in Fact : g # f => file'[g] = file[g]
      /\ \A g \in Fact : g # f => oldFile'[g] = oldFile[g]
      /\ Said' = [g \in Fact |-> IF g = f THEN None ELSE Said[g]] /\ firm' = firm \ {f}
      /\ said' \in [Fact -> Sayable] /\ eclipsed' \in SUBSET Fact /\ firm' \in SUBSET Fact
      /\ eclipsed = {} => eclipsed' = {}
      /\ UNCHANGED <<dir, tombs, oldTombs, index, ctx, loaded, sweep, recall, behind>>
  <2> DEFINE v == [body |-> b, edited |-> TRUE]
  <2>1. /\ file[f] # None /\ Spend("edits") /\ Put(f, v, FALSE) /\ Unsettle({f})
        /\ op' = IF op.fact = f THEN [op EXCEPT !.touched = TRUE] ELSE op
        /\ UNCHANGED <<dir, tombs, oldTombs, readVars, sweep, recall, behind>>
    BY DEF OwnerEdit
  <2>2. v \in Version /\ op \in Writer /\ left \in Left /\ dir # "absent"
    BY <2>1 DEF Version, TypeOK, Left
  <2>3. left' \in Left
    BY <2>1, <2>2, SpendTyped
  <2> HIDE DEF v
  <2>4. /\ file' \in [Fact -> Version \union {None}]
        /\ oldFile' \in [Fact -> SUBSET (Version \union {None})]
        /\ file'[f] = v /\ \A g \in Fact : g # f => file'[g] = file[g]
    BY <2>1, <2>2, PutTyped DEF TypeOK
  <2>5. \A g \in Fact : g # f => oldFile'[g] = oldFile[g]
    BY <2>1 DEF Put, TypeOK
  <2>6. /\ op' \in Writer /\ op'.kind = op.kind /\ op'.pc = op.pc /\ op'.fact = op.fact
        /\ op'.version = op.version /\ op'.todo = op.todo /\ op'.pending = op.pending
        /\ op'.touched \/ (op' = op /\ op.fact # f)
    <3>1. CASE op.fact = f
      <4>1. op' = [op EXCEPT !.touched = TRUE]
        BY <2>1, <3>1
      <4> QED BY <2>2, <4>1, TouchTyped, Zenon
    <3>2. CASE op.fact # f
      BY <2>1, <2>2, <3>2
    <3> QED BY <3>1, <3>2
  <2>7. Said' = [g \in Fact |-> IF g = f THEN None ELSE Said[g]] /\ firm' = firm \ {f}
        /\ said' \in [Fact -> Sayable] /\ eclipsed' \in SUBSET Fact /\ firm' \in SUBSET Fact
    BY <2>1, Unsettled
  <2>8. eclipsed = {} => eclipsed' = {}
    BY <2>1 DEF Unsettle
  <2> QED BY <2>1, <2>2, <2>3, <2>4, <2>5, <2>6, <2>7, <2>8 DEF v, readVars
<1>2. TypeOK' /\ SaidTyped'
  BY <1>1 DEF Sayable, SaidTyped, TypeOK, Left
<1>3. WriterShape'
  BY <1>1 DEF WriterShape, Fits
<1>4. Kept' /\ EditsAreOpen'
  BY <1>1 DEF Kept, EditsAreOpen
<1>5. SweepIsSafe'
  BY <1>1, SweepTyped DEF SweepIsSafe
<1>6. LiftIsSafe' /\ CommitIsSafe'
  <2>1. LiftIsSafe'
    <3>1. op.todo \in SUBSET Fact
      BY DEF TypeOK, Writer
    <3>2. Said'[f] = None /\ \A g \in Fact : g # f => Said'[g] = Said[g]
      BY <1>1
    <3>3. None \notin Body /\ None # Gone
      OBVIOUS
    <3> QED BY <1>1, <3>1, <3>2, <3>3 DEF LiftIsSafe
  <2>2. CommitIsSafe'
    <3>1. op.kind \in ChangeKinds => op.fact \in Fact
      BY DEF WriterShape, Fits
    <3> QED BY <1>1, <3>1 DEF CommitIsSafe, Mine, FactKinds, ChangeKinds
  <2> QED BY <2>1, <2>2
<1>7. ChangeIsDone'
  BY <1>1 DEF WriterShape, Fits, ChangeIsDone, Mine
<1>8. WipeIsSafe' /\ ReconcileIsSafe'
  BY <1>1 DEF WipeIsSafe, ReconcileIsSafe, Swept
<1>9. FirmIsSafe'
  BY <1>1 DEF SaidTyped, TypeOK, FirmIsSafe
<1> USE DEF Follows
<1>11. SweepIsKnown' /\ WipeShowsNothing'
  BY <1>1 DEF WipeShowsNothing, Calm, SweepIsKnown
<1>12. IndexFollows'
  BY <1>1 DEF IndexFollows, InIndex, Calm, Settled
<1>13. ContextFollows'
  BY <1>1 DEF ContextFollows, InContext, Calm, Settled
<1>14. ChangeFollows'
  <2>1. op.kind \in ChangeKinds => op.fact \in Fact
    BY DEF WriterShape, Fits
  <2>2. file'[f].edited = TRUE
    BY <1>1
  <2>3. file'[f] \in Version
    BY <1>1 DEF Version
  <2>4. file'[f] # None
    BY <2>3
  <2> QED BY <1>1, <2>1, <2>2, <2>4 DEF ChangeFollows, Calm, Settled, PastCommit,
       ChangeKinds, FactKinds
<1>15. ContextIsNew'
  BY <1>1 DEF ContextIsNew, Mine
<1>16. ReconcileFollows'
  BY <1>1 DEF ReconcileFollows, InIndex, InContext, Settled
<1>17. ReadersFollow'
  BY <1>1 DEF ReadersFollow, Calm, SaidTyped, TypeOK, Row
<1> QED BY <1>2, <1>3, <1>4, <1>5, <1>6, <1>7, <1>8, <1>9, <1>11, <1>12, <1>13, <1>14,
     <1>15, <1>16, <1>17

LEMMA PowerLossStep ==
  ASSUME IInv, PowerLoss
  PROVE  IInv'
<1> USE VaultAssumption DEF IInv
<1>1. /\ op' = Idle /\ op' \in Writer /\ sweep' = Asleep /\ sweep' \in Sweeper
      /\ left' \in Left /\ recall' = FALSE /\ ctx' = {} /\ loaded' = FALSE
      /\ behind' \in SUBSET {"index", "purge"} /\ oldFile' = Synced /\ oldTombs' = {}
      /\ firm' = firm
      /\ Said' = [f \in Fact |-> IF f \in firm THEN Said[f] ELSE None]
      /\ file' \in [Fact -> Version \union {None}] /\ tombs' \in SUBSET Body
      /\ \/ dir = "loose" /\ dir' = "absent" /\ tombs' = {} /\ index' = None /\ \A f \in Fact : file'[f] = None
         \/ /\ \A f \in Fact : file'[f] \in {file[f]} \union oldFile[f]
            /\ tombs' \in {tombs} \union oldTombs /\ index' \in {index, None}
            /\ dir' \in {"absent", "loose", "firm"} /\ (dir # "absent" => dir' = dir)
            /\ dir' = "absent" => tombs' = {} /\ index' = None /\ \A f \in Fact : file'[f] = None
      /\ Said' \in [Fact -> Body \union {None, Gone}]
      /\ said' \in [Fact -> Body \union {None, Gone}] /\ eclipsed' = {}
  <2>1. /\ op' = Idle /\ op' \in Writer /\ sweep' = Asleep /\ sweep' \in Sweeper
        /\ left' \in Left /\ recall' = FALSE /\ ctx' = {} /\ loaded' = FALSE
        /\ behind' \in SUBSET {"index", "purge"} /\ oldFile' = Synced /\ oldTombs' = {}
        /\ firm' = firm
    BY IdleTyped, SpendTyped DEF PowerLoss, Restarts, Unfinished, TypeOK, Left
  <2>2. /\ Said' = [f \in Fact |-> IF f \in firm THEN Said[f] ELSE None]
        /\ Said' \in [Fact -> Body \union {None, Gone}]
        /\ said' \in [Fact -> Body \union {None, Gone}] /\ eclipsed' = {}
    <3>1. /\ said' = [f \in Fact |-> IF f \in firm THEN said[f] ELSE None]
          /\ eclipsed' = {}
      BY DEF PowerLoss
    <3>2. \A f \in firm : f \in Fact /\ f \notin eclipsed
      BY DEF FirmIsSafe, Said, TypeOK
    <3>3. said' \in [Fact -> Body \union {None, Gone}]
      BY <3>1 DEF TypeOK
    <3>4. Said' = [f \in Fact |-> IF f \in firm THEN Said[f] ELSE None]
      BY <3>1, <3>2 DEF Said
    <3> QED BY <3>1, <3>3, <3>4 DEF SaidTyped
  <2>3. CASE /\ dir = "loose" /\ dir' = "absent"
             /\ file' = [f \in Fact |-> None] /\ tombs' = {} /\ index' = None
    BY <2>1, <2>2, <2>3
  <2>4. CASE /\ file' \in [Fact -> Version \union {None}]
             /\ \A f \in Fact : file'[f] \in {file[f]} \union oldFile[f]
             /\ tombs' \in {tombs} \union oldTombs
             /\ index' \in {index, None}
             /\ dir' = IF dir # "absent" THEN dir
                       ELSE IF tombs' # {} \/ \E f \in Fact : file'[f] # None
                            THEN "firm" ELSE "absent"
    <3>1. tombs' \in SUBSET Body
      BY <2>4 DEF TypeOK
    <3>2. /\ dir' \in {"absent", "loose", "firm"} /\ (dir # "absent" => dir' = dir)
          /\ dir' = "absent" => tombs' = {} /\ index' = None /\ \A f \in Fact : file'[f] = None
      BY <2>4 DEF TypeOK
    <3> QED BY <2>1, <2>2, <2>4, <3>1, <3>2
  <2> QED BY <2>3, <2>4 DEF PowerLoss
<1>2. TypeOK' /\ SaidTyped'
  <2>1. /\ oldFile' \in [Fact -> SUBSET (Version \union {None})]
        /\ index' = None \/ index' \in SUBSET Row
        /\ dir' \in {"absent", "loose", "firm"}
        /\ dir' = "absent" => tombs' = {} /\ index' = None /\ \A f \in Fact : file'[f] = None
    BY <1>1 DEF TypeOK
  <2> QED BY <1>1, <2>1 DEF SaidTyped, TypeOK, Left
<1>3. WriterShape'
  BY <1>1, IdleTyped DEF WriterShape, Fits, ChangeKinds, FactKinds
<1>4. Kept' /\ EditsAreOpen'
  BY <1>1 DEF Kept, EditsAreOpen, FirmIsSafe
<1>5. SweepIsSafe'
  BY <1>1 DEF SweepIsSafe
<1>6. LiftIsSafe' /\ CommitIsSafe'
  BY <1>1, IdleTyped DEF LiftIsSafe, CommitIsSafe
<1>7. ChangeIsDone'
  BY <1>1, IdleTyped DEF ChangeIsDone, PastCommit
<1>8. WipeIsSafe' /\ ReconcileIsSafe'
  BY <1>1, IdleTyped DEF WipeIsSafe, ReconcileIsSafe, Swept
<1>9. FirmIsSafe'
  BY <1>1 DEF SaidTyped, TypeOK, FirmIsSafe
<1> USE DEF Follows
<1>10. "index" \in behind'
  BY <1>1 DEF PowerLoss, Unfinished
<1>11. SweepIsKnown' /\ WipeShowsNothing'
  BY <1>1 DEF WipeShowsNothing, SweepIsKnown
<1>12. IndexFollows'
  BY <1>1, <1>10 DEF IndexFollows, Calm
<1>13. ContextFollows'
  BY <1>1, <1>10 DEF ContextFollows, Calm
<1>14. ChangeFollows'
  BY <1>1, <1>10 DEF ChangeFollows, Calm
<1>15. ContextIsNew'
  BY <1>1 DEF ContextIsNew
<1>16. ReconcileFollows'
  BY <1>1, IdleTyped DEF ReconcileFollows
<1>17. ReadersFollow'
  BY <1>1, <1>10 DEF ReadersFollow, Calm
<1> QED BY <1>2, <1>3, <1>4, <1>5, <1>6, <1>7, <1>8, <1>9, <1>11, <1>12, <1>13, <1>14,
     <1>15, <1>16, <1>17

-----------------------------------------------------------------------------
LEMMA InitIInv == Init => IInv
<1> USE VaultAssumption
<1> SUFFICES ASSUME Init PROVE IInv
  OBVIOUS
<1>1. /\ op = Idle /\ op \in Writer /\ op.kind = "none" /\ op.pc = "idle"
      /\ sweep = Asleep /\ sweep \in Sweeper /\ sweep.pc = "idle" /\ sweep.drop = {}
      /\ sweep.adopt = {}
  BY IdleTyped DEF Init
<1>2. left \in Left
  BY DEF Init, Left
<1>3. TypeOK /\ SaidTyped /\ Said = Silence
  BY <1>1, <1>2 DEF Init, TypeOK, SaidTyped, Said
<1>4. WriterShape /\ SweepIsSafe /\ LiftIsSafe /\ CommitIsSafe /\ ChangeIsDone
  BY <1>1 DEF WriterShape, Fits, SweepIsSafe, LiftIsSafe, CommitIsSafe, ChangeIsDone,
              ChangeKinds, FactKinds, PastCommit
<1>5. Kept /\ EditsAreOpen /\ WipeIsSafe /\ ReconcileIsSafe /\ FirmIsSafe
  BY <1>1, <1>3 DEF Init, Kept, EditsAreOpen, WipeIsSafe, ReconcileIsSafe, FirmIsSafe
<1>6. Follows
  <2>1. index = None /\ ctx = {} /\ loaded = FALSE /\ recall = FALSE
        /\ \A f \in Fact : file[f] = None
    BY DEF Init
  <2> QED BY <1>1, <1>3, <2>1 DEF Follows, SweepIsKnown, IndexFollows, ContextFollows,
       ChangeFollows,
       ContextIsNew, ReconcileFollows, WipeShowsNothing, ReadersFollow, Settled, ChangeKinds,
       FactKinds, PastCommit
<1> QED BY <1>3, <1>4, <1>5, <1>6 DEF IInv

LEMMA RequestsKeep == IInv /\ Requests => IInv'
<1> SUFFICES ASSUME IInv, Requests PROVE IInv'
  OBVIOUS
<1>1. ASSUME NEW f \in Fact, NEW b \in Body,
             StartRemember(f, b) \/ RememberKnown(f, b) \/ StartCorrect(f, b)
      PROVE  IInv'
  BY <1>1, TakesWriteStep, RememberKnownStep DEF StartRemember, StartCorrect
<1>2. ASSUME NEW f \in Fact, NEW kind \in {"pin", "discard", "forget"}, StartOther(kind, f)
      PROVE  IInv'
  BY <1>2, StartOtherStep
<1> QED BY <1>1, <1>2, StartPurgeStep, StartReconcileStep DEF Requests

LEMMA WritesKeep == IInv /\ Writes => IInv'
<1> SUFFICES ASSUME IInv, Writes PROVE IInv'
  OBVIOUS
<1>1. ASSUME NEW f \in Fact, LiftRemoves(f) \/ WipeFile(f) PROVE IInv'
  BY <1>1, LiftRemovesStep, WipeFileStep
<1>2. CASE \/ LiftWrites \/ CommitFact \/ CommitDiscard \/ CommitForget \/ CommitFails
  BY <1>2, LiftWritesStep, CommitFactStep, CommitDiscardStep, CommitForgetStep,
     CommitFailsStep
<1>3. CASE UpdateIndex \/ PublishChange \/ WriteSummary \/ Cleanup \/ Reply
  BY <1>3, UpdateIndexStep, PublishChangeStep, WriteSummaryStep, CleanupStep, ReplyStep
<1>4. CASE WipeTombs \/ WipeIndex \/ WipeEnds \/ WipeFails
  BY <1>4, WipeOthersStep, WipeEndsStep, WipeFailsStep
<1> QED BY <1>1, <1>2, <1>3, <1>4 DEF Writes

LEMMA ReconcilesKeep == IInv /\ Reconciles => IInv'
<1> SUFFICES ASSUME IInv, Reconciles PROVE IInv'
  OBVIOUS
<1>1. CASE SweepReads \/ SweepEnds \/ SweepFails
  BY <1>1, SweepReadsStep, SweepEndsStep, SweepFailsStep
<1>2. ASSUME NEW f \in Fact, SweepDrops(f) \/ \E b \in Body : SweepAdopts(f, b)
      PROVE  IInv'
  BY <1>2, SweepDropsStep, SweepAdoptsStep
<1>3. CASE Reindex \/ ReconcilePublishes \/ ReconcileSums \/ Abandon
  BY <1>3, ReindexStep, ReconcilePublishesStep, ReconcileSumsStep, LeavesStep
<1> QED BY <1>1, <1>2, <1>3 DEF Reconciles

LEMMA OutsideKeeps == IInv /\ Outside => IInv'
<1> SUFFICES ASSUME IInv, Outside PROVE IInv'
  OBVIOUS
<1>1. ASSUME NEW f \in Fact, NEW b \in Body, OwnerEdit(f, b) PROVE IInv'
  BY <1>1, OwnerEditStep
<1>2. CASE Republish \/ RecallLooks \/ RecallRebuilds \/ Crash \/ PowerLoss
  BY <1>2, ReadsStep, LeavesStep, PowerLossStep
<1> QED BY <1>1, <1>2 DEF Outside

LEMMA StutterKeeps == IInv /\ UNCHANGED vars => IInv'
<1> SUFFICES ASSUME IInv, UNCHANGED vars PROVE IInv'
  OBVIOUS
<1>0. UNCHANGED Said
  BY ToldKeeps DEF vars
<1>1. TypeOK' /\ SaidTyped' /\ WriterShape' /\ Kept' /\ EditsAreOpen'
  BY <1>0 DEF vars, diskVars, readVars, IInv, TypeOK, SaidTyped, WriterShape, Fits,
     Kept, EditsAreOpen
<1>2. SweepIsSafe' /\ LiftIsSafe' /\ CommitIsSafe' /\ WipeIsSafe' /\ ReconcileIsSafe'
  BY <1>0 DEF vars, diskVars, readVars, IInv, SweepIsSafe, LiftIsSafe, CommitIsSafe, Mine,
         WipeIsSafe, ReconcileIsSafe, Swept
<1>3. ChangeIsDone' /\ FirmIsSafe'
  BY <1>0 DEF vars, diskVars, readVars, IInv, ChangeIsDone, Mine, FirmIsSafe
<1>4. SweepIsKnown' /\ IndexFollows' /\ ContextFollows' /\ WipeShowsNothing'
  BY <1>0 DEF vars, diskVars, readVars, IInv, Follows, SweepIsKnown, IndexFollows,
     InIndex,
         ContextFollows, InContext, WipeShowsNothing, Calm, Settled
<1>5. ChangeFollows' /\ ContextIsNew' /\ ReconcileFollows'
  BY <1>0 DEF vars, diskVars, readVars, IInv, Follows, ChangeFollows, ContextIsNew, Mine,
         ReconcileFollows, InIndex, InContext, Calm, Settled
<1>6. ReadersFollow'
  BY <1>0 DEF vars, diskVars, readVars, IInv, Follows, ReadersFollow, Calm
<1> QED BY <1>1, <1>2, <1>3, <1>4, <1>5, <1>6 DEF IInv, Follows

LEMMA IInvHolds == Spec => []IInv
<1>1. IInv /\ [Next]_vars => IInv'
  BY RequestsKeep, WritesKeep, ReconcilesKeep, OutsideKeeps, StutterKeeps DEF Next
<1> QED BY InitIInv, <1>1, PTL DEF Spec

(* Type correctness of the vault (services/memory): every variable keeps   *)
(* its type, and where there is no directory nothing is left on disk.      *)
THEOREM VaultTyped == Spec => []TypeOK
<1>1. IInv => TypeOK
  BY DEF IInv
<1> QED BY <1>1, IInvHolds, PTL

(* What a receipt of a MemoryChange said about a file stays so until the   *)
(* next change of that file: through failed steps, an abandoned reconcile, *)
(* edits by the owner, crashes, and power losses when nothing was pending; *)
(* but for a file that is eclipsed: since that receipt a text was forgotten*)
(* that differs from the file's in diacritics only.                        *)
THEOREM PromisesKept == Spec => []PromisesHold
<1>1. IInv => PromisesHold
  BY KeptIsPromised DEF IInv
<1> QED BY <1>1, IInvHolds, PTL

(* What a receipt said is what every reader is shown from then on: the     *)
(* published context holds that version and no older one, and so does the  *)
(* index, unless a failed step left it to be reconciled.  Eclipsed files   *)
(* are excepted.                                                           *)
THEOREM AnswersAgree == Spec => []AnswersFollow
<1>1. IInv => AnswersFollow
  BY ReadersAreAnswered DEF IInv, Follows
<1> QED BY <1>1, IInvHolds, PTL

=============================================================================
