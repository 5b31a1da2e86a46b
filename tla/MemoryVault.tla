----------------------------- MODULE MemoryVault -----------------------------
(***************************************************************************)
(* The Memory vault of one device (services/memory, ADR 0135): fact files, *)
(* Forget Tombstones, the search index, the context that open sessions     *)
(* read; the write order of every MemoryChange, reconcile, the rebuild a   *)
(* recall asks for, edits by the vault's owner, and crashes.               *)
(*                                                                         *)
(* The scope's writer lock is held exactly while op is not idle.  Each     *)
(* file operation is one step.  A file or tombstone list also has the      *)
(* older contents a power loss may still bring back (old...): a rename or  *)
(* removal adds one, a sync of the directory forgets them.                 *)
(***************************************************************************)
EXTENDS Naturals, FiniteSets

CONSTANTS
  Fact,        (* fact files; a path is used again once it is free         *)
  Alike,       (* the texts (one where compare_key is one), those that     *)
               (* differ only in diacritics in one set: one fingerprint    *)
  None, Gone,
  MaxChanges,  (* bound: requests and reconciliations                      *)
  MaxEdits,    (* bound: edits by the owner                                *)
  MaxFaults,   (* bound: failed steps                                      *)
  MaxCuts      (* bound: crashes and power losses                          *)

Body == UNION Alike
Folded(b) == UNION {B \in Alike : b \in B}
Version == [body : Body, edited : BOOLEAN]   (* edited: content_hash differs *)

ASSUME VaultAssumption ==
  /\ {None, Gone} \intersect (Fact \union Body) = {} /\ None # Gone
  /\ None \notin Version
  /\ \A A, B \in Alike : A = B \/ A \intersect B = {}
  /\ MaxChanges \in Nat /\ MaxEdits \in Nat /\ MaxFaults \in Nat
  /\ MaxCuts \in Nat

VARIABLES
  dir,       (* the device's directory: "loose" if its entry is not synced *)
  file,
  tombs,     (* the texts whose fingerprint has a tombstone                *)
  oldFile, oldTombs,
  index,     (* rows of the search index, None without an index file       *)
  ctx,       (* what `context` shows                                       *)
  loaded,    (* whether that came from disk                                *)
  op,        (* the writer                                                 *)
  sweep,     (* the blocking closure of a reconciliation                   *)
  recall,    (* a recall waits to rebuild the index                        *)
  said,      (* history: what the last receipt about a file said           *)
  eclipsed,  (* history: files whose receipt still stood when a text that  *)
             (* differs from theirs in diacritics was forgotten            *)
  firm,      (* history: files whose receipt had nothing pending           *)
  behind,    (* history: what a crash or a failure left to reconcile       *)
  left       (* what is left of the bounds                                 *)

diskVars == <<dir, file, tombs, oldFile, oldTombs>>
readVars == <<index, ctx, loaded>>
told == <<said, eclipsed>>
vars == <<diskVars, readVars, op, sweep, recall, told, firm, behind, left>>

Idle == [kind |-> "none", pc |-> "idle", fact |-> None, version |-> None,
         todo |-> {}, pending |-> FALSE, touched |-> FALSE]
Asleep == [pc |-> "idle", drop |-> {}, adopt |-> {}]
Synced == [f \in Fact |-> {}]
Silence == [f \in Fact |-> None]

Init ==
  /\ dir = "absent" /\ file = [f \in Fact |-> None] /\ tombs = {}
  /\ oldFile = Synced /\ oldTombs = {}
  /\ index = None /\ ctx = {} /\ loaded = FALSE
  /\ op = Idle /\ sweep = Asleep /\ recall = FALSE
  /\ said = Silence /\ eclipsed = {} /\ firm = {} /\ behind = {}
  /\ left = [x \in {"changes", "edits", "faults", "cuts"} |->
               IF x = "changes" THEN MaxChanges ELSE IF x = "edits" THEN MaxEdits
               ELSE IF x = "faults" THEN MaxFaults ELSE MaxCuts]

-----------------------------------------------------------------------------
Free == op.kind = "none"
Spend(x) == left[x] > 0 /\ left' = [left EXCEPT ![x] = @ - 1]
Fault == Spend("faults")

(* read_state, visible_facts.                                              *)
Holding(B) == {f \in Fact : file[f] # None /\ file[f].body \in B}
Live == {f \in Fact : file[f] # None /\ file[f].body \notin tombs}
Residual == {f \in Fact : file[f] # None /\ file[f].body \in tombs}
Visible == {<<f, file[f].body>> : f \in Live}

(* commit_atomic, write_atomic: the rename, and the sync that may fail.    *)
Put(f, v, synced) ==
  /\ file' = [file EXCEPT ![f] = v]
  /\ oldFile' = IF synced THEN Synced
                ELSE [oldFile EXCEPT ![f] = @ \union {file[f]}]

(* remove_durable, commit_remove: what is gone already needs no sync.      *)
Remove(f, synced) ==
  IF file[f] = None THEN UNCHANGED <<file, oldFile>> ELSE Put(f, None, synced)

PutTombs(T, synced) ==
  /\ tombs' = T
  /\ oldTombs' = IF synced THEN {} ELSE oldTombs \union {tombs}

MadeNever(d) == d
Made(d) == IF d = "absent" THEN "firm" ELSE d          (* ensure_dir       *)

Holds(synced) == IF synced THEN UNCHANGED left ELSE Fault
Goto(pc, pending) == op' = [op EXCEPT !.pc = pc, !.pending = @ \/ pending]

(* A failure before the commit point: the request is answered with an      *)
(* error and the writer is free.                                           *)
Refused == Fault /\ op' = Idle

-----------------------------------------------------------------------------
(* Requests.  The vault is read when the writer has been taken; requests   *)
(* that are refused (permission, revision, limit, size) change nothing.    *)
Takes(kind, pc, f, v, todo) ==
  /\ Free /\ Spend("changes")
  /\ op' = [kind |-> kind, pc |-> pc, fact |-> f, version |-> v,
            todo |-> todo, pending |-> FALSE, touched |-> FALSE]

(* With a body that was forgotten the tombstone is lifted first, and what  *)
(* a crashed Forget left of it must go before that.                        *)
LeftoversKept(b) == {}
Leftovers(b) == IF b \in tombs THEN Residual \intersect Holding(Folded(b)) ELSE {}

TakesWrite(kind, f, b) ==
  /\ Takes(kind, IF b \in tombs THEN "lift" ELSE "commit", f,
           [body |-> b, edited |-> FALSE],
           Leftovers(b))
  /\ UNCHANGED <<diskVars, readVars, sweep, recall, told, firm, behind>>

StartRemember(f, b) ==
  /\ \A g \in Live : file[g].body # b
  /\ file[f] = None \/ f \in Residual \intersect Holding(Folded(b))
  /\ TakesWrite("remember", f, b)

Tells(f, what) == said' = [said EXCEPT ![f] = what] /\ eclipsed' = eclipsed \ {f}

(* A visible fact with this body is the answer.                            *)
RememberKnown(f, b) ==
  /\ Free /\ Spend("changes") /\ <<f, b>> \in Visible
  /\ IF file[f].edited \/ behind # {} \/ sweep # Asleep THEN UNCHANGED told
     ELSE Tells(f, b)
  /\ UNCHANGED <<diskVars, readVars, op, sweep, recall, firm, behind>>

StartCorrect(f, b) == f \in Live /\ TakesWrite("correct", f, b)

StartOther(kind, f) ==
  /\ f \in Live
  /\ Takes(kind, "commit", f, file[f], {})
  /\ UNCHANGED <<diskVars, readVars, sweep, recall, told, firm, behind>>

(* lift_tombstone.                                                         *)
LiftRemoves(f) ==
  /\ op.pc = "lift" /\ f \in op.todo
  /\ \/ /\ Remove(f, TRUE) /\ op' = [op EXCEPT !.todo = @ \ {f}]
        /\ UNCHANGED left
     \/ Refused /\ (Remove(f, FALSE) \/ UNCHANGED <<file, oldFile>>)
  /\ UNCHANGED <<dir, tombs, oldTombs, readVars, sweep, recall, told, firm, behind>>

LiftWrites ==
  /\ op.pc = "lift" /\ op.todo = {}
  /\ LET T == tombs \ Folded(op.version.body) IN
     \/ PutTombs(T, TRUE) /\ Goto("commit", FALSE) /\ UNCHANGED left
     \/ Refused /\ (PutTombs(T, FALSE) \/ UNCHANGED <<tombs, oldTombs>>)
  /\ UNCHANGED <<dir, file, oldFile, readVars, sweep, recall, told, firm, behind>>

-----------------------------------------------------------------------------
(* Commit points.  What receipts said of the file is no longer known.      *)
Unsettle(F) ==
  /\ said' = [f \in Fact |-> IF f \in F THEN None ELSE said[f]]
  /\ eclipsed' = eclipsed \ F
  /\ firm' = firm \ F

CommitFact ==
  /\ op.pc = "commit" /\ op.kind \in {"remember", "correct", "pin"}
  /\ \E synced \in BOOLEAN :
       /\ Holds(synced) /\ Put(op.fact, op.version, synced)
       /\ Goto("index", ~synced)
  /\ dir' = Made(dir) /\ Unsettle({op.fact}) /\ behind' = behind \ {"purge"}
  /\ UNCHANGED <<tombs, oldTombs, readVars, sweep, recall>>

CommitDiscard ==
  /\ op.pc = "commit" /\ op.kind = "discard"
  /\ \E synced \in BOOLEAN :
       Holds(synced) /\ Remove(op.fact, synced) /\ Goto("index", ~synced)
  /\ Unsettle({op.fact})
  /\ UNCHANGED <<dir, tombs, oldTombs, readVars, sweep, recall, behind>>

(* The tombstone hides every file with the forgotten text, and those whose *)
(* text differs from it only in diacritics: nobody asked to forget these.  *)
CommitForget ==
  LET b == op.version.body
      same == {op.fact} \union Holding({b})
      alike == Holding(Folded(b)) \ same
  IN  /\ op.pc = "commit" /\ op.kind = "forget"
      /\ \E synced \in BOOLEAN :
           /\ Holds(synced) /\ PutTombs(tombs \union Folded(b), synced)
           /\ Goto("index", ~synced)
      /\ said' = [f \in Fact |-> IF f \in same THEN None ELSE said[f]]
      /\ eclipsed' = (eclipsed \ same) \union {f \in alike : said[f] # None}
      /\ firm' = firm \ (same \union alike)
      /\ UNCHANGED <<dir, file, oldFile, readVars, sweep, recall, behind>>

(* The commit fails.  A directory that was made just before stays, and     *)
(* ensure_dir will not sync its entry again.                               *)
CommitFails ==
  /\ op.pc = "commit" /\ Refused
  /\ \/ dir' = dir
     \/ dir = "absent" /\ op.kind \in {"remember", "correct", "pin"} /\ dir' = "loose"
  /\ UNCHANGED <<file, tombs, oldFile, oldTombs, readVars, sweep, recall, told,
                 firm, behind>>

-----------------------------------------------------------------------------
(* converge: index, publish, MEMORY.md; then Forget removes the file.      *)
UpdatedCreates ==
  LET rows == IF index = None THEN {} ELSE index IN
  IF op.kind \in {"remember", "correct"}
  THEN {r \in rows : r[1] # op.fact} \union {<<op.fact, op.version.body>>}
  ELSE index
Updated ==           (* a missing index stays missing, a pin changes no row  *)
  LET others == {r \in index : r[1] # op.fact} IN
  IF index = None \/ op.kind = "pin" THEN index
  ELSE IF op.kind \in {"discard", "forget"} THEN others
  ELSE others \union {<<op.fact, op.version.body>>}

(* An index that cannot be updated is discarded: none beats a stale one.   *)
UpdateIndex ==
  /\ op.pc = "index"
  /\ \/ index' = Updated /\ Goto("publish", FALSE) /\ UNCHANGED <<left, behind>>
     \/ /\ index # None /\ op.kind # "pin" /\ Fault /\ Goto("publish", TRUE)
        /\ \/ index' = None /\ UNCHANGED behind
           \/ index' = index /\ behind' = behind \union {"index"}
  /\ UNCHANGED <<diskVars, ctx, loaded, sweep, recall, told, firm>>

Publish == ctx' = Visible /\ loaded' = TRUE
PublishDegraded == ctx' = {} /\ loaded' = FALSE

AfterSummary == IF op.kind = "forget" THEN "cleanup" ELSE "reply"

PublishChange ==
  /\ op.pc = "publish" /\ op.kind # "reconcile"
  /\ \/ Publish /\ Goto("summary", FALSE) /\ UNCHANGED left
     \/ PublishDegraded /\ Fault /\ Goto(AfterSummary, TRUE)
  /\ UNCHANGED <<diskVars, index, sweep, recall, told, firm, behind>>

(* write_summary_file syncs the device's directory.                        *)
WriteSummary ==
  /\ op.pc = "summary" /\ op.kind # "reconcile"
  /\ \E written \in BOOLEAN :
       /\ Holds(written) /\ Goto(AfterSummary, ~written)
       /\ oldTombs' = IF written THEN {} ELSE oldTombs
  /\ UNCHANGED <<dir, file, tombs, oldFile, readVars, sweep, recall, told, firm, behind>>

Cleanup ==
  /\ op.pc = "cleanup"
  /\ \/ \E synced \in BOOLEAN :
          Holds(synced) /\ Remove(op.fact, synced) /\ Goto("reply", ~synced)
     \/ Fault /\ Goto("reply", TRUE) /\ UNCHANGED <<file, oldFile>>
  /\ UNCHANGED <<dir, tombs, oldTombs, readVars, sweep, recall, told, firm, behind>>

(* What the receipt says is recorded for a file that neither the owner nor *)
(* a sweep nobody waits for has changed meanwhile.                         *)
Undisturbed == sweep = Asleep /\ ~op.touched

Reply ==
  /\ op.pc = "reply"
  /\ LET f == op.fact
         fact == IF op.kind \in {"discard", "forget"} THEN Gone ELSE op.version.body
         untouched == Undisturbed /\ (file[f] = None \/ ~file[f].edited)
     IN  /\ IF untouched THEN Tells(f, fact) ELSE UNCHANGED told
         /\ firm' = IF untouched /\ ~op.pending /\ dir = "firm"
                    THEN firm \union {f} ELSE firm
  /\ op' = Idle
  /\ UNCHANGED <<diskVars, readVars, sweep, recall, behind, left>>

-----------------------------------------------------------------------------
(* PurgeScope publishes nothing first, then remove_dir_all takes the files *)
(* in whatever order the directory lists them.                             *)
StartPurge ==
  /\ Takes("purge", "wipe", None, None, {})
  /\ ctx' = {} /\ loaded' = TRUE /\ Unsettle(Fact)
  /\ UNCHANGED <<diskVars, index, sweep, recall, behind>>

Wiping == op.pc = "wipe" /\ UNCHANGED <<dir, ctx, loaded, op, sweep, recall, told,
                                         firm, behind, left>>

WipeFile(f) ==
  /\ Wiping /\ file[f] # None /\ Put(f, None, FALSE)
  /\ UNCHANGED <<tombs, oldTombs, index>>

WipeTombs ==
  /\ Wiping /\ tombs # {} /\ PutTombs({}, FALSE)
  /\ UNCHANGED <<file, oldFile, index>>

WipeIndex ==
  /\ Wiping /\ index # None /\ index' = None
  /\ UNCHANGED <<file, oldFile, tombs, oldTombs>>

(* A vault that was not there needs no sync, so that receipt proves less.  *)
WipeEnds ==
  /\ op.pc = "wipe" /\ \A f \in Fact : file[f] = None
  /\ tombs = {} /\ index = None
  /\ dir' = "absent" /\ op' = Idle
  /\ \/ /\ dir # "absent" /\ oldFile' = Synced /\ oldTombs' = {} /\ UNCHANGED left
        /\ IF Undisturbed
           THEN said' = [f \in Fact |-> Gone] /\ firm' = Fact /\ behind' = {}
           ELSE UNCHANGED <<said, firm, behind>>
     \/ /\ dir = "absent"
        /\ said' = IF Undisturbed THEN [f \in Fact |-> Gone] ELSE said
        /\ UNCHANGED <<oldFile, oldTombs, firm, behind, left>>
     \/ /\ dir # "absent" /\ Fault
        /\ UNCHANGED <<oldFile, oldTombs, said, firm, behind>>
  /\ UNCHANGED <<file, tombs, index, ctx, loaded, sweep, recall, eclipsed>>

(* What could not be removed stays; the receipt says cleanup is pending.   *)
WipeFails ==
  /\ op.pc = "wipe" /\ Refused /\ behind' = behind \union {"purge", "index"}
  /\ UNCHANGED <<diskVars, readVars, sweep, recall, told, firm>>

-----------------------------------------------------------------------------
(* Reconcile.  The sweep is a blocking closure: it reads once and finishes *)
(* even when the request that waits for it is dropped.  (Bound: a second   *)
(* reconciliation starts when no sweep is left running.)                   *)
StartReconcile ==
  /\ sweep = Asleep
  /\ IF dir = "absent"
     THEN Takes("reconcile", "publish", None, None, {}) /\ UNCHANGED sweep
     ELSE /\ Takes("reconcile", "sweep", None, None, {})
          /\ sweep' = [pc |-> "reads", drop |-> {}, adopt |-> {}]
  /\ UNCHANGED <<diskVars, readVars, recall, told, firm, behind>>

Waiting == op.kind = "reconcile" /\ op.pc = "sweep"
Disturbed == op' = IF Free THEN op ELSE [op EXCEPT !.touched = TRUE]
Unfinished == behind' = behind \union {"index"}

SweepReads ==
  /\ sweep.pc = "reads" /\ oldFile' = IF dir = "absent" THEN oldFile ELSE Synced
  /\ sweep' = [pc |-> "writes", drop |-> Residual,
               adopt |-> {r \in Visible : file[r[1]].edited}]
  /\ UNCHANGED <<dir, file, tombs, oldTombs, readVars, op, recall, told, firm,
                 behind, left>>

SweepDrops(f) ==
  /\ f \in sweep.drop /\ Remove(f, TRUE)
  /\ sweep' = [sweep EXCEPT !.drop = @ \ {f}]
  /\ UNCHANGED <<dir, tombs, oldTombs, readVars, op, recall, told, firm, behind, left>>

(* An edit by the owner becomes a revision: the text as it was read.       *)
SweepAdopts(f, b) ==
  /\ sweep.drop = {} /\ <<f, b>> \in sweep.adopt
  /\ Put(f, [body |-> b, edited |-> FALSE], TRUE) /\ dir' = Made(dir)
  /\ sweep' = [sweep EXCEPT !.adopt = @ \ {<<f, b>>}]
  /\ UNCHANGED <<tombs, oldTombs, readVars, op, recall, told, firm, behind, left>>

SweepEnds ==
  /\ sweep.pc = "writes" /\ sweep.drop = {} /\ sweep.adopt = {}
  /\ sweep' = Asleep
  /\ IF Waiting THEN Goto("reindex", FALSE) ELSE Disturbed
  /\ UNCHANGED <<diskVars, readVars, recall, told, firm, behind, left>>

(* Any step may fail, a removal or a write after it was made.              *)
SweepFails ==
  /\ sweep.pc # "idle" /\ Fault /\ sweep' = Asleep /\ Unfinished
  /\ IF Waiting THEN op' = Idle ELSE Disturbed
  /\ \/ UNCHANGED <<dir, file, oldFile>>
     \/ /\ dir = "absent" /\ sweep.adopt # {} /\ dir' = "loose"
        /\ UNCHANGED <<file, oldFile>>
     \/ UNCHANGED dir /\ \E f \in sweep.drop : Remove(f, FALSE)
     \/ /\ sweep.drop = {} /\ dir' = Made(dir)
        /\ \E r \in sweep.adopt : Put(r[1], [body |-> r[2], edited |-> FALSE], FALSE)
  /\ UNCHANGED <<tombs, oldTombs, readVars, recall, told, firm>>

(* An index that cannot be rebuilt is discarded, or reconcile fails.       *)
Reindex ==
  /\ op.pc = "reindex"
  /\ \/ index' = Visible /\ Goto("publish", FALSE) /\ UNCHANGED <<left, behind>>
     \/ index' = None /\ Fault /\ Goto("publish", FALSE) /\ UNCHANGED behind
     \/ index' = index /\ Refused /\ Unfinished
  /\ UNCHANGED <<diskVars, ctx, loaded, sweep, recall, told, firm>>

ReconcilePublishes ==
  /\ op.kind = "reconcile" /\ op.pc = "publish"
  /\ \/ /\ Publish /\ UNCHANGED <<left, behind>>
        /\ IF dir = "absent" THEN op' = Idle ELSE Goto("summary", FALSE)
     \/ PublishDegraded /\ Refused /\ Unfinished
  /\ UNCHANGED <<diskVars, index, sweep, recall, told, firm>>

ReconcileSums ==
  /\ op.kind = "reconcile" /\ op.pc = "summary"
  /\ \/ /\ oldTombs' = {} /\ op' = Idle /\ behind' = {}
        /\ firm' = IF dir = "firm" THEN {f \in Fact \ eclipsed : said[f] # None}
                 ELSE firm
        /\ UNCHANGED left
     \/ Refused /\ Unfinished /\ UNCHANGED <<oldTombs, firm>>
  /\ UNCHANGED <<dir, file, tombs, oldFile, readVars, sweep, recall, told>>

(* An administrator's client leaves: the handler's future is dropped and   *)
(* with it the writer's guard.                                             *)
Abandon ==
  /\ op.kind = "reconcile" /\ op' = Idle /\ Unfinished
  /\ UNCHANGED <<diskVars, readVars, sweep, recall, told, firm, left>>

-----------------------------------------------------------------------------
(* `context` loads what no one has loaded; SetProfile republishes all.     *)
Republish ==
  /\ Free
  /\ \/ Publish /\ UNCHANGED left
     \/ PublishDegraded /\ Fault
  /\ UNCHANGED <<diskVars, index, op, sweep, recall, told, firm, behind>>

(* recall looks before it takes the writer, and does not look again.       *)
RecallLooks ==
  /\ ~recall /\ dir # "absent" /\ recall' = TRUE
  /\ IF index = None THEN UNCHANGED left ELSE Fault
  /\ UNCHANGED <<diskVars, readVars, op, sweep, told, firm, behind>>

RecallRebuilds ==
  /\ recall /\ Free /\ recall' = FALSE
  /\ \/ index' = Visible /\ dir' = Made(dir) /\ UNCHANGED left
     \/ /\ Fault /\ UNCHANGED index
        /\ dir' \in {dir} \union (IF dir = "absent" THEN {"loose"} ELSE {})
  /\ UNCHANGED <<file, tombs, oldFile, oldTombs, ctx, loaded, op, sweep, told,
                 firm, behind>>

(* The owner edits a fact's text with an editor, without the writer.       *)
OwnerEdit(f, b) ==
  /\ file[f] # None /\ b # file[f].body /\ Spend("edits")
  /\ Put(f, [body |-> b, edited |-> TRUE], FALSE) /\ Unsettle({f})
  /\ op' = IF op.fact = f THEN [op EXCEPT !.touched = TRUE] ELSE op
  /\ UNCHANGED <<dir, tombs, oldTombs, readVars, sweep, recall, behind>>

-----------------------------------------------------------------------------
Restarts ==
  /\ Spend("cuts")
  /\ op' = Idle /\ sweep' = Asleep /\ recall' = FALSE
  /\ ctx' = {} /\ loaded' = FALSE

(* The process dies; the next one reconciles what was under way.           *)
Crash ==
  /\ Restarts
  /\ behind' = IF Free /\ sweep = Asleep THEN behind
               ELSE behind \union (IF op.kind = "purge" THEN {"purge", "index"} ELSE {"index"})
  /\ UNCHANGED <<diskVars, index, told, firm>>

(* Every unsynced change is kept or undone by itself.  An index may be     *)
(* lost; that an older one may come back instead makes no difference until *)
(* it is rebuilt.                                                          *)
PowerLoss ==
  /\ Restarts /\ Unfinished
  /\ \/ /\ file' \in [Fact -> Version \union {None}]
        /\ \A f \in Fact : file'[f] \in {file[f]} \union oldFile[f]
        /\ tombs' \in {tombs} \union oldTombs
        /\ index' \in {index, None}
        /\ dir' = IF dir # "absent" THEN dir
                  ELSE IF tombs' # {} \/ \E f \in Fact : file'[f] # None
                       THEN "firm" ELSE "absent"
     \/ /\ dir = "loose" /\ dir' = "absent"
        /\ file' = [f \in Fact |-> None] /\ tombs' = {} /\ index' = None
  /\ oldFile' = Synced /\ oldTombs' = {}
  /\ said' = [f \in Fact |-> IF f \in firm THEN said[f] ELSE None] /\ eclipsed' = {}
  /\ UNCHANGED firm

-----------------------------------------------------------------------------
Requests ==
  \/ \E f \in Fact, b \in Body : StartRemember(f, b) \/ RememberKnown(f, b)
                                \/ StartCorrect(f, b)
  \/ \E f \in Fact, kind \in {"pin", "discard", "forget"} : StartOther(kind, f)
  \/ StartPurge \/ StartReconcile

Writes ==
  \/ \E f \in Fact : LiftRemoves(f) \/ WipeFile(f)
  \/ LiftWrites \/ CommitFact \/ CommitDiscard \/ CommitForget \/ CommitFails
  \/ UpdateIndex \/ PublishChange \/ WriteSummary \/ Cleanup \/ Reply
  \/ WipeTombs \/ WipeIndex \/ WipeEnds \/ WipeFails

Reconciles ==
  \/ SweepReads \/ SweepEnds \/ SweepFails
  \/ \E f \in Fact : SweepDrops(f) \/ \E b \in Body : SweepAdopts(f, b)
  \/ Reindex \/ ReconcilePublishes \/ ReconcileSums \/ Abandon

Outside ==
  \/ Republish \/ RecallLooks \/ RecallRebuilds \/ Crash \/ PowerLoss
  \/ \E f \in Fact, b \in Body : OwnerEdit(f, b)

Next == Requests \/ Writes \/ Reconciles \/ Outside

Spec == Init /\ [][Next]_vars

-----------------------------------------------------------------------------
Row == Fact \X Body
Writer ==
  [kind : {"none", "remember", "correct", "pin", "discard", "forget", "purge",
           "reconcile"},
   pc : {"idle", "lift", "commit", "index", "publish", "summary", "cleanup", "reply",
         "wipe", "sweep", "reindex"},
   fact : Fact \union {None}, version : Version \union {None},
   todo : SUBSET Fact, pending : BOOLEAN, touched : BOOLEAN]
Sweeper == [pc : {"idle", "reads", "writes"}, drop : SUBSET Fact, adopt : SUBSET Row]

(* Every variable keeps its type, and where there is no directory nothing  *)
(* is left on disk.                                                        *)
TypeOK ==
  /\ dir \in {"absent", "loose", "firm"}
  /\ file \in [Fact -> Version \union {None}] /\ tombs \in SUBSET Body
  /\ oldFile \in [Fact -> SUBSET (Version \union {None})]
  /\ oldTombs \in SUBSET SUBSET Body
  /\ index = None \/ index \in SUBSET Row
  /\ ctx \in SUBSET Row /\ loaded \in BOOLEAN
  /\ op \in Writer /\ sweep \in Sweeper
  /\ recall \in BOOLEAN
  /\ said \in [Fact -> Body \union {None, Gone}] /\ firm \in SUBSET Fact
  /\ eclipsed \in SUBSET Fact
  /\ behind \in SUBSET {"index", "purge"}
  /\ left \in [{"changes", "edits", "faults", "cuts"} -> Nat]
  /\ dir = "absent" => (tombs = {} /\ index = None /\ \A f \in Fact : file[f] = None)

(* What a receipt said stays so, through every failed step and crash, and  *)
(* when nothing was pending through power losses: what was remembered is   *)
(* readable, what was discarded, forgotten or purged does not come back.   *)
(* Except, by the code, the facts whose text differs from one forgotten    *)
(* since in nothing but diacritics (ForgetsOneText).                       *)
PromisesHold ==
  \A f \in Fact \ eclipsed :
    /\ said[f] \in Body => <<f, said[f]>> \in Visible
    /\ said[f] = Gone => f \notin Live

(* "On success the change is already visible to every `context` and        *)
(* `recall`": neither shows anything older than the last receipt, or lacks *)
(* what it said, but for what a failed step left to reconcile and for the  *)
(* facts hidden with a forgotten text that differs in diacritics.          *)
AnswersFollow ==
  /\ \A r \in ctx : r[1] \in eclipsed \/ said[r[1]] \in {None, r[2]}
  /\ \A f \in Fact \ eclipsed : said[f] \in Body =>
       /\ loaded => <<f, said[f]>> \in ctx
       /\ index # None /\ "index" \notin behind => <<f, said[f]>> \in index

(* Not so (findings): "'bàn nhà' and 'bán nhà' are different facts": what   *)
(* a receipt said of one is readable after the other was forgotten.        *)
ForgetsOneText == \A f \in eclipsed : said[f] \in Body => <<f, said[f]>> \in Visible

(* Not so: after a purge that answered, even with cleanup pending, no       *)
(* session sees the purged facts.                                          *)
PurgedStaysAway == "purge" \in behind => ctx = {}

(* Not so: a purge only hides; the tombstones may go before what they hide.*)
PurgeShowsNothing == [][op.kind = "purge" /\ UNCHANGED <<op, sweep, left>>
                          => Live' \subseteq Live]_vars

(* Not so: "Creates a directory and makes its entry durable": a receipt     *)
(* with nothing pending, in a directory whose entry was never synced.      *)
CleanMeansDurable == op.pc = "reply" /\ ~op.pending => dir = "firm"

(* Not so: "one writer per scope" (Mỗi scope một writer): a file comes back*)
(* only by a change that is written, or after a power loss.                *)
NothingRevived == [][\A f \in Fact : file[f] = None /\ file'[f] # None
                       => op.pc = "commit" \/ left'["cuts"] # left["cuts"]]_vars

(* Not so: "Searching must not create a vault for a Device that has none." *)
SearchMakesNoVault == [][dir = "absent" /\ dir' # "absent" => ~recall]_vars

=============================================================================
