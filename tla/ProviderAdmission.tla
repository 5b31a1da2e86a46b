------------------------- MODULE ProviderAdmission -------------------------
(***************************************************************************)
(* Capacity shared by the workloads of one provider, workers/admission.    *)
(*                                                                         *)
(* A provider's physical capacity, the quota of its runtime template and   *)
(* the quota of a deployment are separate counters ("gates", the code's    *)
(* Arc<Mutex<State>>).  A view composes some of them: a permit taken       *)
(* through a view counts in every gate of the view.  try_admit holds all   *)
(* the gates' locks at once; dropping a permit takes them one at a time,   *)
(* so another task may run between two of the decrements.                  *)
(***************************************************************************)
EXTENDS Naturals, FiniteSets

CONSTANTS
  Gate,      (* the counters                                               *)
  View,      (* the compositions of counters admissions are asked of       *)
  Permit,    (* identities of the permits (the code's are anonymous)       *)
  GatesOf,   (* the counters each view composes                            *)
  Total,     (* capacity of each counter                                   *)
  Reserved   (* the part of it diagnostics and background must leave       *)

Workload == {"Voice", "Diagnostic", "Background"}

ASSUME AdmissionAssumption ==
  /\ IsFiniteSet(Permit)
  /\ GatesOf \in [View -> SUBSET Gate]
  /\ Total \in [Gate -> Nat] /\ Reserved \in [Gate -> Nat]
  /\ \A g \in Gate : 0 < Reserved[g] /\ Reserved[g] <= Total[g]
  /\ \A v \in View : GatesOf[v] # {}

VARIABLES
  used,   (* the counters: voice and diagnostic (background counts there)  *)
  permit  (* per permit: its class, whether somebody owns it, and the gates *)
          (* it still counts in                                            *)

admissionVars == <<used, permit>>

Usage(g) == used[g].voice + used[g].diagnostic

NoPermit == [class |-> "Voice", held |-> FALSE, gates |-> {}]

AdmissionInit ==
  /\ used = [g \in Gate |-> [voice |-> 0, diagnostic |-> 0]]
  /\ permit = [p \in Permit |-> NoPermit]

-----------------------------------------------------------------------------
(* try_admit: every gate of the view must have room.  A diagnostic may use *)
(* the whole of a gate of capacity 1, which would otherwise never be       *)
(* testable.                                                               *)
Limit(g, class) ==
  IF class = "Voice" \/ (class = "Diagnostic" /\ Total[g] = 1)
  THEN Total[g] ELSE Total[g] - Reserved[g]

HasRoomSomewhere(v, class) ==
  \E g \in GatesOf[v] : Usage(g) < Limit(g, class)
HasRoom(v, class) == \A g \in GatesOf[v] : Usage(g) < Limit(g, class)

Counter(class) == IF class = "Voice" THEN "voice" ELSE "diagnostic"

Admit(p, v, class) ==
  /\ permit[p] = NoPermit
  /\ HasRoom(v, class)
  /\ permit' = [permit EXCEPT ![p] =
                  [class |-> class, held |-> TRUE, gates |-> GatesOf[v]]]
  /\ used' = [g \in Gate |-> IF g \in GatesOf[v]
                             THEN [used[g] EXCEPT ![Counter(class)] = @ + 1]
                             ELSE used[g]]

(* Drop of the permit begins: its owner is gone, every gate still counts.  *)
Disown(p) ==
  /\ permit[p].held
  /\ permit' = [permit EXCEPT ![p].held = FALSE]
  /\ UNCHANGED used

(* One iteration of Drop, under the lock of one gate.                      *)
Release(p, g) ==
  /\ ~permit[p].held /\ g \in permit[p].gates
  /\ permit' = [permit EXCEPT
       ![p] = IF permit[p].gates = {g} THEN NoPermit
              ELSE [permit[p] EXCEPT !.gates = permit[p].gates \ {g}]]
  /\ used' = [used EXCEPT ![g][Counter(permit[p].class)] = @ - 1]

Returned(p) == permit[p] = NoPermit

(* active_work = 0, what the shutdown of a runtime asks.                   *)
NoActiveWork(v) == \A g \in GatesOf[v] : Usage(g) = 0

AdmissionNext ==
  \E p \in Permit :
    \/ \E v \in View, class \in Workload : Admit(p, v, class)
    \/ Disown(p)
    \/ \E g \in Gate : Release(p, g)

AdmissionSpec == AdmissionInit /\ [][AdmissionNext]_admissionVars

(* The permits that count in a gate under one of its two counters.         *)
Counting(g, c) ==
  {p \in Permit : g \in permit[p].gates /\ Counter(permit[p].class) = c}

(* The counters are exact while permits come and go gate by gate, no gate  *)
(* counts more than it has, and background work and diagnostics leave the  *)
(* voice reserve alone (try_admit and Drop, admission/mod.rs).             *)
CapacityRespected ==
  \A g \in Gate :
    /\ used[g].voice = Cardinality(Counting(g, "voice"))
    /\ used[g].diagnostic = Cardinality(Counting(g, "diagnostic"))
    /\ Usage(g) <= Total[g]
    /\ Total[g] > 1 => used[g].diagnostic <= Total[g] - Reserved[g]
=============================================================================
