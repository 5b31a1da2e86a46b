-------------------------- MODULE AsrWorkers_proofs --------------------------
(***************************************************************************)
(* Proofs about AsrWorkers, for every number of sessions, streams, views   *)
(* and gates: its types and queue bounds; that it takes and returns its    *)
(* permits by the protocol of ProviderAdmission, so that the counters stay *)
(* exact; that all native work is paid for; that a retired runtime runs    *)
(* none; that an admitted open is served; that the capacity of a cancelled *)
(* stream is back when its session hears of it.                            *)
(***************************************************************************)
EXTENDS AsrWorkers, FiniteSetTheorems, SequenceTheorems, TLAPS

-----------------------------------------------------------------------------
(* The admission (ProviderAdmission): its counters are exact and never      *)
(* exceed the capacity, for every number of gates, views and permits.       *)

(* The typing of the admission state.                                      *)
AdmissionType ==
  /\ used \in [Gate -> [voice : Nat, diagnostic : Nat]]
  /\ permit \in [Permit -> [class : Workload, held : BOOLEAN, gates : SUBSET Gate]]

AdmissionInv == AdmissionType /\ CapacityRespected

(* What a gate counts is finite.                                           *)
LEMMA CountingFinite ==
  ASSUME NEW g, NEW c
  PROVE  IsFiniteSet(Counting(g, c)) /\ Cardinality(Counting(g, c)) \in Nat
<1>1. Counting(g, c) \subseteq Permit
  BY DEF Counting
<1>2. IsFiniteSet(Counting(g, c))
  BY <1>1, FS_Subset, AdmissionAssumption DEF AdmissionAssumption
<1> QED
  BY <1>2, FS_CardinalityType

(* Nothing is counted at first.                                            *)
LEMMA InitCounts == AdmissionInit => AdmissionInv
<1> SUFFICES ASSUME AdmissionInit PROVE AdmissionInv
  OBVIOUS
<1>1. AdmissionType
  BY DEF AdmissionInit, AdmissionType, NoPermit, Workload
<1>2. ASSUME NEW g \in Gate
      PROVE  Counting(g, "voice") = {} /\ Counting(g, "diagnostic") = {}
  BY DEF AdmissionInit, Counting, NoPermit
<1>3. Cardinality({}) = 0
  BY FS_EmptySet
<1>4. ASSUME NEW g \in Gate
      PROVE  /\ used[g].voice = 0 /\ used[g].diagnostic = 0
             /\ Total[g] \in Nat /\ Reserved[g] \in Nat
             /\ Reserved[g] <= Total[g]
  BY AdmissionAssumption DEF AdmissionInit, AdmissionAssumption
<1>5. ASSUME NEW g \in Gate
      PROVE  /\ used[g].voice = Cardinality(Counting(g, "voice"))
             /\ used[g].diagnostic = Cardinality(Counting(g, "diagnostic"))
             /\ Usage(g) <= Total[g]
             /\ Total[g] > 1 => used[g].diagnostic <= Total[g] - Reserved[g]
  <2>1. /\ used[g].voice = Cardinality(Counting(g, "voice"))
        /\ used[g].diagnostic = Cardinality(Counting(g, "diagnostic"))
    BY <1>2, <1>3, <1>4
  <2> QED
    BY <2>1, <1>4 DEF Usage
<1> QED
  BY <1>1, <1>5 DEF AdmissionInv, CapacityRespected

-----------------------------------------------------------------------------
(* try_admit: in every gate of the view one more permit and one more count.*)
LEMMA AdmitCounts ==
  ASSUME AdmissionInv, NEW p \in Permit, NEW v \in View, NEW class \in Workload,
         Admit(p, v, class)
  PROVE  AdmissionInv'
<1> USE AdmissionAssumption DEF AdmissionAssumption
<1> DEFINE k == Counter(class)
<1>k. k \in {"voice", "diagnostic"}
  BY DEF Counter
<1>1. AdmissionType'
  BY DEF AdmissionInv, AdmissionType, Admit, Counter, Workload
<1>2. ASSUME NEW g \in Gate
      PROVE  /\ used'[g].voice = Cardinality(Counting(g, "voice"))'
             /\ used'[g].diagnostic = Cardinality(Counting(g, "diagnostic"))'
             /\ Usage(g)' <= Total[g]
             /\ Total[g] > 1 => used'[g].diagnostic <= Total[g] - Reserved[g]
  <2>1. /\ used[g].voice \in Nat /\ used[g].diagnostic \in Nat
        /\ Total[g] \in Nat /\ Reserved[g] \in Nat
        /\ used[g].voice = Cardinality(Counting(g, "voice"))
        /\ used[g].diagnostic = Cardinality(Counting(g, "diagnostic"))
        /\ Usage(g) <= Total[g]
        /\ Total[g] > 1 => used[g].diagnostic <= Total[g] - Reserved[g]
    BY DEF AdmissionInv, AdmissionType, CapacityRespected
  <2>2. CASE g \in GatesOf[v]
    <3>1. ASSUME NEW c
          PROVE  Counting(g, c)' = IF c = k THEN Counting(g, c) \cup {p}
                                   ELSE Counting(g, c)
      BY <2>2 DEF Admit, Counting, AdmissionInv, AdmissionType, NoPermit
    <3>2. p \notin Counting(g, k)
      BY DEF Admit, Counting, NoPermit
    <3>3. Cardinality(Counting(g, k) \cup {p}) = Cardinality(Counting(g, k)) + 1
      BY <3>2, CountingFinite, FS_AddElement
    <3>4. /\ used'[g].voice = IF k = "voice" THEN used[g].voice + 1 ELSE used[g].voice
          /\ used'[g].diagnostic =
               IF k = "diagnostic" THEN used[g].diagnostic + 1 ELSE used[g].diagnostic
      BY <2>2, <1>k DEF Admit, AdmissionInv, AdmissionType
    <3>5. Usage(g) < Limit(g, class)
      BY <2>2 DEF Admit, HasRoom
    <3>6. /\ used'[g].voice = Cardinality(Counting(g, "voice"))'
          /\ used'[g].diagnostic = Cardinality(Counting(g, "diagnostic"))'
      BY <3>1, <3>3, <3>4, <2>1, <1>k
    <3>7. Usage(g)' = Usage(g) + 1
      BY <3>4, <2>1, <1>k DEF Usage
    <3>8. Limit(g, class) \in Nat /\ Limit(g, class) <= Total[g]
      BY <2>1 DEF Limit
    <3>9. Usage(g) \in Nat
      BY <2>1 DEF Usage
    <3>10. Usage(g)' <= Total[g]
      BY <3>5, <3>7, <3>8, <3>9, <2>1
    <3>11. ASSUME Total[g] > 1
           PROVE  used'[g].diagnostic <= Total[g] - Reserved[g]
      <4>1. CASE k = "voice"
        BY <4>1, <3>4, <3>11, <2>1
      <4>2. CASE k = "diagnostic"
        <5>1. Limit(g, class) = Total[g] - Reserved[g]
          BY <4>2, <3>11, <2>1 DEF Limit, Counter
        <5>2. used[g].diagnostic <= Usage(g)
          BY <2>1 DEF Usage
        <5> QED
          BY <4>2, <5>1, <5>2, <3>4, <3>5, <3>9, <2>1
      <4> QED
        BY <4>1, <4>2, <1>k
    <3> QED
      BY <3>6, <3>10, <3>11
  <2>3. CASE g \notin GatesOf[v]
    <3>1. Counting(g, "voice")' = Counting(g, "voice")
          /\ Counting(g, "diagnostic")' = Counting(g, "diagnostic")
      BY <2>3 DEF Admit, Counting, AdmissionInv, AdmissionType, NoPermit
    <3>2. used'[g] = used[g]
      BY <2>3 DEF Admit
    <3> QED
      BY <3>1, <3>2, <2>1 DEF Usage
  <2> QED
    BY <2>2, <2>3
<1> QED
  BY <1>1, <1>2 DEF AdmissionInv, CapacityRespected

(* The owner goes: nothing that is counted changes.                        *)
LEMMA DisownCounts ==
  ASSUME AdmissionInv, NEW p \in Permit, Disown(p)
  PROVE  AdmissionInv'
<1>1. AdmissionType'
  BY DEF AdmissionInv, AdmissionType, Disown
<1>2. ASSUME NEW g, NEW c PROVE Counting(g, c)' = Counting(g, c)
  BY DEF Disown, Counting, AdmissionInv, AdmissionType
<1>3. used' = used
  BY DEF Disown
<1> QED
  BY <1>1, <1>2, <1>3 DEF AdmissionInv, CapacityRespected, Usage

(* One gate of Drop: one permit and one count less, in that gate.          *)
LEMMA ReleaseCounts ==
  ASSUME AdmissionInv, NEW p \in Permit, NEW h \in Gate, Release(p, h)
  PROVE  AdmissionInv'
<1> USE AdmissionAssumption DEF AdmissionAssumption
<1> DEFINE k == Counter(permit[p].class)
<1>k. k \in {"voice", "diagnostic"}
  BY DEF Counter
<1>0. p \in Counting(h, k)
  BY DEF Release, Counting
<1>1. /\ IsFiniteSet(Counting(h, k))
      /\ Cardinality(Counting(h, k) \ {p}) = Cardinality(Counting(h, k)) - 1
      /\ Cardinality(Counting(h, k)) \in Nat /\ Cardinality(Counting(h, k)) # 0
  <2>1. IsFiniteSet(Counting(h, k)) /\ Cardinality(Counting(h, k)) \in Nat
    BY CountingFinite
  <2>2. Cardinality(Counting(h, k) \ {p}) = Cardinality(Counting(h, k)) - 1
    BY <1>0, <2>1, FS_RemoveElement
  <2>3. Cardinality(Counting(h, k)) # 0
    BY <1>0, <2>1, FS_EmptySet
  <2> QED
    BY <2>1, <2>2, <2>3
<1>2. /\ used[h].voice \in Nat /\ used[h].diagnostic \in Nat
      /\ used[h].voice = Cardinality(Counting(h, "voice"))
      /\ used[h].diagnostic = Cardinality(Counting(h, "diagnostic"))
      /\ Usage(h) <= Total[h] /\ Total[h] \in Nat /\ Reserved[h] \in Nat
      /\ Total[h] > 1 => used[h].diagnostic <= Total[h] - Reserved[h]
  BY DEF AdmissionInv, AdmissionType, CapacityRespected
<1>3. /\ used'[h].voice = IF k = "voice" THEN used[h].voice - 1 ELSE used[h].voice
      /\ used'[h].diagnostic =
           IF k = "diagnostic" THEN used[h].diagnostic - 1 ELSE used[h].diagnostic
      /\ \A g \in Gate : g # h => used'[g] = used[g]
  BY <1>k DEF Release, AdmissionInv, AdmissionType
<1>4. used' \in [Gate -> [voice : Nat, diagnostic : Nat]]
  <2>1. used[h][k] - 1 \in Nat
    BY <1>1, <1>2, <1>k
  <2>2. [used[h] EXCEPT ![k] = @ - 1] \in [voice : Nat, diagnostic : Nat]
    BY <2>1, <1>k DEF AdmissionInv, AdmissionType
  <2>3. used' = [used EXCEPT ![h] = [used[h] EXCEPT ![k] = @ - 1]]
    BY DEF Release, AdmissionInv, AdmissionType
  <2> QED
    BY <2>2, <2>3 DEF AdmissionInv, AdmissionType
<1>5. permit' \in [Permit -> [class : Workload, held : BOOLEAN, gates : SUBSET Gate]]
  BY DEF Release, AdmissionInv, AdmissionType, NoPermit, Workload
<1>6. ASSUME NEW g \in Gate, NEW c
      PROVE  Counting(g, c)' = IF g = h /\ c = k THEN Counting(g, c) \ {p}
                               ELSE Counting(g, c)
  BY DEF Release, Counting, AdmissionInv, AdmissionType, NoPermit
<1>7. ASSUME NEW g \in Gate
      PROVE  /\ used'[g].voice = Cardinality(Counting(g, "voice"))'
             /\ used'[g].diagnostic = Cardinality(Counting(g, "diagnostic"))'
             /\ Usage(g)' <= Total[g]
             /\ Total[g] > 1 => used'[g].diagnostic <= Total[g] - Reserved[g]
  <2>1. CASE g = h
    <3>1. /\ used'[h].voice = Cardinality(Counting(h, "voice"))'
          /\ used'[h].diagnostic = Cardinality(Counting(h, "diagnostic"))'
      <4>1. CASE k = "voice"
        BY <4>1, <1>1, <1>2, <1>3, <1>6
      <4>2. CASE k = "diagnostic"
        BY <4>2, <1>1, <1>2, <1>3, <1>6
      <4> QED
        BY <4>1, <4>2, <1>k
    <3>2. /\ used'[h].voice <= used[h].voice
          /\ used'[h].diagnostic <= used[h].diagnostic
          /\ used'[h].voice \in Nat /\ used'[h].diagnostic \in Nat
      BY <1>2, <1>3, <1>4
    <3>3. Usage(h)' <= Total[h]
      BY <3>2, <1>2 DEF Usage
    <3>4. Total[h] > 1 => used'[h].diagnostic <= Total[h] - Reserved[h]
      BY <3>2, <1>2
    <3> QED
      BY <2>1, <3>1, <3>3, <3>4
  <2>2. CASE g # h
    BY <2>2, <1>3, <1>6 DEF Usage, AdmissionInv, CapacityRespected
  <2> QED
    BY <2>1, <2>2
<1> QED
  BY <1>4, <1>5, <1>7 DEF AdmissionInv, AdmissionType, CapacityRespected

(* Every step of the protocol preserves AdmissionInv.                      *)
LEMMA StepCounts == AdmissionInv /\ [AdmissionNext]_admissionVars => AdmissionInv'
<1> SUFFICES ASSUME AdmissionInv, [AdmissionNext]_admissionVars PROVE AdmissionInv'
  OBVIOUS
<1>1. ASSUME NEW p \in Permit, NEW v \in View, NEW class \in Workload,
             Admit(p, v, class)
      PROVE  AdmissionInv'
  BY <1>1, AdmitCounts
<1>2. ASSUME NEW p \in Permit, Disown(p) PROVE AdmissionInv'
  BY <1>2, DisownCounts
<1>3. ASSUME NEW p \in Permit, NEW g \in Gate, Release(p, g) PROVE AdmissionInv'
  BY <1>3, ReleaseCounts
<1>4. CASE UNCHANGED admissionVars
  BY <1>4 DEF admissionVars, AdmissionInv, AdmissionType, CapacityRespected,
              Counting, Usage
<1> QED
  BY <1>1, <1>2, <1>3, <1>4 DEF AdmissionNext

(* For every set of gates, views and permits and every capacity: whatever  *)
(* is admitted and dropped, in any interleaving of the drops' decrements,  *)
(* the counters are exact and within capacity, and the voice reserve holds *)
(* (try_admit and Drop for ProviderCapacityPermit, admission/mod.rs).      *)
THEOREM CountersExact == AdmissionSpec => []CapacityRespected
<1>1. AdmissionInv => CapacityRespected
  BY DEF AdmissionInv
<1> QED
  BY <1>1, InitCounts, StepCounts, PTL DEF AdmissionSpec

-----------------------------------------------------------------------------
(* Types.                                                                  *)
SessionType ==
  [lease : Lease \cup {NoLease}, cleanup : SUBSET Lease,
   mode : {"None", "Opening", "Refused", "Live", "Waiting", "GivingUp"},
   closed : BOOLEAN]

SlotType == {"None", "Active", "Finishing", "Cleaning", "Quarantined"}
Command == {"Push", "Finish", "Cancel"}

WorkerType ==
  [pc : {"None", "Opening", "Serving", "Returning", "Dropping", "Releasing",
         "Ending", "Done"},
   ended : Terminal \cup {"None"}, deferred : BOOLEAN,
   session : Session \cup {"nobody"}]

SupType ==
  [pc : {"Drain", "Route", "Reap", "Wait"}, hand : Event \cup {NoEvent},
   back : {"Drain", "Reap"}, releasing : BOOLEAN, armed : BOOLEAN]

Streams ==
  /\ sess \in [Session -> SessionType] /\ nextLease \in 1..MaxOpens + 1
  /\ slot \in [Lease -> SlotType]
  /\ worker \in [Lease -> WorkerType]
  /\ pool \in [retained : BOOLEAN, free : Nat, healthy : BOOLEAN]
Queues ==
  /\ commands \in [Lease -> Seq(Command)]
  /\ \A l \in Lease : Len(commands[l]) <= Capacity
  /\ events \in Seq(Event) /\ route \in [Session -> Seq(Event)]
  /\ \A s \in Session : Len(route[s]) <= Capacity
Threads ==
  /\ sup \in SupType /\ pending \in BOOLEAN
  /\ diag \in {"Idle", "Admitted", "Running", "Ended"}
  /\ life \in {"Open", "Closing", "Retired"}

(* TypeOK in the parts the steps change.                                   *)
LEMMA TypeParts == TypeOK <=> AdmissionType /\ Streams /\ Queues /\ Threads
BY DEF TypeOK, AdmissionType, Streams, Queues, Threads, SessionType, SlotType,
       WorkerType, SupType, Command

(* The initial state has its types and exact counters.                     *)
LEMMA InitTyped == Init => TypeOK /\ AdmissionInv
<1> SUFFICES ASSUME Init PROVE TypeOK /\ AdmissionInv
  OBVIOUS
<1> USE AsrAssumption DEF AsrAssumption
<1>1. AdmissionInv
  BY InitCounts DEF Init
<1>2. Streams
  <2>1. [lease |-> NoLease, mode |-> "None", cleanup |-> {}, closed |-> FALSE]
           \in SessionType
    BY DEF SessionType
  <2>2. [pc |-> "None", ended |-> "None", deferred |-> FALSE, session |-> "nobody"]
           \in WorkerType
    BY DEF WorkerType
  <2>3. pool \in [retained : BOOLEAN, free : Nat, healthy : BOOLEAN]
    BY DEF Init
  <2> QED
    BY <2>1, <2>2, <2>3 DEF Init, Streams, SlotType
<1>3. Queues
  BY DEF Init, Queues, Command
<1>4. Threads
  BY DEF Init, Threads, SupType
<1> QED
  BY <1>1, <1>2, <1>3, <1>4, TypeParts DEF AdmissionInv

(* Queues: an entry more where there is room, an entry less.               *)
LEMMA EnqueueTyped ==
  ASSUME Queues, NEW l \in Lease, NEW c \in Command, Len(commands[l]) < Capacity,
         Enqueue(l, c)
  PROVE  /\ commands' \in [Lease -> Seq(Command)]
         /\ \A m \in Lease : Len(commands'[m]) <= Capacity
<1>1. /\ Append(commands[l], c) \in Seq(Command)
      /\ Len(Append(commands[l], c)) = Len(commands[l]) + 1
      /\ Len(commands[l]) \in Nat
  BY DEF Queues
<1> QED
  BY <1>1, AsrAssumption DEF Queues, Enqueue, AsrAssumption

(* An event more in the unbounded channel.                                 *)
LEMMA SendTyped ==
  ASSUME Queues, NEW k \in Terminal \cup TimedOut \cup {"Opened"}, NEW l \in Lease,
         Send(Ev(k, l))
  PROVE  events' \in Seq(Event) /\ pending' \in BOOLEAN
BY DEF Queues, Send, Ev, Event

(* What is taken from a queue, and what is left of it.                     *)
LEMMA HeadTyped ==
  ASSUME NEW S, NEW q \in Seq(S), q # <<>>
  PROVE  Head(q) \in S /\ Tail(q) \in Seq(S) /\ Len(Tail(q)) <= Len(q)
BY HeadTailProperties, LenProperties

(* A session that is about something has a stream, streams are named in    *)
(* the order they are opened, what a thread defers is an outcome, and what *)
(* the supervisor routes is an event.                                      *)
Known ==
  /\ \A s \in Session : sess[s].mode # "None" =>
       sess[s].lease \in Lease /\ sess[s].lease < nextLease
  /\ \A s \in Session : sess[s].mode = "None" => sess[s].lease = NoLease
  /\ \A l \in Lease : l >= nextLease => slot[l] = "None" /\ worker[l].pc = "None"
  /\ \A l \in Lease : worker[l].deferred => worker[l].ended # "None"
  /\ sup.pc = "Route" => sup.hand \in Event

(* A session record with some of its fields set is one.                    *)
LEMMA SessionUpdates ==
  ASSUME NEW r \in SessionType, NEW l \in Lease \cup {NoLease},
         NEW c \in SUBSET Lease,
         NEW m \in {"None", "Opening", "Refused", "Live", "Waiting", "GivingUp"}
  PROVE  /\ [r EXCEPT !.cleanup = c] \in SessionType
         /\ [r EXCEPT !.mode = m, !.lease = l] \in SessionType
         /\ [r EXCEPT !.mode = m, !.lease = l, !.cleanup = c] \in SessionType
<1>1. \A t \in SessionType : [t EXCEPT !.lease = l] \in SessionType
  BY DEF SessionType
<1>2. \A t \in SessionType : [t EXCEPT !.cleanup = c] \in SessionType
  BY DEF SessionType
<1>3. [r EXCEPT !.mode = m] \in SessionType
  BY DEF SessionType
<1>4. [[r EXCEPT !.mode = m] EXCEPT !.lease = l] \in SessionType
  BY <1>1, <1>3
<1>5. [[[r EXCEPT !.mode = m] EXCEPT !.lease = l] EXCEPT !.cleanup = c] \in SessionType
  BY <1>2, <1>4
<1>6. /\ [r EXCEPT !.mode = m, !.lease = l] = [[r EXCEPT !.mode = m] EXCEPT !.lease = l]
      /\ [r EXCEPT !.mode = m, !.lease = l, !.cleanup = c]
           = [[[r EXCEPT !.mode = m] EXCEPT !.lease = l] EXCEPT !.cleanup = c]
  BY Zenon
<1> QED
  BY <1>2, <1>4, <1>5, <1>6

(* The calls of an open keep the types (open_class).                       *)
LEMMA OpeningTyped ==
  ASSUME TypeOK, Known, NEW s \in Session,
         OpenAdmit(s) \/ OpenSlot(s) \/ OpenRefused(s) \/ OpenReturns(s)
  PROVE  Streams' /\ Queues' /\ Threads'
<1>0. Streams /\ Queues /\ Threads
  BY TypeParts
<1>1. CASE OpenAdmit(s)
  <2>1. nextLease \in Lease /\ nextLease' \in 1..MaxOpens + 1
    BY <1>1, AsrAssumption DEF OpenAdmit, Lease, AsrAssumption
  <2>2. [sess[s] EXCEPT !.mode = "Opening", !.lease = nextLease] \in SessionType
    BY <1>0, <2>1, SessionUpdates DEF Streams
  <2>3. sess' \in [Session -> SessionType]
    BY <1>0, <1>1, <2>2 DEF OpenAdmit, Streams
  <2> QED
    BY <1>0, <1>1, <2>1, <2>3 DEF OpenAdmit, Streams, Queues, Threads
<1>2. CASE OpenSlot(s)
  <2>1. worker' \in [Lease -> WorkerType]
    BY <1>0, <1>2 DEF OpenSlot, Streams, WorkerType
  <2>2. pool' \in [retained : BOOLEAN, free : Nat, healthy : BOOLEAN]
    <3>1. CASE pool.retained
      <4>1. pool.free > 0 /\ pool.free \in Nat
        BY <1>0, <1>2, <3>1 DEF OpenSlot, SlotAvailable, Streams
      <4>2. pool.free - 1 \in Nat
        BY <4>1
      <4>3. pool' = [pool EXCEPT !.free = @ - 1]
        BY <1>2, <3>1 DEF OpenSlot
      <4> QED
        BY <1>0, <4>2, <4>3 DEF Streams
    <3>2. CASE ~pool.retained
      BY <1>0, <1>2, <3>2 DEF OpenSlot, Streams
    <3> QED
      BY <3>1, <3>2
  <2>3. sess' \in [Session -> SessionType] /\ slot' \in [Lease -> SlotType]
    BY <1>0, <1>2 DEF OpenSlot, Streams, SessionType, SlotType
  <2> QED
    BY <1>0, <1>2, <2>1, <2>2, <2>3 DEF OpenSlot, Streams, Queues, Threads
<1>3. CASE OpenRefused(s)
  BY <1>0, <1>3 DEF OpenRefused, Streams, Queues, Threads, SessionType
<1>4. CASE OpenReturns(s)
  BY <1>0, <1>4 DEF OpenReturns, Streams, Queues, Threads, SessionType
<1> QED
  BY <1>1, <1>2, <1>3, <1>4

(* send keeps the types and the bound of the command channel.              *)
LEMMA StreamTyped ==
  ASSUME TypeOK, Known, NEW s \in Session, Push(s) \/ Finish(s) \/ CancelAsr(s)
  PROVE  Streams' /\ Queues' /\ Threads'
<1>0. Streams /\ Queues /\ Threads
  BY TypeParts
<1> DEFINE l == sess[s].lease
<1>1. l \in Lease
  BY DEF Push, Finish, CancelAsr, Known
<1>2. ASSUME NEW c \in Command, Sendable(l), Enqueue(l, c)
      PROVE  /\ commands' \in [Lease -> Seq(Command)]
             /\ \A m \in Lease : Len(commands'[m]) <= Capacity
  BY <1>0, <1>1, <1>2, EnqueueTyped DEF Sendable
<1>3. CASE Push(s)
  <2>1. sess' \in [Session -> SessionType]
    BY <1>0, <1>3 DEF Push, Streams, SessionType
  <2>2. /\ commands' \in [Lease -> Seq(Command)]
        /\ \A m \in Lease : Len(commands'[m]) <= Capacity
    BY <1>0, <1>2, <1>3 DEF Push, Queues, Command
  <2> QED
    BY <1>0, <1>3, <2>1, <2>2 DEF Push, Streams, Queues, Threads
<1>4. CASE Finish(s)
  <2>1. sess' \in [Session -> SessionType] /\ slot' \in [Lease -> SlotType]
    BY <1>0, <1>4 DEF Finish, Streams, SessionType, SlotType
  <2>2. /\ commands' \in [Lease -> Seq(Command)]
        /\ \A m \in Lease : Len(commands'[m]) <= Capacity
    BY <1>0, <1>2, <1>4 DEF Finish, Queues, Command
  <2>3. pending' \in BOOLEAN
    BY <1>0, <1>4 DEF Finish, Threads
  <2> QED
    BY <1>0, <1>4, <2>1, <2>2, <2>3 DEF Finish, Streams, Queues, Threads
<1>5. CASE CancelAsr(s)
  <2>1. slot' \in [Lease -> SlotType]
    BY <1>0, <1>5 DEF CancelAsr, Streams, SlotType
  <2>2. \A c \in SUBSET Lease :
          [sess[s] EXCEPT !.mode = "None", !.lease = NoLease, !.cleanup = c]
             \in SessionType
    BY <1>0, SessionUpdates DEF Streams
  <2>6. sess[s].cleanup \in SUBSET Lease /\ sess[s].cleanup \cup {l} \in SUBSET Lease
    BY <1>0, <1>1 DEF Streams, SessionType
  <2>3. sess' \in [Session -> SessionType]
    BY <1>0, <1>5, <2>2, <2>6 DEF CancelAsr, Streams
  <2>4. /\ commands' \in [Lease -> Seq(Command)]
        /\ \A m \in Lease : Len(commands'[m]) <= Capacity
    BY <1>0, <1>2, <1>5 DEF CancelAsr, Queues, Command
  <2>5. pending' \in BOOLEAN
    BY <1>0, <1>5 DEF CancelAsr, Threads
  <2> QED
    BY <1>0, <1>5, <2>1, <2>3, <2>4, <2>5 DEF CancelAsr, Streams, Queues, Threads
<1> QED
  BY <1>3, <1>4, <1>5

(* A session that leaves has its type.                                     *)
LEMMA LeavingTyped ==
  ASSUME NEW r \in SessionType
  PROVE  Leaving(r) \in SessionType
BY DEF Leaving, SessionType, Lease, NoLease

(* The session's side of its mailbox keeps the types and the bound.        *)
LEMMA MailboxTyped ==
  ASSUME TypeOK, NEW s \in Session, Leave(s) \/ OnEvent(s)
  PROVE  Streams' /\ Queues' /\ Threads'
<1>0. Streams /\ Queues /\ Threads
  BY TypeParts
<1>c. Capacity \in Nat /\ Len(<<>>) = 0 /\ <<>> \in Seq(Event)
  BY AsrAssumption DEF AsrAssumption
<1>1. CASE Leave(s)
  <2>1. sess' \in [Session -> SessionType]
    BY <1>0, <1>1, LeavingTyped DEF Leave, Streams
  <2>2. route' \in [Session -> Seq(Event)] /\ \A t \in Session : Len(route'[t]) <= Capacity
    BY <1>0, <1>1, <1>c DEF Leave, Queues
  <2> QED
    BY <1>0, <1>1, <2>1, <2>2 DEF Leave, Streams, Queues, Threads
<1>2. CASE OnEvent(s)
  <2>1. Head(route[s]) \in Event /\ Tail(route[s]) \in Seq(Event)
        /\ Len(Tail(route[s])) <= Len(route[s])
    BY <1>0, <1>2, HeadTyped DEF OnEvent, Queues
  <2> DEFINE r == sess[s]
             e == Head(route[s])
  <2>2. /\ r \in SessionType /\ Leaving(r) \in SessionType
        /\ [r EXCEPT !.cleanup = r.cleanup \ {e.lease}] \in SessionType
        /\ [r EXCEPT !.mode = "None", !.lease = NoLease] \in SessionType
    <3>1. r \in SessionType
      BY <1>0 DEF Streams
    <3>2. r.cleanup \ {e.lease} \in SUBSET Lease
      BY <3>1 DEF SessionType
    <3> QED
      BY <3>1, <3>2, LeavingTyped, SessionUpdates
  <2>3. sess' \in [Session -> SessionType]
    BY <1>0, <1>2, <2>2 DEF OnEvent, Streams
  <2>4. \/ route' = [route EXCEPT ![s] = <<>>]
        \/ route' = [route EXCEPT ![s] = Tail(route[s])]
    BY <1>2 DEF OnEvent
  <2>5. Len(Tail(route[s])) \in Nat /\ Len(route[s]) \in Nat /\ Len(route[s]) <= Capacity
    BY <1>0, <2>1, LenProperties DEF Queues
  <2>6. route' \in [Session -> Seq(Event)] /\ \A t \in Session : Len(route'[t]) <= Capacity
    <3>1. Len(Tail(route[s])) <= Capacity /\ Len(<<>>) <= Capacity
      BY <1>c, <2>1, <2>5
    <3> QED
      BY <1>0, <1>c, <2>1, <2>4, <3>1 DEF Queues
  <2> QED
    BY <1>0, <1>2, <2>3, <2>6 DEF OnEvent, Streams, Queues, Threads
<1> QED
  BY <1>1, <1>2

(* The end of a stream, reported at once or deferred, keeps the types.     *)
LEMMA EndsTyped ==
  ASSUME Streams, Queues, NEW l \in Lease, NEW k \in Terminal, pending \in BOOLEAN,
         Ends(l, k)
  PROVE  /\ worker' \in [Lease -> WorkerType]
         /\ events' \in Seq(Event) /\ pending' \in BOOLEAN
<1>1. (pool.retained \/ k = "Cancelled") \in BOOLEAN
  OBVIOUS
<1>2. [worker[l] EXCEPT !.pc = "Returning", !.ended = k,
         !.deferred = (pool.retained \/ k = "Cancelled")] \in WorkerType
  BY <1>1 DEF Streams, WorkerType
<1>3. worker' \in [Lease -> WorkerType]
  BY <1>2 DEF Ends, Streams
<1>4. events' \in Seq(Event) /\ pending' \in BOOLEAN
  BY SendTyped DEF Ends, Queues
<1> QED
  BY <1>3, <1>4

(* Every step of a native thread keeps the types (run_worker).             *)
LEMMA WorkerTyped ==
  ASSUME TypeOK, Known, NEW l \in Lease, WorkerNext(l)
  PROVE  Streams' /\ Queues' /\ Threads'
<1>0. Streams /\ Queues /\ Threads
  BY TypeParts
<1>1. CASE WorkerOpens(l)
  <2>1. CASE Ends(l, "Failed")
    BY <1>0, <1>1, <2>1, EndsTyped DEF WorkerOpens, Streams, Queues, Threads, Terminal
  <2>2. CASE worker' = [worker EXCEPT ![l].pc = "Serving"] /\ Send(Ev("Opened", l))
    <3>1. events' \in Seq(Event) /\ pending' \in BOOLEAN
      BY <1>0, <2>2, SendTyped
    <3>2. worker' \in [Lease -> WorkerType]
      BY <1>0, <2>2 DEF Streams, WorkerType
    <3> QED
      BY <1>0, <1>1, <3>1, <3>2 DEF WorkerOpens, Streams, Queues, Threads
  <2> QED
    BY <1>1, <2>1, <2>2 DEF WorkerOpens
<1>2. CASE WorkerServes(l)
  <2>1. /\ worker' \in [Lease -> WorkerType]
        /\ events' \in Seq(Event) /\ pending' \in BOOLEAN
    BY <1>0, <1>2, EndsTyped DEF WorkerServes, Streams, Queues, Threads, Terminal
  <2>2. /\ Tail(commands[l]) \in Seq(Command) /\ <<>> \in Seq(Command)
        /\ Len(Tail(commands[l])) <= Len(commands[l]) /\ Len(<<>>) = 0
        /\ Len(commands[l]) \in Nat /\ Len(Tail(commands[l])) \in Nat
        /\ Len(commands[l]) <= Capacity /\ Capacity \in Nat
    BY <1>0, <1>2, HeadTyped, LenProperties, AsrAssumption
       DEF WorkerServes, Queues, AsrAssumption
  <2>3. /\ Len(Tail(commands[l])) <= Capacity /\ Len(<<>>) <= Capacity
    BY <2>2
  <2>4. /\ commands' \in [Lease -> Seq(Command)]
        /\ \A m \in Lease : Len(commands'[m]) <= Capacity
    <3>1. \/ commands' = [commands EXCEPT ![l] = Tail(commands[l])]
          \/ commands' = [commands EXCEPT ![l] = <<>>]
      BY <1>2 DEF WorkerServes
    <3> QED
      BY <1>0, <2>2, <2>3, <3>1 DEF Queues
  <2>5. pool' \in [retained : BOOLEAN, free : Nat, healthy : BOOLEAN]
    BY <1>0, <1>2 DEF WorkerServes, Streams
  <2> QED
    BY <1>0, <1>2, <2>1, <2>4, <2>5 DEF WorkerServes, Streams, Queues, Threads
<1>3. CASE WorkerReturns(l)
  <2>1. worker' \in [Lease -> WorkerType]
    BY <1>0, <1>3 DEF WorkerReturns, Streams, WorkerType
  <2>2. pool' \in [retained : BOOLEAN, free : Nat, healthy : BOOLEAN]
    <3>1. pool.free + 1 \in Nat
      BY <1>0 DEF Streams
    <3>2. /\ [pool EXCEPT !.free = pool.free + 1]
               \in [retained : BOOLEAN, free : Nat, healthy : BOOLEAN]
          /\ [pool EXCEPT !.healthy = FALSE]
               \in [retained : BOOLEAN, free : Nat, healthy : BOOLEAN]
      BY <1>0, <3>1 DEF Streams
    <3> QED
      BY <1>0, <1>3, <3>2 DEF WorkerReturns, Streams
  <2> QED
    BY <1>0, <1>3, <2>1, <2>2 DEF WorkerReturns, Streams, Queues, Threads
<1>4. CASE WorkerDropsPermit(l)
  <2>1. worker' \in [Lease -> WorkerType]
    BY <1>0, <1>4 DEF WorkerDropsPermit, Streams, WorkerType
  <2> QED
    BY <1>0, <1>4, <2>1 DEF WorkerDropsPermit, Streams, Queues, Threads
<1>5. CASE WorkerEnds(l)
  <2>1. [worker[l] EXCEPT !.pc = "Done", !.ended = "None", !.deferred = FALSE]
           \in WorkerType
    BY <1>0 DEF Streams, WorkerType
  <2>2. worker' \in [Lease -> WorkerType]
    BY <1>0, <1>5, <2>1 DEF WorkerEnds, Streams
  <2>3. worker[l].deferred => worker[l].ended # "None"
    BY DEF Known
  <2>4. events' \in Seq(Event) /\ pending' \in BOOLEAN
    BY <1>0, <1>5, <2>3, SendTyped DEF WorkerEnds, Streams, Queues, Threads, WorkerType
  <2> QED
    BY <1>0, <1>5, <2>2, <2>4 DEF WorkerEnds, Streams, Queues, Threads
<1> QED
  BY <1>1, <1>2, <1>3, <1>4, <1>5 DEF WorkerNext

(* Every step of the supervisor keeps the types, and routing the bound of  *)
(* the mailboxes (dispatch, reap_timeouts).                                *)
LEMMA SupervisorTyped ==
  ASSUME TypeOK, Known, SupervisorRuns \/ \E l \in Lease : SupervisorReaps(l)
  PROVE  Streams' /\ Queues' /\ Threads'
<1>0. Streams /\ Queues /\ Threads
  BY TypeParts
<1>1. CASE SupervisorTakes
  <2>1. Head(events) \in Event /\ Tail(events) \in Seq(Event)
    BY <1>0, <1>1, HeadTyped DEF SupervisorTakes, Queues
  <2>2. slot' \in [Lease -> SlotType]
    BY <1>0, <1>1 DEF SupervisorTakes, Streams, SlotType
  <2>3. sup' \in SupType
    <3>1. ASSUME NEW b \in BOOLEAN
          PROVE  [sup EXCEPT !.pc = "Route", !.hand = Head(events), !.back = "Drain",
                             !.releasing = b] \in SupType
      BY <1>0, <2>1 DEF Threads, SupType
    <3> DEFINE last == Removes(Head(events)) /\ ~ThreadHolds(Head(events).lease)
    <3>2. last \in BOOLEAN
      OBVIOUS
    <3> QED
      BY <1>1, <3>1, <3>2 DEF SupervisorTakes
  <2> QED
    BY <1>0, <1>1, <2>1, <2>2, <2>3 DEF SupervisorTakes, Streams, Queues, Threads
<1>2. CASE SupervisorRoutes
  <2> DEFINE t == worker[sup.hand.lease].session
  <2>1. sup' \in SupType
    BY <1>0, <1>2 DEF SupervisorRoutes, Threads, SupType
  <2>2. route' \in [Session -> Seq(Event)] /\ \A s \in Session : Len(route'[s]) <= Capacity
    <3>1. CASE route' = route
      BY <1>0, <3>1 DEF Queues
    <3>2. CASE route' = [route EXCEPT ![t] = Append(route[t], sup.hand)]
               /\ Len(route[t]) < Capacity
      <4>1. sup.hand \in Event
        BY <1>2 DEF Known, SupervisorRoutes
      <4>2. ASSUME t \in Session
            PROVE  /\ Append(route[t], sup.hand) \in Seq(Event)
                   /\ Len(Append(route[t], sup.hand)) = Len(route[t]) + 1
                   /\ Len(route[t]) \in Nat
        BY <1>0, <4>1, <4>2 DEF Queues
      <4>3. CASE t \in Session
        <5>1. Len(Append(route[t], sup.hand)) <= Capacity
          BY <3>2, <4>2, <4>3, AsrAssumption DEF AsrAssumption
        <5> QED
          BY <1>0, <3>2, <4>2, <4>3, <5>1 DEF Queues
      <4>4. CASE t \notin Session
        BY <1>0, <3>2, <4>4 DEF Queues
      <4> QED
        BY <4>3, <4>4
    <3> QED
      BY <1>2, <3>1, <3>2 DEF SupervisorRoutes
  <2> QED
    BY <1>0, <1>2, <2>1, <2>2 DEF SupervisorRoutes, Streams, Queues, Threads
<1>3. CASE SupervisorDrained
  BY <1>0, <1>3 DEF SupervisorDrained, Streams, Queues, Threads, SupType
<1>4. CASE SupervisorSettles
  BY <1>0, <1>4 DEF SupervisorSettles, Streams, Queues, Threads, SupType
<1>5. CASE SupervisorWakes
  BY <1>0, <1>5 DEF SupervisorWakes, Streams, Queues, Threads, SupType
<1>6. ASSUME NEW l \in Lease, SupervisorReaps(l)
      PROVE  Streams' /\ Queues' /\ Threads'
  <2>1. slot' \in [Lease -> SlotType]
    BY <1>0, <1>6 DEF SupervisorReaps, Streams, SlotType
  <2>2. sup' \in SupType
    <3>1. ASSUME NEW k \in TimedOut
          PROVE  [sup EXCEPT !.pc = "Route", !.back = "Reap", !.hand = Ev(k, l)]
                   \in SupType
      BY <1>0, <3>1 DEF Threads, SupType, Ev, Event
    <3> QED
      BY <1>6, <3>1 DEF SupervisorReaps, TimedOut
  <2> QED
    BY <1>0, <1>6, <2>1, <2>2 DEF SupervisorReaps, Streams, Queues, Threads
<1> QED
  BY <1>1, <1>2, <1>3, <1>4, <1>5, <1>6 DEF SupervisorRuns

(* Diagnostic, shutdown and the drop of permits keep the types.            *)
LEMMA RuntimeTyped ==
  ASSUME TypeOK, DiagnosticNext \/ CloseThreads \/ Retire \/ ReleaseGate
  PROVE  Streams' /\ Queues' /\ Threads'
<1>0. Streams /\ Queues /\ Threads
  BY TypeParts
<1> DEFINE PoolType == [retained : BOOLEAN, free : Nat, healthy : BOOLEAN]
<1>1. /\ pool \in PoolType /\ [pool EXCEPT !.free = 0] \in PoolType
      /\ [pool EXCEPT !.free = pool.free + 1] \in PoolType
      /\ [pool EXCEPT !.healthy = FALSE] \in PoolType
      /\ pool.free > 0 => [pool EXCEPT !.free = pool.free - 1] \in PoolType
  <2>1. pool \in PoolType /\ pool.free \in Nat
    BY <1>0 DEF Streams
  <2>2. \A n \in Nat : [pool EXCEPT !.free = n] \in PoolType
    BY <2>1
  <2>3. [pool EXCEPT !.healthy = FALSE] \in PoolType
    BY <2>1
  <2>4. pool.free + 1 \in Nat /\ (pool.free > 0 => pool.free - 1 \in Nat)
    BY <2>1
  <2> QED
    BY <2>1, <2>2, <2>3, <2>4
<1>2. CASE DiagnosticAdmits
  BY <1>0, <1>2 DEF DiagnosticAdmits, asrButDiag, Streams, Queues, Threads
<1>3. CASE DiagnosticOpens
  BY <1>0, <1>1, <1>3 DEF DiagnosticOpens, asrButDiag, Streams, Queues, Threads
<1>4. CASE DiagnosticCloses
  BY <1>0, <1>1, <1>4 DEF DiagnosticCloses, asrButDiag, Streams, Queues, Threads
<1>5. CASE DiagnosticDropsPermit
  BY <1>0, <1>5 DEF DiagnosticDropsPermit, asrButDiag, Streams, Queues, Threads
<1>6. CASE CloseThreads
  BY <1>0, <1>6 DEF CloseThreads, Streams, Queues, Threads
<1>7. CASE Retire
  BY <1>0, <1>1, <1>7 DEF Retire, Streams, Queues, Threads
<1>8. CASE ReleaseGate
  BY <1>0, <1>8 DEF ReleaseGate, asrVars, Streams, Queues, Threads
<1> QED
  BY <1>2, <1>3, <1>4, <1>5, <1>6, <1>7, <1>8 DEF DiagnosticNext
-----------------------------------------------------------------------------
(* The protocol: the runtime touches the admission state only by admitting, *)
(* disowning and releasing permits.                                        *)
LEMMA LeasesArePermits == Lease \subseteq Permit /\ DiagnosticPermit \in Permit
BY AsrAssumption DEF AsrAssumption

(* Every step of the runtime is a step of ProviderAdmission or none.       *)
LEMMA ProtocolFollowed ==
  ASSUME TypeOK, Known, [Next]_vars
  PROVE  [AdmissionNext]_admissionVars
<1>0. Streams /\ Queues /\ Threads
  BY TypeParts
<1> USE LeasesArePermits
<1>v. /\ \A s \in Session : ViewOf[s] \in View
      /\ RuntimeView \in View
  BY AsrAssumption DEF AsrAssumption
<1>1. ASSUME NEW p \in Permit, NEW v \in View, NEW c \in Workload, Admit(p, v, c)
      PROVE  AdmissionNext
  BY <1>1 DEF AdmissionNext
<1>2. ASSUME NEW p \in Permit, Disown(p) PROVE AdmissionNext
  BY <1>2 DEF AdmissionNext
<1>3. ASSUME NEW s \in Session, SessionNext(s)
      PROVE  [AdmissionNext]_admissionVars
  <2>1. CASE OpenAdmit(s)
    BY <2>1, <1>1, <1>v DEF OpenAdmit, Workload
  <2>2. CASE OpenRefused(s)
    BY <2>2, <1>2 DEF OpenRefused, Known
  <2>3. CASE OpenSlot(s) \/ OpenReturns(s) \/ Push(s) \/ Finish(s) \/ CancelAsr(s)
             \/ Leave(s) \/ OnEvent(s)
    BY <2>3 DEF OpenSlot, OpenReturns, Push, Finish, CancelAsr, Leave, OnEvent
  <2> QED
    BY <1>3, <2>1, <2>2, <2>3 DEF SessionNext
<1>4. ASSUME NEW l \in Lease, WorkerNext(l) \/ SupervisorReaps(l)
      PROVE  [AdmissionNext]_admissionVars
  <2>1. CASE WorkerDropsPermit(l)
    BY <2>1, <1>2 DEF WorkerDropsPermit
  <2>2. CASE WorkerOpens(l) \/ WorkerServes(l) \/ WorkerReturns(l) \/ WorkerEnds(l)
             \/ SupervisorReaps(l)
    BY <2>2 DEF WorkerOpens, WorkerServes, WorkerReturns, WorkerEnds, SupervisorReaps
  <2> QED
    BY <1>4, <2>1, <2>2 DEF WorkerNext
<1>5. CASE SupervisorRuns
  <2>1. CASE SupervisorTakes
    <3>1. Head(events).lease \in Lease
      BY <1>0, <2>1, HeadTyped DEF SupervisorTakes, Queues, Event
    <3> QED
      BY <2>1, <3>1, <1>2 DEF SupervisorTakes
  <2>2. CASE SupervisorRoutes \/ SupervisorDrained \/ SupervisorSettles \/ SupervisorWakes
    BY <2>2 DEF SupervisorRoutes, SupervisorDrained, SupervisorSettles, SupervisorWakes
  <2> QED
    BY <1>5, <2>1, <2>2 DEF SupervisorRuns
<1>6. CASE DiagnosticNext
  <2>1. CASE DiagnosticAdmits
    BY <2>1, <1>1, <1>v DEF DiagnosticAdmits, Workload
  <2>2. CASE DiagnosticDropsPermit
    BY <2>2, <1>2 DEF DiagnosticDropsPermit
  <2>3. CASE DiagnosticOpens \/ DiagnosticCloses
    BY <2>3 DEF DiagnosticOpens, DiagnosticCloses
  <2> QED
    BY <1>6, <2>1, <2>2, <2>3 DEF DiagnosticNext
<1>7. CASE CloseThreads \/ Retire \/ UNCHANGED vars
  BY <1>7 DEF CloseThreads, Retire, vars
<1>8. CASE ReleaseGate
  BY <1>8 DEF ReleaseGate, AdmissionNext
<1> QED
  BY <1>3, <1>4, <1>5, <1>6, <1>7, <1>8 DEF Next

(* Leaving keeps the stream, to be given up.                               *)
LEMMA LeavingKnown ==
  ASSUME NEW r \in SessionType
  PROVE  /\ Leaving(r).lease = r.lease
         /\ Leaving(r).mode \in {"None", "GivingUp"}
         /\ Leaving(r).mode # "None" <=> r.lease # NoLease
BY DEF Leaving, SessionType

(* Every step preserves Known.                                             *)
LEMMA KnownKept ==
  ASSUME TypeOK, Known, [Next]_vars
  PROVE  Known'
<1>0. Streams /\ Queues /\ Threads
  BY TypeParts
<1>n. nextLease \in Nat /\ \A l \in Lease : l \in Nat /\ l # NoLease
  BY <1>0, AsrAssumption DEF Streams, Lease, NoLease, AsrAssumption
<1>1. ASSUME NEW s \in Session, SessionNext(s) PROVE Known'
  <2>1. CASE OpenAdmit(s)
    BY <2>1, <1>0, <1>n DEF OpenAdmit, Known, Streams, SessionType
  <2>2. CASE OpenSlot(s)
    <3> DEFINE l == sess[s].lease
    <3>1. l \in Lease /\ l < nextLease
      BY <2>2 DEF OpenSlot, Known
    <3>2. \A m \in Lease : m # l => slot'[m] = slot[m] /\ worker'[m] = worker[m]
      BY <2>2, <1>0 DEF OpenSlot, Streams
    <3>3. worker'[l].deferred = worker[l].deferred /\ worker'[l].ended = worker[l].ended
      BY <2>2, <3>1, <1>0 DEF OpenSlot, Streams, WorkerType
    <3>4. \A m \in Lease : m >= nextLease => m # l
      BY <3>1, <1>n
    <3>5. \A t \in Session : sess'[t].lease = sess[t].lease
                             /\ (sess'[t].mode # "None" <=> sess[t].mode # "None")
      BY <2>2, <1>0 DEF OpenSlot, Streams, SessionType
    <3>6. UNCHANGED <<nextLease, sup>>
      BY <2>2 DEF OpenSlot
    <3> QED
      BY <3>2, <3>3, <3>4, <3>5, <3>6 DEF Known
  <2>3. CASE OpenRefused(s) \/ Push(s) \/ Finish(s)
    <3>1. \A t \in Session : sess'[t].lease = sess[t].lease
                             /\ (sess'[t].mode # "None" <=> sess[t].mode # "None")
      BY <2>3, <1>0 DEF OpenRefused, Push, Finish, Streams, SessionType
    <3>2. \A m \in Lease : slot[m] = "None" => slot'[m] = "None"
      BY <2>3, <1>0 DEF OpenRefused, Push, Finish, Sendable, Streams
    <3>3. UNCHANGED <<nextLease, sup, worker>>
      BY <2>3 DEF OpenRefused, Push, Finish
    <3> QED
      BY <3>1, <3>2, <3>3 DEF Known
  <2>4. CASE OpenReturns(s)
    <3>1. /\ \A t \in Session : t # s => sess'[t] = sess[t]
          /\ sess'[s].mode = "None" /\ sess'[s].lease = NoLease
      BY <2>4, <1>0 DEF OpenReturns, Streams, SessionType
    <3>2. UNCHANGED <<nextLease, sup, worker, slot>>
      BY <2>4 DEF OpenReturns
    <3> QED
      BY <3>1, <3>2 DEF Known
  <2>6. CASE CancelAsr(s)
    <3> DEFINE l == sess[s].lease
    <3>1. \A m \in Lease : slot[m] = "None" => slot'[m] = "None"
      BY <2>6, <1>0 DEF CancelAsr, Sendable, Streams
    <3>2. \A t \in Session : sess'[t].mode # "None" =>
            sess[t].mode # "None" /\ sess'[t].lease = sess[t].lease
      <4>1. sess'[s].mode = "None" /\ \A t \in Session : t # s => sess'[t] = sess[t]
        BY <2>6, <1>0 DEF CancelAsr, Streams, SessionType
      <4> QED
        BY <4>1
    <3>3. UNCHANGED <<nextLease, sup, worker>>
      BY <2>6 DEF CancelAsr
    <3>4. /\ \A t \in Session : t # s => sess'[t] = sess[t]
          /\ sess'[s].lease = NoLease
      BY <2>6, <1>0 DEF CancelAsr, Streams, SessionType
    <3> QED
      BY <3>1, <3>2, <3>3, <3>4 DEF Known
  <2>7. CASE Leave(s)
    <3>1. /\ \A t \in Session : t # s => sess'[t] = sess[t]
          /\ sess'[s] = Leaving(sess[s]) /\ sess[s] \in SessionType
      BY <2>7, <1>0 DEF Leave, Streams
    <3>2. UNCHANGED <<nextLease, sup, worker, slot>>
      BY <2>7 DEF Leave
    <3> QED
      BY <3>1, <3>2, LeavingKnown DEF Known
  <2>8. CASE OnEvent(s)
    <3>1. /\ \A t \in Session : t # s => sess'[t] = sess[t]
          /\ sess[s] \in SessionType
      BY <2>8, <1>0 DEF OnEvent, Streams
    <3>2. \/ sess'[s] = Leaving(sess[s])
          \/ sess'[s].lease = sess[s].lease /\ sess'[s].mode = sess[s].mode
          \/ sess'[s].lease = NoLease /\ sess'[s].mode = "None"
      BY <2>8, <1>0 DEF OnEvent, Streams, SessionType
    <3>3. UNCHANGED <<nextLease, sup, worker, slot>>
      BY <2>8 DEF OnEvent
    <3>4. sess[s].lease # NoLease => sess[s].mode # "None"
      BY DEF Known
    <3> QED
      BY <3>1, <3>2, <3>3, <3>4, LeavingKnown DEF Known
  <2> QED
    BY <1>1, <2>1, <2>2, <2>3, <2>4, <2>6, <2>7, <2>8 DEF SessionNext
<1>2. ASSUME NEW l \in Lease, WorkerNext(l) PROVE Known'
  <2>1. /\ \A m \in Lease : worker'[m].pc = "None" \/ worker[m].pc # "None"
        /\ worker[l].pc # "None"
        /\ \A m \in Lease : worker'[m].deferred => worker'[m].ended # "None"
        /\ UNCHANGED <<sess, nextLease, slot, sup>>
    <3>1. CASE WorkerOpens(l) \/ WorkerServes(l)
      <4>1. ASSUME NEW k \in Terminal, Ends(l, k)
            PROVE  /\ worker'[l].pc # "None" /\ worker'[l].ended # "None"
                   /\ \A m \in Lease : m # l => worker'[m] = worker[m]
        BY <4>1, <1>0 DEF Ends, Streams, WorkerType, Terminal
      <4>2. CASE WorkerOpens(l)
        BY <4>1, <4>2, <1>0 DEF WorkerOpens, Known, Streams, WorkerType, Terminal
      <4>3. CASE WorkerServes(l)
        BY <4>1, <4>3, <1>0 DEF WorkerServes, Known, Streams, WorkerType, Terminal
      <4> QED
        BY <3>1, <4>2, <4>3
    <3>2. CASE WorkerReturns(l)
      BY <3>2, <1>0 DEF WorkerReturns, Known, Streams, WorkerType
    <3>3. CASE WorkerDropsPermit(l)
      BY <3>3, <1>0 DEF WorkerDropsPermit, Known, Streams, WorkerType
    <3>4. CASE WorkerEnds(l)
      BY <3>4, <1>0 DEF WorkerEnds, Known, Streams, WorkerType
    <3> QED
      BY <1>2, <3>1, <3>2, <3>3, <3>4 DEF WorkerNext
  <2> QED
    BY <2>1 DEF Known
<1>3. ASSUME NEW l \in Lease, SupervisorReaps(l) PROVE Known'
  BY <1>3, <1>0, <1>n DEF SupervisorReaps, Armed, Known, Streams, Ev, Event, TimedOut,
                          Threads, SupType
<1>4. CASE SupervisorRuns
  <2>1. CASE SupervisorTakes
    <3>1. Head(events) \in Event
      BY <1>0, <2>1, HeadTyped DEF SupervisorTakes, Queues
    <3>2. sup'.hand \in Event
      BY <1>0, <2>1, <3>1 DEF SupervisorTakes, Threads, SupType
    <3>3. \A m \in Lease : slot[m] = "None" => slot'[m] = "None"
      BY <1>0, <2>1 DEF SupervisorTakes, Streams
    <3> QED
      BY <2>1, <3>2, <3>3 DEF SupervisorTakes, Known
  <2>2. CASE SupervisorRoutes \/ SupervisorDrained \/ SupervisorSettles
             \/ SupervisorWakes
    <3>1. sup'.pc # "Route"
      BY <1>0, <2>2 DEF SupervisorRoutes, SupervisorDrained, SupervisorSettles,
                        SupervisorWakes, Threads, SupType
    <3>2. UNCHANGED <<sess, nextLease, slot, worker>>
      BY <2>2 DEF SupervisorRoutes, SupervisorDrained, SupervisorSettles, SupervisorWakes
    <3> QED
      BY <3>1, <3>2 DEF Known
  <2> QED
    BY <1>4, <2>1, <2>2 DEF SupervisorRuns
<1>5. CASE DiagnosticNext \/ CloseThreads \/ Retire \/ ReleaseGate \/ UNCHANGED vars
  BY <1>5 DEF DiagnosticNext, DiagnosticAdmits, DiagnosticOpens, DiagnosticCloses,
     DiagnosticDropsPermit, CloseThreads, Retire, ReleaseGate, asrButDiag, asrVars, vars, Known
<1> QED
  BY <1>1, <1>2, <1>3, <1>4, <1>5 DEF Next

-----------------------------------------------------------------------------
(* What is paid for.  An open that was admitted owns its permit, and its   *)
(* stream is nobody else's; a slot, and a thread with a recognizer, have   *)
(* the permit of the view their session opened through; so has the         *)
(* diagnostic; and a retired runtime has no such work at all.              *)
Counted(p, v) == permit[p].held /\ permit[p].gates = GatesOf[v]

OpenPaid ==
  /\ \A s \in Session : sess[s].mode = "Opening" =>
       /\ slot[sess[s].lease] = "None" /\ worker[sess[s].lease].pc = "None"
       /\ Counted(sess[s].lease, ViewOf[s])
  /\ \A s, t \in Session :
       sess[s].mode = "Opening" /\ sess[t].mode = "Opening"
         /\ sess[s].lease = sess[t].lease => s = t
WorkPaid ==
  \A l \in Lease : Engaged(l) \/ slot[l] # "None" =>
    Counted(l, ViewOf[worker[l].session])
DiagnosticPaid ==
  diag # "Idle" => /\ Counted(DiagnosticPermit, RuntimeView)
                   /\ permit[DiagnosticPermit].class = "Diagnostic"
RetiredWorkless ==
  life = "Retired" =>
    /\ \A l \in Lease : worker[l].pc \in {"None", "Done"} /\ slot[l] = "None"
    /\ diag = "Idle"

Paid == OpenPaid /\ WorkPaid /\ DiagnosticPaid /\ RetiredWorkless

(* Steps that neither admit nor disown, open nothing and start nothing.    *)
LEMMA QuietPaid ==
  ASSUME TypeOK, Known, Paid,
         \A p \in Permit : permit[p].held => permit'[p] = permit[p],
         \A s \in Session : sess'[s].mode = "Opening" =>
           sess[s].mode = "Opening" /\ sess'[s].lease = sess[s].lease,
         \A l \in Lease :
           /\ slot'[l] # "None" => slot[l] # "None"
           /\ worker'[l].session = worker[l].session
           /\ Engaged(l)' => Engaged(l)
           /\ worker[l].pc = "None" => worker'[l].pc = "None"
           /\ worker[l].pc = "Done" => worker'[l].pc = "Done",
         diag' # "Idle" => diag # "Idle",
         life' = "Retired" => life = "Retired"
  PROVE  Paid'
<1>1. OpenPaid'
  <2>1. ASSUME NEW s \in Session, sess'[s].mode = "Opening"
        PROVE  /\ sess[s].mode = "Opening" /\ sess'[s].lease = sess[s].lease
               /\ sess[s].lease \in Lease /\ sess[s].lease \in Permit
    BY <2>1, LeasesArePermits DEF Known
  <2>2. ASSUME NEW s \in Session, sess'[s].mode = "Opening"
        PROVE  /\ slot'[sess[s].lease] = "None" /\ worker'[sess[s].lease].pc = "None"
               /\ Counted(sess[s].lease, ViewOf[s])'
    BY <2>2, <2>1 DEF Paid, OpenPaid, Counted
  <2> QED
    BY <2>1, <2>2 DEF Paid, OpenPaid, Counted
<1>2. WorkPaid'
  BY LeasesArePermits DEF Paid, WorkPaid, Counted
<1>3. DiagnosticPaid'
  BY LeasesArePermits DEF Paid, DiagnosticPaid, Counted
<1>4. RetiredWorkless'
  BY DEF Paid, RetiredWorkless
<1> QED
  BY <1>1, <1>2, <1>3, <1>4 DEF Paid

(* Admission pays for a stream nobody else has.                            *)
LEMMA AdmitPaid ==
  ASSUME TypeOK, Known, Paid, NEW s \in Session, OpenAdmit(s)
  PROVE  Paid'
<1>0. Streams /\ AdmissionType
  BY TypeParts
<1> DEFINE n == nextLease
<1>1. /\ n \in Lease /\ n \in Permit /\ n # DiagnosticPermit
      /\ slot[n] = "None" /\ worker[n].pc = "None"
      /\ sess[s].mode = "None" /\ permit[n] = NoPermit
  BY <1>0, LeasesArePermits DEF OpenAdmit, Known, Streams, Lease, DiagnosticPermit, Admit
<1>2. /\ permit'[n] = [class |-> "Voice", held |-> TRUE, gates |-> GatesOf[ViewOf[s]]]
      /\ \A p \in Permit : p # n => permit'[p] = permit[p]
  BY <1>0, <1>1 DEF OpenAdmit, Admit, AdmissionType
<1>3. /\ sess'[s].mode = "Opening" /\ sess'[s].lease = n
      /\ \A t \in Session : t # s => sess'[t] = sess[t]
  BY <1>0 DEF OpenAdmit, Streams, SessionType
<1>4. \A t \in Session : sess[t].mode = "Opening" =>
        sess[t].lease # n /\ sess[t].lease \in Permit
  BY <1>1, LeasesArePermits DEF Paid, OpenPaid, Counted, NoPermit, Known
<1>5. UNCHANGED <<slot, worker, diag, life>>
  BY DEF OpenAdmit
<1>6. OpenPaid'
  <2>1. ASSUME NEW t \in Session, sess'[t].mode = "Opening"
        PROVE  /\ slot'[sess'[t].lease] = "None" /\ worker'[sess'[t].lease].pc = "None"
               /\ Counted(sess[t].lease, ViewOf[t])'
    BY <2>1, <1>1, <1>2, <1>3, <1>4, <1>5 DEF Paid, OpenPaid, Counted
  <2>2. ASSUME NEW t \in Session, NEW u \in Session, sess'[t].mode = "Opening",
               sess'[u].mode = "Opening", sess'[t].lease = sess'[u].lease
        PROVE  t = u
    BY <2>2, <1>3, <1>4 DEF Paid, OpenPaid
  <2> QED
    BY <2>1, <2>2 DEF OpenPaid
<1>7. WorkPaid'
  BY <1>1, <1>2, <1>5, LeasesArePermits DEF Paid, WorkPaid, Counted, Engaged
<1>8. DiagnosticPaid' /\ RetiredWorkless'
  BY <1>1, <1>2, <1>5, LeasesArePermits
     DEF Paid, DiagnosticPaid, RetiredWorkless, Counted
<1> QED
  BY <1>6, <1>7, <1>8 DEF Paid

(* The slot and the thread take over the permit of the open.               *)
LEMMA OpenSlotPaid ==
  ASSUME TypeOK, Known, Paid, NEW s \in Session, OpenSlot(s)
  PROVE  Paid'
<1>0. Streams /\ AdmissionType
  BY TypeParts
<1> DEFINE n == sess[s].lease
<1>1. n \in Lease /\ Counted(n, ViewOf[s]) /\ life = "Open"
  BY DEF OpenSlot, SlotAvailable, Known, Paid, OpenPaid
<1>2. /\ \A t \in Session : sess'[t].lease = sess[t].lease
      /\ \A t \in Session : sess'[t].mode = "Opening" => sess[t].mode = "Opening" /\ t # s
  BY <1>0 DEF OpenSlot, Streams, SessionType
<1>3. /\ \A l \in Lease : l # n => slot'[l] = slot[l] /\ worker'[l] = worker[l]
      /\ worker'[n].session = s
  BY <1>0, <1>1 DEF OpenSlot, Streams, WorkerType
<1>4. UNCHANGED <<permit, diag, life>>
  BY DEF OpenSlot, admissionVars
<1>5. \A t \in Session : sess'[t].mode = "Opening" =>
        sess[t].lease # n /\ sess[t].lease \in Lease
  BY <1>2 DEF Paid, OpenPaid, OpenSlot, Known
<1>6. OpenPaid'
  <2>1. ASSUME NEW t \in Session, sess'[t].mode = "Opening"
        PROVE  /\ slot'[sess'[t].lease] = "None" /\ worker'[sess'[t].lease].pc = "None"
               /\ Counted(sess[t].lease, ViewOf[t])'
    BY <2>1, <1>2, <1>3, <1>4, <1>5 DEF Paid, OpenPaid, Counted
  <2> QED
    BY <2>1, <1>2 DEF Paid, OpenPaid
<1>7. WorkPaid'
  BY <1>1, <1>3, <1>4 DEF Paid, WorkPaid, Counted, Engaged
<1>8. DiagnosticPaid' /\ RetiredWorkless'
  BY <1>1, <1>4 DEF Paid, DiagnosticPaid, RetiredWorkless, Counted
<1> QED
  BY <1>6, <1>7, <1>8 DEF Paid

(* The permit of a stream nobody works for any more is dropped.            *)
LEMMA DisownPaid ==
  ASSUME TypeOK, Known, Paid, NEW n \in Lease, Disown(n),
         ~Engaged(n)', slot'[n] = "None",
         \A s \in Session : sess'[s].mode = "Opening" =>
           sess[s].mode = "Opening" /\ sess'[s] = sess[s] /\ sess[s].lease # n,
         \A l \in Lease :
           /\ slot'[l] # "None" => slot[l] # "None"
           /\ worker'[l].session = worker[l].session
           /\ Engaged(l)' => Engaged(l)
           /\ worker[l].pc = "None" => worker'[l].pc = "None"
           /\ worker[l].pc = "Done" => worker'[l].pc = "Done",
         diag' = diag, life' = life
  PROVE  Paid'
<1>0. AdmissionType
  BY TypeParts
<1>1. \A p \in Permit : p # n => permit'[p] = permit[p]
  BY <1>0 DEF Disown, AdmissionType
<1>2. n # DiagnosticPermit
  BY AsrAssumption DEF Lease, DiagnosticPermit, AsrAssumption
<1>3. OpenPaid'
  <2>1. ASSUME NEW s \in Session, sess'[s].mode = "Opening"
        PROVE  /\ sess[s].mode = "Opening" /\ sess'[s] = sess[s]
               /\ sess[s].lease \in Lease /\ sess[s].lease \in Permit
               /\ sess[s].lease # n
    BY <2>1, LeasesArePermits DEF Known
  <2>2. ASSUME NEW s \in Session, sess'[s].mode = "Opening"
        PROVE  /\ slot'[sess[s].lease] = "None" /\ worker'[sess[s].lease].pc = "None"
               /\ Counted(sess[s].lease, ViewOf[s])'
    BY <2>2, <2>1, <1>1 DEF Paid, OpenPaid, Counted
  <2> QED
    BY <2>1, <2>2 DEF Paid, OpenPaid, Counted
<1>4. WorkPaid'
  BY <1>1, LeasesArePermits DEF Paid, WorkPaid, Counted
<1>5. DiagnosticPaid' /\ RetiredWorkless'
  BY <1>1, <1>2, LeasesArePermits DEF Paid, DiagnosticPaid, RetiredWorkless, Counted
<1> QED
  BY <1>3, <1>4, <1>5 DEF Paid

(* Every call of a session preserves Paid.                                 *)
LEMMA SessionPaid ==
  ASSUME TypeOK, Known, Paid, NEW s \in Session, SessionNext(s)
  PROVE  Paid'
<1>0. Streams /\ Queues /\ Threads /\ AdmissionType
  BY TypeParts
<1>1. CASE OpenAdmit(s)
  BY <1>1, AdmitPaid
<1>2. CASE OpenSlot(s)
  BY <1>2, OpenSlotPaid
<1>3. CASE OpenRefused(s)
  <2>1. sess[s].lease \in Lease /\ Disown(sess[s].lease)
    BY <1>3 DEF OpenRefused, Known
  <2>2. /\ \A t \in Session : t # s => sess'[t] = sess[t]
        /\ sess'[s].mode = "Refused"
    BY <1>0, <1>3 DEF OpenRefused, Streams, SessionType
  <2>3. slot[sess[s].lease] = "None" /\ worker[sess[s].lease].pc = "None"
    BY <1>3 DEF OpenRefused, Paid, OpenPaid
  <2>4. \A t \in Session : sess'[t].mode = "Opening" =>
          sess[t].mode = "Opening" /\ sess'[t] = sess[t] /\ sess[t].lease # sess[s].lease
    BY <1>3, <2>2 DEF OpenRefused, Paid, OpenPaid
  <2>5. UNCHANGED <<slot, worker, diag, life>>
    BY <1>3 DEF OpenRefused
  <2> QED
    BY <2>1, <2>3, <2>4, <2>5, DisownPaid DEF Engaged
<1>4. CASE OpenReturns(s) \/ Push(s) \/ Finish(s) \/ CancelAsr(s) \/ Leave(s) \/ OnEvent(s)
  <2>1. UNCHANGED <<permit, worker, diag, life>>
    BY <1>4 DEF OpenReturns, Push, Finish, CancelAsr, Leave, OnEvent, admissionVars
  <2>2. \A l \in Lease : slot'[l] # "None" => slot[l] # "None"
    BY <1>0, <1>4 DEF OpenReturns, Push, Finish, CancelAsr, Leave, OnEvent, Sendable, Streams
  <2>3. \A t \in Session : t # s => sess'[t] = sess[t]
    BY <1>0, <1>4 DEF OpenReturns, Push, Finish, CancelAsr, Leave, OnEvent, Streams
  <2>4. sess'[s].mode # "Opening"
    <3>1. CASE Push(s) \/ Finish(s)
      BY <1>0, <3>1 DEF Push, Finish, Streams, SessionType
    <3>4. CASE OpenReturns(s)
      BY <1>0, <3>4 DEF OpenReturns, Streams, SessionType
    <3>3. CASE CancelAsr(s)
      <4>1. sess[s] \in SessionType
        BY <1>0 DEF Streams
      <4>2. \A c : [sess[s] EXCEPT !.mode = "None", !.lease = NoLease,
                                   !.cleanup = c].mode = "None"
        BY <4>1 DEF SessionType
      <4> QED
        BY <1>0, <3>3, <4>2 DEF CancelAsr, Streams
    <3>2. CASE Leave(s) \/ OnEvent(s)
      <4>1. sess[s] \in SessionType
        BY <1>0 DEF Streams
      <4>2. Leaving(sess[s]).mode # "Opening"
        BY <4>1, LeavingKnown
      <4>3. sess'[s] = Leaving(sess[s]) \/ sess'[s].mode \in {sess[s].mode, "None"}
        <5>1. CASE Leave(s)
          BY <1>0, <5>1 DEF Leave, Streams
        <5>2. CASE OnEvent(s)
          <6>1. /\ \A c : [sess[s] EXCEPT !.cleanup = c].mode = sess[s].mode
                /\ [sess[s] EXCEPT !.mode = "None", !.lease = NoLease].mode = "None"
            BY <4>1 DEF SessionType
          <6> QED
            BY <1>0, <5>2, <6>1 DEF OnEvent, Streams
        <5> QED
          BY <3>2, <5>1, <5>2
      <4>4. sess[s].mode # "Opening"
        BY <3>2 DEF Leave, OnEvent
      <4> QED
        BY <4>2, <4>3, <4>4
    <3> QED
      BY <1>4, <3>1, <3>2, <3>3, <3>4
  <2> QED
    BY <2>1, <2>2, <2>3, <2>4, QuietPaid DEF Engaged
<1> QED
  BY <1>1, <1>2, <1>3, <1>4 DEF SessionNext

(* Every step of a native thread preserves Paid: it lets go of the permit  *)
(* only after the recognizer, and drops it only when the slot is gone.     *)
LEMMA WorkerPaid ==
  ASSUME TypeOK, Known, Paid, NEW l \in Lease, WorkerNext(l)
  PROVE  Paid'
<1>0. Streams /\ Queues /\ Threads /\ AdmissionType
  BY TypeParts
<1>1. /\ UNCHANGED <<sess, slot, diag, life>>
      /\ \A m \in Lease : m # l => worker'[m] = worker[m]
      /\ worker[l].pc \notin {"None", "Done"}
      /\ worker'[l].session = worker[l].session
      /\ Engaged(l)' => Engaged(l)
  <2>1. ASSUME NEW k \in Terminal, Ends(l, k)
        PROVE  /\ worker'[l].session = worker[l].session
               /\ \A m \in Lease : m # l => worker'[m] = worker[m]
    BY <2>1, <1>0 DEF Ends, Streams, WorkerType
  <2>2. CASE WorkerOpens(l)
    BY <2>1, <2>2, <1>0 DEF WorkerOpens, Streams, WorkerType, Terminal, Engaged
  <2>3. CASE WorkerServes(l)
    BY <2>1, <2>3, <1>0 DEF WorkerServes, Streams, WorkerType, Terminal, Engaged
  <2>4. CASE WorkerReturns(l)
    BY <2>4, <1>0 DEF WorkerReturns, Streams, WorkerType, Engaged
  <2>5. CASE WorkerDropsPermit(l)
    BY <2>5, <1>0 DEF WorkerDropsPermit, Streams, WorkerType, Engaged
  <2>6. CASE WorkerEnds(l)
    BY <2>6, <1>0 DEF WorkerEnds, Streams, WorkerType, Engaged
  <2> QED
    BY <2>2, <2>3, <2>4, <2>5, <2>6 DEF WorkerNext
<1>2. \A m \in Lease : /\ worker'[m].session = worker[m].session
                       /\ Engaged(m)' => Engaged(m)
                       /\ worker[m].pc = "None" => worker'[m].pc = "None"
                       /\ worker[m].pc = "Done" => worker'[m].pc = "Done"
  BY <1>1 DEF Engaged
<1>3. CASE UNCHANGED permit
  BY <1>1, <1>2, <1>3, QuietPaid
<1>4. CASE WorkerDropsPermit(l) /\ Disown(l)
  <2>1. slot[l] = "None" \/ UNCHANGED permit
    BY <1>4 DEF WorkerDropsPermit, admissionVars
  <2>2. ~Engaged(l)'
    BY <1>0, <1>4 DEF WorkerDropsPermit, Engaged, Streams, WorkerType
  <2>3. \A s \in Session : sess[s].mode = "Opening" => sess[s].lease # l
    BY <1>1 DEF Paid, OpenPaid
  <2> QED
    BY <1>1, <1>2, <1>3, <1>4, <2>1, <2>2, <2>3, DisownPaid
<1> QED
  BY <1>3, <1>4 DEF WorkerNext, WorkerOpens, WorkerServes, WorkerReturns,
                    WorkerDropsPermit, WorkerEnds, admissionVars

(* Every step of the supervisor preserves Paid: it drops the permit of a   *)
(* removed slot only when the thread has let go of its half.               *)
LEMMA SupervisorPaid ==
  ASSUME TypeOK, Known, Paid, SupervisorRuns \/ \E l \in Lease : SupervisorReaps(l)
  PROVE  Paid'
<1>0. Streams /\ Queues /\ Threads /\ AdmissionType
  BY TypeParts
<1>1. CASE SupervisorTakes
  <2>0. Head(events).lease \in Lease
    BY <1>0, <1>1, HeadTyped DEF SupervisorTakes, Queues, Event
  <2>1. PICK n \in Lease : n = Head(events).lease
    BY <2>0
  <2>2. UNCHANGED <<sess, worker, diag, life>>
    BY <1>1 DEF SupervisorTakes
  <2>3. \A l \in Lease : slot'[l] # "None" => slot[l] # "None"
    BY <1>0, <1>1 DEF SupervisorTakes, Streams
  <2>4. CASE Removes(Head(events)) /\ ~ThreadHolds(n)
    <3>1. Disown(n) /\ slot'[n] = "None" /\ slot[n] # "None"
      BY <1>0, <1>1, <2>1, <2>4 DEF SupervisorTakes, Removes, Streams
    <3>3. ~Engaged(n)'
      BY <2>2, <2>4 DEF ThreadHolds, Engaged
    <3>2. \A s \in Session : sess[s].mode = "Opening" => sess[s].lease # n
      BY <3>1 DEF Paid, OpenPaid
    <3> QED
      BY <2>1, <2>2, <2>3, <3>1, <3>2, <3>3, DisownPaid DEF Engaged
  <2>5. CASE ~(Removes(Head(events)) /\ ~ThreadHolds(n))
    <3>1. UNCHANGED permit
      BY <1>1, <2>1, <2>5 DEF SupervisorTakes, admissionVars
    <3> QED
      BY <2>2, <2>3, <3>1, QuietPaid DEF Engaged
  <2> QED
    BY <2>4, <2>5
<1>2. CASE SupervisorRoutes \/ SupervisorDrained \/ SupervisorSettles \/ SupervisorWakes
  <2>1. UNCHANGED <<permit, sess, worker, slot, diag, life>>
    BY <1>2 DEF SupervisorRoutes, SupervisorDrained, SupervisorSettles, SupervisorWakes,
                admissionVars
  <2> QED
    BY <2>1, QuietPaid DEF Engaged
<1>3. ASSUME NEW l \in Lease, SupervisorReaps(l) PROVE Paid'
  <2>1. UNCHANGED <<permit, sess, worker, diag, life>>
    BY <1>3 DEF SupervisorReaps, admissionVars
  <2>2. \A m \in Lease : slot'[m] # "None" => slot[m] # "None"
    BY <1>0, <1>3 DEF SupervisorReaps, Armed, Streams
  <2> QED
    BY <2>1, <2>2, QuietPaid DEF Engaged
<1> QED
  BY <1>1, <1>2, <1>3 DEF SupervisorRuns

(* Every step of the diagnostic preserves Paid.                            *)
LEMMA DiagnosticStepPaid ==
  ASSUME TypeOK, Known, Paid, DiagnosticNext
  PROVE  Paid'
<1>0. Streams /\ Queues /\ Threads /\ AdmissionType
  BY TypeParts
<1>1. /\ UNCHANGED <<sess, slot, worker, life>>
      /\ \A l \in Lease : l # DiagnosticPermit /\ l \in Permit
  BY LeasesArePermits, AsrAssumption
     DEF DiagnosticNext, DiagnosticAdmits, DiagnosticOpens, DiagnosticCloses,
         DiagnosticDropsPermit, asrButDiag, Lease, DiagnosticPermit, AsrAssumption
<1>2. CASE DiagnosticOpens \/ DiagnosticCloses
  <2>1. UNCHANGED permit /\ diag # "Idle"
    BY <1>2 DEF DiagnosticOpens, DiagnosticCloses, admissionVars
  <2> QED
    BY <1>1, <2>1, QuietPaid DEF Engaged
<1>3. CASE DiagnosticAdmits \/ DiagnosticDropsPermit
  <2>1. \A p \in Permit : p # DiagnosticPermit => permit'[p] = permit[p]
    BY <1>0, <1>3 DEF DiagnosticAdmits, DiagnosticDropsPermit, Admit, Disown, AdmissionType
  <2>2. OpenPaid'
    BY <1>1, <2>1 DEF Paid, OpenPaid, Counted, Known
  <2>3. WorkPaid'
    BY <1>1, <2>1 DEF Paid, WorkPaid, Counted, Engaged
  <2>4. DiagnosticPaid'
    BY <1>0, <1>3, LeasesArePermits
       DEF DiagnosticAdmits, DiagnosticDropsPermit, Admit, AdmissionType,
           DiagnosticPaid, Counted
  <2>5. RetiredWorkless'
    BY <1>1, <1>3 DEF DiagnosticAdmits, DiagnosticDropsPermit, Paid, RetiredWorkless
  <2> QED
    BY <2>2, <2>3, <2>4, <2>5 DEF Paid
<1> QED
  BY <1>2, <1>3 DEF DiagnosticNext

(* No slot, no busy thread, and nothing counted in the runtime's gates:    *)
(* then no diagnostic is anywhere between its admission and its end.       *)
LEMMA RetirePaid ==
  ASSUME TypeOK, Known, Paid, AdmissionInv, Retire
  PROVE  Paid'
<1>0. Streams /\ Queues /\ Threads /\ AdmissionType
  BY TypeParts
<1>1. UNCHANGED <<permit, sess, slot, worker, diag>> /\ life' = "Retired"
  BY DEF Retire, admissionVars
<1>2. diag = "Idle"
  <2>1. SUFFICES ASSUME diag # "Idle" PROVE FALSE
    OBVIOUS
  <2>2. PICK g \in Gate : g \in GatesOf[RuntimeView]
    BY AsrAssumption, AdmissionAssumption DEF AsrAssumption, AdmissionAssumption
  <2>3. used[g].voice \in Nat /\ used[g].diagnostic \in Nat /\ Usage(g) = 0
    BY <1>0, <2>2 DEF AdmissionType, Retire, NoActiveWork
  <2>4. used[g].diagnostic = 0 /\ used[g].diagnostic = Cardinality(Counting(g, "diagnostic"))
    BY <2>3, <2>2 DEF Usage, AdmissionInv, CapacityRespected
  <2>5. DiagnosticPermit \in Counting(g, "diagnostic")
    BY <2>1, <2>2, LeasesArePermits
       DEF Paid, DiagnosticPaid, Counted, Counting, Counter
  <2>6. Counting(g, "diagnostic") = {}
    BY <2>4, CountingFinite, FS_EmptySet
  <2> QED
    BY <2>5, <2>6
<1>3. RetiredWorkless'
  BY <1>0, <1>1, <1>2 DEF Retire, RetiredWorkless, Slots
<1>4. OpenPaid' /\ WorkPaid' /\ DiagnosticPaid'
  BY <1>1 DEF Paid, OpenPaid, WorkPaid, DiagnosticPaid, Counted, Engaged
<1> QED
  BY <1>3, <1>4 DEF Paid

(* Every step preserves Paid.                                              *)
LEMMA PaidKept ==
  ASSUME TypeOK, Known, Paid, AdmissionInv, [Next]_vars
  PROVE  Paid'
<1>0. Streams /\ Queues /\ Threads /\ AdmissionType
  BY TypeParts
<1>1. CASE CloseThreads
  BY <1>1, QuietPaid DEF CloseThreads, admissionVars, Engaged
<1>2. CASE ReleaseGate
  <2>1. /\ UNCHANGED <<sess, slot, worker, diag, life>>
        /\ \A p \in Permit : permit[p].held => permit'[p] = permit[p]
    BY <1>0, <1>2 DEF ReleaseGate, Release, asrVars, AdmissionType
  <2> QED
    BY <2>1, QuietPaid DEF Engaged
<1>3. CASE UNCHANGED vars
  BY <1>3, QuietPaid DEF vars, asrVars, admissionVars, Engaged
<1> QED
  BY <1>1, <1>2, <1>3, SessionPaid, WorkerPaid, SupervisorPaid, DiagnosticStepPaid,
     RetirePaid DEF Next

-----------------------------------------------------------------------------
(* The inductive invariant: the types, what is known of the streams, what  *)
(* is paid for and the exactness of the counters.                          *)
AsrInv == TypeOK /\ Known /\ Paid /\ AdmissionInv

(* The invariant holds initially.                                          *)
LEMMA InitInv == Init => AsrInv
<1> SUFFICES ASSUME Init PROVE AsrInv
  OBVIOUS
<1>1. Known
  BY DEF Init, Known
<1>2. Paid
  BY DEF Init, Paid, OpenPaid, WorkPaid, DiagnosticPaid, RetiredWorkless, Engaged
<1> QED
  BY <1>1, <1>2, InitTyped DEF AsrInv

(* The invariant is inductive.                                             *)
LEMMA NextInv == AsrInv /\ [Next]_vars => AsrInv'
<1> SUFFICES ASSUME AsrInv, [Next]_vars PROVE AsrInv'
  OBVIOUS
<1> USE DEF AsrInv
<1>1. [AdmissionNext]_admissionVars
  BY ProtocolFollowed
<1>2. AdmissionInv'
  BY <1>1, StepCounts
<1>3. Streams' /\ Queues' /\ Threads'
  <2>1. ASSUME NEW s \in Session, SessionNext(s)
        PROVE  Streams' /\ Queues' /\ Threads'
    BY <2>1, OpeningTyped, StreamTyped, MailboxTyped DEF SessionNext
  <2>2. CASE UNCHANGED vars
    BY <2>2, TypeParts DEF vars, asrVars, Streams, Queues, Threads
  <2> QED
    BY <2>1, <2>2, WorkerTyped, SupervisorTyped, RuntimeTyped DEF Next
<1>4. TypeOK'
  BY <1>2, <1>3
     DEF TypeOK, AdmissionInv, AdmissionType, Streams, Queues, Threads, SessionType,
         SlotType, WorkerType, SupType, Command
<1> QED
  BY <1>2, <1>4, KnownKept, PaidKept

(* The states of AsrWorkers are of their types, and neither a command      *)
(* channel nor a session's mailbox ever holds more than its capacity.      *)
THEOREM AsrTypeCorrect == Spec => []TypeOK
<1>1. AsrInv => TypeOK
  BY DEF AsrInv
<1> QED
  BY <1>1, InitInv, NextInv, PTL DEF Spec

(* The ASR runtime implements the protocol of ProviderAdmission: whatever  *)
(* its sessions, threads, supervisor, diagnostic and shutdown do, permits  *)
(* are only admitted, disowned and released gate by gate.                  *)
THEOREM AsrFollowsProtocol == Spec => AdmissionSpec
<1>1. Init => AdmissionInit
  BY DEF Init
<1>2. AsrInv /\ [Next]_vars => [AdmissionNext]_admissionVars
  BY ProtocolFollowed DEF AsrInv
<1> QED
  BY <1>1, <1>2, InitInv, NextInv, PTL DEF Spec, AdmissionSpec

(* Hence the counters are exact, no gate counts more than its capacity and *)
(* the voice reserve is kept, in the composed runtime (admission/mod.rs).  *)
THEOREM AsrCountsExact == Spec => []CapacityRespected
BY AsrFollowsProtocol, CountersExact, PTL

(* Native work is always paid for: every recognizer out of the pool, every *)
(* slot, quarantined ones included, and every diagnostic has its permit    *)
(* (open_class, run_worker, observe and run_diagnostic of workers/asr).    *)
THEOREM WorkPaidFor == Spec => []WorkIsCounted
<1>1. AsrInv => WorkIsCounted
  BY DEF AsrInv, Paid, WorkPaid, DiagnosticPaid, Counted, WorkIsCounted
<1> QED
  BY <1>1, InitInv, NextInv, PTL DEF Spec

(* After shutdown_acknowledged said true no recognizer is engaged, no slot *)
(* is left and no diagnostic runs, nor will one (workers/asr/mod.rs).      *)
THEOREM RetirementFinal == Spec => []RetiredIsQuiet
<1>1. AsrInv => RetiredIsQuiet
  BY DEF AsrInv, Paid, RetiredWorkless, RetiredIsQuiet, Engaged
<1> QED
  BY <1>1, InitInv, NextInv, PTL DEF Spec

-----------------------------------------------------------------------------
(* The recognizers of a pool (AdmittedIsServed): those out of it, with a   *)
(* thread or the diagnostic, and those in it are all there are, until one  *)
(* is lost and the pool is unhealthy.                                      *)
Out == {l \in Lease : Engaged(l)}
         \cup (IF diag = "Running" THEN {DiagnosticPermit} ELSE {})

RecognizersKnown ==
  pool.retained /\ pool.healthy /\ life # "Retired" =>
    pool.free + Cardinality(Out) = MaxWorkers

(* Threads know their session, and a slot has had its thread.              *)
ThreadsKnown ==
  \A l \in Lease : /\ worker[l].pc # "None" => worker[l].session \in Session
                   /\ slot[l] # "None" => worker[l].pc # "None"

(* Recognizers out of the pool are counted as permits are.                 *)
LEMMA OutFinite ==
  /\ Out \subseteq Permit /\ IsFiniteSet(Out) /\ Cardinality(Out) \in Nat
  /\ DiagnosticPermit \notin Lease
<1>1. Out \subseteq Permit
  BY LeasesArePermits DEF Out
<1>2. IsFiniteSet(Out)
  BY <1>1, FS_Subset, AdmissionAssumption DEF AdmissionAssumption
<1> QED
  BY <1>1, <1>2, FS_CardinalityType, AsrAssumption
     DEF Lease, DiagnosticPermit, AsrAssumption

(* A recognizer taken, and one put back or lost.                           *)
LEMMA RecognizerTaken ==
  ASSUME TypeOK, RecognizersKnown, NEW p, p \notin Out, Out' = Out \cup {p},
         life' = life,
         pool' = IF pool.retained THEN [pool EXCEPT !.free = @ - 1] ELSE pool
  PROVE  RecognizersKnown'
<1>1. Cardinality(Out') = Cardinality(Out) + 1 /\ Cardinality(Out) \in Nat
  BY OutFinite, FS_AddElement
<1>2. pool \in [retained : BOOLEAN, free : Nat, healthy : BOOLEAN]
      /\ MaxWorkers \in Nat
  BY AsrAssumption DEF TypeOK, AsrAssumption
<1> HIDE DEF Out
<1> QED
  BY <1>1, <1>2 DEF RecognizersKnown

LEMMA RecognizerBack ==
  ASSUME TypeOK, RecognizersKnown, NEW p, p \in Out, Out' = Out \ {p}, life' = life,
         \/ pool.retained /\ pool' = [pool EXCEPT !.free = @ + 1]
         \/ pool.retained /\ pool' = [pool EXCEPT !.healthy = FALSE]
         \/ ~pool.retained /\ pool' = pool
  PROVE  RecognizersKnown'
<1>1. Cardinality(Out') = Cardinality(Out) - 1 /\ Cardinality(Out) \in Nat
  BY OutFinite, FS_RemoveElement
<1>2. pool \in [retained : BOOLEAN, free : Nat, healthy : BOOLEAN]
      /\ MaxWorkers \in Nat
  BY AsrAssumption DEF TypeOK, AsrAssumption
<1> HIDE DEF Out
<1> QED
  BY <1>1, <1>2 DEF RecognizersKnown

(* Steps that take and return none.                                        *)
LEMMA RecognizersStay ==
  ASSUME RecognizersKnown, pool' = pool, life' # "Retired" => life # "Retired",
         \A l \in Lease : Engaged(l)' <=> Engaged(l),
         diag' = "Running" <=> diag = "Running"
  PROVE  RecognizersKnown'
<1>1. Out' = Out
  BY DEF Out
<1> QED
  BY <1>1 DEF RecognizersKnown

(* Every step preserves ThreadsKnown: a thread starts with its session.    *)
LEMMA ThreadsKept ==
  ASSUME TypeOK, Known, ThreadsKnown, [Next]_vars
  PROVE  ThreadsKnown'
<1>0. Streams /\ Queues /\ Threads
  BY TypeParts
<1>1. ASSUME NEW s \in Session, SessionNext(s) PROVE ThreadsKnown'
  <2>1. CASE OpenSlot(s)
    <3>1. sess[s].lease \in Lease
      BY <2>1 DEF OpenSlot, Known
    <3> QED
      BY <1>0, <2>1, <3>1 DEF OpenSlot, ThreadsKnown, Streams, WorkerType
  <2>2. CASE ~OpenSlot(s)
    <3>1. worker' = worker
      BY <1>1, <2>2 DEF SessionNext, OpenAdmit, OpenRefused, OpenReturns, Push, Finish,
                        CancelAsr, Leave, OnEvent
    <3>2. \A l \in Lease : slot'[l] # "None" => slot[l] # "None"
      BY <1>0, <1>1, <2>2 DEF SessionNext, OpenAdmit, OpenRefused, OpenReturns, Push, Finish,
                        CancelAsr, Leave, OnEvent, Sendable, Streams
    <3> QED
      BY <3>1, <3>2 DEF ThreadsKnown
  <2> QED
    BY <2>1, <2>2
<1>2. ASSUME NEW l \in Lease, WorkerNext(l) PROVE ThreadsKnown'
  <2>1. /\ slot' = slot /\ worker[l].pc # "None" /\ worker'[l].pc # "None"
        /\ worker'[l].session = worker[l].session
        /\ \A m \in Lease : m # l => worker'[m] = worker[m]
    <3>1. ASSUME NEW k \in Terminal, Ends(l, k)
          PROVE  /\ worker'[l].session = worker[l].session /\ worker'[l].pc # "None"
                 /\ \A m \in Lease : m # l => worker'[m] = worker[m]
      BY <3>1, <1>0 DEF Ends, Streams, WorkerType
    <3>2. CASE WorkerOpens(l)
      BY <3>1, <3>2, <1>0 DEF WorkerOpens, Streams, WorkerType, Terminal
    <3>3. CASE WorkerServes(l)
      BY <3>1, <3>3, <1>0 DEF WorkerServes, Streams, WorkerType, Terminal
    <3>4. CASE WorkerReturns(l)
      BY <3>4, <1>0 DEF WorkerReturns, Streams, WorkerType
    <3>5. CASE WorkerDropsPermit(l)
      BY <3>5, <1>0 DEF WorkerDropsPermit, Streams, WorkerType
    <3>6. CASE WorkerEnds(l)
      BY <3>6, <1>0 DEF WorkerEnds, Streams, WorkerType
    <3> QED
      BY <1>2, <3>2, <3>3, <3>4, <3>5, <3>6 DEF WorkerNext
  <2> QED
    BY <2>1 DEF ThreadsKnown
<1>3. CASE SupervisorRuns \/ \E l \in Lease : SupervisorReaps(l)
  <2>1. worker' = worker
    BY <1>3 DEF SupervisorRuns, SupervisorTakes, SupervisorRoutes, SupervisorDrained,
                SupervisorSettles, SupervisorWakes, SupervisorReaps
  <2>2. \A l \in Lease : slot'[l] # "None" => slot[l] # "None"
    BY <1>0, <1>3 DEF SupervisorRuns, SupervisorTakes, SupervisorRoutes, SupervisorDrained,
                SupervisorSettles, SupervisorWakes, SupervisorReaps, Armed, Streams
  <2> QED
    BY <2>1, <2>2 DEF ThreadsKnown
<1>4. CASE DiagnosticNext \/ CloseThreads \/ Retire \/ ReleaseGate \/ UNCHANGED vars
  BY <1>4 DEF DiagnosticNext, DiagnosticAdmits, DiagnosticOpens, DiagnosticCloses,
     DiagnosticDropsPermit, CloseThreads, Retire, ReleaseGate, asrButDiag, asrVars, vars,
     ThreadsKnown
<1> QED
  BY <1>1, <1>2, <1>3, <1>4 DEF Next

(* Every step preserves RecognizersKnown: who takes one, who returns it.   *)
LEMMA RecognizersKept ==
  ASSUME TypeOK, Known, Paid, RecognizersKnown, [Next]_vars
  PROVE  RecognizersKnown'
<1>0. Streams /\ Queues /\ Threads
  BY TypeParts
<1>1. ASSUME NEW s \in Session, SessionNext(s) PROVE RecognizersKnown'
  <2>1. CASE OpenSlot(s)
    <3> DEFINE n == sess[s].lease
    <3>1. n \in Lease /\ worker[n].pc = "None" /\ n # DiagnosticPermit
      BY <2>1, OutFinite DEF OpenSlot, Known, Paid, OpenPaid
    <3>2. /\ \A l \in Lease : l # n => worker'[l] = worker[l]
          /\ worker'[n].pc = "Opening" /\ diag' = diag /\ life' = life
      BY <1>0, <2>1, <3>1 DEF OpenSlot, Streams, WorkerType
    <3>3. n \notin Out /\ Out' = Out \cup {n}
      BY <3>1, <3>2 DEF Out, Engaged
    <3>4. pool' = IF pool.retained THEN [pool EXCEPT !.free = @ - 1] ELSE pool
      BY <2>1 DEF OpenSlot
    <3> HIDE DEF n
    <3> QED
      BY <3>2, <3>3, <3>4, RecognizerTaken
  <2>2. CASE ~OpenSlot(s)
    <3>1. UNCHANGED <<worker, pool, diag, life>>
      BY <1>1, <2>2 DEF SessionNext, OpenAdmit, OpenRefused, OpenReturns, Push, Finish,
                        CancelAsr, Leave, OnEvent
    <3> QED
      BY <3>1, RecognizersStay DEF Engaged
  <2> QED
    BY <2>1, <2>2
<1>2. ASSUME NEW l \in Lease, WorkerNext(l) PROVE RecognizersKnown'
  <2>0. /\ UNCHANGED <<diag, life>>
        /\ \A m \in Lease : m # l => worker'[m] = worker[m]
    BY <1>0, <1>2 DEF WorkerNext, WorkerOpens, WorkerServes, WorkerReturns,
                      WorkerDropsPermit, WorkerEnds, Ends, Streams
  <2>1. ASSUME NEW k \in Terminal, Ends(l, k) PROVE worker'[l].pc = "Returning"
    BY <1>0, <2>1 DEF Ends, Streams, WorkerType
  <2>2. CASE WorkerOpens(l) /\ pool' = pool
    <3>1. worker[l].pc = "Opening" /\ worker'[l].pc \in {"Serving", "Returning"}
      BY <1>0, <2>1, <2>2 DEF WorkerOpens, Streams, WorkerType, Terminal
    <3> QED
      BY <2>0, <2>2, <3>1, RecognizersStay DEF Engaged
  <2>3. CASE WorkerServes(l)
    <3>1. worker[l].pc = "Serving" /\ worker'[l].pc \in {"Serving", "Returning"}
      BY <1>0, <2>1, <2>3 DEF WorkerServes, Streams, WorkerType, Terminal
    <3>2. CASE pool' = pool
      BY <2>0, <3>1, <3>2, RecognizersStay DEF Engaged
    <3>3. CASE pool' # pool
      <4>1. pool' = [pool EXCEPT !.healthy = @ /\ ~pool.retained]
        BY <2>3, <3>3 DEF WorkerServes
      <4>2. pool'.retained => ~pool'.healthy
        BY <1>0, <4>1 DEF Streams
      <4> QED
        BY <4>2 DEF RecognizersKnown
    <3> QED
      BY <3>2, <3>3
  <2>4. CASE WorkerReturns(l)
    <3>1. worker[l].pc = "Returning" /\ worker'[l].pc = "Dropping"
      BY <1>0, <2>4 DEF WorkerReturns, Streams, WorkerType
    <3>2. l \in Out /\ Out' = Out \ {l}
      BY <2>0, <3>1, OutFinite DEF Out, Engaged
    <3> QED
      BY <2>0, <2>4, <3>2, RecognizerBack DEF WorkerReturns
  <2>5. CASE WorkerDropsPermit(l) \/ WorkerEnds(l)
    <3>1. /\ worker[l].pc \in {"Dropping", "Ending", "Releasing"}
          /\ worker'[l].pc \in {"Releasing", "Ending", "Done"} /\ pool' = pool
      <4>1. CASE WorkerDropsPermit(l)
        BY <1>0, <4>1 DEF WorkerDropsPermit, Streams, WorkerType
      <4>2. CASE WorkerEnds(l)
        BY <1>0, <4>2 DEF WorkerEnds, Streams, WorkerType
      <4> QED
        BY <2>5, <4>1, <4>2
    <3> QED
      BY <2>0, <3>1, RecognizersStay DEF Engaged
  <2> QED
    BY <1>2, <2>2, <2>3, <2>4, <2>5 DEF WorkerNext, WorkerOpens
<1>3. CASE SupervisorRuns \/ \E l \in Lease : SupervisorReaps(l)
  <2>1. UNCHANGED <<worker, pool, diag, life>>
    BY <1>3 DEF SupervisorRuns, SupervisorTakes, SupervisorRoutes, SupervisorDrained,
                SupervisorSettles, SupervisorWakes, SupervisorReaps
  <2> QED
    BY <2>1, RecognizersStay DEF Engaged
<1>4. CASE DiagnosticOpens
  <2>1. UNCHANGED <<worker, life>> /\ diag = "Admitted"
    BY <1>4 DEF DiagnosticOpens, asrButDiag
  <2>2. CASE diag' = "Running"
    <3>1. /\ pool' = IF pool.retained THEN [pool EXCEPT !.free = @ - 1] ELSE pool
      BY <1>4, <2>2 DEF DiagnosticOpens
    <3>2. DiagnosticPermit \notin Out /\ Out' = Out \cup {DiagnosticPermit}
      BY <2>1, <2>2, OutFinite DEF Out, Engaged
    <3> QED
      BY <2>1, <3>1, <3>2, RecognizerTaken
  <2>3. CASE diag' # "Running"
    <3>1. pool' = pool
      BY <1>4, <2>3 DEF DiagnosticOpens
    <3> QED
      BY <2>1, <2>3, <3>1, RecognizersStay DEF Engaged
  <2> QED
    BY <2>2, <2>3
<1>5. CASE DiagnosticCloses
  <2>1. UNCHANGED <<worker, life>> /\ diag = "Running" /\ diag' = "Ended"
    BY <1>5 DEF DiagnosticCloses, asrButDiag
  <2>2. DiagnosticPermit \in Out /\ Out' = Out \ {DiagnosticPermit}
    BY <2>1, OutFinite DEF Out, Engaged
  <2> QED
    BY <1>5, <2>1, <2>2, RecognizerBack DEF DiagnosticCloses
<1>6. CASE Retire
  BY <1>6 DEF Retire, RecognizersKnown
<1>7. CASE DiagnosticAdmits \/ DiagnosticDropsPermit \/ CloseThreads \/ ReleaseGate
           \/ UNCHANGED vars
  BY <1>7, RecognizersStay
     DEF DiagnosticAdmits, DiagnosticDropsPermit, CloseThreads, ReleaseGate, asrButDiag,
         asrVars, vars, Engaged
<1> QED
  BY <1>1, <1>2, <1>3, <1>4, <1>5, <1>6, <1>7 DEF Next, DiagnosticNext

(* The permits that count in a gate of the runtime are no more than it has *)
(* workers.                                                                *)
LEMMA FewCount ==
  ASSUME TypeOK, AdmissionInv, NEW g \in GatesOf[RuntimeView], NEW S,
         \A p \in S : p \in Permit /\ g \in permit[p].gates
  PROVE  IsFiniteSet(S) /\ Cardinality(S) \in Nat /\ Cardinality(S) <= MaxWorkers
<1> DEFINE A == Counting(g, "voice")
           B == Counting(g, "diagnostic")
<1>1. g \in Gate /\ Total[g] = MaxWorkers /\ MaxWorkers \in Nat
  BY AsrAssumption, AdmissionAssumption DEF AsrAssumption, AdmissionAssumption
<1>2. S \subseteq A \cup B
  BY DEF Counting, Counter
<1>3. IsFiniteSet(A) /\ IsFiniteSet(B) /\ Cardinality(A) \in Nat /\ Cardinality(B) \in Nat
  BY CountingFinite
<1>4. Cardinality(A) + Cardinality(B) <= MaxWorkers
  BY <1>1 DEF AdmissionInv, CapacityRespected, Usage
<1> HIDE DEF A, B
<1>5. /\ IsFiniteSet(A \cup B) /\ Cardinality(A \cup B) \in Nat
      /\ Cardinality(A \cap B) \in Nat
      /\ Cardinality(A \cup B) = Cardinality(A) + Cardinality(B) - Cardinality(A \cap B)
  BY <1>3, FS_Union, FS_Intersection, FS_CardinalityType
<1>6. IsFiniteSet(S) /\ Cardinality(S) \in Nat /\ Cardinality(S) <= Cardinality(A \cup B)
  BY <1>2, <1>5, FS_Subset, FS_CardinalityType
<1> QED
  BY <1>1, <1>3, <1>4, <1>5, <1>6

(* The permit of the open counts too: there is less work than permits.     *)
LEMMA AdmissionServes ==
  ASSUME AsrInv, ThreadsKnown, RecognizersKnown
  PROVE  AdmittedIsServed
<1> SUFFICES ASSUME NEW s \in Session, sess[s].mode = "Opening", life = "Open",
                    pool.healthy
             PROVE  SlotAvailable
  BY DEF AdmittedIsServed
<1> USE DEF AsrInv
<1> DEFINE n == sess[s].lease
<1>1. PICK g \in GatesOf[RuntimeView] : TRUE
  BY AsrAssumption, AdmissionAssumption DEF AsrAssumption, AdmissionAssumption
<1>2. \A t \in Session : g \in GatesOf[ViewOf[t]]
  BY AsrAssumption DEF AsrAssumption
<1>3. /\ n \in Lease /\ n \in Permit /\ g \in permit[n].gates
      /\ slot[n] = "None" /\ worker[n].pc = "None"
  BY <1>2, LeasesArePermits DEF Known, Paid, OpenPaid, Counted
<1>4. \A l \in Lease : Engaged(l) \/ slot[l] # "None" => g \in permit[l].gates
  BY <1>2 DEF Paid, WorkPaid, Counted, ThreadsKnown, Engaged
<1>5. diag = "Running" => g \in permit[DiagnosticPermit].gates
  BY DEF Paid, DiagnosticPaid, Counted
<1>6. n \notin Slots /\ n \notin Out
  BY <1>3, OutFinite DEF Slots, Out, Engaged
<1>7. \A p \in Slots \cup {n} : p \in Permit /\ g \in permit[p].gates
  BY <1>3, <1>4, LeasesArePermits DEF Slots
<1>8. \A p \in Out \cup {n} : p \in Permit /\ g \in permit[p].gates
  BY <1>3, <1>4, <1>5, LeasesArePermits DEF Out
<1> HIDE DEF n
<1>9. Cardinality(Slots) < MaxWorkers
  <2>1. /\ IsFiniteSet(Slots \cup {n}) /\ Cardinality(Slots \cup {n}) \in Nat
        /\ Cardinality(Slots \cup {n}) <= MaxWorkers
    BY <1>7, FewCount
  <2>2. IsFiniteSet(Slots) /\ Cardinality(Slots) \in Nat
    BY <2>1, FS_Subset, FS_CardinalityType
  <2>3. Cardinality(Slots \cup {n}) = Cardinality(Slots) + 1
    BY <1>6, <2>2, FS_AddElement
  <2> QED
    BY <2>1, <2>2, <2>3, AsrAssumption DEF AsrAssumption
<1>10. pool.retained => pool.free > 0
  <2>1. Cardinality(Out \cup {n}) <= MaxWorkers
    BY <1>8, FewCount
  <2>2. Cardinality(Out \cup {n}) = Cardinality(Out) + 1 /\ Cardinality(Out) \in Nat
    BY <1>6, OutFinite, FS_AddElement
  <2>3. pool.free \in Nat /\ MaxWorkers \in Nat
    BY AsrAssumption DEF TypeOK, AsrAssumption
  <2>4. pool.retained => pool.free + Cardinality(Out) = MaxWorkers
    BY DEF RecognizersKnown
  <2> QED
    BY <2>1, <2>2, <2>3, <2>4
<1> QED
  BY <1>9, <1>10 DEF SlotAvailable

-----------------------------------------------------------------------------
(* Where the end of a stream is told (CancelledIsReusable): queued to the  *)
(* supervisor, in its hand, or in a mailbox.                               *)
In(e, q) == \E i \in 1..Len(q) : q[i] = e
Queued(e) == In(e, events)
Held(e) == sup.pc = "Route" /\ sup.hand = e
Routed(e) == \E s \in Session : In(e, route[s])
Outcome(l) == {Ev(k, l) : k \in Terminal}

(* Nothing is told while the thread serves or keeps its outcome for the    *)
(* end, and its slot is there.                                             *)
Untold ==
  \A l \in Lease : worker[l].pc \in {"None", "Opening", "Serving"} \/ worker[l].deferred =>
    /\ \A e \in Outcome(l) : ~Queued(e) /\ ~Held(e) /\ ~Routed(e)
    /\ worker[l].pc # "None" => slot[l] # "None"

(* Who is told of an end finds the slot gone, or quarantined for good.     *)
ToldLast ==
  \A l \in Lease : (\E e \in Outcome(l) : Held(e) \/ Routed(e)) =>
    slot[l] \in {"None", "Quarantined"}

(* A cancellation is told when the thread is done.  When the slot is gone  *)
(* then the capacity is back, or the supervisor is at it.                  *)
CancelTold ==
  \A l \in Lease :
    /\ Queued(Ev("Cancelled", l)) \/ Held(Ev("Cancelled", l)) \/ Routed(Ev("Cancelled", l))
         => worker[l].pc = "Done"
    /\ (Queued(Ev("Cancelled", l)) \/ Held(Ev("Cancelled", l))) /\ slot[l] = "None" =>
         Returned(l) \/ (sup.pc = "Route" /\ sup.releasing /\ sup.hand.lease = l)
    /\ Routed(Ev("Cancelled", l)) /\ slot[l] = "None" => Returned(l)

EndsTold == Untold /\ ToldLast /\ CancelTold

(* Members of a queue: of one longer, of what is left, of none.            *)
LEMMA InAppend ==
  ASSUME NEW S, NEW q \in Seq(S), NEW x \in S, NEW e
  PROVE  In(e, Append(q, x)) <=> In(e, q) \/ e = x
<1>1. /\ Len(Append(q, x)) = Len(q) + 1 /\ Len(q) \in Nat
      /\ \A i \in 1..Len(q) : Append(q, x)[i] = q[i]
      /\ Append(q, x)[Len(q) + 1] = x
  OBVIOUS
<1>2. 1..(Len(q) + 1) = 1..Len(q) \cup {Len(q) + 1}
  BY <1>1
<1> QED
  BY <1>1, <1>2 DEF In

LEMMA InTail ==
  ASSUME NEW S, NEW q \in Seq(S), q # <<>>, NEW e
  PROVE  /\ In(e, Tail(q)) => In(e, q)
         /\ In(Head(q), q)
<1>1. /\ Len(q) \in Nat /\ Len(q) >= 1 /\ Len(Tail(q)) = Len(q) - 1
      /\ \A i \in 1..Len(Tail(q)) : Tail(q)[i] = q[i + 1]
      /\ Head(q) = q[1]
  OBVIOUS
<1>2. \A i \in 1..Len(Tail(q)) : i + 1 \in 1..Len(q)
  BY <1>1
<1> QED
  BY <1>1, <1>2 DEF In

LEMMA InEmpty == \A e : ~In(e, <<>>)
  BY DEF In

(* A returned permit stays so until the stream is opened.                  *)
LEMMA ReturnedStays ==
  ASSUME TypeOK, Known, Paid, AdmissionInv, NEW l \in Lease, Returned(l),
         worker[l].pc = "Done", slot[l] = "None", [Next]_vars
  PROVE  Returned(l)'
<1>0. Streams /\ Queues /\ Threads /\ AdmissionType
  BY TypeParts
<1>1. l \in Permit /\ l # DiagnosticPermit /\ ~permit[l].held /\ permit[l].gates = {}
  BY LeasesArePermits, OutFinite DEF Returned, NoPermit
<1>2. ASSUME NEW p \in Permit, p # l, Disown(p) PROVE Returned(l)'
  BY <1>0, <1>1, <1>2 DEF Disown, Returned, AdmissionType
<1>3. ASSUME NEW p \in Permit, p # l, NEW v, NEW c, Admit(p, v, c) PROVE Returned(l)'
  BY <1>0, <1>1, <1>3 DEF Admit, Returned, AdmissionType
<1>4. ~Disown(l)
  BY <1>1 DEF Disown
<1>5. ASSUME NEW s \in Session, SessionNext(s) PROVE Returned(l)'
  <2>1. CASE OpenAdmit(s)
    <3>1. nextLease \in Permit /\ nextLease # l
      BY <1>0, <2>1, LeasesArePermits DEF OpenAdmit, Known, Streams, Lease
    <3> QED
      BY <1>3, <2>1, <3>1 DEF OpenAdmit
  <2>2. CASE OpenRefused(s)
    <3>1. sess[s].lease \in Permit
      BY <2>2, LeasesArePermits DEF OpenRefused, Known
    <3> QED
      BY <1>2, <1>4, <2>2, <3>1 DEF OpenRefused
  <2>3. CASE ~OpenAdmit(s) /\ ~OpenRefused(s)
    BY <1>5, <2>3 DEF SessionNext, OpenSlot, OpenReturns, Push, Finish, CancelAsr, Leave,
                      OnEvent, admissionVars, Returned
  <2> QED
    BY <2>1, <2>2, <2>3
<1>6. ASSUME NEW m \in Lease, WorkerNext(m) PROVE Returned(l)'
  <2>1. CASE Disown(m)
    BY <1>2, <1>4, <2>1, LeasesArePermits
  <2>2. CASE ~Disown(m)
    BY <1>6, <2>2 DEF WorkerNext, WorkerOpens, WorkerServes, WorkerReturns,
                      WorkerDropsPermit, WorkerEnds, admissionVars, Returned
  <2> QED
    BY <2>1, <2>2
<1>7. CASE SupervisorRuns \/ \E m \in Lease : SupervisorReaps(m)
  <2>1. CASE SupervisorTakes
    <3>0. Head(events) \in Event
      BY <1>0, <2>1, HeadTyped DEF SupervisorTakes, Queues
    <3>1. Head(events).lease \in Lease
      BY <3>0 DEF Event
    <3>2. CASE Disown(Head(events).lease)
      BY <1>2, <1>4, <3>1, <3>2, LeasesArePermits
    <3>3. CASE ~Disown(Head(events).lease)
      BY <2>1, <3>3 DEF SupervisorTakes, admissionVars, Returned
    <3> QED
      BY <3>2, <3>3
  <2>2. CASE ~SupervisorTakes
    BY <1>7, <2>2 DEF SupervisorRuns, SupervisorRoutes, SupervisorDrained,
                      SupervisorSettles, SupervisorWakes, SupervisorReaps, admissionVars,
                      Returned
  <2> QED
    BY <2>1, <2>2
<1>8. CASE DiagnosticNext
  BY <1>1, <1>2, <1>3, <1>8, LeasesArePermits
     DEF DiagnosticNext, DiagnosticAdmits, DiagnosticOpens, DiagnosticCloses,
         DiagnosticDropsPermit, admissionVars, Returned
<1>9. CASE ReleaseGate
  <2>1. PICK p \in Permit, g \in Gate : Release(p, g)
    BY <1>9 DEF ReleaseGate
  <2>2. p # l
    BY <1>1, <2>1 DEF Release
  <2> QED
    BY <1>0, <1>1, <2>1, <2>2 DEF Release, Returned, AdmissionType
<1>10. CASE CloseThreads \/ Retire \/ UNCHANGED vars
  BY <1>10 DEF CloseThreads, Retire, vars, admissionVars, Returned
<1> QED
  BY <1>5, <1>6, <1>7, <1>8, <1>9, <1>10 DEF Next

(* Steps of which nobody is told: no new event of an end, no thread moves  *)
(* but by opening or ending silently, a slot only gets quarantined or is   *)
(* used by the session of a thread that serves.                            *)
LEMMA QuietEnds ==
  ASSUME TypeOK, EndsTold,
         \A l \in Lease : \A e \in Outcome(l) :
           /\ Queued(e)' => Queued(e)
           /\ Held(e)' => Held(e)
           /\ Routed(e)' => Routed(e),
         \A l \in Lease :
           \/ worker'[l] = worker[l]
           \/ /\ worker[l].pc \in {"None", "Opening", "Serving"} \/ worker[l].deferred
              /\ slot'[l] # "None"
           \/ ~worker'[l].deferred /\ worker[l].pc # "Done"
              /\ worker'[l].pc \notin {"None", "Opening", "Serving"},
         \A l \in Lease :
           \/ slot'[l] = slot[l]
           \/ slot[l] # "None" /\ slot'[l] = "Quarantined"
           \/ worker[l].pc \in {"None", "Opening", "Serving"} /\ slot'[l] # "None",
         \A l \in Lease : worker[l].pc = "Done" /\ slot[l] = "None" /\ Returned(l)
                            => Returned(l)',
         \A l \in Lease : sup.pc = "Route" /\ sup.releasing /\ sup.hand.lease = l =>
           sup' = sup \/ Returned(l)'
  PROVE  EndsTold'
<1>1. \A l \in Lease : Ev("Cancelled", l) \in Outcome(l)
  BY DEF Outcome, Terminal
<1>2. Untold'
  BY DEF EndsTold, Untold
<1>3. ToldLast'
  BY DEF EndsTold, Untold, ToldLast
<1>4. CancelTold'
  BY <1>1 DEF EndsTold, Untold, CancelTold
<1> QED
  BY <1>2, <1>3, <1>4 DEF EndsTold

(* The session's side: it opens, sends, leaves and empties its mailbox.    *)
LEMMA SessionTold ==
  ASSUME TypeOK, Known, Paid, AdmissionInv, EndsTold, NEW s \in Session, SessionNext(s)
  PROVE  EndsTold'
<1>0. Streams /\ Queues /\ Threads
  BY TypeParts
<1>1. UNCHANGED <<events, sup>>
  BY DEF SessionNext, OpenAdmit, OpenSlot, OpenRefused, OpenReturns, Push, Finish,
         CancelAsr, Leave, OnEvent
<1>2. \A e : Routed(e)' => Routed(e)
  <2>1. CASE route' = route
    BY <2>1 DEF Routed
  <2>2. CASE route' # route
    <3>1. \/ route' = [route EXCEPT ![s] = <<>>]
          \/ route[s] # <<>> /\ route' = [route EXCEPT ![s] = Tail(route[s])]
      BY <2>2 DEF SessionNext, OpenAdmit, OpenSlot, OpenRefused, OpenReturns, Push, Finish,
                  CancelAsr, Leave, OnEvent
    <3>2. \A e : In(e, <<>>) = FALSE
      BY InEmpty
    <3>3. ASSUME NEW e, route[s] # <<>>, In(e, Tail(route[s])) PROVE In(e, route[s])
      BY <1>0, <3>3, InTail DEF Queues
    <3>4. \A t \in Session : t # s => route'[t] = route[t]
      BY <1>0, <3>1 DEF Queues
    <3>5. route'[s] = <<>> \/ (route[s] # <<>> /\ route'[s] = Tail(route[s]))
      BY <1>0, <3>1 DEF Queues
    <3> QED
      BY <3>2, <3>3, <3>4, <3>5 DEF Routed
  <2> QED
    BY <2>1, <2>2
<1>3. \A l \in Lease : worker[l].pc = "Done" /\ slot[l] = "None" /\ Returned(l)
                         => Returned(l)'
  BY ReturnedStays DEF Next
<1>4. CASE OpenSlot(s)
  <2> DEFINE n == sess[s].lease
  <2>1. n \in Lease /\ worker[n].pc = "None"
    BY <1>4 DEF OpenSlot, Known, Paid, OpenPaid
  <2>2. /\ \A l \in Lease : l # n => worker'[l] = worker[l] /\ slot'[l] = slot[l]
        /\ slot'[n] = "Active"
    BY <1>0, <1>4, <2>1 DEF OpenSlot, Streams
  <2> HIDE DEF n
  <2> QED
    BY <1>1, <1>2, <1>3, <2>1, <2>2, QuietEnds DEF Queued, Held
<1>5. CASE ~OpenSlot(s)
  <2>1. worker' = worker
    BY <1>5 DEF SessionNext, OpenAdmit, OpenRefused, OpenReturns, Push, Finish, CancelAsr,
                Leave, OnEvent
  <2>2. CASE slot' = slot
    BY <1>1, <1>2, <1>3, <2>1, <2>2, QuietEnds DEF Queued, Held
  <2>3. CASE slot' # slot
    <3> DEFINE n == sess[s].lease
    <3>1. /\ n \in Lease /\ Sendable(n)
          /\ slot' = [slot EXCEPT ![n] = "Finishing"] \/ slot' = [slot EXCEPT ![n] = "Cleaning"]
      BY <1>5, <2>3 DEF SessionNext, OpenAdmit, OpenRefused, OpenReturns, Push, Finish,
                        CancelAsr, Leave, OnEvent, Known
    <3>2. /\ \A l \in Lease : l # n => slot'[l] = slot[l]
          /\ slot'[n] # "None" /\ worker[n].pc \in {"Opening", "Serving"}
      BY <1>0, <3>1 DEF Streams, Sendable, Listens
    <3> HIDE DEF n
    <3> QED
      BY <1>1, <1>2, <1>3, <2>1, <3>1, <3>2, QuietEnds DEF Queued, Held
  <2> QED
    BY <2>2, <2>3
<1> QED
  BY <1>4, <1>5

(* What is sent is queued, behind what was.                                *)
LEMMA QueuedSent ==
  ASSUME Queues, NEW k \in Terminal \cup {"Opened"}, NEW l \in Lease, Send(Ev(k, l)), NEW e
  PROVE  Queued(e)' <=> Queued(e) \/ e = Ev(k, l)
<1>1. Ev(k, l) \in Event
  BY DEF Ev, Event
<1> QED
  BY <1>1, InAppend DEF Send, Queued, Queues

(* A thread tells of its end: at once, or when it is done.                 *)
LEMMA EndTold ==
  ASSUME TypeOK, EndsTold, NEW l \in Lease, NEW k \in Terminal, Send(Ev(k, l)),
         UNCHANGED <<admissionVars, slot, route, sup>>,
         worker[l].pc \in {"Opening", "Serving"} \/ worker[l].deferred,
         worker[l].pc # "None",
         \A m \in Lease : m # l => worker'[m] = worker[m],
         ~worker'[l].deferred,
         \/ worker'[l].pc = "Returning" /\ k # "Cancelled"
         \/ worker'[l].pc = "Done"
  PROVE  EndsTold'
<1>0. Streams /\ Queues /\ Threads
  BY TypeParts
<1>1. \A e : Queued(e)' <=> Queued(e) \/ e = Ev(k, l)
  BY <1>0, QueuedSent
<1>2. \A e : (Held(e)' <=> Held(e)) /\ (Routed(e)' <=> Routed(e))
  BY DEF Held, Routed
<1>3. \A m \in Lease : m # l => Ev(k, l) \notin Outcome(m)
  BY DEF Outcome, Ev
<1>4. \A m \in Lease : Ev("Cancelled", m) \in Outcome(m)
  BY DEF Outcome, Terminal
<1>5. slot[l] # "None" /\ \A e \in Outcome(l) : ~Queued(e) /\ ~Held(e) /\ ~Routed(e)
  BY <1>0 DEF EndsTold, Untold, Streams
<1>6. Untold'
  BY <1>1, <1>2, <1>3 DEF EndsTold, Untold
<1>7. ToldLast'
  BY <1>1, <1>2, <1>3 DEF EndsTold, ToldLast
<1>8. CancelTold'
  <2>1. Ev("Cancelled", l) = Ev(k, l) => k = "Cancelled"
    BY DEF Ev
  <2>2. \A m \in Lease : Returned(m)' <=> Returned(m)
    BY DEF admissionVars, Returned
  <2> QED
    BY <1>1, <1>2, <1>3, <1>4, <1>5, <2>1, <2>2 DEF EndsTold, CancelTold
<1> QED
  BY <1>6, <1>7, <1>8 DEF EndsTold

(* The native threads.                                                     *)
LEMMA WorkerTold ==
  ASSUME TypeOK, Known, Paid, AdmissionInv, EndsTold, NEW l \in Lease, WorkerNext(l)
  PROVE  EndsTold'
<1>0. Streams /\ Queues /\ Threads
  BY TypeParts
<1>1. /\ UNCHANGED <<route, sup, slot>>
      /\ \A m \in Lease : m # l => worker'[m] = worker[m]
  BY <1>0 DEF WorkerNext, WorkerOpens, WorkerServes, WorkerReturns, WorkerDropsPermit,
              WorkerEnds, Ends, Streams
<1>2. \A m \in Lease : worker[m].pc = "Done" /\ slot[m] = "None" /\ Returned(m)
                         => Returned(m)'
  BY ReturnedStays DEF Next
<1>3. ASSUME \A m \in Lease : \A e \in Outcome(m) : Queued(e)' => Queued(e),
             \/ worker'[l] = worker[l]
             \/ /\ worker[l].pc \in {"Opening", "Serving"} \/ worker[l].deferred
                /\ worker[l].pc # "None"
             \/ ~worker'[l].deferred /\ worker[l].pc # "Done"
                /\ worker'[l].pc \notin {"None", "Opening", "Serving"}
      PROVE  EndsTold'
  <2>1. worker[l].pc # "None" /\ (worker[l].pc \in {"Opening", "Serving"} \/ worker[l].deferred)
          => slot[l] # "None"
    BY DEF EndsTold, Untold
  <2> QED
    BY <1>1, <1>2, <1>3, <2>1, QuietEnds DEF Held, Routed
<1>4. ASSUME NEW k \in Terminal, Ends(l, k), worker[l].pc \in {"Opening", "Serving"},
             UNCHANGED admissionVars
      PROVE  EndsTold'
  <2>1. worker'[l].pc = "Returning" /\ worker'[l].deferred = (pool.retained \/ k = "Cancelled")
    BY <1>0, <1>4 DEF Ends, Streams, WorkerType
  <2>2. CASE pool.retained \/ k = "Cancelled"
    <3>1. events' = events
      BY <1>4, <2>2 DEF Ends
    <3> QED
      BY <1>3, <1>4, <3>1 DEF Queued
  <2>3. CASE ~(pool.retained \/ k = "Cancelled")
    <3>1. Send(Ev(k, l))
      BY <1>4, <2>3 DEF Ends
    <3> QED
      BY <1>1, <1>4, <2>1, <2>3, <3>1, EndTold
  <2> QED
    BY <2>2, <2>3
<1>5. CASE WorkerOpens(l)
  <2>1. CASE Ends(l, "Failed")
    BY <1>4, <1>5, <2>1 DEF WorkerOpens, Terminal
  <2>2. CASE ~Ends(l, "Failed")
    <3>1. Send(Ev("Opened", l)) /\ worker[l].pc = "Opening"
      BY <1>5, <2>2 DEF WorkerOpens
    <3>2. \A m \in Lease : \A e \in Outcome(m) : Queued(e)' => Queued(e)
      BY <1>0, <3>1, QueuedSent DEF Outcome, Ev, Terminal
    <3> QED
      BY <1>3, <3>1, <3>2
  <2> QED
    BY <2>1, <2>2
<1>6. CASE WorkerServes(l)
  <2>1. ASSUME NEW k \in Terminal, Ends(l, k) PROVE EndsTold'
    BY <1>4, <1>6, <2>1 DEF WorkerServes
  <2>2. CASE UNCHANGED <<worker, events>>
    BY <1>3, <2>2 DEF Queued
  <2> QED
    BY <1>6, <2>1, <2>2 DEF WorkerServes, Terminal
<1>7. CASE WorkerReturns(l) \/ WorkerDropsPermit(l)
  <2>1. /\ events' = events /\ worker[l].pc \in {"Returning", "Dropping"}
        /\ worker'[l].deferred = worker[l].deferred
        /\ worker'[l].pc \notin {"None", "Opening", "Serving"}
    <3>1. CASE WorkerReturns(l)
      BY <1>0, <3>1 DEF WorkerReturns, Streams, WorkerType
    <3>2. CASE WorkerDropsPermit(l)
      BY <1>0, <3>2 DEF WorkerDropsPermit, Streams, WorkerType
    <3> QED
      BY <1>7, <3>1, <3>2
  <2> QED
    BY <1>3, <2>1 DEF Queued
<1>8. CASE WorkerEnds(l)
  <2>1. /\ worker[l].pc \in {"Ending", "Releasing"} /\ worker'[l].pc = "Done"
        /\ worker'[l].deferred = FALSE /\ UNCHANGED admissionVars
    BY <1>0, <1>8 DEF WorkerEnds, Streams, WorkerType
  <2>2. CASE worker[l].deferred
    <3>1. worker[l].ended \in Terminal /\ Send(Ev(worker[l].ended, l))
      BY <1>0, <1>8, <2>2 DEF WorkerEnds, Known, Streams, WorkerType
    <3> DEFINE k == worker[l].ended
    <3> HIDE DEF k
    <3>2. k \in Terminal /\ Send(Ev(k, l))
      BY <3>1 DEF k
    <3> QED
      BY <1>1, <2>1, <2>2, <3>2, EndTold
  <2>3. CASE ~worker[l].deferred
    <3>1. events' = events
      BY <1>8, <2>3 DEF WorkerEnds
    <3> QED
      BY <1>3, <2>1, <3>1 DEF Queued
  <2> QED
    BY <2>2, <2>3
<1> QED
  BY <1>5, <1>6, <1>7, <1>8 DEF WorkerNext

(* The supervisor takes an event: the slot of a stream that ended goes and *)
(* if nobody else holds its permit the supervisor is about to return it.   *)
LEMMA TakeTold ==
  ASSUME TypeOK, Known, Paid, AdmissionInv, EndsTold, SupervisorTakes
  PROVE  EndsTold'
<1>0. Streams /\ Queues /\ Threads
  BY TypeParts
<1> DEFINE n == Head(events)
<1>1. /\ n \in Event /\ n.lease \in Lease /\ Queued(n)
      /\ \A e : Queued(e)' => Queued(e)
  <2>1. n \in Event
    BY <1>0, HeadTyped DEF SupervisorTakes, Queues
  <2>2. Queued(n) /\ \A e : In(e, Tail(events)) => Queued(e)
    BY <1>0, InTail DEF SupervisorTakes, Queues, Queued
  <2> QED
    BY <2>1, <2>2 DEF SupervisorTakes, Event, Queued
<1>2. /\ UNCHANGED <<worker, route>> /\ sup.pc = "Drain" /\ sup'.pc = "Route"
      /\ sup'.hand = n /\ sup'.releasing = (Removes(n) /\ ~ThreadHolds(n.lease))
  BY <1>0 DEF SupervisorTakes, Threads, SupType
<1>3. \A e : (Held(e)' <=> e = n) /\ ~Held(e) /\ (Routed(e)' <=> Routed(e))
  BY <1>2 DEF Held, Routed
<1>4. \A l \in Lease : slot'[l] = IF Removes(n) /\ l = n.lease THEN "None" ELSE slot[l]
  BY <1>0, <1>1 DEF SupervisorTakes, Streams
<1>5. \A l \in Lease : worker[l].pc = "Done" /\ slot[l] = "None" /\ Returned(l)
                         => Returned(l)'
  BY ReturnedStays DEF Next, SupervisorRuns
<1>6. \A l \in Lease : \A e \in Outcome(l) : e.lease = l /\ e.kind \in Terminal
  BY DEF Outcome, Ev
<1>7. n.kind \in Terminal => n \in Outcome(n.lease)
  BY <1>1 DEF Outcome, Ev, Event
<1>8. \A l \in Lease : Ev("Cancelled", l) \in Outcome(l)
  BY DEF Outcome, Terminal
<1> HIDE DEF n
<1>9. Untold'
  BY <1>1, <1>2, <1>3, <1>4, <1>6, <1>7 DEF EndsTold, Untold, Removes
<1>10. ToldLast'
  BY <1>2, <1>3, <1>4, <1>6 DEF EndsTold, ToldLast, Removes
<1>11. CancelTold'
  <2> SUFFICES ASSUME NEW l \in Lease,
                 Queued(Ev("Cancelled", l))' \/ Held(Ev("Cancelled", l))'
                   \/ Routed(Ev("Cancelled", l))'
               PROVE  /\ worker'[l].pc = "Done"
                      /\ (Queued(Ev("Cancelled", l)) \/ Held(Ev("Cancelled", l)))'
                           /\ slot'[l] = "None" =>
                           Returned(l)' \/ (sup'.pc = "Route" /\ sup'.releasing
                                              /\ sup'.hand.lease = l)
                      /\ Routed(Ev("Cancelled", l))' /\ slot'[l] = "None" => Returned(l)'
    BY DEF CancelTold
  <2>1. worker[l].pc = "Done"
    BY <1>1, <1>3 DEF EndsTold, CancelTold
  <2>2. CASE Removes(n) /\ n.lease = l
    <3>1. sup'.pc = "Route" /\ sup'.releasing /\ sup'.hand.lease = l
      BY <1>2, <2>1, <2>2 DEF ThreadHolds
    <3>2. ~Routed(Ev("Cancelled", l))
      BY <1>8, <2>2 DEF EndsTold, ToldLast, Removes
    <3> QED
      BY <1>2, <1>3, <2>1, <3>1, <3>2
  <2>3. CASE ~(Removes(n) /\ n.lease = l)
    <3>1. slot'[l] = slot[l]
      BY <1>4, <2>3
    <3>2. slot[l] = "None" => Returned(l)
      BY <1>1, <1>2, <1>3, <2>1 DEF EndsTold, CancelTold
    <3> QED
      BY <1>2, <1>5, <2>1, <3>1, <3>2
  <2> QED
    BY <2>2, <2>3
<1> QED
  BY <1>9, <1>10, <1>11 DEF EndsTold

(* The supervisor routes what it took, after it returned the permit.       *)
LEMMA RouteTold ==
  ASSUME TypeOK, Known, Paid, AdmissionInv, EndsTold, SupervisorRoutes
  PROVE  EndsTold'
<1>0. Streams /\ Queues /\ Threads
  BY TypeParts
<1> DEFINE n == sup.hand
<1>1. /\ UNCHANGED <<worker, slot, events>> /\ sup.pc = "Route" /\ sup'.pc # "Route"
      /\ sup.releasing => Returned(n.lease)
  BY <1>0 DEF SupervisorRoutes, Threads, SupType
<1>2. Held(n) /\ \A e : Held(e) <=> e = n
  BY <1>1 DEF Held
<1>3. \A e : /\ Queued(e)' <=> Queued(e)
             /\ ~Held(e)'
             /\ Routed(e)' => Routed(e) \/ e = n
  <2>1. n \in Event
    BY <1>1 DEF Known
  <2>2. CASE route' = route
    BY <1>1, <2>2 DEF Queued, Held, Routed
  <2>3. CASE route' # route
    <3> DEFINE s == worker[n.lease].session
    <3>1. route' = [route EXCEPT ![s] = Append(@, n)]
      BY <2>3 DEF SupervisorRoutes
    <3>2. \A t \in Session : route'[t] = IF t = s THEN Append(route[t], n) ELSE route[t]
      BY <1>0, <3>1 DEF Queues
    <3>3. \A t \in Session : \A e : In(e, Append(route[t], n)) <=> In(e, route[t]) \/ e = n
      BY <1>0, <2>1, InAppend DEF Queues
    <3> HIDE DEF n, s
    <3> QED
      BY <1>1, <3>2, <3>3 DEF Queued, Held, Routed
  <2> QED
    BY <2>2, <2>3
<1>4. \A l \in Lease : worker[l].pc = "Done" /\ slot[l] = "None" /\ Returned(l)
                         => Returned(l)'
  BY ReturnedStays DEF Next, SupervisorRuns
<1>5. \A l \in Lease : \A e \in Outcome(l) : e.lease = l
  BY DEF Outcome, Ev
<1>6. \A l \in Lease : Ev("Cancelled", l) \in Outcome(l) /\ Ev("Cancelled", l).lease = l
  BY DEF Outcome, Terminal, Ev
<1> HIDE DEF n
<1>7. Untold'
  BY <1>1, <1>2, <1>3 DEF EndsTold, Untold
<1>8. ToldLast'
  BY <1>1, <1>2, <1>3 DEF EndsTold, ToldLast
<1>9. CancelTold'
  <2> SUFFICES ASSUME NEW l \in Lease,
                 Queued(Ev("Cancelled", l))' \/ Routed(Ev("Cancelled", l))'
               PROVE  /\ worker'[l].pc = "Done"
                      /\ slot'[l] = "None" => Returned(l)'
    BY <1>3 DEF CancelTold
  <2>1. worker[l].pc = "Done"
    BY <1>2, <1>3 DEF EndsTold, CancelTold
  <2>2. slot[l] = "None" => Returned(l)
    BY <1>1, <1>2, <1>3, <1>6 DEF EndsTold, CancelTold, n
  <2> QED
    BY <1>1, <1>4, <2>1, <2>2
<1> QED
  BY <1>7, <1>8, <1>9 DEF EndsTold

(* Deadlines, waits, the diagnostic and the shutdown tell of no end.       *)
LEMMA RestTold ==
  ASSUME TypeOK, Known, Paid, AdmissionInv, EndsTold,
         \/ \E l \in Lease : SupervisorReaps(l)
         \/ SupervisorDrained \/ SupervisorSettles \/ SupervisorWakes
         \/ DiagnosticNext \/ CloseThreads \/ Retire \/ ReleaseGate \/ UNCHANGED vars
  PROVE  EndsTold'
<1>0. Streams /\ Queues /\ Threads
  BY TypeParts
<1>1. UNCHANGED <<worker, events, route>>
  BY DEF SupervisorReaps, SupervisorDrained, SupervisorSettles, SupervisorWakes,
         DiagnosticNext, DiagnosticAdmits, DiagnosticOpens, DiagnosticCloses,
         DiagnosticDropsPermit, CloseThreads, Retire, ReleaseGate, asrButDiag, asrVars, vars
<1>2. \A l \in Lease : worker[l].pc = "Done" /\ slot[l] = "None" /\ Returned(l)
                         => Returned(l)'
  BY ReturnedStays DEF Next, SupervisorRuns
<1>3. CASE \E l \in Lease : SupervisorReaps(l)
  <2>1. PICK m \in Lease : SupervisorReaps(m)
    BY <1>3
  <2>2. \A l \in Lease : slot'[l] = slot[l] \/ (slot[l] # "None" /\ slot'[l] = "Quarantined")
    BY <1>0, <2>1 DEF SupervisorReaps, Armed, Streams
  <2>3. /\ sup.pc = "Reap" /\ sup'.hand.kind \in TimedOut
    BY <1>0, <2>1 DEF SupervisorReaps, Threads, SupType, Ev, TimedOut
  <2>4. \A l \in Lease : \A e \in Outcome(l) : ~Held(e)'
    BY <2>3 DEF Outcome, Ev, Held, Terminal, TimedOut
  <2> QED
    BY <1>1, <1>2, <2>2, <2>3, <2>4, QuietEnds DEF Queued, Routed
<1>4. CASE SupervisorDrained \/ SupervisorSettles \/ SupervisorWakes
  <2>1. sup.pc # "Route" /\ sup'.pc # "Route" /\ slot' = slot
    BY <1>0, <1>4 DEF SupervisorDrained, SupervisorSettles, SupervisorWakes, Threads, SupType
  <2> QED
    BY <1>1, <1>2, <2>1, QuietEnds DEF Queued, Held, Routed
<1>5. CASE DiagnosticNext \/ CloseThreads \/ Retire \/ ReleaseGate \/ UNCHANGED vars
  <2>1. UNCHANGED <<sup, slot>>
    BY <1>5 DEF DiagnosticNext, DiagnosticAdmits, DiagnosticOpens, DiagnosticCloses,
         DiagnosticDropsPermit, CloseThreads, Retire, ReleaseGate, asrButDiag, asrVars, vars
  <2> QED
    BY <1>1, <1>2, <2>1, QuietEnds DEF Queued, Held, Routed
<1> QED
  BY <1>3, <1>4, <1>5

(* Every step preserves EndsTold.                                          *)
LEMMA EndsToldKept ==
  ASSUME TypeOK, Known, Paid, AdmissionInv, EndsTold, [Next]_vars
  PROVE  EndsTold'
BY SessionTold, WorkerTold, TakeTold, RouteTold, RestTold DEF Next, SupervisorRuns

(* Nothing runs and nothing is told at first.                              *)
LEMMA InitServes == Init => ThreadsKnown /\ RecognizersKnown /\ EndsTold
<1> SUFFICES ASSUME Init PROVE ThreadsKnown /\ RecognizersKnown /\ EndsTold
  OBVIOUS
<1>1. \A l \in Lease : worker[l].pc = "None" /\ slot[l] = "None" /\ ~worker[l].deferred
  BY DEF Init
<1>2. ThreadsKnown
  BY <1>1 DEF ThreadsKnown
<1>3. RecognizersKnown
  <2>1. Out = {} /\ pool.free = MaxWorkers
    BY <1>1 DEF Init, Out, Engaged
  <2> QED
    BY <2>1, FS_EmptySet, AsrAssumption DEF RecognizersKnown, AsrAssumption
<1>4. EndsTold
  <2>1. \A e : ~Queued(e) /\ ~Held(e) /\ ~Routed(e)
    BY InEmpty DEF Init, Queued, Held, Routed
  <2> QED
    BY <1>1, <2>1 DEF EndsTold, Untold, ToldLast, CancelTold
<1> QED
  BY <1>2, <1>3, <1>4

(* The invariant of the runtime's service, on top of AsrInv.               *)
ServiceInv == AsrInv /\ ThreadsKnown /\ RecognizersKnown /\ EndsTold

LEMMA ServiceInvariant == Spec => []ServiceInv
<1>1. Init => ServiceInv
  BY InitInv, InitServes DEF ServiceInv
<1>2. ServiceInv /\ [Next]_vars => ServiceInv'
  BY NextInv, ThreadsKept, RecognizersKept, EndsToldKept DEF ServiceInv, AsrInv
<1> QED
  BY <1>1, <1>2, PTL DEF Spec

(* What a session reads in its mailbox was routed (CancelTold).            *)
LEMMA CancelReturns == ServiceInv => CancelledIsReusable
<1> SUFFICES ASSUME ServiceInv, NEW s \in Session, NEW i \in 1..Len(route[s]),
                    route[s][i].kind = "Cancelled", slot[route[s][i].lease] = "None"
             PROVE  Returned(route[s][i].lease)
  BY DEF CancelledIsReusable
<1>0. Queues
  BY TypeParts DEF ServiceInv, AsrInv
<1> DEFINE l == route[s][i].lease
<1>1. route[s][i] \in Event
  BY <1>0 DEF Queues
<1>2. l \in Lease /\ route[s][i] = Ev("Cancelled", l)
  BY <1>1 DEF Event, Ev
<1>3. Routed(Ev("Cancelled", l))
  BY <1>2 DEF Routed, In
<1> QED
  BY <1>2, <1>3 DEF ServiceInv, EndsTold, CancelTold

(* An open that was admitted finds a slot and a recognizer while the pool  *)
(* is healthy: open_class need not refuse it (pool.rs, mod.rs).            *)
THEOREM AdmittedServed == Spec => []AdmittedIsServed
BY ServiceInvariant, AdmissionServes, PTL DEF ServiceInv

(* The capacity of a cancelled stream is back when its session hears of it *)
(* (run_worker's deferred event, dispatch's drop before try_send).         *)
THEOREM CancelledReusable == Spec => []CancelledIsReusable
BY ServiceInvariant, CancelReturns, PTL
=============================================================================
