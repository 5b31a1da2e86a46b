-------------------------- MODULE VadWorkers_proofs --------------------------
(***************************************************************************)
(* Proofs about VadWorkers, for every number of leases, cycles, frames and *)
(* workers and every capacity: its types and bounds (no slot past          *)
(* max_workers); that a window judged in a capture cycle holds audio of    *)
(* that cycle only; that a session waiting for a reset hears of it; that a *)
(* current cycle is served.                                                *)
(***************************************************************************)
EXTENDS VadWorkers, SequenceTheorems, FiniteSetTheorems, TLAPS

-----------------------------------------------------------------------------
(* Sequences: one entry more, one entry less.                              *)
LEMMA AppendTo ==
  ASSUME NEW S, NEW q \in Seq(S), NEW e \in S
  PROVE  /\ Append(q, e) \in Seq(S) /\ Len(Append(q, e)) = Len(q) + 1
         /\ DOMAIN q = 1..Len(q) /\ DOMAIN Append(q, e) = 1..Len(q) + 1
         /\ \A i \in 1..Len(q) : Append(q, e)[i] = q[i]
         /\ Append(q, e)[Len(q) + 1] = e /\ Len(q) \in Nat
         /\ Range(Append(q, e)) = Range(q) \cup {e}
<1>1. /\ Append(q, e) \in Seq(S) /\ Len(Append(q, e)) = Len(q) + 1
      /\ \A i \in 1..Len(q) : Append(q, e)[i] = q[i]
      /\ Append(q, e)[Len(q) + 1] = e
  BY AppendProperties
<1>2. /\ DOMAIN q = 1..Len(q) /\ DOMAIN Append(q, e) = 1..Len(q) + 1 /\ Len(q) \in Nat
  BY <1>1, LenProperties
<1>3. Range(Append(q, e)) = Range(q) \cup {e}
  <2>1. 1..Len(q) + 1 = (1..Len(q)) \cup {Len(q) + 1}
    BY <1>2
  <2> QED
    BY <1>1, <1>2, <2>1 DEF Range
<1> QED
  BY <1>1, <1>2, <1>3

(* Taking the head of a sequence: what is left, and where it was.          *)
LEMMA TailOf ==
  ASSUME NEW S, NEW q \in Seq(S), q # <<>>
  PROVE  /\ Head(q) \in S /\ Tail(q) \in Seq(S)
         /\ Len(q) \in Nat /\ Len(q) >= 1 /\ Len(Tail(q)) = Len(q) - 1
         /\ DOMAIN q = 1..Len(q) /\ DOMAIN Tail(q) = 1..Len(q) - 1
         /\ Head(q) = q[1]
         /\ \A i \in 1..Len(q) - 1 : Tail(q)[i] = q[i + 1]
         /\ Range(q) = {Head(q)} \cup Range(Tail(q))
<1>1. /\ Head(q) \in S /\ Tail(q) \in Seq(S) /\ Len(Tail(q)) = Len(q) - 1
      /\ \A i \in 1..Len(Tail(q)) : Tail(q)[i] = q[i + 1]
  BY HeadTailProperties
<1>2. Len(q) \in Nat /\ Len(q) >= 1
  BY EmptySeq, LenProperties
<1>3. DOMAIN q = 1..Len(q) /\ DOMAIN Tail(q) = 1..Len(q) - 1
  BY <1>1, LenProperties
<1>4. Head(q) = q[1]
  OBVIOUS
<1>5. Range(q) = {Head(q)} \cup Range(Tail(q))
  <2>1. \A i \in 1..Len(q) : i = 1 \/ (i - 1 \in 1..Len(q) - 1 /\ i = (i - 1) + 1)
    BY <1>2
  <2>2. \A i \in 1..Len(q) - 1 : i + 1 \in 1..Len(q)
    BY <1>2
  <2>3. Range(q) \subseteq {Head(q)} \cup Range(Tail(q))
    <3> SUFFICES ASSUME NEW i \in 1..Len(q) PROVE q[i] \in {Head(q)} \cup Range(Tail(q))
      BY <1>3 DEF Range
    <3>1. CASE i = 1
      BY <1>4, <3>1
    <3>2. CASE i - 1 \in 1..Len(q) - 1 /\ i = (i - 1) + 1
      <4>1. q[i] = Tail(q)[i - 1]
        BY <1>1, <3>2
      <4> QED
        BY <1>3, <3>2, <4>1 DEF Range
    <3> QED
      BY <2>1, <3>1, <3>2
  <2>4. Range(Tail(q)) \subseteq Range(q)
    <3> SUFFICES ASSUME NEW i \in 1..Len(q) - 1 PROVE Tail(q)[i] \in Range(q)
      BY <1>3 DEF Range
    <3>1. Tail(q)[i] = q[i + 1] /\ i + 1 \in 1..Len(q)
      BY <1>1, <2>2
    <3> QED
      BY <1>3, <3>1 DEF Range
  <2>5. Head(q) \in Range(q)
    BY <1>2, <1>3, <1>4 DEF Range
  <2> QED
    BY <2>3, <2>4, <2>5
<1> QED
  BY <1>1, <1>2, <1>3, <1>4, <1>5

(* The empty sequence has no entries.                                      *)
LEMMA EmptyRange == Range(<<>>) = {}
BY DEF Range

(* What is in a sequence of S is in S.                                     *)
LEMMA RangeTyped == ASSUME NEW S, NEW q \in Seq(S) PROVE Range(q) \subseteq S
BY RangeOfSeq

-----------------------------------------------------------------------------
(* Types.                                                                  *)
SessType ==
  [lease : 0..MaxOpens, cycle : 0..MaxCycles, cycles : 0..MaxCycles,
   pendingCycle : 0..MaxCycles, frames : 0..MaxFrames, expected : Nat,
   opening : BOOLEAN, closed : BOOLEAN, dropped : BOOLEAN]
SlotStates == {"None", "Active", "Resetting", "Cleaning", "Quarantined"}
WorkerType ==
  [pc : {"None", "Opening", "Serving", "Done"}, pending : 0..Window - 1,
   oldest : 0..MaxCycles, next : Nat]

(* What is kept per lease, what is in flight, and the slots taken.         *)
Leased ==
  /\ slot \in [Lease -> SlotStates] /\ worker \in [Lease -> WorkerType]
  /\ commands \in [Lease -> Seq(Command)]
  /\ \A l \in Lease : Len(commands[l]) <= Capacity
Signals ==
  /\ events \in Seq(AnEvent) /\ route \in Seq(AnEvent) /\ Len(route) <= Capacity
  /\ reaping \in BOOLEAN /\ lost \in BOOLEAN
Slotted == Cardinality(Slots) <= MaxWorkers

(* TypeOK in the parts the steps change.                                   *)
LEMMA TypeParts ==
  TypeOK <=> /\ sess \in SessType /\ opens \in 0..MaxOpens
             /\ Leased /\ Signals /\ Slotted
BY DEF TypeOK, SessType, SlotStates, WorkerType, Leased, Signals, Slotted

(* The same of the next state.                                             *)
LEMMA TypePartsNext ==
  TypeOK' <=> /\ sess' \in SessType /\ opens' \in 0..MaxOpens
              /\ Leased' /\ Signals' /\ Slotted'
BY DEF TypeOK, SessType, SlotStates, WorkerType, Leased, Signals, Slotted

(* Slots are finitely many, and no more when none is taken.                *)
LEMMA SlotsFinite == IsFiniteSet(Slots) /\ Cardinality(Slots) \in Nat
<1>1. IsFiniteSet(Lease)
  BY VadAssumption, FS_Interval DEF VadAssumption, Lease
<1>2. Slots \subseteq Lease
  BY DEF Slots
<1> QED
  BY <1>1, <1>2, FS_Subset, FS_CardinalityType

(* The bound of max_workers holds on while no slot is taken.               *)
LEMMA SlotsShrink == ASSUME Slotted, Slots' \subseteq Slots PROVE Slotted'
<1>1. IsFiniteSet(Slots') /\ Cardinality(Slots') <= Cardinality(Slots)
  BY SlotsFinite, FS_Subset
<1>2. Cardinality(Slots') \in Nat
  BY <1>1, FS_CardinalityType
<1> QED
  BY <1>1, <1>2, SlotsFinite, VadAssumption DEF Slotted, VadAssumption

-----------------------------------------------------------------------------
(* The session's record, as each step leaves it: its fields and its type.  *)

(* None is a lease, a cycle, a number of frames and a sample.              *)
LEMMA NoneTyped ==
  None \in 0..MaxOpens /\ None \in 0..MaxCycles /\ 0 \in 0..MaxFrames /\ None \in Nat
BY VadAssumption DEF VadAssumption, None

(* fail_closed: only closed changes.                                       *)
LEMMA SessClosed ==
  ASSUME NEW s \in SessType, sess' = [s EXCEPT !.closed = TRUE]
  PROVE  /\ sess' \in SessType /\ sess'.closed
         /\ sess'.lease = s.lease /\ sess'.cycle = s.cycle /\ sess'.cycles = s.cycles
         /\ sess'.pendingCycle = s.pendingCycle /\ sess'.opening = s.opening
         /\ sess'.dropped = s.dropped
<1>1. sess' \in SessType
  BY DEF SessType
<1> QED
  BY <1>1 DEF SessType

(* close_vad before a replacement: no cycle, and the session is opening.   *)
LEMMA SessReplaces ==
  ASSUME sess \in SessType, CloseForReplacement
  PROVE  /\ sess' \in SessType /\ sess'.opening /\ sess'.cycle = None
         /\ sess'.pendingCycle = None
         /\ sess'.lease = sess.lease /\ sess'.cycles = sess.cycles
         /\ sess'.closed = sess.closed /\ sess'.dropped = sess.dropped
<1>1. sess' = [sess EXCEPT !.opening = TRUE, !.cycle = None, !.pendingCycle = None,
                           !.expected = None, !.frames = 0]
  BY DEF CloseForReplacement
<1>2. sess' \in SessType
  BY <1>1, NoneTyped DEF SessType
<1> QED
  BY <1>1, <1>2 DEF SessType

(* The new lease and its first cycle.                                      *)
LEMMA SessOpens ==
  ASSUME sess \in SessType, opens \in 0..MaxOpens, opens < MaxOpens,
         sess.cycles < MaxCycles,
         sess' = [sess EXCEPT !.opening = FALSE, !.lease = opens + 1,
                              !.cycles = @ + 1, !.cycle = sess.cycles + 1]
  PROVE  /\ sess' \in SessType /\ ~sess'.opening /\ sess'.lease = opens + 1
         /\ sess'.cycles = sess.cycles + 1 /\ sess'.cycle = sess.cycles + 1
         /\ sess'.pendingCycle = sess.pendingCycle
         /\ sess'.closed = sess.closed /\ sess'.dropped = sess.dropped
<1>1. /\ sess.cycles + 1 \in 0..MaxCycles /\ opens + 1 \in 0..MaxOpens
  BY VadAssumption DEF SessType, VadAssumption
<1>2. sess' = [sess EXCEPT !.opening = FALSE, !.lease = opens + 1,
                           !.cycles = sess.cycles + 1, !.cycle = sess.cycles + 1]
  BY DEF SessType
<1>3. sess' \in SessType
  BY <1>1, <1>2 DEF SessType
<1> QED
  BY <1>1, <1>2, <1>3 DEF SessType

(* An open refused closes the session.                                     *)
LEMMA SessRefused ==
  ASSUME sess \in SessType, sess' = [sess EXCEPT !.opening = FALSE, !.closed = TRUE]
  PROVE  /\ sess' \in SessType /\ ~sess'.opening /\ sess'.closed
         /\ sess'.lease = sess.lease /\ sess'.cycles = sess.cycles
         /\ sess'.cycle = sess.cycle /\ sess'.pendingCycle = sess.pendingCycle
         /\ sess'.dropped = sess.dropped
<1>1. sess' \in SessType
  BY DEF SessType
<1> QED
  BY <1>1 DEF SessType

(* A frame counted.                                                        *)
LEMMA SessFramed ==
  ASSUME sess \in SessType, sess.frames < MaxFrames,
         sess' = [sess EXCEPT !.frames = @ + 1]
  PROVE  /\ sess' \in SessType
         /\ sess'.lease = sess.lease /\ sess'.cycles = sess.cycles
         /\ sess'.cycle = sess.cycle /\ sess'.pendingCycle = sess.pendingCycle
         /\ sess'.opening = sess.opening /\ sess'.closed = sess.closed
         /\ sess'.dropped = sess.dropped
<1>1. sess' \in SessType
  BY VadAssumption DEF SessType, VadAssumption
<1> QED
  BY <1>1 DEF SessType

(* A new cycle that the session waits for.                                 *)
LEMMA SessResets ==
  ASSUME sess \in SessType, sess.cycles < MaxCycles, NEW s,
         s = [sess EXCEPT !.cycles = sess.cycles + 1, !.cycle = None,
                          !.pendingCycle = sess.cycles + 1, !.frames = 0]
  PROVE  /\ s \in SessType
         /\ s.lease = sess.lease /\ s.cycles = sess.cycles + 1
         /\ s.cycle = None /\ s.pendingCycle = sess.cycles + 1
         /\ s.opening = sess.opening /\ s.closed = sess.closed
         /\ s.dropped = sess.dropped
<1>1. sess.cycles + 1 \in 0..MaxCycles
  BY VadAssumption DEF SessType, VadAssumption
<1>2. s \in SessType
  BY <1>1, NoneTyped DEF SessType
<1> QED
  BY <1>1, <1>2 DEF SessType

(* Drop of the actor.                                                      *)
LEMMA SessDropped ==
  ASSUME sess \in SessType, sess' = [sess EXCEPT !.closed = TRUE, !.dropped = TRUE]
  PROVE  /\ sess' \in SessType /\ sess'.closed
         /\ sess'.lease = sess.lease /\ sess'.cycles = sess.cycles
         /\ sess'.cycle = sess.cycle /\ sess'.pendingCycle = sess.pendingCycle
         /\ sess'.opening = sess.opening
<1>1. sess' \in SessType
  BY DEF SessType
<1> QED
  BY <1>1 DEF SessType

(* The segmenter moved on by one window.                                   *)
LEMMA SessExpects ==
  ASSUME sess \in SessType, NEW n \in Nat, sess' = [sess EXCEPT !.expected = n]
  PROVE  /\ sess' \in SessType
         /\ sess'.lease = sess.lease /\ sess'.cycles = sess.cycles
         /\ sess'.cycle = sess.cycle /\ sess'.pendingCycle = sess.pendingCycle
         /\ sess'.opening = sess.opening /\ sess'.closed = sess.closed
         /\ sess'.dropped = sess.dropped
<1>1. sess' \in SessType
  BY DEF SessType
<1> QED
  BY <1>1 DEF SessType

(* The cycle the session waited for is the current one.                    *)
LEMMA SessReset ==
  ASSUME sess \in SessType, NEW c \in 0..MaxCycles,
         sess' = [sess EXCEPT !.cycle = c, !.pendingCycle = None, !.expected = None]
  PROVE  /\ sess' \in SessType
         /\ sess'.lease = sess.lease /\ sess'.cycles = sess.cycles
         /\ sess'.cycle = c /\ sess'.pendingCycle = None
         /\ sess'.opening = sess.opening /\ sess'.closed = sess.closed
         /\ sess'.dropped = sess.dropped
<1>1. sess' \in SessType
  BY NoneTyped DEF SessType
<1> QED
  BY <1>1 DEF SessType

(* The lease is over.                                                      *)
LEMMA SessUnleased ==
  ASSUME sess \in SessType, sess' = [sess EXCEPT !.lease = None]
  PROVE  /\ sess' \in SessType
         /\ sess'.lease = None /\ sess'.cycles = sess.cycles
         /\ sess'.cycle = sess.cycle /\ sess'.pendingCycle = sess.pendingCycle
         /\ sess'.opening = sess.opening /\ sess'.closed = sess.closed
         /\ sess'.dropped = sess.dropped
<1>1. sess' \in SessType
  BY NoneTyped DEF SessType
<1> QED
  BY <1>1 DEF SessType

-----------------------------------------------------------------------------
(* The inductive invariant.                                                *)
(* The session: a lease it was given, room for the one it is opening, and  *)
(* a reset it waits for only while it has a lease and no cycle.            *)
Current == ~sess.closed /\ ~sess.opening /\ sess.lease # None

SessionInv ==
  /\ sess.lease <= opens /\ sess.cycle <= sess.cycles
  /\ sess.opening => /\ opens < MaxOpens /\ sess.cycles < MaxCycles
                     /\ ~sess.closed /\ sess.pendingCycle = None
  /\ sess.dropped => sess.closed
  /\ sess.pendingCycle # None /\ ~sess.closed => sess.lease # None /\ sess.cycle = None

(* A lease not given out yet has no slot and no thread, a thread that is   *)
(* over has no commands and no audio, and one that listens has its slot.   *)
SlotsInv ==
  \A l \in Lease :
    /\ l > opens => slot[l] = "None" /\ worker[l].pc = "None"
    /\ worker[l].pc \in {"None", "Done"} => commands[l] = <<>> /\ worker[l].pending = 0
    /\ slot[l] = "None" => ~Listens(l)

(* Commands and events are of cycles and leases given out; a reset is of   *)
(* a cycle.                                                                *)
Numbered ==
  /\ \A l \in Lease : \A c \in Range(commands[l]) :
       c.cycle <= sess.cycles /\ (c.do = "Reset" => c.cycle # None)
  /\ \A e \in Range(events) \cup Range(route) :
       /\ e.lease <= opens /\ e.cycle <= sess.cycles
       /\ e.kind = "ResetDone" => e.cycle # None

(* One reset at a time: only a Close follows it in the command channel,    *)
(* it is in that channel or in the event channel, once, and the slot is    *)
(* not Active meanwhile.                                                   *)
ClosesLast(q) ==
  \A i, j \in DOMAIN q : i < j /\ q[i].do = "Reset" => q[j].do = "Close"
Tells(e, l) == e.kind = "ResetDone" /\ e.lease = l
ToldOnce(q, l) ==
  \A i, j \in DOMAIN q : i < j /\ Tells(q[i], l) => ~Tells(q[j], l)
Asked(l) == \E c \in Range(commands[l]) : c.do = "Reset"
Told(l) == \E e \in Range(events) : Tells(e, l)
OneReset ==
  \A l \in Lease :
    /\ ClosesLast(commands[l]) /\ ToldOnce(events, l)
    /\ ~(Asked(l) /\ Told(l))
    /\ slot[l] = "Active" => ~Asked(l) /\ ~Told(l)

(* The frames of a channel and the audio its worker holds are of one cycle.*)
OneFeed ==
  \A l \in Lease : \A c \in Range(commands[l]) : c.do = "Push" =>
    /\ worker[l].pending # 0 => worker[l].oldest = c.cycle
    /\ \A d \in Range(commands[l]) : d.do = "Push" => d.cycle = c.cycle

(* A thread whose end is on its way is over, and every window is pure.     *)
EndsTold ==
  \A e \in Range(events) : e.kind \in {"Failed", "Closed"} => worker[e.lease].pc = "Done"
AllPure == \A e \in Range(events) \cup Range(route) : e.pure

(* All that holds of the channels and the threads by themselves.           *)
WireInv == SlotsInv /\ Numbered /\ OneReset /\ OneFeed /\ EndsTold /\ AllPure

(* The lease of a session that uses it: it feeds the worker one cycle; the *)
(* reset it waits for is the only one, all earlier frames are before it,   *)
(* and it is not asked for any more once the session can hear of it; and   *)
(* nobody has closed the lease.                                            *)
Feeds(l, c) ==
  /\ \A d \in Range(commands[l]) : d.do = "Push" => d.cycle = c
  /\ worker[l].pending # 0 => worker[l].oldest = c
Emptied(l) ==
  worker[l].pending = 0 /\ \A d \in Range(commands[l]) : d.do # "Push"
Resets(l, c) ==
  /\ \A d \in Range(commands[l]) : d.do = "Reset" => d.cycle = c
  /\ \A e \in Range(events) : Tells(e, l) => e.cycle = c
  /\ Asked(l) \/ Emptied(l)
  /\ (\E e \in Range(route) : Tells(e, l) /\ e.cycle = c) => ~Asked(l)
Unclosed(l) ==
  /\ slot[l] # "Cleaning"
  /\ \A d \in Range(commands[l]) : d.do # "Close"
  /\ \A e \in Range(events) \cup Range(route) : e.lease = l => e.kind # "Closed"

CurrentInv ==
  Current =>
    /\ sess.cycle # None => Feeds(sess.lease, sess.cycle)
    /\ sess.pendingCycle # None => Resets(sess.lease, sess.pendingCycle)
    /\ Unclosed(sess.lease)

(* A session that has a cycle, or can hear that its reset is done, is      *)
(* served, unless a failure comes first.                                   *)
Fails(e, l) == e.kind \in Fatal /\ e.lease = l
Served(l) == slot[l] = "Active" \/ ~Listens(l)
Doomed(i) == \E j \in DOMAIN route : j < i /\ Fails(route[j], sess.lease)
ServedInv ==
  Current /\ ~lost =>
    /\ sess.cycle # None => Served(sess.lease)
    /\ slot[sess.lease] = "Quarantined" => \E e \in Range(route) : Fails(e, sess.lease)
    /\ \A i \in DOMAIN route :
         Tells(route[i], sess.lease) /\ route[i].cycle = sess.pendingCycle =>
           Served(sess.lease) \/ Doomed(i)

(* The inductive invariant.                                                *)
VadInv ==
  TypeOK /\ SessionInv /\ WireInv /\ CurrentInv /\ ServedInv /\ ResetIsAnswered

(* The initial state.                                                      *)
LEMMA InitInv == Init => VadInv
<1> SUFFICES ASSUME Init PROVE VadInv
  OBVIOUS
<1>1. sess \in SessType
  BY NoneTyped DEF Init, SessType, None
<1>2. opens \in 0..MaxOpens
  BY VadAssumption DEF Init, VadAssumption
<1>3. Leased
  <2>1. [pc |-> "None", pending |-> 0, oldest |-> None, next |-> 0] \in WorkerType
    BY NoneTyped DEF WorkerType, Window
  <2>2. worker \in [Lease -> WorkerType]
    BY <2>1 DEF Init
  <2>3. \A l \in Lease : commands[l] = <<>> /\ Len(commands[l]) = 0
    BY DEF Init
  <2> QED
    BY <2>2, <2>3, VadAssumption DEF Init, Leased, SlotStates, VadAssumption
<1>4. Signals
  <2>1. <<>> \in Seq(AnEvent) /\ Len(<<>>) = 0
    BY EmptySeq
  <2>2. events = <<>> /\ route = <<>> /\ reaping \in BOOLEAN /\ lost \in BOOLEAN
    BY DEF Init
  <2>3. Len(route) <= Capacity
    BY <2>1, <2>2, VadAssumption DEF VadAssumption
  <2> QED
    BY <2>1, <2>2, <2>3 DEF Signals
<1>5. Slotted
  <2>1. Slots = {}
    BY DEF Init, Slots
  <2> QED
    BY <2>1, FS_EmptySet, VadAssumption DEF Slotted, VadAssumption
<1>6. SessionInv
  BY DEF Init, SessionInv, None
<1>7. /\ Range(events) = {} /\ Range(route) = {}
      /\ \A l \in Lease : /\ commands[l] = <<>> /\ Range(commands[l]) = {}
                          /\ slot[l] = "None" /\ worker[l].pc = "None"
                          /\ worker[l].pending = 0
  BY EmptyRange DEF Init
<1>8. WireInv
  <2>1. SlotsInv /\ Numbered /\ OneFeed /\ EndsTold /\ AllPure
    BY <1>7 DEF SlotsInv, Numbered, OneFeed, EndsTold, AllPure, Listens
  <2>2. OneReset
    BY <1>7 DEF Init, OneReset, ClosesLast, ToldOnce, Asked, Told
  <2> QED
    BY <2>1, <2>2 DEF WireInv
<1>9. ~Current /\ sess.pendingCycle = None
  BY DEF Init, Current
<1> QED
  BY <1>1, <1>2, <1>3, <1>4, <1>5, <1>6, <1>8, <1>9, TypeParts
     DEF VadInv, CurrentInv, ServedInv, ResetIsAnswered

-----------------------------------------------------------------------------
(* The order facts of the channels, as entries come and go.                *)
LEMMA CommandAdded ==
  ASSUME NEW q \in Seq(Command), NEW d \in Command, ClosesLast(q),
         d.do = "Close" \/ (\A c \in Range(q) : c.do # "Reset")
  PROVE  ClosesLast(Append(q, d))
<1> DEFINE r == Append(q, d)
<1>1. /\ Len(q) \in Nat /\ DOMAIN q = 1..Len(q) /\ DOMAIN r = 1..Len(q) + 1
      /\ \A i \in 1..Len(q) : r[i] = q[i]
      /\ r[Len(q) + 1] = d
  BY AppendTo
<1> HIDE DEF r
<1> SUFFICES ASSUME NEW i \in DOMAIN r, NEW j \in DOMAIN r, i < j, r[i].do = "Reset"
             PROVE  r[j].do = "Close"
  BY DEF ClosesLast, r
<1>2. i \in 1..Len(q) /\ r[i] = q[i] /\ q[i] \in Range(q)
  BY <1>1 DEF Range
<1>3. CASE j \in 1..Len(q)
  BY <1>1, <1>2, <1>3 DEF ClosesLast
<1>4. CASE j = Len(q) + 1
  BY <1>1, <1>2, <1>4
<1> QED
  BY <1>1, <1>3, <1>4

(* A command taken: after the reset only a Close is left.                  *)
LEMMA CommandTaken ==
  ASSUME NEW q \in Seq(Command), q # <<>>, ClosesLast(q)
  PROVE  /\ ClosesLast(Tail(q))
         /\ Head(q).do = "Reset" => \A d \in Range(Tail(q)) : d.do = "Close"
<1> DEFINE r == Tail(q)
<1>1. /\ Len(q) \in Nat /\ Len(q) >= 1 /\ DOMAIN q = 1..Len(q)
      /\ DOMAIN r = 1..Len(q) - 1 /\ Head(q) = q[1]
      /\ \A i \in 1..Len(q) - 1 : r[i] = q[i + 1]
  BY TailOf
<1> HIDE DEF r
<1>2. \A i \in DOMAIN r : r[i] = q[i + 1] /\ i + 1 \in DOMAIN q /\ 1 \in DOMAIN q /\ 1 < i + 1
  BY <1>1
<1>3. ClosesLast(r)
  <2> SUFFICES ASSUME NEW i \in DOMAIN r, NEW j \in DOMAIN r, i < j, r[i].do = "Reset"
               PROVE  r[j].do = "Close"
    BY DEF ClosesLast
  <2>1. i + 1 < j + 1
    BY <1>1
  <2> QED
    BY <1>2, <2>1 DEF ClosesLast
<1>4. Head(q).do = "Reset" => \A i \in DOMAIN r : r[i].do = "Close"
  BY <1>1, <1>2 DEF ClosesLast
<1> QED
  BY <1>3, <1>4 DEF r, Range

(* An event sent: a second answer to a reset only after the first has left.*)
LEMMA EventAdded ==
  ASSUME NEW q \in Seq(AnEvent), NEW e \in AnEvent, NEW l, ToldOnce(q, l),
         ~Tells(e, l) \/ (\A d \in Range(q) : ~Tells(d, l))
  PROVE  ToldOnce(Append(q, e), l)
<1> DEFINE r == Append(q, e)
<1>1. /\ Len(q) \in Nat /\ DOMAIN q = 1..Len(q) /\ DOMAIN r = 1..Len(q) + 1
      /\ \A i \in 1..Len(q) : r[i] = q[i]
      /\ r[Len(q) + 1] = e
  BY AppendTo
<1> HIDE DEF r
<1> SUFFICES ASSUME NEW i \in DOMAIN r, NEW j \in DOMAIN r, i < j, Tells(r[i], l)
             PROVE  ~Tells(r[j], l)
  BY DEF ToldOnce, r
<1>2. i \in 1..Len(q) /\ r[i] = q[i] /\ q[i] \in Range(q)
  BY <1>1 DEF Range
<1>3. CASE j \in 1..Len(q)
  BY <1>1, <1>2, <1>3 DEF ToldOnce
<1>4. CASE j = Len(q) + 1
  BY <1>1, <1>2, <1>4
<1> QED
  BY <1>1, <1>3, <1>4

(* An event taken: no second answer is left behind the first.              *)
LEMMA EventTaken ==
  ASSUME NEW q \in Seq(AnEvent), q # <<>>, NEW l, ToldOnce(q, l)
  PROVE  /\ ToldOnce(Tail(q), l)
         /\ Tells(Head(q), l) => \A d \in Range(Tail(q)) : ~Tells(d, l)
<1> DEFINE r == Tail(q)
<1>1. /\ Len(q) \in Nat /\ Len(q) >= 1 /\ DOMAIN q = 1..Len(q)
      /\ DOMAIN r = 1..Len(q) - 1 /\ Head(q) = q[1]
      /\ \A i \in 1..Len(q) - 1 : r[i] = q[i + 1]
  BY TailOf
<1> HIDE DEF r
<1>2. \A i \in DOMAIN r : r[i] = q[i + 1] /\ i + 1 \in DOMAIN q /\ 1 \in DOMAIN q /\ 1 < i + 1
  BY <1>1
<1>3. ToldOnce(r, l)
  <2> SUFFICES ASSUME NEW i \in DOMAIN r, NEW j \in DOMAIN r, i < j, Tells(r[i], l)
               PROVE  ~Tells(r[j], l)
    BY DEF ToldOnce
  <2>1. i + 1 < j + 1
    BY <1>1
  <2> QED
    BY <1>2, <2>1 DEF ToldOnce
<1>4. Tells(Head(q), l) => \A i \in DOMAIN r : ~Tells(r[i], l)
  BY <1>1, <1>2 DEF ToldOnce
<1> QED
  BY <1>3, <1>4 DEF r, Range

(* Several events sent that answer no reset.                               *)
LEMMA EventsJoined ==
  ASSUME NEW q \in Seq(AnEvent), NEW w \in Seq(AnEvent), NEW l, ToldOnce(q, l),
         \A d \in Range(w) : ~Tells(d, l)
  PROVE  ToldOnce(q \o w, l)
<1> DEFINE r == q \o w
<1>1. /\ Len(q) \in Nat /\ Len(w) \in Nat /\ DOMAIN q = 1..Len(q) /\ DOMAIN w = 1..Len(w)
      /\ Len(r) = Len(q) + Len(w) /\ r \in Seq(AnEvent)
      /\ \A i \in 1..Len(r) : r[i] = IF i <= Len(q) THEN q[i] ELSE w[i - Len(q)]
  BY ConcatProperties, LenProperties
<1>2. DOMAIN r = 1..Len(r)
  BY <1>1, LenProperties
<1> HIDE DEF r
<1>3. \A i \in DOMAIN r : (i \in DOMAIN q /\ r[i] = q[i]) \/ r[i] \in Range(w)
  <2> SUFFICES ASSUME NEW i \in DOMAIN r, ~(i \in DOMAIN q /\ r[i] = q[i])
               PROVE  r[i] \in Range(w)
    OBVIOUS
  <2>1. i > Len(q) /\ r[i] = w[i - Len(q)] /\ i - Len(q) \in DOMAIN w
    BY <1>1, <1>2
  <2> QED
    BY <2>1 DEF Range
<1> QED
  BY <1>3 DEF ToldOnce, r

-----------------------------------------------------------------------------
(* A command sent: one entry more in the channel of its lease, and the     *)
(* slot's next state; or nothing.                                          *)
SentTo(l, do, c) ==
  /\ Listens(l) /\ slot[l] # "None" /\ (do # "Close" => slot[l] = "Active")
  /\ commands'[l] = Append(commands[l], [do |-> do, cycle |-> c])
  /\ slot'[l] = NextSlot(l, do)
  /\ \A m \in Lease \ {l} : commands'[m] = commands[m] /\ slot'[m] = slot[m]

(* The slot that send leaves.                                              *)
LEMMA NextSlotTyped ==
  ASSUME NEW l \in Lease, NEW do \in {"Push", "Reset", "Close"}, slot[l] \in SlotStates
  PROVE  /\ NextSlot(l, do) \in SlotStates
         /\ do = "Push" => NextSlot(l, do) = slot[l]
         /\ do = "Reset" => NextSlot(l, do) = "Resetting"
         /\ do = "Close" => NextSlot(l, do) = "Cleaning"
<1>1. CASE do = "Push"
  BY <1>1 DEF NextSlot
<1>2. CASE do = "Reset"
  BY <1>2 DEF NextSlot, SlotStates
<1>3. CASE do = "Close"
  BY <1>3 DEF NextSlot, SlotStates
<1> QED
  BY <1>1, <1>2, <1>3

(* A command that is taken keeps the types and the capacity.               *)
LEMMA SentTyped ==
  ASSUME Leased, NEW l \in Lease, NEW do \in {"Push", "Reset", "Close"},
         NEW c \in 0..MaxCycles, Taken(l, do), Send(l, do, c), UNCHANGED worker
  PROVE  /\ Leased' /\ SentTo(l, do, c)
         /\ [do |-> do, cycle |-> c] \in Command
         /\ Slots' \subseteq Slots
<1> DEFINE d == [do |-> do, cycle |-> c]
<1>1. d \in Command
  BY DEF Command
<1>2. /\ commands[l] \in Seq(Command) /\ Len(commands[l]) < Capacity
      /\ slot[l] \in SlotStates /\ slot[l] # "None" /\ Listens(l)
      /\ do # "Close" => slot[l] = "Active"
  BY DEF Leased, Taken
<1>3. /\ commands' = [commands EXCEPT ![l] = Append(@, d)]
      /\ slot' = [slot EXCEPT ![l] = NextSlot(l, do)]
  BY DEF Send
<1>4. /\ Append(commands[l], d) \in Seq(Command)
      /\ Len(Append(commands[l], d)) = Len(commands[l]) + 1 /\ Len(commands[l]) \in Nat
  BY <1>1, <1>2, AppendTo
<1>5. NextSlot(l, do) \in SlotStates
  BY <1>2, NextSlotTyped
<1> HIDE DEF d
<1>6. slot' \in [Lease -> SlotStates]
  BY <1>3, <1>5 DEF Leased
<1>7. /\ commands' \in [Lease -> Seq(Command)]
      /\ \A m \in Lease : Len(commands'[m]) <= Capacity
  <2>1. commands' = [commands EXCEPT ![l] = Append(commands[l], d)]
    BY <1>3
  <2>2. commands' \in [Lease -> Seq(Command)]
    BY <1>4, <2>1 DEF Leased
  <2>3. commands'[l] = Append(commands[l], d)
        /\ \A m \in Lease \ {l} : commands'[m] = commands[m]
    BY <2>1 DEF Leased
  <2>4. Len(commands'[l]) <= Capacity
    BY <1>2, <1>4, <2>3, VadAssumption DEF VadAssumption
  <2> QED
    BY <2>2, <2>3, <2>4 DEF Leased
<1>8. SentTo(l, do, c)
  <2>1. commands'[l] = Append(commands[l], d) /\ slot'[l] = NextSlot(l, do)
    BY <1>3 DEF Leased
  <2>2. \A m \in Lease \ {l} : commands'[m] = commands[m] /\ slot'[m] = slot[m]
    BY <1>3 DEF Leased
  <2> QED
    BY <1>2, <2>1, <2>2 DEF SentTo, d
<1>9. Slots' \subseteq Slots
  BY <1>2, <1>3 DEF Leased, Slots
<1> QED
  BY <1>1, <1>6, <1>7, <1>8, <1>9 DEF Leased, d

(* What a command sent does to the facts about channels.                   *)
LEMMA SentKnown ==
  ASSUME Leased, NEW l \in Lease, NEW do \in {"Push", "Reset", "Close"},
         NEW c \in 0..MaxCycles, SentTo(l, do, c)
  PROVE  /\ Range(commands'[l]) = Range(commands[l]) \cup {[do |-> do, cycle |-> c]}
         /\ \A m \in Lease : m # l => Range(commands'[m]) = Range(commands[m])
         /\ Asked(l)' <=> Asked(l) \/ do = "Reset"
         /\ \A m \in Lease : m # l => (Asked(m)' <=> Asked(m))
<1>1. [do |-> do, cycle |-> c] \in Command /\ commands[l] \in Seq(Command)
  BY DEF Command, Leased
<1>2. Range(commands'[l]) = Range(commands[l]) \cup {[do |-> do, cycle |-> c]}
  BY <1>1, AppendTo DEF SentTo
<1>3. \A m \in Lease : m # l => Range(commands'[m]) = Range(commands[m])
  BY DEF SentTo
<1>4. Asked(l)' <=> Asked(l) \/ do = "Reset"
  <2> DEFINE d == [do |-> do, cycle |-> c]
  <2>1. d.do = do /\ Range(commands'[l]) = Range(commands[l]) \cup {d}
    BY <1>2
  <2> HIDE DEF d
  <2> QED
    BY <2>1 DEF Asked
<1>5. \A m \in Lease : m # l => (Asked(m)' <=> Asked(m))
  BY <1>3 DEF Asked
<1> QED
  BY <1>2, <1>3, <1>4, <1>5

(* The wire invariant after a command: a frame continues the feed of its   *)
(* lease, a reset is of the session's new cycle.                           *)
LEMMA SentWire ==
  ASSUME TypeOK, WireInv, NEW l \in Lease, NEW do \in {"Push", "Reset", "Close"},
         NEW c \in 0..MaxCycles, SentTo(l, do, c), sess' \in SessType,
         do = "Push" => Feeds(l, c),
         do = "Reset" => c # None,
         c <= sess'.cycles, sess.cycles <= sess'.cycles,
         UNCHANGED <<opens, worker, events>>, Range(route') \subseteq Range(route)
  PROVE  WireInv'
<1> DEFINE d == [do |-> do, cycle |-> c]
<1>1. /\ Range(commands'[l]) = Range(commands[l]) \cup {d}
      /\ \A m \in Lease : m # l => /\ Range(commands'[m]) = Range(commands[m])
                                   /\ (Asked(m)' <=> Asked(m))
      /\ Asked(l)' <=> Asked(l) \/ do = "Reset"
  BY SentKnown, TypeParts
<1>2. Leased /\ Signals /\ sess \in SessType /\ d.do = do /\ d.cycle = c /\ d \in Command
  BY TypeParts DEF Command
<1>3. /\ slot[l] \in SlotStates /\ Listens(l) /\ slot[l] # "None"
      /\ do # "Close" => slot[l] = "Active"
      /\ commands'[l] = Append(commands[l], d)
      /\ slot'[l] = NextSlot(l, do)
      /\ \A m \in Lease : m # l => commands'[m] = commands[m] /\ slot'[m] = slot[m]
  BY <1>2 DEF SentTo, Leased
<1>4. /\ slot'[l] \in SlotStates
      /\ do = "Push" => slot'[l] = slot[l]
      /\ do = "Reset" => slot'[l] = "Resetting"
      /\ do = "Close" => slot'[l] = "Cleaning"
  BY <1>3, NextSlotTyped
<1> HIDE DEF d
<1>5. SlotsInv'
  <2>1. \A m \in Lease : Listens(m)' <=> Listens(m)
    BY DEF Listens
  <2>2. slot'[l] # "None" /\ worker[l].pc \notin {"None", "Done"}
    BY <1>3, <1>4 DEF Listens
  <2> QED
    BY <1>3, <2>1, <2>2 DEF WireInv, SlotsInv
<1>6. Numbered'
  <2>1. ASSUME NEW m \in Lease, NEW k \in Range(commands'[m])
        PROVE  k.cycle <= sess'.cycles /\ (k.do = "Reset" => k.cycle # None)
    <3>1. CASE k \in Range(commands[m])
      <4>1. k.cycle <= sess.cycles /\ (k.do = "Reset" => k.cycle # None)
        BY <3>1 DEF WireInv, Numbered
      <4>2. k \in Command
        BY <1>2, <3>1, RangeTyped DEF Leased
      <4> QED
        BY <1>2, <4>1, <4>2 DEF Command, SessType
    <3>2. CASE m = l /\ k = d
      BY <1>2, <3>2
    <3> QED
      BY <1>1, <2>1, <3>1, <3>2
  <2>2. ASSUME NEW e \in Range(events) \cup Range(route')
        PROVE  /\ e.lease <= opens /\ e.cycle <= sess'.cycles
               /\ e.kind = "ResetDone" => e.cycle # None
    <3>1. /\ e.lease <= opens /\ e.cycle <= sess.cycles
          /\ e.kind = "ResetDone" => e.cycle # None
      BY DEF WireInv, Numbered
    <3>2. e \in AnEvent
      BY <1>2, RangeTyped DEF Signals
    <3> QED
      BY <1>2, <3>1, <3>2 DEF AnEvent, SessType
  <2> QED
    BY <2>1, <2>2 DEF Numbered
<1>7. OneReset'
  <2>1. ClosesLast(commands'[l])
    <3>1. d.do = "Close" \/ (\A k \in Range(commands[l]) : k.do # "Reset")
      BY <1>2, <1>3 DEF WireInv, OneReset, Asked
    <3> QED
      BY <1>2, <1>3, <3>1, CommandAdded DEF WireInv, OneReset, Leased
  <2>2. ASSUME NEW m \in Lease
        PROVE  /\ ClosesLast(commands'[m]) /\ ToldOnce(events, m)
               /\ ~(Asked(m)' /\ Told(m))
               /\ slot'[m] = "Active" => ~Asked(m)' /\ ~Told(m)
    <3>1. /\ ClosesLast(commands[m]) /\ ToldOnce(events, m)
          /\ ~(Asked(m) /\ Told(m))
          /\ slot[m] = "Active" => ~Asked(m) /\ ~Told(m)
      BY DEF WireInv, OneReset
    <3>2. CASE m # l
      BY <1>1, <1>3, <3>1, <3>2
    <3>3. CASE m = l
      <4>1. ToldOnce(events, l)
        BY <3>1, <3>3
      <4>2. ~(Asked(l)' /\ Told(l))
        BY <1>1, <1>3, <3>1, <3>3
      <4>3. slot'[l] = "Active" => ~Asked(l)' /\ ~Told(l)
        BY <1>1, <1>3, <1>4, <3>1, <3>3
      <4> QED
        BY <2>1, <3>3, <4>1, <4>2, <4>3
    <3> QED
      BY <3>2, <3>3
  <2>3. \A m \in Lease : Told(m)' <=> Told(m)
    BY DEF Told
  <2> QED
    BY <2>2, <2>3 DEF OneReset
<1>8. OneFeed'
  <2> SUFFICES ASSUME NEW m \in Lease, NEW k \in Range(commands'[m]), k.do = "Push"
               PROVE  /\ worker[m].pending # 0 => worker[m].oldest = k.cycle
                      /\ \A n \in Range(commands'[m]) : n.do = "Push" => n.cycle = k.cycle
    BY DEF OneFeed
  <2>1. CASE m # l
    BY <1>1, <2>1 DEF WireInv, OneFeed
  <2>2. CASE m = l
    <3>1. CASE do = "Push"
      <4>1. \A n \in Range(commands'[l]) : n.do = "Push" => n.cycle = c
        BY <1>1, <1>2, <3>1 DEF Feeds
      <4> QED
        BY <2>2, <3>1, <4>1 DEF Feeds
    <3>2. CASE do # "Push"
      <4>1. \A n \in Range(commands'[l]) : n.do = "Push" => n \in Range(commands[l])
        BY <1>1, <1>2, <3>2
      <4> QED
        BY <2>2, <4>1 DEF WireInv, OneFeed
    <3> QED
      BY <3>1, <3>2
  <2> QED
    BY <2>1, <2>2
<1>9. EndsTold' /\ AllPure'
  BY DEF WireInv, EndsTold, AllPure
<1> QED
  BY <1>5, <1>6, <1>7, <1>8, <1>9 DEF WireInv

(* The wire invariant when no command is sent and no event is added.       *)
LEMMA UnsentWire ==
  ASSUME TypeOK, WireInv, sess' \in SessType, sess.cycles <= sess'.cycles,
         UNCHANGED <<opens, slot, commands, worker, events>>,
         Range(route') \subseteq Range(route)
  PROVE  WireInv'
<1>1. /\ \A l \in Lease : Range(commands[l]) \subseteq Command
      /\ Range(events) \cup Range(route) \subseteq AnEvent /\ sess \in SessType
  BY TypeParts, RangeTyped DEF Leased, Signals
<1>2. Numbered'
  <2>1. ASSUME NEW m \in Lease, NEW k \in Range(commands[m])
        PROVE  k.cycle <= sess'.cycles /\ (k.do = "Reset" => k.cycle # None)
    <3>1. k.cycle <= sess.cycles /\ (k.do = "Reset" => k.cycle # None)
      BY DEF WireInv, Numbered
    <3> QED
      BY <1>1, <3>1 DEF Command, SessType
  <2>2. ASSUME NEW e \in Range(events) \cup Range(route')
        PROVE  /\ e.lease <= opens /\ e.cycle <= sess'.cycles
               /\ e.kind = "ResetDone" => e.cycle # None
    <3>1. /\ e.lease <= opens /\ e.cycle <= sess.cycles
          /\ e.kind = "ResetDone" => e.cycle # None
      BY DEF WireInv, Numbered
    <3>2. e \in AnEvent
      BY <1>1
    <3> QED
      BY <1>1, <3>1, <3>2 DEF AnEvent, SessType
  <2> QED
    BY <2>1, <2>2 DEF Numbered
<1>3. SlotsInv'
  BY DEF WireInv, SlotsInv, Listens
<1>4. OneReset'
  BY DEF WireInv, OneReset, Asked, Told
<1>5. OneFeed' /\ EndsTold' /\ AllPure'
  BY DEF WireInv, OneFeed, EndsTold, AllPure
<1> QED
  BY <1>2, <1>3, <1>4, <1>5 DEF WireInv

-----------------------------------------------------------------------------
(* fail_closed, close_vad before a replacement and Drop send a Close to    *)
(* the session's lease, or nothing.                                        *)
LEMMA ClosesTyped ==
  ASSUME TypeOK, WireInv, NEW l \in 0..MaxOpens, Send(l, "Close", None),
         sess' \in SessType, sess.cycles <= sess'.cycles,
         UNCHANGED <<opens, worker, events, reaping, lost>>,
         route' \in Seq(AnEvent), Len(route') <= Capacity,
         Range(route') \subseteq Range(route)
  PROVE  TypeOK' /\ WireInv'
<1>1. Leased /\ Signals /\ Slotted /\ opens \in 0..MaxOpens /\ sess \in SessType
  BY TypeParts
<1>2. Signals'
  BY <1>1 DEF Signals
<1>3. CASE Taken(l, "Close")
  <2>1. l \in Lease
    BY <1>3, VadAssumption DEF Taken, Lease, None, VadAssumption
  <2>2. Leased' /\ SentTo(l, "Close", None) /\ Slots' \subseteq Slots
    BY <1>1, <1>3, <2>1, NoneTyped, SentTyped
  <2>3. Slotted'
    BY <1>1, <2>2, SlotsShrink
  <2>4. None <= sess'.cycles
    BY DEF SessType, None
  <2>5. WireInv'
    BY <2>1, <2>2, <2>4, NoneTyped, SentWire
  <2> QED
    BY <1>1, <1>2, <2>2, <2>3, <2>5, TypePartsNext
<1>4. CASE ~Taken(l, "Close")
  <2>1. UNCHANGED <<commands, slot>>
    BY <1>4 DEF Send
  <2>2. WireInv'
    BY <2>1, UnsentWire
  <2>3. Leased' /\ Slotted'
    BY <1>1, <2>1 DEF Leased, Slotted, Slots
  <2> QED
    BY <1>1, <1>2, <2>2, <2>3, TypePartsNext
<1> QED
  BY <1>3, <1>4

(* When the session ends or has no lease in use, what is said of its lease *)
(* holds of none.                                                          *)
LEMMA NotCurrent ==
  ASSUME TypeOK', SessionInv', WireInv', ~Current'
  PROVE  VadInv'
<1>1. CurrentInv' /\ ServedInv'
  BY DEF CurrentInv, ServedInv
<1>2. ResetIsAnswered'
  BY DEF SessionInv, Current, ResetIsAnswered
<1> QED
  BY <1>1, <1>2 DEF VadInv

(* fail_closed: of a session s that differs from sess in its cycles only.  *)
LEMMA FailClosedInv ==
  ASSUME VadInv, NEW s \in SessType, FailClosed(s), s.lease = sess.lease,
         s.dropped = sess.dropped, s.opening = FALSE, sess.cycles <= s.cycles,
         s.cycle <= s.cycles,
         UNCHANGED <<opens, worker, events, reaping, lost>>,
         route' \in Seq(AnEvent), Len(route') <= Capacity,
         Range(route') \subseteq Range(route)
  PROVE  VadInv'
<1>1. TypeOK /\ WireInv /\ SessionInv
  BY DEF VadInv
<1>2. sess' = [s EXCEPT !.closed = TRUE]
  BY DEF FailClosed
<1>3. /\ sess' \in SessType /\ sess'.closed
      /\ sess'.lease = s.lease /\ sess'.cycles = s.cycles /\ sess'.cycle = s.cycle
      /\ sess'.pendingCycle = s.pendingCycle /\ sess'.opening = s.opening
      /\ sess'.dropped = s.dropped
  BY <1>2, SessClosed
<1>4. s.lease \in 0..MaxOpens
  BY DEF SessType
<1>5. TypeOK' /\ WireInv'
  <2>1. CASE sess.closed
    <3>1. UNCHANGED <<commands, slot>>
      BY <2>1 DEF FailClosed
    <3>2. WireInv'
      BY <1>1, <1>3, <3>1, UnsentWire
    <3>3. Leased' /\ Slotted' /\ Signals' /\ opens' \in 0..MaxOpens
      BY <1>1, <3>1, TypeParts DEF Leased, Slotted, Slots, Signals
    <3> QED
      BY <1>3, <3>2, <3>3, TypePartsNext
  <2>2. CASE ~sess.closed
    <3>1. Send(s.lease, "Close", None)
      BY <2>2 DEF FailClosed
    <3> QED
      BY <1>1, <1>3, <1>4, <3>1, ClosesTyped
  <2> QED
    BY <2>1, <2>2
<1>6. SessionInv'
  BY <1>1, <1>3 DEF SessionInv
<1> QED
  BY <1>3, <1>5, <1>6, NotCurrent DEF Current

(* replace_listening_mode: close_vad.                                      *)
LEMMA ReplacementInv == ASSUME VadInv, CloseForReplacement PROVE VadInv'
<1>1. TypeOK /\ WireInv /\ SessionInv /\ sess \in SessType /\ Signals
  BY TypeParts DEF VadInv
<1>2. /\ sess' \in SessType /\ sess'.opening /\ sess'.cycle = None
      /\ sess'.pendingCycle = None
      /\ sess'.lease = sess.lease /\ sess'.cycles = sess.cycles
      /\ sess'.closed = sess.closed /\ sess'.dropped = sess.dropped
  BY <1>1, SessReplaces
<1>3. /\ Send(sess.lease, "Close", None) /\ sess.lease \in 0..MaxOpens
      /\ sess.cycles <= sess'.cycles
      /\ UNCHANGED <<opens, worker, events, route, reaping, lost>>
      /\ opens < MaxOpens /\ sess.cycles < MaxCycles /\ ~sess.closed
  BY <1>1, <1>2 DEF CloseForReplacement, SessType
<1>4. TypeOK' /\ WireInv'
  <2>1. route' \in Seq(AnEvent) /\ Len(route') <= Capacity /\ Range(route') \subseteq Range(route)
    BY <1>1, <1>3 DEF Signals
  <2> QED
    BY <1>1, <1>2, <1>3, <2>1, ClosesTyped
<1>5. SessionInv'
  <2>1. None <= sess.cycles
    BY <1>1 DEF SessType, None
  <2> QED
    BY <1>1, <1>2, <1>3, <2>1 DEF SessionInv
<1> QED
  BY <1>2, <1>4, <1>5, NotCurrent DEF Current

(* Drop of the actor.                                                      *)
LEMMA DropInv == ASSUME VadInv, DropActor PROVE VadInv'
<1>1. TypeOK /\ WireInv /\ SessionInv /\ sess \in SessType
  BY TypeParts DEF VadInv
<1>2. sess' = [sess EXCEPT !.closed = TRUE, !.dropped = TRUE]
  BY DEF DropActor
<1>3. /\ sess' \in SessType /\ sess'.closed
      /\ sess'.lease = sess.lease /\ sess'.cycles = sess.cycles
      /\ sess'.pendingCycle = sess.pendingCycle /\ sess'.opening = sess.opening
      /\ sess'.cycle = sess.cycle
  BY <1>1, <1>2, SessDropped
<1>4. /\ Send(sess.lease, "Close", None) /\ sess.lease \in 0..MaxOpens
      /\ sess.cycles <= sess'.cycles /\ ~sess.opening
      /\ UNCHANGED <<opens, worker, events, reaping, lost>> /\ route' = <<>>
  BY <1>1, <1>3 DEF DropActor, SessType
<1>5. route' \in Seq(AnEvent) /\ Len(route') <= Capacity /\ Range(route') = {}
  BY <1>4, EmptySeq, EmptyRange, VadAssumption DEF VadAssumption
<1>6. TypeOK' /\ WireInv'
  BY <1>1, <1>3, <1>4, <1>5, ClosesTyped
<1>7. SessionInv'
  BY <1>1, <1>3, <1>4 DEF SessionInv
<1> QED
  BY <1>3, <1>6, <1>7, NotCurrent DEF Current

-----------------------------------------------------------------------------
(* A session that is Current has a lease that was given out.               *)
LEMMA CurrentLease ==
  ASSUME TypeOK, Current PROVE sess.lease \in Lease
BY TypeParts, VadAssumption DEF Current, SessType, Lease, None, VadAssumption

(* open_with_permit: a new lease, of which nothing is known yet.           *)
LEMMA OpenTyped ==
  ASSUME TypeOK, SessionInv, OpenVad, Cardinality(Slots) < MaxWorkers
  PROVE  /\ TypeOK' /\ SessionInv'
         /\ opens + 1 \in Lease /\ opens' = opens + 1
         /\ slot'[opens + 1] = "Active" /\ worker'[opens + 1].pc = "Opening"
         /\ worker'[opens + 1].pending = worker[opens + 1].pending
         /\ \A m \in Lease : m # opens + 1 => slot'[m] = slot[m] /\ worker'[m] = worker[m]
         /\ sess'.lease = opens + 1 /\ sess'.pendingCycle = None
         /\ ~sess'.closed /\ ~sess'.opening /\ sess'.cycle # None
         /\ sess'.cycles = sess.cycles + 1
<1> DEFINE l == opens + 1
<1>1. /\ sess \in SessType /\ opens \in 0..MaxOpens /\ Leased /\ Signals /\ Slotted
      /\ sess.opening /\ opens < MaxOpens /\ sess.cycles < MaxCycles
      /\ ~sess.closed /\ sess.pendingCycle = None
  BY TypeParts DEF OpenVad, SessionInv
<1>2. l \in Lease /\ l \in 0..MaxOpens
  BY <1>1, VadAssumption DEF Lease, VadAssumption
<1>3. /\ opens' = l /\ slot' = [slot EXCEPT ![l] = "Active"]
      /\ worker' = [worker EXCEPT ![l].pc = "Opening"]
      /\ sess' = [sess EXCEPT !.opening = FALSE, !.lease = opens + 1,
                              !.cycles = @ + 1, !.cycle = sess.cycles + 1]
      /\ UNCHANGED <<commands, events, route, reaping, lost>>
  BY DEF OpenVad
<1>4. /\ sess' \in SessType /\ ~sess'.opening /\ sess'.lease = opens + 1
      /\ sess'.cycles = sess.cycles + 1 /\ sess'.cycle = sess.cycles + 1
      /\ sess'.pendingCycle = None
      /\ sess'.closed = sess.closed /\ sess'.dropped = sess.dropped
  BY <1>1, <1>3, SessOpens
<1>5. sess'.cycle # None /\ sess'.cycle <= sess'.cycles
  BY <1>1, <1>4 DEF SessType, None
<1> HIDE DEF l
<1>6. /\ worker' \in [Lease -> WorkerType] /\ worker'[l].pc = "Opening"
      /\ worker'[l].pending = worker[l].pending
      /\ \A m \in Lease : m # l => worker'[m] = worker[m]
  <2>1. worker[l] \in WorkerType
    BY <1>1, <1>2 DEF Leased
  <2>2. [worker[l] EXCEPT !.pc = "Opening"] \in WorkerType
    BY <2>1 DEF WorkerType
  <2>3. worker' = [worker EXCEPT ![l] = [worker[l] EXCEPT !.pc = "Opening"]]
    BY <1>3
  <2>4. worker'[l] = [worker[l] EXCEPT !.pc = "Opening"]
    BY <1>1, <1>2, <2>3 DEF Leased
  <2>5. worker' \in [Lease -> WorkerType]
    BY <1>1, <1>2, <2>2, <2>3 DEF Leased
  <2>6. \A m \in Lease : m # l => worker'[m] = worker[m]
    BY <1>1, <1>2, <2>3 DEF Leased
  <2>7. worker'[l].pc = "Opening" /\ worker'[l].pending = worker[l].pending
    BY <2>1, <2>4 DEF WorkerType
  <2> QED
    BY <2>5, <2>6, <2>7
<1>7. /\ slot' \in [Lease -> SlotStates] /\ slot'[l] = "Active"
      /\ \A m \in Lease : m # l => slot'[m] = slot[m]
  BY <1>1, <1>2, <1>3 DEF Leased, SlotStates
<1>8. Slotted'
  <2>1. Slots' = Slots \cup {l}
    BY <1>2, <1>7 DEF Slots
  <2>2. Cardinality(Slots') <= Cardinality(Slots) + 1 /\ Cardinality(Slots') \in Nat
    <3>1. /\ IsFiniteSet(Slots')
          /\ Cardinality(Slots') = IF l \in Slots THEN Cardinality(Slots)
                                   ELSE Cardinality(Slots) + 1
      BY <2>1, SlotsFinite, FS_AddElement
    <3> QED
      BY <3>1, SlotsFinite
  <2> QED
    BY <2>2, SlotsFinite, VadAssumption DEF Slotted, VadAssumption
<1>9. Leased' /\ Signals'
  BY <1>1, <1>3, <1>6, <1>7 DEF Leased, Signals
<1>10. TypeOK'
  BY <1>2, <1>3, <1>4, <1>8, <1>9, TypePartsNext
<1>11. SessionInv'
  <2>1. sess'.lease <= opens'
    BY <1>1, <1>3, <1>4 DEF l
  <2> QED
    BY <1>1, <1>4, <1>5, <2>1 DEF SessionInv
<1> QED
  BY <1>1, <1>2, <1>3, <1>4, <1>5, <1>6, <1>7, <1>10, <1>11 DEF l

(* open_with_permit: either the new lease is served, or the session fails. *)
LEMMA OpenInv == ASSUME VadInv, OpenVad PROVE VadInv'
<1>1. TypeOK /\ SessionInv /\ WireInv
  BY DEF VadInv
<1>2. CASE Cardinality(Slots) < MaxWorkers
  <2> DEFINE l == opens + 1
  <2>1. /\ TypeOK' /\ SessionInv'
        /\ l \in Lease /\ opens' = l
        /\ slot'[l] = "Active" /\ worker'[l].pc = "Opening"
        /\ worker'[l].pending = worker[l].pending
        /\ \A m \in Lease : m # l => slot'[m] = slot[m] /\ worker'[m] = worker[m]
        /\ sess'.lease = l /\ sess'.pendingCycle = None
        /\ ~sess'.closed /\ ~sess'.opening /\ sess'.cycle # None
        /\ sess'.cycles = sess.cycles + 1
    BY <1>1, <1>2, OpenTyped
  <2>2. /\ UNCHANGED <<commands, events, route, reaping, lost>>
        /\ opens \in 0..MaxOpens /\ l > opens /\ sess \in SessType
    BY <1>1, <1>2, TypeParts DEF OpenVad
  <2>3. slot[l] = "None" /\ worker[l].pc = "None" /\ commands[l] = <<>>
        /\ worker[l].pending = 0 /\ Range(commands[l]) = {}
    BY <1>1, <2>1, <2>2, EmptyRange DEF WireInv, SlotsInv
  <2>4. \A e \in Range(events) \cup Range(route) :
          e \in AnEvent /\ e.lease \in Lease /\ e.lease <= opens /\ e.lease # l
    <3>1. \A e \in Range(events) \cup Range(route) : e \in AnEvent
      BY <1>1, TypeParts, RangeTyped DEF Signals
    <3>2. \A e \in Range(events) \cup Range(route) : e.lease <= opens
      BY <1>1 DEF WireInv, Numbered
    <3> QED
      BY <2>2, <3>1, <3>2 DEF AnEvent, Lease
  <2> HIDE DEF l
  <2>5. WireInv'
    <3>1. SlotsInv'
      <4> SUFFICES ASSUME NEW m \in Lease
                   PROVE  /\ m > opens' => slot'[m] = "None" /\ worker'[m].pc = "None"
                          /\ worker'[m].pc \in {"None", "Done"} =>
                               commands[m] = <<>> /\ worker'[m].pending = 0
                          /\ slot'[m] = "None" => ~Listens(m)'
        BY <2>2 DEF SlotsInv
      <4>1. CASE m = l
        <5>1. ~(m > opens')
          BY <2>1, <4>1, <2>2 DEF l
        <5> QED
          BY <2>1, <4>1, <5>1
      <4>2. CASE m # l
        <5>1. slot'[m] = slot[m] /\ worker'[m] = worker[m] /\ (Listens(m)' <=> Listens(m))
          BY <2>1, <4>2 DEF Listens
        <5>2. m > opens' => m > opens
          BY <2>1, <2>2 DEF l, Lease
        <5> QED
          BY <1>1, <5>1, <5>2 DEF WireInv, SlotsInv
      <4> QED
        BY <4>1, <4>2
    <3>2. Numbered'
      <4>1. ASSUME NEW m \in Lease, NEW c \in Range(commands[m])
            PROVE  c.cycle <= sess'.cycles /\ (c.do = "Reset" => c.cycle # None)
        <5>1. c.cycle <= sess.cycles /\ (c.do = "Reset" => c.cycle # None)
          BY <1>1 DEF WireInv, Numbered
        <5>2. c \in Command
          BY <1>1, TypeParts, RangeTyped DEF Leased
        <5> QED
          BY <2>1, <2>2, <5>1, <5>2 DEF Command, SessType
      <4>2. ASSUME NEW e \in Range(events) \cup Range(route)
            PROVE  /\ e.lease <= opens' /\ e.cycle <= sess'.cycles
                   /\ e.kind = "ResetDone" => e.cycle # None
        <5>1. e.cycle <= sess.cycles /\ (e.kind = "ResetDone" => e.cycle # None)
          BY <1>1 DEF WireInv, Numbered
        <5>2. e.lease <= opens'
          BY <2>1, <2>2, <2>4 DEF l, AnEvent, Lease
        <5> QED
          BY <2>1, <2>2, <2>4, <5>1, <5>2 DEF AnEvent, SessType
      <4> QED
        BY <2>2, <4>1, <4>2 DEF Numbered
    <3>3. OneReset'
      <4>1. ~Asked(l) /\ ~Told(l)
        BY <2>3, <2>4 DEF Asked, Told, Tells
      <4>2. ASSUME NEW m \in Lease
            PROVE  /\ ClosesLast(commands[m]) /\ ToldOnce(events, m)
                   /\ ~(Asked(m) /\ Told(m))
                   /\ slot'[m] = "Active" => ~Asked(m) /\ ~Told(m)
        <5>1. /\ ClosesLast(commands[m]) /\ ToldOnce(events, m)
              /\ ~(Asked(m) /\ Told(m))
              /\ slot[m] = "Active" => ~Asked(m) /\ ~Told(m)
          BY <1>1 DEF WireInv, OneReset
        <5>2. CASE m = l
          BY <4>1, <5>1, <5>2
        <5>3. CASE m # l
          BY <2>1, <5>1, <5>3
        <5> QED
          BY <5>2, <5>3
      <4>3. \A m \in Lease : (Asked(m)' <=> Asked(m)) /\ (Told(m)' <=> Told(m))
        BY <2>2 DEF Asked, Told
      <4> QED
        BY <2>2, <4>2, <4>3 DEF OneReset
    <3>4. OneFeed'
      <4>1. \A m \in Lease : m # l => worker'[m] = worker[m]
        BY <2>1
      <4> QED
        BY <1>1, <2>2, <2>3, <4>1 DEF WireInv, OneFeed
    <3>5. EndsTold' /\ AllPure'
      <4>1. \A e \in Range(events) : worker'[e.lease] = worker[e.lease]
        BY <2>1, <2>4
      <4> QED
        BY <1>1, <2>2, <4>1 DEF WireInv, EndsTold, AllPure
    <3> QED
      BY <3>1, <3>2, <3>3, <3>4, <3>5 DEF WireInv
  <2>6. CurrentInv'
    <3>1. /\ Range(commands'[sess'.lease]) = {} /\ worker'[sess'.lease].pending = 0
          /\ slot'[sess'.lease] = "Active"
          /\ \A e \in Range(events') \cup Range(route') : e.lease # sess'.lease
      BY <2>1, <2>2, <2>3, <2>4
    <3> QED
      BY <2>1, <3>1 DEF CurrentInv, Feeds, Unclosed
  <2>7. ServedInv' /\ ResetIsAnswered'
    BY <2>1 DEF ServedInv, Served, ResetIsAnswered
  <2> QED
    BY <2>1, <2>5, <2>6, <2>7 DEF VadInv
<1>3. CASE ~(Cardinality(Slots) < MaxWorkers)
  <2>1. /\ sess' = [sess EXCEPT !.opening = FALSE, !.closed = TRUE]
        /\ UNCHANGED <<opens, slot, worker, commands, events, route, reaping, lost>>
        /\ sess \in SessType
    BY <1>1, <1>3, TypeParts DEF OpenVad
  <2>2. /\ sess' \in SessType /\ ~sess'.opening /\ sess'.closed
        /\ sess'.lease = sess.lease /\ sess'.cycles = sess.cycles
        /\ sess'.cycle = sess.cycle /\ sess'.pendingCycle = sess.pendingCycle
        /\ sess'.dropped = sess.dropped
    BY <2>1, SessRefused
  <2>3. TypeOK'
    <3>1. Leased' /\ Signals' /\ Slotted' /\ opens' \in 0..MaxOpens
      BY <1>1, <2>1, TypeParts DEF Leased, Signals, Slotted, Slots
    <3> QED
      BY <2>2, <3>1, TypePartsNext
  <2>4. WireInv'
    <3>1. sess.cycles <= sess'.cycles /\ Range(route') \subseteq Range(route)
      BY <2>1, <2>2 DEF SessType
    <3> QED
      BY <1>1, <2>1, <2>2, <3>1, UnsentWire
  <2>5. SessionInv'
    BY <1>1, <2>1, <2>2 DEF SessionInv
  <2> QED
    BY <2>2, <2>3, <2>4, <2>5, NotCurrent DEF Current
<1> QED
  BY <1>2, <1>3

-----------------------------------------------------------------------------
(* on_binary: a frame taken continues the current feed; one refused is     *)
(* fatal to the session.                                                   *)
LEMMA PushInv == ASSUME VadInv, PushFrame PROVE VadInv'
<1> DEFINE l == sess.lease
<1>1. /\ TypeOK /\ SessionInv /\ WireInv /\ CurrentInv /\ ServedInv
      /\ sess \in SessType /\ Leased /\ Signals /\ Slotted /\ opens \in 0..MaxOpens
  BY TypeParts DEF VadInv
<1>2. /\ Current /\ sess.cycle # None /\ sess.frames < MaxFrames
      /\ UNCHANGED <<opens, worker, events, route, reaping, lost>>
      /\ l \in Lease /\ sess.cycle \in 0..MaxCycles /\ sess.opening = FALSE
      /\ sess.pendingCycle = None /\ sess.cycle <= sess.cycles /\ sess.lease = l
  <2>1. /\ Current /\ sess.cycle # None /\ sess.frames < MaxFrames
        /\ UNCHANGED <<opens, worker, events, route, reaping, lost>>
    BY DEF PushFrame, Current
  <2>2. sess.opening = FALSE /\ sess.cycle \in 0..MaxCycles
    BY <1>1 DEF PushFrame, SessType
  <2> QED
    BY <1>1, <2>1, <2>2, CurrentLease DEF Current, SessionInv
<1>3. Range(route') \subseteq Range(route) /\ route' \in Seq(AnEvent) /\ Len(route') <= Capacity
  BY <1>1, <1>2 DEF Signals
<1>4. CASE ~Taken(l, "Push")
  <2>1. FailClosed(sess)
    BY <1>4 DEF PushFrame
  <2>2. sess.cycles <= sess.cycles
    BY <1>1 DEF SessType
  <2> QED
    BY <1>1, <1>2, <1>3, <2>1, <2>2, FailClosedInv
<1>5. CASE Taken(l, "Push")
  <2>1. Send(l, "Push", sess.cycle) /\ sess' = [sess EXCEPT !.frames = @ + 1]
    BY <1>5 DEF PushFrame
  <2>2. /\ sess' \in SessType
        /\ sess'.lease = l /\ sess'.cycles = sess.cycles
        /\ sess'.cycle = sess.cycle /\ sess'.pendingCycle = None
        /\ sess'.opening = sess.opening /\ sess'.closed = sess.closed
        /\ sess'.dropped = sess.dropped
    BY <1>1, <1>2, <2>1, SessFramed
  <2> HIDE DEF l
  <2>3. Leased' /\ SentTo(l, "Push", sess.cycle) /\ Slots' \subseteq Slots
    BY <1>1, <1>2, <1>5, <2>1, SentTyped
  <2>4. TypeOK'
    <3>1. Slotted' /\ Signals'
      BY <1>1, <1>2, <2>3, SlotsShrink DEF Signals
    <3> QED
      BY <1>1, <1>2, <2>2, <2>3, <3>1, TypePartsNext
  <2>5. SessionInv'
    BY <1>1, <1>2, <2>2 DEF SessionInv
  <2>6. Feeds(l, sess.cycle) /\ Unclosed(l)
    BY <1>1, <1>2 DEF CurrentInv
  <2>7. WireInv'
    <3>1. sess.cycle <= sess'.cycles /\ sess.cycles <= sess'.cycles
      BY <1>1, <1>2, <2>2 DEF SessType
    <3> QED
      BY <1>1, <1>2, <1>3, <2>2, <2>3, <2>6, <3>1, SentWire
  <2>8. slot'[l] = slot[l] /\ slot[l] \in SlotStates
    BY <1>1, <1>2, <2>3, NextSlotTyped DEF SentTo, Leased
  <2>9. CurrentInv'
    <3>1. Range(commands'[l]) = Range(commands[l])
                                  \cup {[do |-> "Push", cycle |-> sess.cycle]}
      BY <1>1, <1>2, <2>3, SentKnown
    <3>2. /\ \A d \in Range(commands'[l]) : d.do = "Push" => d.cycle = sess.cycle
          /\ worker'[l].pending # 0 => worker'[l].oldest = sess.cycle
      BY <1>2, <2>6, <3>1 DEF Feeds
    <3>3. /\ slot'[l] # "Cleaning"
          /\ \A d \in Range(commands'[l]) : d.do # "Close"
          /\ \A e \in Range(events') \cup Range(route') : e.lease = l => e.kind # "Closed"
      BY <1>2, <2>6, <2>8, <3>1 DEF Unclosed
    <3> QED
      BY <2>2, <3>2, <3>3 DEF CurrentInv, Feeds, Unclosed
  <2>10. ServedInv'
    BY <1>1, <1>2, <2>2, <2>8 DEF ServedInv, Current, Served, Listens, Doomed
  <2>11. ResetIsAnswered'
    BY <2>2 DEF ResetIsAnswered
  <2> QED
    BY <2>4, <2>5, <2>7, <2>9, <2>10, <2>11 DEF VadInv
<1> QED
  BY <1>4, <1>5

(* reset_vad_capture_cycle: the slot is Resetting and the reset queued, or *)
(* the session fails.                                                      *)
LEMMA ResetInv == ASSUME VadInv, ResetCycle PROVE VadInv'
<1> DEFINE l == sess.lease
           c == sess.cycles + 1
           s == [sess EXCEPT !.cycles = c, !.cycle = None, !.pendingCycle = c,
                             !.frames = 0]
<1>1. /\ TypeOK /\ SessionInv /\ WireInv /\ CurrentInv /\ ServedInv
      /\ sess \in SessType /\ Leased /\ Signals /\ Slotted /\ opens \in 0..MaxOpens
  BY TypeParts DEF VadInv
<1>2. /\ Current /\ sess.cycles < MaxCycles
      /\ UNCHANGED <<opens, worker, events, route, reaping, lost>>
      /\ l \in Lease /\ c \in 0..MaxCycles /\ sess.opening = FALSE
      /\ c # None /\ sess.cycles < c /\ None <= c /\ sess.lease = l
  <2>1. /\ Current /\ sess.cycles < MaxCycles
        /\ UNCHANGED <<opens, worker, events, route, reaping, lost>>
    BY DEF ResetCycle, Current
  <2>2. sess.opening = FALSE /\ c \in 0..MaxCycles /\ c # None /\ sess.cycles < c /\ None <= c
    BY <1>1, VadAssumption DEF ResetCycle, SessType, None, VadAssumption
  <2> QED
    BY <1>1, <2>1, <2>2, CurrentLease
<1>3. Range(route') \subseteq Range(route) /\ route' \in Seq(AnEvent) /\ Len(route') <= Capacity
  BY <1>1, <1>2 DEF Signals
<1>4. /\ s \in SessType
      /\ s.lease = l /\ s.cycles = c
      /\ s.cycle = None /\ s.pendingCycle = c
      /\ s.opening = sess.opening /\ s.closed = sess.closed
      /\ s.dropped = sess.dropped
  BY <1>1, <1>2, SessResets
<1>5. IF Taken(l, "Reset") THEN Send(l, "Reset", c) /\ sess' = s ELSE FailClosed(s)
  BY DEF ResetCycle
<1> HIDE DEF s
<1>6. CASE ~Taken(l, "Reset")
  <2>1. FailClosed(s) /\ sess.cycles <= s.cycles /\ s.opening = FALSE /\ s.cycle <= s.cycles
    BY <1>1, <1>2, <1>4, <1>5, <1>6 DEF SessType
  <2> QED
    BY <1>2, <1>3, <1>4, <2>1, FailClosedInv
<1>7. CASE Taken(l, "Reset")
  <2>1. Send(l, "Reset", c) /\ sess' = s
    BY <1>5, <1>7
  <2>2. sess.cycles <= sess'.cycles /\ c <= sess'.cycles /\ sess' \in SessType
    BY <1>1, <1>2, <1>4, <2>1 DEF SessType
  <2> HIDE DEF l, c
  <2>3. Leased' /\ SentTo(l, "Reset", c) /\ Slots' \subseteq Slots
    BY <1>1, <1>2, <1>7, <2>1, SentTyped
  <2>4. TypeOK'
    <3>1. Slotted' /\ Signals'
      BY <1>1, <1>2, <2>3, SlotsShrink DEF Signals
    <3> QED
      BY <1>1, <1>2, <1>4, <2>1, <2>3, <3>1, TypePartsNext
  <2>5. SessionInv'
    BY <1>1, <1>2, <1>4, <2>1 DEF SessionInv, Current
  <2>6. Unclosed(l) /\ slot[l] = "Active" /\ ~Asked(l) /\ ~Told(l)
    BY <1>1, <1>2, <2>3 DEF CurrentInv, SentTo, WireInv, OneReset
  <2>7. WireInv'
    BY <1>1, <1>2, <1>3, <2>2, <2>3, SentWire
  <2>8. slot'[l] = "Resetting"
    BY <1>1, <1>2, <2>3, NextSlotTyped DEF SentTo, Leased
  <2>9. \A e \in Range(route) : e.cycle # c
    <3> SUFFICES ASSUME NEW e \in Range(route) PROVE e.cycle # c
      OBVIOUS
    <3>1. e.cycle <= sess.cycles /\ e \in AnEvent
      BY <1>1, RangeTyped DEF WireInv, Numbered, Signals
    <3> QED
      BY <1>1, <1>2, <3>1 DEF AnEvent, SessType
  <2>10. CurrentInv'
    <3>1. Range(commands'[l]) = Range(commands[l]) \cup {[do |-> "Reset", cycle |-> c]}
      BY <1>1, <1>2, <2>3, SentKnown
    <3>2. /\ \A d \in Range(commands'[l]) : d.do = "Reset" => d.cycle = c
          /\ \A e \in Range(events') : ~Tells(e, l)
      BY <1>2, <2>6, <3>1 DEF Asked, Told
    <3>4. \E d \in Range(commands'[l]) : d.do = "Reset"
      <4>1. [do |-> "Reset", cycle |-> c] \in Range(commands'[l])
        BY <3>1
      <4> QED
        BY <4>1
    <3>5. \A e \in Range(route') : e.cycle # c
      BY <1>2, <2>9
    <3>3. /\ slot'[l] # "Cleaning"
          /\ \A d \in Range(commands'[l]) : d.do # "Close"
          /\ \A e \in Range(events') \cup Range(route') : e.lease = l => e.kind # "Closed"
      BY <1>2, <2>6, <2>8, <3>1 DEF Unclosed
    <3> QED
      BY <1>4, <2>1, <3>2, <3>3, <3>4, <3>5 DEF CurrentInv, Resets, Asked, Unclosed
  <2>11. ServedInv'
    <3>1. \A i \in DOMAIN route' : route'[i].cycle # c
      BY <1>2, <2>9 DEF Range
    <3> QED
      BY <1>4, <2>1, <2>8, <3>1 DEF ServedInv
  <2>12. ResetIsAnswered'
    BY <1>4, <2>1, <2>8 DEF ResetIsAnswered
  <2> QED
    BY <2>4, <2>5, <2>7, <2>10, <2>11, <2>12 DEF VadInv
<1> QED
  BY <1>6, <1>7

-----------------------------------------------------------------------------
(* on_vad_event.  What the session takes from its mailbox without ending   *)
(* or changing its cycles leaves the rest to come.                         *)
LEMMA MailTaken ==
  ASSUME TypeOK, SessionInv, WireInv, OnVadEvent
  PROVE  /\ Head(route) \in AnEvent /\ Head(route) \in Range(route)
         /\ route' = Tail(route) /\ route' \in Seq(AnEvent) /\ Len(route') <= Capacity
         /\ Range(route) = {Head(route)} \cup Range(route')
         /\ 1 \in DOMAIN route /\ Head(route) = route[1]
         /\ DOMAIN route = 1..Len(route) /\ Len(route) \in Nat
         /\ \A i \in DOMAIN route' : i + 1 \in DOMAIN route /\ route'[i] = route[i + 1]
                                     /\ i \in Nat
         /\ \A j \in DOMAIN route : j # 1 => j - 1 \in DOMAIN route'
         /\ UNCHANGED <<opens, worker, events, reaping, lost>>
         /\ ~sess.opening /\ sess \in SessType
<1>1. /\ route # <<>> /\ route' = Tail(route) /\ ~sess.opening
      /\ UNCHANGED <<opens, worker, events, reaping, lost>>
  BY DEF OnVadEvent
<1>2. route \in Seq(AnEvent) /\ Len(route) <= Capacity /\ sess \in SessType
      /\ Capacity \in Nat
  BY TypeParts, VadAssumption DEF Signals, VadAssumption
<1>3. /\ Head(route) \in AnEvent /\ Tail(route) \in Seq(AnEvent)
      /\ Len(route) \in Nat /\ Len(route) >= 1 /\ Len(Tail(route)) = Len(route) - 1
      /\ DOMAIN route = 1..Len(route) /\ DOMAIN Tail(route) = 1..Len(route) - 1
      /\ Head(route) = route[1]
      /\ \A i \in 1..Len(route) - 1 : Tail(route)[i] = route[i + 1]
      /\ Range(route) = {Head(route)} \cup Range(Tail(route))
  BY <1>1, <1>2, TailOf
<1>4. Len(Tail(route)) <= Capacity
  BY <1>2, <1>3
<1>5. \A i \in DOMAIN Tail(route) : i + 1 \in DOMAIN route /\ i \in Nat
  BY <1>3
<1>6. \A j \in DOMAIN route : j # 1 => j - 1 \in DOMAIN Tail(route)
  BY <1>3
<1>7. 1 \in DOMAIN route
  BY <1>3
<1> QED
  BY <1>1, <1>2, <1>3, <1>4, <1>5, <1>6, <1>7

(* An event that is no answer: ignored, or judged by the segmenter.        *)
LEMMA QuietMail ==
  ASSUME VadInv, OnVadEvent, ~Answers(Head(route)), UNCHANGED <<commands, slot>>,
         sess' \in SessType,
         sess'.lease = sess.lease, sess'.cycles = sess.cycles,
         sess'.cycle = sess.cycle, sess'.pendingCycle = sess.pendingCycle,
         sess'.opening = sess.opening, sess'.closed = sess.closed,
         sess'.dropped = sess.dropped
  PROVE  VadInv'
<1>1. /\ TypeOK /\ SessionInv /\ WireInv /\ CurrentInv /\ ServedInv /\ ResetIsAnswered
      /\ Leased /\ Signals /\ Slotted /\ opens \in 0..MaxOpens
  BY TypeParts DEF VadInv
<1>2. /\ route' \in Seq(AnEvent) /\ Len(route') <= Capacity
      /\ Range(route) = {Head(route)} \cup Range(route')
      /\ Head(route) = route[1]
      /\ \A i \in DOMAIN route' : i + 1 \in DOMAIN route /\ route'[i] = route[i + 1]
                                  /\ i \in Nat
      /\ \A j \in DOMAIN route : j # 1 => j - 1 \in DOMAIN route'
      /\ UNCHANGED <<opens, worker, events, reaping, lost>>
      /\ DOMAIN route = 1..Len(route) /\ Len(route) \in Nat
      /\ sess.cycles <= sess'.cycles
  BY <1>1, MailTaken DEF SessType
<1>3. TypeOK'
  <2>1. Leased' /\ Signals' /\ Slotted' /\ opens' \in 0..MaxOpens
    BY <1>1, <1>2 DEF Leased, Signals, Slotted, Slots
  <2> QED
    BY <2>1, TypePartsNext
<1>4. SessionInv'
  BY <1>1, <1>2 DEF SessionInv
<1>5. WireInv'
  BY <1>1, <1>2, UnsentWire
<1>6. CurrentInv'
  BY <1>1, <1>2 DEF CurrentInv, Current, Feeds, Resets, Emptied, Asked, Unclosed
<1>7. ServedInv'
  <2> DEFINE l == sess.lease
  <2>1. (Current' <=> Current) /\ (Served(l)' <=> Served(l))
    BY <1>2 DEF Current, Served, Listens
  <2>2. ASSUME Current, ~lost, sess.cycle # None PROVE Served(l)
    BY <1>1, <2>2 DEF ServedInv
  <2>3. ASSUME Current, ~lost, slot[l] = "Quarantined"
        PROVE  \E e \in Range(route') : Fails(e, l)
    <3>1. \E e \in Range(route) : Fails(e, l)
      BY <1>1, <2>3 DEF ServedInv
    <3>2. ~Fails(Head(route), l)
      BY DEF Fails, Answers
    <3> QED
      BY <1>2, <3>1, <3>2
  <2>4. ASSUME Current, ~lost, NEW i \in DOMAIN route', Tells(route'[i], l),
               route'[i].cycle = sess.pendingCycle
        PROVE  Served(l) \/ \E j \in DOMAIN route' : j < i /\ Fails(route'[j], l)
    <3>1. i + 1 \in DOMAIN route /\ Tells(route[i + 1], l)
          /\ route[i + 1].cycle = sess.pendingCycle
      BY <1>2, <2>4
    <3>2. Served(l) \/ Doomed(i + 1)
      BY <1>1, <2>4, <3>1 DEF ServedInv
    <3>3. ASSUME NEW j \in DOMAIN route, j < i + 1, Fails(route[j], l)
          PROVE  j - 1 \in DOMAIN route' /\ j - 1 < i /\ Fails(route'[j - 1], l)
      <4>1. j # 1
        BY <1>2, <3>3 DEF Fails, Answers
      <4>2. j - 1 \in DOMAIN route' /\ j - 1 < i /\ (j - 1) + 1 = j
        BY <1>2, <3>3, <4>1
      <4> QED
        BY <1>2, <3>3, <4>2
    <3> QED
      BY <3>2, <3>3 DEF Doomed
  <2> HIDE DEF l
  <2>5. sess'.lease = l
    BY DEF l
  <2> QED
    BY <1>2, <2>1, <2>2, <2>3, <2>4, <2>5 DEF ServedInv, Doomed, Served, Listens
<1>8. ResetIsAnswered'
  <2>1. InQueue(route) => \E i \in DOMAIN route : Answers(route[i])
    BY <1>2 DEF InQueue
  <2>2. ASSUME NEW i \in DOMAIN route, Answers(route[i])
        PROVE  i - 1 \in DOMAIN route' /\ route'[i - 1] = route[i]
    <3>1. i # 1
      BY <1>2, <2>2
    <3>2. i - 1 \in DOMAIN route' /\ (i - 1) + 1 = i
      BY <1>2, <3>1
    <3> QED
      BY <1>2, <3>2
  <2>3. DOMAIN route' = 1..Len(route')
    BY <1>2, LenProperties
  <2>4. \A e : Answers(e)' <=> Answers(e)
    BY DEF Answers
  <2>5. InQueue(route) => InQueue(route)'
    BY <2>1, <2>2, <2>3, <2>4 DEF InQueue
  <2>6. InQueue(events) => InQueue(events)'
    BY <1>2, <2>4 DEF InQueue
  <2> QED
    BY <1>1, <1>2, <2>5, <2>6 DEF ResetIsAnswered
<1> QED
  BY <1>3, <1>4, <1>5, <1>6, <1>7, <1>8 DEF VadInv

(* The answer to the reset: from here on the new cycle is the current one. *)
LEMMA ResetHeard ==
  ASSUME VadInv, OnVadEvent, UNCHANGED <<commands, slot>>,
         Head(route).kind = "ResetDone", Head(route).lease = sess.lease,
         Head(route).cycle = sess.pendingCycle,
         sess' = [sess EXCEPT !.cycle = Head(route).cycle, !.pendingCycle = None,
                              !.expected = None]
  PROVE  VadInv'
<1> DEFINE e == Head(route)
           l == sess.lease
           c == sess.pendingCycle
<1>1. /\ TypeOK /\ SessionInv /\ WireInv /\ CurrentInv /\ ServedInv /\ ResetIsAnswered
      /\ Leased /\ Signals /\ Slotted /\ opens \in 0..MaxOpens
  BY TypeParts DEF VadInv
<1>2. /\ route' \in Seq(AnEvent) /\ Len(route') <= Capacity
      /\ e \in AnEvent /\ e \in Range(route)
      /\ Range(route) = {e} \cup Range(route')
      /\ 1 \in DOMAIN route /\ e = route[1] /\ DOMAIN route = 1..Len(route)
      /\ UNCHANGED <<opens, worker, events, reaping, lost>>
      /\ ~sess.opening /\ sess \in SessType /\ Len(route) \in Nat
  BY <1>1, MailTaken
<1>3. /\ sess' \in SessType
      /\ sess'.lease = l /\ sess'.cycles = sess.cycles
      /\ sess'.cycle = c /\ sess'.pendingCycle = None
      /\ sess'.opening = sess.opening /\ sess'.closed = sess.closed
      /\ sess'.dropped = sess.dropped
  <2>1. e.cycle \in 0..MaxCycles
    BY <1>2 DEF AnEvent
  <2> QED
    BY <1>2, <2>1, SessReset
<1>4. e.cycle <= sess.cycles /\ e.cycle # None /\ e.lease \in Lease
      /\ sess.cycles <= sess'.cycles
  BY <1>1, <1>2, <1>3 DEF WireInv, Numbered, AnEvent, SessType
<1> HIDE DEF e, l, c
<1>5. e.kind = "ResetDone" /\ e.lease = l /\ e.cycle = c /\ l = sess.lease
      /\ c = sess.pendingCycle
  BY DEF e, l, c
<1>6. TypeOK'
  <2>1. Leased' /\ Signals' /\ Slotted' /\ opens' \in 0..MaxOpens
    BY <1>1, <1>2 DEF Leased, Signals, Slotted, Slots
  <2> QED
    BY <1>3, <2>1, TypePartsNext
<1>7. SessionInv'
  BY <1>1, <1>2, <1>3, <1>4, <1>5 DEF SessionInv
<1>8. WireInv'
  BY <1>1, <1>2, <1>3, <1>4, UnsentWire
<1>9. CASE sess.closed
  BY <1>3, <1>6, <1>7, <1>8, <1>9, NotCurrent DEF Current
<1>10. CASE ~sess.closed
  <2>1. Current
    BY <1>2, <1>4, <1>5, <1>10, VadAssumption DEF Current, None, Lease
  <2>2. Resets(l, c) /\ Unclosed(l)
    BY <1>1, <1>4, <1>5, <2>1 DEF CurrentInv
  <2>3. Tells(e, l)
    BY <1>5 DEF Tells
  <2>4. Emptied(l)
    BY <1>2, <1>5, <2>2, <2>3 DEF Resets
  <2>5. CurrentInv'
    BY <1>2, <1>3, <1>5, <2>2, <2>4 DEF CurrentInv, Feeds, Emptied, Unclosed
  <2>6. ASSUME ~lost PROVE Served(l)
    <3>1. Served(l) \/ Doomed(1)
      BY <1>1, <1>2, <1>5, <2>1, <2>3, <2>6 DEF ServedInv
    <3>2. ~Doomed(1)
      BY <1>2 DEF Doomed
    <3> QED
      BY <3>1, <3>2
  <2>7. ASSUME ~lost, slot[l] = "Quarantined"
        PROVE  \E d \in Range(route') : Fails(d, l)
    <3>1. \E d \in Range(route) : Fails(d, l)
      BY <1>1, <1>5, <2>1, <2>7 DEF ServedInv
    <3>2. ~Fails(e, l)
      BY <1>5 DEF Fails, Fatal
    <3> QED
      BY <1>2, <3>1, <3>2
  <2>8. ServedInv'
    BY <1>2, <1>3, <2>6, <2>7 DEF ServedInv, Served, Listens
  <2>9. ResetIsAnswered'
    BY <1>3 DEF ResetIsAnswered
  <2> QED
    BY <1>6, <1>7, <1>8, <2>5, <2>8, <2>9 DEF VadInv
<1> QED
  BY <1>9, <1>10

(* The end of the lease comes only to a session that is closed.            *)
LEMMA ClosedHeard ==
  ASSUME VadInv, OnVadEvent, UNCHANGED <<commands, slot>>,
         Head(route).kind = "Closed", Head(route).lease = sess.lease,
         sess' = [sess EXCEPT !.lease = None]
  PROVE  VadInv'
<1>1. /\ TypeOK /\ SessionInv /\ WireInv /\ CurrentInv
      /\ Leased /\ Signals /\ Slotted /\ opens \in 0..MaxOpens
  BY TypeParts DEF VadInv
<1>2. /\ route' \in Seq(AnEvent) /\ Len(route') <= Capacity
      /\ Head(route) \in AnEvent /\ Head(route) \in Range(route)
      /\ Range(route) = {Head(route)} \cup Range(route')
      /\ UNCHANGED <<opens, worker, events, reaping, lost>>
      /\ ~sess.opening /\ sess \in SessType
  BY <1>1, MailTaken
<1>3. /\ sess' \in SessType
      /\ sess'.lease = None /\ sess'.cycles = sess.cycles
      /\ sess'.cycle = sess.cycle /\ sess'.pendingCycle = sess.pendingCycle
      /\ sess'.opening = sess.opening /\ sess'.closed = sess.closed
      /\ sess'.dropped = sess.dropped /\ sess.cycles <= sess'.cycles
  BY <1>2, SessUnleased DEF SessType
<1>4. sess.closed
  <2>1. Head(route).lease # None
    BY <1>2 DEF AnEvent, Lease, None
  <2>2. Current => Unclosed(sess.lease)
    BY <1>1 DEF CurrentInv
  <2> QED
    BY <1>2, <2>1, <2>2 DEF Current, Unclosed
<1>5. TypeOK'
  <2>1. Leased' /\ Signals' /\ Slotted' /\ opens' \in 0..MaxOpens
    BY <1>1, <1>2 DEF Leased, Signals, Slotted, Slots
  <2> QED
    BY <1>3, <2>1, TypePartsNext
<1>6. SessionInv'
  <2>1. None <= opens
    BY <1>1 DEF None
  <2> QED
    BY <1>1, <1>2, <1>3, <1>4, <2>1 DEF SessionInv
<1>7. WireInv'
  BY <1>1, <1>2, <1>3, UnsentWire
<1> QED
  BY <1>3, <1>4, <1>5, <1>6, <1>7, NotCurrent DEF Current

(* on_vad_event, by the kind of the event.                                 *)
LEMMA MailInv == ASSUME VadInv, OnVadEvent PROVE VadInv'
<1> DEFINE e == Head(route)
<1>1. TypeOK /\ SessionInv /\ WireInv /\ sess \in SessType
  BY TypeParts DEF VadInv
<1>2. /\ route' \in Seq(AnEvent) /\ Len(route') <= Capacity /\ e \in AnEvent
      /\ Range(route') \subseteq Range(route)
      /\ UNCHANGED <<opens, worker, events, reaping, lost>> /\ ~sess.opening
      /\ sess.opening = FALSE /\ sess.cycles <= sess.cycles /\ sess.cycle <= sess.cycles
  BY <1>1, MailTaken DEF SessType, SessionInv
<1>3. ASSUME FailClosed(sess) PROVE VadInv'
  BY <1>1, <1>2, <1>3, FailClosedInv
<1>4. \/ /\ e.kind = "Probability" /\ e.lease = sess.lease /\ e.cycle = sess.cycle
         /\ \/ sess' = [sess EXCEPT !.expected = e.start + Window]
               /\ UNCHANGED <<commands, slot>>
            \/ FailClosed(sess)
      \/ /\ e.kind = "ResetDone" /\ e.lease = sess.lease /\ e.cycle = sess.pendingCycle
         /\ sess' = [sess EXCEPT !.cycle = e.cycle, !.pendingCycle = None,
                                 !.expected = None]
         /\ UNCHANGED <<commands, slot>>
      \/ /\ e.kind = "Closed" /\ e.lease = sess.lease
         /\ sess' = [sess EXCEPT !.lease = None]
         /\ UNCHANGED <<commands, slot>>
      \/ FailClosed(sess)
      \/ /\ \/ e.lease # sess.lease \/ e.kind = "Opened"
            \/ e.kind = "Probability"
            \/ e.kind = "ResetDone" /\ e.cycle # sess.pendingCycle
         /\ UNCHANGED <<sess, commands, slot>>
  BY DEF OnVadEvent
<1>5. CASE /\ e.kind = "Probability" /\ UNCHANGED <<commands, slot>>
           /\ sess' = [sess EXCEPT !.expected = e.start + Window]
  <2>1. ~Answers(e)
    BY <1>5 DEF Answers, Fatal
  <2>2. e.start + Window \in Nat
    BY <1>2 DEF AnEvent, Window
  <2> QED
    BY <1>1, <1>5, <2>1, <2>2, SessExpects, QuietMail
<1>6. CASE /\ e.kind = "ResetDone" /\ e.lease = sess.lease /\ e.cycle = sess.pendingCycle
           /\ sess' = [sess EXCEPT !.cycle = e.cycle, !.pendingCycle = None,
                                   !.expected = None]
           /\ UNCHANGED <<commands, slot>>
  BY <1>6, ResetHeard
<1>7. CASE /\ e.kind = "Closed" /\ e.lease = sess.lease
           /\ sess' = [sess EXCEPT !.lease = None]
           /\ UNCHANGED <<commands, slot>>
  BY <1>7, ClosedHeard
<1>8. CASE /\ \/ e.lease # sess.lease \/ e.kind = "Opened"
              \/ e.kind = "Probability"
              \/ e.kind = "ResetDone" /\ e.cycle # sess.pendingCycle
           /\ UNCHANGED <<sess, commands, slot>>
  <2>1. ~Answers(e)
    BY <1>8 DEF Answers, Fatal
  <2> QED
    BY <1>1, <1>8, <2>1, QuietMail
<1> HIDE DEF e
<1> QED
  BY <1>3, <1>4, <1>5, <1>6, <1>7, <1>8

-----------------------------------------------------------------------------
(* run_worker.  A thread that listens goes on as w with the commands q and *)
(* sends the events N: it tells of a reset it was asked for, of its end    *)
(* when it is over, and holds only audio of the frames it got.             *)
Progress(l, w, q, N) ==
  /\ w \in WorkerType /\ w.pc # "None" /\ (w.pc = "Done" => q = <<>> /\ w.pending = 0)
  /\ q \in Seq(Command) /\ Len(q) <= Len(commands[l]) /\ ClosesLast(q)
  /\ Range(q) \subseteq Range(commands[l])
  /\ \A e \in N :
       /\ e \in AnEvent /\ e.lease = l /\ e.pure /\ e.cycle <= sess.cycles
       /\ e.kind \in {"Failed", "Closed"} => w.pc = "Done"
       /\ e.kind = "Closed" => \E c \in Range(commands[l]) : c.do = "Close"
       /\ e.kind = "ResetDone" =>
            /\ \E c \in Range(commands[l]) : c.do = "Reset" /\ c.cycle = e.cycle
            /\ \A c \in Range(q) : c.do # "Reset"
  /\ w.pending # 0 =>
       \/ worker[l].pending # 0 /\ w.oldest = worker[l].oldest
       \/ \E c \in Range(commands[l]) : c.do = "Push" /\ c.cycle = w.oldest
  /\ \/ \A c \in Range(commands[l]) : c.do = "Reset" => c \in Range(q)
     \/ w.pending = 0 /\ \A c \in Range(q) : c.do # "Push"

(* Such a step, with its events appended in their order.                   *)
ProgressTo(l, w, q, N) ==
  /\ Listens(l) /\ Progress(l, w, q, N)
  /\ worker' = [worker EXCEPT ![l] = w] /\ commands' = [commands EXCEPT ![l] = q]
  /\ events' \in Seq(AnEvent) /\ Range(events') = Range(events) \cup N
  /\ \A m \in Lease : ToldOnce(events', m)
  /\ Len(events) <= Len(events') /\ \A i \in 1..Len(events) : events'[i] = events[i]
  /\ UNCHANGED <<sess, opens, slot, route, reaping, lost>>

(* It keeps the types and touches one lease only.                          *)
LEMMA ProgressTyped ==
  ASSUME TypeOK, NEW l \in Lease, NEW w, NEW q, NEW N, ProgressTo(l, w, q, N)
  PROVE  /\ TypeOK'
         /\ worker'[l] = w /\ commands'[l] = q
         /\ \A m \in Lease : m # l => worker'[m] = worker[m] /\ commands'[m] = commands[m]
<1>1. Leased /\ Signals /\ Slotted /\ opens \in 0..MaxOpens /\ sess \in SessType
  BY TypeParts
<1>2. /\ w \in WorkerType /\ q \in Seq(Command) /\ Len(q) <= Len(commands[l])
      /\ worker' = [worker EXCEPT ![l] = w] /\ commands' = [commands EXCEPT ![l] = q]
      /\ events' \in Seq(AnEvent)
      /\ UNCHANGED <<sess, opens, slot, route, reaping, lost>>
  BY DEF ProgressTo, Progress
<1>3. /\ worker' \in [Lease -> WorkerType] /\ commands' \in [Lease -> Seq(Command)]
      /\ worker'[l] = w /\ commands'[l] = q
      /\ \A m \in Lease : m # l => worker'[m] = worker[m] /\ commands'[m] = commands[m]
  BY <1>1, <1>2 DEF Leased
<1>4. \A m \in Lease : Len(commands'[m]) <= Capacity
  <2>1. Len(q) <= Capacity
    <3>1. Len(q) \in Nat /\ Len(commands[l]) \in Nat /\ Len(commands[l]) <= Capacity
      BY <1>1, <1>2, LenProperties DEF Leased
    <3> QED
      BY <1>2, <3>1, VadAssumption DEF VadAssumption
  <2> QED
    BY <1>1, <1>3, <2>1 DEF Leased
<1>5. Leased' /\ Signals' /\ Slotted'
  BY <1>1, <1>2, <1>3, <1>4 DEF Leased, Signals, Slotted, Slots
<1> QED
  BY <1>1, <1>2, <1>3, <1>5, TypePartsNext

(* It keeps the wire invariant: the reset moves from channel to channel.   *)
LEMMA ProgressWire ==
  ASSUME TypeOK, WireInv, NEW l \in Lease, NEW w, NEW q, NEW N, ProgressTo(l, w, q, N)
  PROVE  WireInv'
<1>1. /\ worker'[l] = w /\ commands'[l] = q
      /\ \A m \in Lease : m # l => worker'[m] = worker[m] /\ commands'[m] = commands[m]
  BY ProgressTyped
<1>2. /\ Listens(l) /\ Progress(l, w, q, N) /\ Range(events') = Range(events) \cup N
      /\ UNCHANGED <<sess, opens, slot, route>>
      /\ \A m \in Lease : ToldOnce(events', m)
  BY DEF ProgressTo
<1>3. /\ SlotsInv /\ Numbered /\ OneReset /\ OneFeed /\ EndsTold /\ AllPure
      /\ opens \in 0..MaxOpens /\ \A m \in Lease : commands[m] \in Seq(Command)
  BY TypeParts DEF WireInv, Leased
<1>4. slot[l] # "None" /\ ~(l > opens)
  BY <1>2, <1>3 DEF SlotsInv, Listens
<1>5. SlotsInv'
  <2> SUFFICES ASSUME NEW m \in Lease
               PROVE  /\ m > opens' => slot'[m] = "None" /\ worker'[m].pc = "None"
                      /\ worker'[m].pc \in {"None", "Done"} =>
                           commands'[m] = <<>> /\ worker'[m].pending = 0
                      /\ slot'[m] = "None" => ~Listens(m)'
    BY DEF SlotsInv
  <2>1. CASE m = l
    BY <1>1, <1>2, <1>4, <2>1 DEF Progress
  <2>2. CASE m # l
    BY <1>1, <1>2, <1>3, <2>2 DEF SlotsInv, Listens
  <2> QED
    BY <2>1, <2>2
<1>6. Numbered'
  <2>1. \A m \in Lease : Range(commands'[m]) \subseteq Range(commands[m])
    BY <1>1, <1>2 DEF Progress
  <2>2. \A e \in N : /\ e.lease <= opens /\ e.cycle <= sess.cycles
                     /\ e.kind = "ResetDone" => e.cycle # None
    <3> SUFFICES ASSUME NEW e \in N
                 PROVE  /\ e.lease <= opens /\ e.cycle <= sess.cycles
                        /\ e.kind = "ResetDone" => e.cycle # None
      OBVIOUS
    <3>1. e.lease = l /\ e.cycle <= sess.cycles
      BY <1>2 DEF Progress
    <3>2. l <= opens
      BY <1>3, <1>4 DEF Lease
    <3>3. e.kind = "ResetDone" => e.cycle # None
      BY <1>2, <1>3 DEF Progress, Numbered
    <3> QED
      BY <3>1, <3>2, <3>3
  <2> QED
    BY <1>2, <1>3, <2>1, <2>2 DEF Numbered
<1>7. OneReset'
  <2> SUFFICES ASSUME NEW m \in Lease
               PROVE  /\ ClosesLast(commands'[m]) /\ ToldOnce(events', m)
                      /\ ~(Asked(m)' /\ Told(m)')
                      /\ slot'[m] = "Active" => ~Asked(m)' /\ ~Told(m)'
    BY DEF OneReset
  <2>0. /\ ClosesLast(commands[m]) /\ ~(Asked(m) /\ Told(m))
        /\ slot[m] = "Active" => ~Asked(m) /\ ~Told(m)
    BY <1>3 DEF OneReset
  <2>1. CASE m # l
    <3>1. Asked(m)' <=> Asked(m)
      BY <1>1, <2>1 DEF Asked
    <3>2. \A e \in N : ~Tells(e, m)
      BY <1>2, <2>1 DEF Progress, Tells
    <3>3. Told(m)' <=> Told(m)
      BY <1>2, <3>2 DEF Told
    <3> QED
      BY <1>1, <1>2, <2>0, <2>1, <3>1, <3>3
  <2>2. CASE m = l
    <3>1. Asked(m)' => Asked(m)
      BY <1>1, <1>2, <2>2 DEF Asked, Progress
    <3>2. Told(m)' => Told(m) \/ (Asked(m) /\ ~Asked(m)')
      <4> SUFFICES ASSUME NEW e \in Range(events'), Tells(e, m)
                   PROVE  Told(m) \/ (Asked(m) /\ ~Asked(m)')
        BY DEF Told
      <4>1. CASE e \in Range(events)
        BY <4>1 DEF Told
      <4>2. CASE e \in N
        <5>1. e.kind = "ResetDone"
          BY DEF Tells
        <5>2. Asked(l) /\ \A c \in Range(q) : c.do # "Reset"
          BY <1>2, <4>2, <5>1 DEF Progress, Asked
        <5> QED
          BY <1>1, <2>2, <5>2 DEF Asked
      <4> QED
        BY <1>2, <4>1, <4>2
    <3>3. ClosesLast(commands'[m])
      BY <1>1, <1>2, <2>2 DEF Progress
    <3> QED
      BY <1>2, <2>0, <3>1, <3>2, <3>3
  <2> QED
    BY <2>1, <2>2
<1>8. OneFeed'
  <2> SUFFICES ASSUME NEW m \in Lease, NEW c \in Range(commands'[m]), c.do = "Push"
               PROVE  /\ worker'[m].pending # 0 => worker'[m].oldest = c.cycle
                      /\ \A d \in Range(commands'[m]) : d.do = "Push" => d.cycle = c.cycle
    BY DEF OneFeed
  <2>1. CASE m # l
    BY <1>1, <1>3, <2>1 DEF OneFeed
  <2>2. CASE m = l
    <3>1. c \in Range(commands[l]) /\ Range(q) \subseteq Range(commands[l])
      BY <1>1, <1>2, <2>2 DEF Progress
    <3>2. /\ worker[l].pending # 0 => worker[l].oldest = c.cycle
          /\ \A d \in Range(commands[l]) : d.do = "Push" => d.cycle = c.cycle
      BY <1>3, <3>1 DEF OneFeed
    <3>3. w.pending # 0 => w.oldest = c.cycle
      BY <1>2, <3>2 DEF Progress
    <3> QED
      BY <1>1, <2>2, <3>1, <3>2, <3>3
  <2> QED
    BY <2>1, <2>2
<1>9. EndsTold'
  <2> SUFFICES ASSUME NEW e \in Range(events'), e.kind \in {"Failed", "Closed"}
               PROVE  worker'[e.lease].pc = "Done"
    BY DEF EndsTold
  <2>1. CASE e \in N
    <3>1. e.lease = l /\ w.pc = "Done"
      BY <1>2, <2>1 DEF Progress
    <3> QED
      BY <1>1, <3>1
  <2>2. CASE e \in Range(events)
    <3>1. worker[e.lease].pc = "Done"
      BY <1>3, <2>2 DEF EndsTold
    <3>2. e.lease # l
      BY <1>2, <3>1 DEF Listens
    <3>3. e.lease \in Lease
      BY <2>2, TypeParts, RangeTyped DEF Signals, AnEvent
    <3> QED
      BY <1>1, <3>1, <3>2, <3>3
  <2> QED
    BY <1>2, <2>1, <2>2
<1>10. AllPure'
  BY <1>2, <1>3 DEF AllPure, Progress
<1> QED
  BY <1>5, <1>6, <1>7, <1>8, <1>9, <1>10 DEF WireInv

(* It keeps the invariant: what the session waits for stays on its way.    *)
LEMMA ProgressInv ==
  ASSUME VadInv, NEW l \in Lease, NEW w, NEW q, NEW N, ProgressTo(l, w, q, N)
  PROVE  VadInv'
<1>1. /\ TypeOK /\ SessionInv /\ WireInv /\ CurrentInv /\ ServedInv /\ ResetIsAnswered
  BY DEF VadInv
<1>2. TypeOK' /\ WireInv'
  BY <1>1, ProgressTyped, ProgressWire
<1>3. /\ worker'[l] = w /\ commands'[l] = q
      /\ \A m \in Lease : m # l => worker'[m] = worker[m] /\ commands'[m] = commands[m]
  BY <1>1, ProgressTyped
<1>4. /\ Listens(l) /\ Progress(l, w, q, N) /\ Range(events') = Range(events) \cup N
      /\ UNCHANGED <<sess, opens, slot, route, lost>>
  BY DEF ProgressTo
<1>5. SessionInv'
  BY <1>1, <1>4 DEF SessionInv
<1>6. CurrentInv'
  <2> SUFFICES ASSUME Current
               PROVE  /\ sess.cycle # None => Feeds(sess.lease, sess.cycle)'
                      /\ sess.pendingCycle # None => Resets(sess.lease, sess.pendingCycle)'
                      /\ Unclosed(sess.lease)'
    BY <1>4 DEF CurrentInv, Current
  <2>1. /\ sess.cycle # None => Feeds(sess.lease, sess.cycle)
        /\ sess.pendingCycle # None => Resets(sess.lease, sess.pendingCycle)
        /\ Unclosed(sess.lease) /\ sess.lease \in Lease
    BY <1>1, CurrentLease DEF CurrentInv
  <2>2. CASE sess.lease # l
    <3>1. /\ worker'[sess.lease] = worker[sess.lease]
          /\ commands'[sess.lease] = commands[sess.lease]
          /\ \A e \in N : e.lease # sess.lease
      BY <1>3, <1>4, <2>1, <2>2 DEF Progress
    <3>2. sess.cycle # None => Feeds(sess.lease, sess.cycle)'
      BY <1>4, <2>1, <3>1 DEF Feeds
    <3>3. sess.pendingCycle # None => Resets(sess.lease, sess.pendingCycle)'
      BY <1>4, <2>1, <3>1 DEF Resets, Tells, Emptied, Asked
    <3>4. Unclosed(sess.lease)'
      BY <1>4, <2>1, <3>1 DEF Unclosed
    <3> QED
      BY <3>2, <3>3, <3>4
  <2>3. CASE sess.lease = l
    <3>1. sess.cycle # None => Feeds(sess.lease, sess.cycle)'
      <4> SUFFICES ASSUME sess.cycle # None
                   PROVE  /\ \A d \in Range(q) : d.do = "Push" => d.cycle = sess.cycle
                          /\ w.pending # 0 => w.oldest = sess.cycle
        BY <1>3, <1>4, <2>3 DEF Feeds
      <4> QED
        BY <1>4, <2>1, <2>3 DEF Feeds, Progress
    <3>2. sess.pendingCycle # None => Resets(sess.lease, sess.pendingCycle)'
      <4> SUFFICES ASSUME sess.pendingCycle # None
                   PROVE  Resets(sess.lease, sess.pendingCycle)'
        OBVIOUS
      <4>0. Resets(l, sess.pendingCycle)
        BY <2>1, <2>3
      <4>1. \A d \in Range(q) : d.do = "Reset" => d.cycle = sess.pendingCycle
        BY <1>4, <4>0 DEF Resets, Progress
      <4>2. \A e \in Range(events') : Tells(e, l) => e.cycle = sess.pendingCycle
        <5>1. \A e \in N : Tells(e, l) => e.cycle = sess.pendingCycle
          BY <1>4, <4>0 DEF Resets, Progress, Tells
        <5> QED
          BY <1>4, <4>0, <5>1 DEF Resets
      <4>3. (\E c \in Range(q) : c.do = "Reset")
              \/ (w.pending = 0 /\ \A d \in Range(q) : d.do # "Push")
        <5>1. CASE Asked(l)
          BY <1>4, <5>1 DEF Progress, Asked
        <5>2. CASE Emptied(l)
          BY <1>4, <5>2 DEF Progress, Emptied
        <5> QED
          BY <4>0, <5>1, <5>2 DEF Resets
      <4>4. (\E e \in Range(route) : Tells(e, l) /\ e.cycle = sess.pendingCycle) =>
              \A c \in Range(q) : c.do # "Reset"
        BY <1>4, <4>0 DEF Resets, Asked, Progress
      <4> QED
        BY <1>3, <1>4, <2>3, <4>1, <4>2, <4>3, <4>4 DEF Resets, Emptied, Asked
    <3>3. Unclosed(sess.lease)'
      <4>0. Unclosed(l)
        BY <2>1, <2>3
      <4>1. \A d \in Range(q) : d.do # "Close"
        BY <1>4, <4>0 DEF Unclosed, Progress
      <4>2. \A e \in N : e.kind # "Closed"
        BY <1>4, <4>0 DEF Unclosed, Progress
      <4> QED
        BY <1>3, <1>4, <2>3, <4>0, <4>1, <4>2 DEF Unclosed
    <3> QED
      BY <3>1, <3>2, <3>3
  <2> QED
    BY <2>2, <2>3
<1>7. ServedInv'
  <2>1. Current /\ Served(sess.lease) => Served(sess.lease)'
    <3>1. Current => sess.lease \in Lease
      BY <1>1, CurrentLease
    <3>2. \A m \in Lease : Listens(m)' => Listens(m)
      BY <1>3, <1>4 DEF Listens
    <3> QED
      BY <1>4, <3>1, <3>2 DEF Served
  <2> QED
    BY <1>1, <1>4, <2>1 DEF ServedInv, Current, Doomed
<1>8. ResetIsAnswered'
  <2>1. \A e : Answers(e)' <=> Answers(e)
    BY <1>4 DEF Answers
  <2>2. InQueue(events) => InQueue(events)'
    <3>1. /\ Len(events) <= Len(events') /\ Len(events) \in Nat /\ Len(events') \in Nat
          /\ \A i \in 1..Len(events) : events'[i] = events[i]
      BY <1>1, TypeParts, LenProperties DEF ProgressTo, Signals
    <3> QED
      BY <2>1, <3>1 DEF InQueue
  <2>3. InQueue(route) => InQueue(route)'
    BY <1>4, <2>1 DEF InQueue
  <2> QED
    BY <1>1, <1>4, <2>2, <2>3 DEF ResetIsAnswered
<1> QED
  BY <1>2, <1>5, <1>6, <1>7, <1>8 DEF VadInv

(* One event more.                                                         *)
LEMMA OneTold ==
  ASSUME TypeOK, WireInv, NEW e \in AnEvent, events' = Append(events, e),
         \A m \in Lease : Tells(e, m) => ~Told(m)
  PROVE  /\ events' \in Seq(AnEvent) /\ Range(events') = Range(events) \cup {e}
         /\ \A m \in Lease : ToldOnce(events', m)
         /\ Len(events) <= Len(events') /\ \A i \in 1..Len(events) : events'[i] = events[i]
<1>1. events \in Seq(AnEvent)
  BY TypeParts DEF Signals
<1>2. /\ events' \in Seq(AnEvent) /\ Range(events') = Range(events) \cup {e}
      /\ Len(events') = Len(events) + 1 /\ Len(events) \in Nat
      /\ \A i \in 1..Len(events) : events'[i] = events[i]
  BY <1>1, AppendTo
<1>3. ASSUME NEW m \in Lease PROVE ToldOnce(events', m)
  <2>1. ToldOnce(events, m)
    BY DEF WireInv, OneReset
  <2>2. ~Tells(e, m) \/ \A d \in Range(events) : ~Tells(d, m)
    BY DEF Told
  <2> QED
    BY <1>1, <2>1, <2>2, EventAdded
<1> QED
  BY <1>2, <1>3

(* The events a thread sends by themselves.                                *)
LEMMA EventTyped ==
  ASSUME NEW k \in Fatal \cup {"Opened", "Probability", "ResetDone", "Closed"},
         NEW l \in Lease, NEW c \in 0..MaxCycles
  PROVE  /\ Ev(k, l, c) \in AnEvent /\ Ev(k, l, c).kind = k /\ Ev(k, l, c).lease = l
         /\ Ev(k, l, c).cycle = c /\ Ev(k, l, c).pure
BY DEF Ev, AnEvent

(* Stop: the thread is over, its channel gone, its end on its way.         *)
LEMMA StopInv ==
  ASSUME VadInv, NEW l \in Lease, Listens(l), Stop(l),
         NEW k \in {"Failed", "Closed"}, events' = Append(events, Ev(k, l, None)),
         k = "Closed" => \E c \in Range(commands[l]) : c.do = "Close",
         UNCHANGED <<sess, opens, slot, route, reaping, lost>>
  PROVE  VadInv'
<1> DEFINE w == [pc |-> "Done", pending |-> 0, oldest |-> None, next |-> 0]
           e == Ev(k, l, None)
<1>1. /\ TypeOK /\ WireInv /\ sess \in SessType /\ Leased
  BY TypeParts DEF VadInv
<1>2. worker' = [worker EXCEPT ![l] = w] /\ commands' = [commands EXCEPT ![l] = <<>>]
  BY DEF Stop
<1>3. w \in WorkerType /\ w.pc = "Done" /\ w.pending = 0
  BY NoneTyped DEF WorkerType, None, Window
<1>4. /\ e \in AnEvent /\ e.kind = k /\ e.lease = l /\ e.cycle = None /\ e.pure
  BY NoneTyped, EventTyped DEF Fatal
<1>5. k \in Fatal \cup {"Opened", "Probability", "ResetDone", "Closed"} /\ k # "ResetDone"
  BY DEF Fatal
<1> HIDE DEF w, e
<1>6. None <= sess.cycles
  BY <1>1 DEF SessType, None
<1>7. <<>> \in Seq(Command) /\ Len(<<>>) <= Len(commands[l]) /\ ClosesLast(<<>>)
      /\ Range(<<>>) = {}
  <2>1. <<>> \in Seq(Command) /\ Len(<<>>) = 0 /\ Len(commands[l]) \in Nat
    BY <1>1, EmptySeq, LenProperties DEF Leased
  <2>2. Len(<<>>) <= Len(commands[l])
    BY <2>1
  <2> QED
    BY <2>1, <2>2, EmptyRange DEF ClosesLast
<1>8. Progress(l, w, <<>>, {e})
  BY <1>3, <1>4, <1>5, <1>6, <1>7 DEF Progress
<1>9. events' = Append(events, e)
  BY DEF e
<1>10. \A m \in Lease : ~Tells(e, m)
  BY <1>4, <1>5 DEF Tells
<1>11. ProgressTo(l, w, <<>>, {e})
  BY <1>1, <1>2, <1>4, <1>8, <1>9, <1>10, OneTold DEF ProgressTo
<1> QED
  BY <1>11, ProgressInv

(* The model is loaded, or is not.                                         *)
LEMMA WorkerOpensInv ==
  ASSUME VadInv, NEW l \in Lease, WorkerOpens(l) PROVE VadInv'
<1>1. /\ TypeOK /\ WireInv /\ sess \in SessType /\ Leased /\ Listens(l)
      /\ UNCHANGED <<sess, opens, slot, route, reaping, lost>>
  BY TypeParts DEF VadInv, WorkerOpens, Listens
<1>2. CASE Stop(l) /\ events' = Append(events, Ev("Failed", l, None))
  BY <1>1, <1>2, StopInv
<1>3. CASE /\ worker' = [worker EXCEPT ![l].pc = "Serving"] /\ UNCHANGED commands
           /\ events' = Append(events, Ev("Opened", l, None))
  <2> DEFINE w == [worker[l] EXCEPT !.pc = "Serving"]
             q == commands[l]
             e == Ev("Opened", l, None)
  <2>1. worker[l] \in WorkerType
    BY <1>1 DEF Leased
  <2>2. w \in WorkerType
    BY <2>1 DEF WorkerType
  <2>3. w.pc = "Serving" /\ w.pending = worker[l].pending /\ w.oldest = worker[l].oldest
    BY <2>1 DEF WorkerType
  <2>4. worker' = [worker EXCEPT ![l] = w] /\ commands' = [commands EXCEPT ![l] = q]
    BY <1>1, <1>3 DEF Leased
  <2>5. e \in AnEvent /\ e.kind = "Opened" /\ e.lease = l /\ e.cycle = None /\ e.pure
    BY NoneTyped, EventTyped
  <2>6. events' = Append(events, e)
    BY <1>3
  <2>7. None <= sess.cycles /\ q \in Seq(Command) /\ Len(q) <= Len(commands[l])
        /\ ClosesLast(q) /\ q = commands[l]
    <3>1. q \in Seq(Command) /\ Len(q) \in Nat
      BY <1>1, LenProperties DEF Leased
    <3> QED
      BY <1>1, <3>1 DEF SessType, None, WireInv, OneReset
  <2> HIDE DEF w, q, e
  <2>8. Progress(l, w, q, {e})
    BY <2>2, <2>3, <2>5, <2>7 DEF Progress
  <2>9. \A m \in Lease : ~Tells(e, m)
    BY <2>5 DEF Tells
  <2>10. ProgressTo(l, w, q, {e})
    BY <1>1, <2>4, <2>5, <2>6, <2>8, <2>9, OneTold DEF ProgressTo
  <2> QED
    BY <2>10, ProgressInv
<1> QED
  BY <1>2, <1>3 DEF WorkerOpens

(* The windows a frame completes: of its cycle when what the worker holds  *)
(* is of it too.                                                           *)
LEMMA WindowsTyped ==
  ASSUME NEW l \in Lease, NEW c \in 0..MaxCycles, worker[l] \in WorkerType,
         worker[l].pending # 0 => worker[l].oldest = c
  PROVE  /\ Windows(l, c) \in Seq(AnEvent)
         /\ \A e \in Range(Windows(l, c)) :
              /\ e \in AnEvent /\ e.kind = "Probability" /\ e.lease = l /\ e.cycle = c
              /\ e.pure
         /\ Len(Windows(l, c)) \in Nat
<1> DEFINE w == worker[l]
           n == (w.pending + Frame) \div Window
           W(i) == [Ev("Probability", l, c) EXCEPT
                      !.start = w.next + Window * (i - 1),
                      !.pure = i > 1 \/ w.pending = 0 \/ w.oldest = c]
<1>1. w.pending \in 0..7 /\ w.next \in Nat /\ (w.pending # 0 => w.oldest = c)
  BY DEF WorkerType, Window
<1>2. n \in Nat
  BY <1>1 DEF Frame, Window
<1>3. ASSUME NEW i \in 1..n
      PROVE  /\ W(i) \in AnEvent /\ W(i).kind = "Probability" /\ W(i).lease = l
             /\ W(i).cycle = c /\ W(i).pure
  <2>1. w.next + Window * (i - 1) \in Nat
    BY <1>1, <1>2 DEF Window
  <2>2. (i > 1 \/ w.pending = 0 \/ w.oldest = c) = TRUE
    BY <1>1
  <2>3. W(i) = [Ev("Probability", l, c) EXCEPT
                  !.start = w.next + Window * (i - 1), !.pure = TRUE]
    BY <2>2
  <2> HIDE DEF W
  <2>4. W(i) = [kind |-> "Probability", lease |-> l, cycle |-> c,
                start |-> w.next + Window * (i - 1), pure |-> TRUE]
    BY <2>3 DEF Ev
  <2> QED
    BY <2>1, <2>4 DEF AnEvent
<1>4. Windows(l, c) = [i \in 1..n |-> W(i)]
  BY DEF Windows
<1> HIDE DEF n, W
<1>5. Windows(l, c) \in [1..n -> AnEvent]
  BY <1>3, <1>4
<1>6. Windows(l, c) \in Seq(AnEvent)
  BY <1>2, <1>5, SeqDef
<1>7. DOMAIN Windows(l, c) = 1..n /\ \A i \in 1..n : Windows(l, c)[i] = W(i)
  BY <1>4
<1> QED
  BY <1>3, <1>6, <1>7, LenProperties DEF Range

(* The command a thread takes.                                             *)
LEMMA CommandHead ==
  ASSUME TypeOK, WireInv, NEW l \in Lease, commands[l] # <<>>
  PROVE  /\ Head(commands[l]) \in Command /\ Head(commands[l]) \in Range(commands[l])
         /\ Tail(commands[l]) \in Seq(Command)
         /\ Len(Tail(commands[l])) <= Len(commands[l])
         /\ ClosesLast(Tail(commands[l]))
         /\ Range(commands[l]) = {Head(commands[l])} \cup Range(Tail(commands[l]))
         /\ Head(commands[l]).cycle <= sess.cycles
         /\ Head(commands[l]).do = "Reset" =>
              /\ Head(commands[l]).cycle # None
              /\ \A d \in Range(Tail(commands[l])) : d.do = "Close"
<1>1. commands[l] \in Seq(Command) /\ ClosesLast(commands[l])
  BY TypeParts DEF Leased, WireInv, OneReset
<1>2. /\ Head(commands[l]) \in Command /\ Tail(commands[l]) \in Seq(Command)
      /\ Range(commands[l]) = {Head(commands[l])} \cup Range(Tail(commands[l]))
  BY <1>1, TailOf
<1>3. Len(Tail(commands[l])) <= Len(commands[l])
  <2>1. Len(commands[l]) \in Nat /\ Len(Tail(commands[l])) = Len(commands[l]) - 1
    BY <1>1, TailOf
  <2> QED
    BY <2>1
<1>4. /\ ClosesLast(Tail(commands[l]))
      /\ Head(commands[l]).do = "Reset" =>
           \A d \in Range(Tail(commands[l])) : d.do = "Close"
  BY <1>1, CommandTaken
<1>5. /\ Head(commands[l]).cycle <= sess.cycles
      /\ Head(commands[l]).do = "Reset" => Head(commands[l]).cycle # None
  BY <1>2 DEF WireInv, Numbered
<1> QED
  BY <1>2, <1>3, <1>4, <1>5

(* The worker's record after a frame.                                      *)
Fed(u, c, n) ==
  [u EXCEPT !.pending = (u.pending + Frame) % Window,
            !.oldest = IF (u.pending + Frame) % Window = 0 THEN None ELSE c,
            !.next = u.next + Window * n]

LEMMA PushedWorker ==
  ASSUME NEW u \in WorkerType, NEW c \in 0..MaxCycles, NEW n \in Nat
  PROVE  /\ Fed(u, c, n) \in WorkerType /\ Fed(u, c, n).pc = u.pc
         /\ Fed(u, c, n).pending # 0 => Fed(u, c, n).oldest = c
<1> DEFINE p == (u.pending + Frame) % Window
           o == IF (u.pending + Frame) % Window = 0 THEN None ELSE c
           x == u.next + Window * n
<1>1. p \in 0..Window - 1
  BY DEF WorkerType, Window, Frame
<1>2. o \in 0..MaxCycles /\ (p # 0 => o = c)
  BY NoneTyped
<1>3. x \in Nat
  BY DEF WorkerType, Window
<1> DEFINE w == Fed(u, c, n)
<1>4. w = [u EXCEPT !.pending = p, !.oldest = o, !.next = x]
  BY DEF Fed
<1> HIDE DEF p, o, x, w
<1>5. w \in WorkerType
  BY <1>1, <1>2, <1>3, <1>4 DEF WorkerType
<1>6. w.pc = u.pc /\ w.pending = p /\ w.oldest = o
  BY <1>4 DEF WorkerType
<1> QED
  BY <1>2, <1>5, <1>6 DEF w

(* The worker's record after a reset.                                      *)
LEMMA ResetWorker ==
  ASSUME NEW u \in WorkerType, NEW w,
         w = [u EXCEPT !.pending = 0, !.oldest = None, !.next = 0]
  PROVE  w \in WorkerType /\ w.pc = u.pc /\ w.pending = 0
<1>1. 0 \in 0..Window - 1 /\ 0 \in Nat
  BY DEF Window
<1>2. w \in WorkerType
  BY <1>1, NoneTyped DEF WorkerType
<1> QED
  BY <1>2 DEF WorkerType

(* A frame through the rechunker.                                          *)
LEMMA WorkerPushInv ==
  ASSUME VadInv, NEW l \in Lease, worker[l].pc = "Serving", commands[l] # <<>>,
         Head(commands[l]).do = "Push", WorkerPush(l),
         commands' = [commands EXCEPT ![l] = Tail(@)],
         UNCHANGED <<sess, opens, slot, route, reaping, lost>>
  PROVE  VadInv'
<1> DEFINE q == Tail(commands[l])
           c == Head(commands[l]).cycle
           u == worker[l]
           n == Len(Windows(l, c))
           w == Fed(u, c, n)
           N == Range(Windows(l, c))
<1>1. /\ TypeOK /\ WireInv /\ Leased /\ Signals /\ Listens(l) /\ u \in WorkerType
  BY TypeParts DEF VadInv, Listens, Leased
<1>2. /\ Head(commands[l]) \in Command /\ Head(commands[l]) \in Range(commands[l])
      /\ q \in Seq(Command) /\ Len(q) <= Len(commands[l]) /\ ClosesLast(q)
      /\ Range(commands[l]) = {Head(commands[l])} \cup Range(q)
      /\ c <= sess.cycles
  BY <1>1, CommandHead
<1>3. c \in 0..MaxCycles /\ (u.pending # 0 => u.oldest = c)
  BY <1>1, <1>2 DEF Command, WireInv, OneFeed
<1>4. /\ Windows(l, c) \in Seq(AnEvent) /\ n \in Nat
      /\ \A e \in N : /\ e \in AnEvent /\ e.kind = "Probability" /\ e.lease = l
                      /\ e.cycle = c /\ e.pure
  BY <1>1, <1>3, WindowsTyped
<1>5. /\ commands' = [commands EXCEPT ![l] = q]
      /\ events' = events \o Windows(l, c)
  BY DEF WorkerPush
<1>6. worker' = [worker EXCEPT ![l] = w]
  <2>1. worker' = [worker EXCEPT ![l].pending = (u.pending + Frame) % Window,
                     ![l].oldest = IF (u.pending + Frame) % Window = 0 THEN None ELSE c,
                     ![l].next = @ + Window * n]
    BY Zenon DEF WorkerPush
  <2> QED
    BY <1>1, <2>1 DEF Leased, Fed
<1> HIDE DEF n, q, N
<1>7. w \in WorkerType /\ w.pc = u.pc /\ (w.pending # 0 => w.oldest = c)
  BY <1>1, <1>3, <1>4, PushedWorker
<1> HIDE DEF w
<1>8. Progress(l, w, q, N)
  <2>1. \A d \in Range(commands[l]) : d.do = "Reset" => d \in Range(q)
    BY <1>2
  <2>2. \E d \in Range(commands[l]) : d.do = "Push" /\ d.cycle = c
    BY <1>2
  <2> QED
    BY <1>2, <1>4, <1>7, <2>1, <2>2 DEF Progress
<1>9. /\ events' \in Seq(AnEvent) /\ Range(events') = Range(events) \cup N
      /\ Len(events) <= Len(events') /\ \A i \in 1..Len(events) : events'[i] = events[i]
  <2>1. events \in Seq(AnEvent) /\ Windows(l, c) \in Seq(AnEvent)
    BY <1>1, <1>4 DEF Signals
  <2>2. events' \in Seq(AnEvent) /\ Range(events') = Range(events) \cup N
    BY <1>5, <2>1, ConcatProperties, RangeConcatenation DEF N
  <2>3. /\ Len(events') = Len(events) + Len(Windows(l, c))
        /\ Len(events) \in Nat /\ Len(Windows(l, c)) \in Nat
        /\ \A i \in 1..Len(events) + Len(Windows(l, c)) :
             events'[i] = IF i <= Len(events) THEN events[i]
                          ELSE Windows(l, c)[i - Len(events)]
    BY <1>5, <2>1, ConcatProperties, LenProperties
  <2> QED
    BY <2>2, <2>3
<1>10. \A m \in Lease : ToldOnce(events', m)
  <2> SUFFICES ASSUME NEW m \in Lease PROVE ToldOnce(events', m)
    OBVIOUS
  <2>1. \A e \in Range(Windows(l, c)) : ~Tells(e, m)
    BY <1>4 DEF Tells, N
  <2>2. events \in Seq(AnEvent) /\ ToldOnce(events, m)
    BY <1>1 DEF Signals, WireInv, OneReset
  <2> QED
    BY <1>4, <1>5, <2>1, <2>2, EventsJoined
<1>11. ProgressTo(l, w, q, N)
  BY <1>1, <1>5, <1>6, <1>8, <1>9, <1>10 DEF ProgressTo
<1> QED
  BY <1>11, ProgressInv

(* The rechunker emptied, the reset answered.                              *)
LEMMA WorkerResetInv ==
  ASSUME VadInv, NEW l \in Lease, worker[l].pc = "Serving", commands[l] # <<>>,
         Head(commands[l]).do = "Reset", WorkerReset(l),
         commands' = [commands EXCEPT ![l] = Tail(@)],
         UNCHANGED <<sess, opens, slot, route, reaping, lost>>
  PROVE  VadInv'
<1> DEFINE q == Tail(commands[l])
           c == Head(commands[l]).cycle
           u == worker[l]
           w == [u EXCEPT !.pending = 0, !.oldest = None, !.next = 0]
           e == Ev("ResetDone", l, c)
<1>1. /\ TypeOK /\ WireInv /\ Leased /\ Listens(l) /\ u \in WorkerType
  BY TypeParts DEF VadInv, Listens, Leased
<1>2. /\ Head(commands[l]) \in Command /\ Head(commands[l]) \in Range(commands[l])
      /\ q \in Seq(Command) /\ Len(q) <= Len(commands[l]) /\ ClosesLast(q)
      /\ Range(commands[l]) = {Head(commands[l])} \cup Range(q)
      /\ c <= sess.cycles /\ \A d \in Range(q) : d.do = "Close"
  BY <1>1, CommandHead
<1>3. c \in 0..MaxCycles
  BY <1>2 DEF Command
<1>4. /\ e \in AnEvent /\ e.kind = "ResetDone" /\ e.lease = l /\ e.cycle = c /\ e.pure
  <2> HIDE DEF c
  <2> QED
    BY <1>3, EventTyped
<1>5. /\ commands' = [commands EXCEPT ![l] = q] /\ events' = Append(events, e)
  BY DEF WorkerReset
<1>6. worker' = [worker EXCEPT ![l] = w]
  BY <1>1 DEF WorkerReset, Leased
<1> HIDE DEF q, e
<1>7. w \in WorkerType /\ w.pc = u.pc /\ w.pending = 0
  BY <1>1, ResetWorker
<1> HIDE DEF w
<1>8. Progress(l, w, q, {e})
  <2>1. \E d \in Range(commands[l]) : d.do = "Reset" /\ d.cycle = e.cycle
    BY <1>2, <1>4
  <2> QED
    BY <1>2, <1>4, <1>7, <2>1 DEF Progress
<1>9. \A m \in Lease : Tells(e, m) => ~Told(m)
  BY <1>1, <1>2, <1>4 DEF Tells, WireInv, OneReset, Asked
<1>10. ProgressTo(l, w, q, {e})
  BY <1>1, <1>4, <1>5, <1>6, <1>8, <1>9, OneTold DEF ProgressTo
<1> QED
  BY <1>10, ProgressInv

(* run_worker, by the command taken.                                       *)
LEMMA WorkerServesInv ==
  ASSUME VadInv, NEW l \in Lease, WorkerServes(l) PROVE VadInv'
<1> DEFINE do == Head(commands[l]).do
<1>1. /\ worker[l].pc = "Serving" /\ commands[l] # <<>> /\ Listens(l)
      /\ UNCHANGED <<sess, opens, slot, route, reaping, lost>>
  BY DEF WorkerServes, Listens
<1>2. CASE do = "Push" /\ WorkerPush(l) /\ commands' = [commands EXCEPT ![l] = Tail(@)]
  BY <1>1, <1>2, WorkerPushInv
<1>3. CASE do = "Reset" /\ WorkerReset(l) /\ commands' = [commands EXCEPT ![l] = Tail(@)]
  BY <1>1, <1>3, WorkerResetInv
<1>4. CASE do = "Close" /\ Stop(l) /\ events' = Append(events, Ev("Closed", l, None))
  <2>1. \E c \in Range(commands[l]) : c.do = "Close"
    BY <1>1, <1>4, CommandHead DEF VadInv
  <2> QED
    BY <1>1, <1>4, <2>1, StopInv
<1>5. CASE Stop(l) /\ events' = Append(events, Ev("Failed", l, None))
  BY <1>1, <1>5, StopInv
<1> QED
  BY <1>2, <1>3, <1>4, <1>5 DEF WorkerServes

-----------------------------------------------------------------------------
(* dispatch: an event routed is in the mailbox, or the session is gone, or *)
(* the loss is known.                                                      *)
LEMMA Routed ==
  ASSUME TypeOK, NEW e \in AnEvent, Route(e)
  PROVE  /\ route' \in Seq(AnEvent) /\ Len(route') <= Capacity /\ lost' \in BOOLEAN
         /\ Range(route') \subseteq Range(route) \cup {e} /\ (lost => lost')
         /\ ~lost' /\ ~sess.dropped =>
              /\ e \in Range(route') /\ Range(route) \subseteq Range(route')
              /\ DOMAIN route = 1..Len(route) /\ Len(route) \in Nat
              /\ DOMAIN route' = 1..Len(route) + 1
              /\ route'[Len(route) + 1] = e
              /\ \A i \in DOMAIN route : route'[i] = route[i]
<1>1. route \in Seq(AnEvent) /\ Len(route) <= Capacity /\ lost \in BOOLEAN
      /\ Capacity \in Nat
  BY TypeParts, VadAssumption DEF Signals, VadAssumption
<1>2. /\ Append(route, e) \in Seq(AnEvent) /\ Len(Append(route, e)) = Len(route) + 1
      /\ DOMAIN route = 1..Len(route) /\ DOMAIN Append(route, e) = 1..Len(route) + 1
      /\ \A i \in 1..Len(route) : Append(route, e)[i] = route[i]
      /\ Append(route, e)[Len(route) + 1] = e /\ Len(route) \in Nat
      /\ Range(Append(route, e)) = Range(route) \cup {e}
  BY <1>1, AppendTo
<1>3. CASE sess.dropped
  BY <1>1, <1>3 DEF Route
<1>4. CASE ~sess.dropped /\ Len(route) < Capacity
  <2>1. route' = Append(route, e) /\ UNCHANGED lost
    BY <1>4 DEF Route
  <2>2. Len(route') <= Capacity
    BY <1>1, <1>2, <1>4, <2>1
  <2> QED
    BY <1>1, <1>2, <2>1, <2>2
<1>5. CASE ~sess.dropped /\ ~(Len(route) < Capacity)
  BY <1>1, <1>5 DEF Route
<1> QED
  BY <1>3, <1>4, <1>5

(* The facts about what is queued, when an event leaves the channel for    *)
(* the mailbox or is made by the supervisor.                               *)
Moved(e) ==
  /\ Range(events') \subseteq Range(events) /\ events' \in Seq(AnEvent)
  /\ Range(route') \subseteq Range(route) \cup {e}
  /\ \A m \in Lease : ToldOnce(events', m)
  /\ e \in AnEvent /\ e.lease <= opens /\ e.cycle <= sess.cycles /\ e.pure
  /\ e.kind = "ResetDone" => e.cycle # None
  /\ UNCHANGED <<sess, opens, commands, worker>>

(* The wire invariant after such a move and a change of slots.             *)
LEMMA MovedWire ==
  ASSUME TypeOK, WireInv, NEW e, Moved(e),
         \A m \in Lease : slot'[m] = "None" => ~Listens(m),
         \A m \in Lease : slot[m] = "None" => slot'[m] = "None",
         \A m \in Lease : slot'[m] = "Active" => ~Asked(m) /\ ~Told(m)'
  PROVE  WireInv'
<1>1. /\ SlotsInv /\ Numbered /\ OneReset /\ OneFeed /\ EndsTold /\ AllPure
      /\ UNCHANGED <<sess, opens, commands, worker>>
      /\ Range(events') \subseteq Range(events)
      /\ Range(route') \subseteq Range(route) \cup {e}
  BY DEF WireInv, Moved
<1>2. SlotsInv'
  BY <1>1 DEF SlotsInv, Listens
<1>3. Numbered'
  BY <1>1 DEF Numbered, Moved
<1>4. OneReset'
  <2>1. \A m \in Lease : (Asked(m)' <=> Asked(m)) /\ (Told(m)' => Told(m))
    BY <1>1 DEF Asked, Told
  <2> SUFFICES ASSUME NEW m \in Lease
               PROVE  /\ ClosesLast(commands'[m]) /\ ToldOnce(events', m)
                      /\ ~(Asked(m)' /\ Told(m)')
                      /\ slot'[m] = "Active" => ~Asked(m)' /\ ~Told(m)'
    BY DEF OneReset
  <2> QED
    BY <1>1, <2>1 DEF OneReset, Moved
<1>5. OneFeed' /\ EndsTold'
  BY <1>1 DEF OneFeed, EndsTold
<1>6. AllPure'
  BY <1>1 DEF AllPure, Moved
<1> QED
  BY <1>2, <1>3, <1>4, <1>5, <1>6 DEF WireInv

(* The session's facts after such a move.                                  *)
LEMMA MovedCurrent ==
  ASSUME TypeOK, WireInv, CurrentInv, NEW e, Moved(e),
         \A m \in Lease : slot'[m] = "Cleaning" => slot[m] = "Cleaning",
         e.kind \in Fatal \/ e \in Range(events)
  PROVE  CurrentInv'
<1>1. /\ UNCHANGED <<sess, opens, commands, worker>>
      /\ Range(events') \subseteq Range(events)
      /\ Range(route') \subseteq Range(route) \cup {e}
  BY DEF Moved
<1> SUFFICES ASSUME Current
             PROVE  /\ sess.cycle # None => Feeds(sess.lease, sess.cycle)'
                    /\ sess.pendingCycle # None => Resets(sess.lease, sess.pendingCycle)'
                    /\ Unclosed(sess.lease)'
  BY <1>1 DEF CurrentInv, Current
<1>2. /\ sess.cycle # None => Feeds(sess.lease, sess.cycle)
      /\ sess.pendingCycle # None => Resets(sess.lease, sess.pendingCycle)
      /\ Unclosed(sess.lease) /\ sess.lease \in Lease
  BY CurrentLease DEF CurrentInv
<1>3. sess.cycle # None => Feeds(sess.lease, sess.cycle)'
  BY <1>1, <1>2 DEF Feeds
<1>4. sess.pendingCycle # None => Resets(sess.lease, sess.pendingCycle)'
  <2>1. Tells(e, sess.lease) => ~Asked(sess.lease)
    <3> SUFFICES ASSUME Tells(e, sess.lease) PROVE ~Asked(sess.lease)
      OBVIOUS
    <3>1. e \in Range(events)
      BY DEF Tells, Fatal
    <3>2. Told(sess.lease)
      BY <3>1 DEF Told
    <3> QED
      BY <1>2, <3>2 DEF WireInv, OneReset
  <2>2. Asked(sess.lease)' <=> Asked(sess.lease)
    BY <1>1 DEF Asked
  <2> SUFFICES ASSUME sess.pendingCycle # None
               PROVE  Resets(sess.lease, sess.pendingCycle)'
    OBVIOUS
  <2>3. Resets(sess.lease, sess.pendingCycle)
    BY <1>2
  <2>4. (\E d \in Range(route') : Tells(d, sess.lease) /\ d.cycle = sess.pendingCycle)
           => ~Asked(sess.lease)
    BY <1>1, <2>1, <2>3 DEF Resets
  <2>5. \A d \in Range(events') : Tells(d, sess.lease) => d.cycle = sess.pendingCycle
    BY <1>1, <2>3 DEF Resets
  <2> QED
    BY <1>1, <2>2, <2>3, <2>4, <2>5 DEF Resets, Emptied
<1>5. Unclosed(sess.lease)'
  <2>1. e.lease = sess.lease => e.kind # "Closed"
    BY <1>2 DEF Unclosed, Fatal
  <2> QED
    BY <1>1, <1>2, <2>1 DEF Unclosed
<1> QED
  BY <1>3, <1>4, <1>5

(* Served and doomed resets, when an event is appended to the mailbox.     *)
LEMMA MovedServed ==
  ASSUME TypeOK, SessionInv, WireInv, CurrentInv, ServedInv, NEW e \in AnEvent, Route(e),
         UNCHANGED <<sess, worker>>,
         \A m \in Lease : Served(m) => Served(m)',
         \A m \in Lease : slot'[m] = "Quarantined" =>
           slot[m] = "Quarantined" \/ Fails(e, m),
         \A m \in Lease : Tells(e, m) => Served(m)' \/ slot[m] \in {"Quarantined", "Cleaning"}
  PROVE  ServedInv'
<1>1. sess' = sess /\ (Current => sess.lease \in Lease)
  BY CurrentLease
<1> SUFFICES ASSUME Current, ~lost', NEW l \in Lease, l = sess.lease
             PROVE  /\ sess.cycle # None => Served(l)'
                    /\ slot'[l] = "Quarantined" => \E d \in Range(route') : Fails(d, l)
                    /\ \A i \in DOMAIN route' :
                         Tells(route'[i], l) /\ route'[i].cycle = sess.pendingCycle =>
                           Served(l)' \/ \E j \in DOMAIN route' : j < i /\ Fails(route'[j], l)
  BY <1>1 DEF ServedInv, Current, Doomed, Served, Listens
<1>2. ~sess.dropped
  BY DEF Current, SessionInv
<1>3. /\ ~lost /\ e \in Range(route') /\ Range(route) \subseteq Range(route')
      /\ DOMAIN route = 1..Len(route) /\ Len(route) \in Nat
      /\ DOMAIN route' = 1..Len(route) + 1
      /\ route'[Len(route) + 1] = e
      /\ \A i \in DOMAIN route : route'[i] = route[i]
  BY <1>2, Routed
<1>4. /\ sess.cycle # None => Served(l)
      /\ slot[l] = "Quarantined" => \E d \in Range(route) : Fails(d, l)
      /\ \A i \in DOMAIN route :
           Tells(route[i], l) /\ route[i].cycle = sess.pendingCycle =>
             Served(l) \/ \E j \in DOMAIN route : j < i /\ Fails(route[j], l)
      /\ slot[l] # "Cleaning"
  BY <1>3 DEF ServedInv, Doomed, CurrentInv, Unclosed
<1>5. sess.cycle # None => Served(l)'
  BY <1>2, <1>4
<1>6. slot'[l] = "Quarantined" => \E d \in Range(route') : Fails(d, l)
  BY <1>2, <1>3, <1>4
<1>7. ASSUME NEW i \in DOMAIN route', Tells(route'[i], l),
             route'[i].cycle = sess.pendingCycle
      PROVE  Served(l)' \/ \E j \in DOMAIN route' : j < i /\ Fails(route'[j], l)
  <2>1. CASE i \in DOMAIN route
    <3>1. Served(l) \/ \E j \in DOMAIN route : j < i /\ Fails(route[j], l)
      BY <1>3, <1>4, <1>7, <2>1
    <3>2. \A j \in DOMAIN route : j \in DOMAIN route' /\ route'[j] = route[j]
      BY <1>3
    <3> QED
      BY <1>2, <3>1, <3>2
  <2>2. CASE i = Len(route) + 1
    <3>1. Served(l)' \/ slot[l] = "Quarantined"
      BY <1>2, <1>3, <1>4, <1>7, <2>2
    <3>2. CASE slot[l] = "Quarantined"
      <4>1. PICK j \in DOMAIN route : Fails(route[j], l)
        BY <1>4, <3>2 DEF Range
      <4>2. j \in DOMAIN route' /\ j < i /\ route'[j] = route[j]
        BY <1>3, <2>2
      <4> QED
        BY <4>1, <4>2
    <3> QED
      BY <3>1, <3>2
  <2> QED
    BY <1>3, <2>1, <2>2
<1> QED
  BY <1>5, <1>6, <1>7

(* An event that is out of the event channel and answers is in the mailbox.*)
LEMMA AnswerRouted ==
  ASSUME TypeOK, NEW e \in AnEvent, Route(e), UNCHANGED sess, ~lost', ~sess.dropped
  PROVE  /\ Answers(e) => InQueue(route)'
         /\ InQueue(route) => InQueue(route)'
<1>1. /\ DOMAIN route = 1..Len(route) /\ Len(route) \in Nat
      /\ DOMAIN route' = 1..Len(route) + 1
      /\ route'[Len(route) + 1] = e
      /\ \A i \in DOMAIN route : route'[i] = route[i]
      /\ route' \in Seq(AnEvent)
  BY Routed
<1>2. DOMAIN route' = 1..Len(route')
  BY <1>1, LenProperties
<1>3. \A d : Answers(d)' <=> Answers(d)
  BY DEF Answers
<1>4. Answers(e) => InQueue(route)'
  <2>1. Len(route) + 1 \in 1..Len(route')
    BY <1>1, <1>2
  <2> QED
    BY <1>1, <1>3, <2>1 DEF InQueue
<1>5. InQueue(route) => InQueue(route)'
  <2>1. \A i \in 1..Len(route) : i \in 1..Len(route') /\ route'[i] = route[i]
    BY <1>1, <1>2
  <2> QED
    BY <1>3, <2>1 DEF InQueue
<1> QED
  BY <1>4, <1>5

(* The supervisor's step keeps the types.                                  *)
LEMMA MovedTyped ==
  ASSUME TypeOK, NEW e \in AnEvent, Route(e), UNCHANGED <<sess, opens, commands, worker>>,
         events' \in Seq(AnEvent), reaping' \in BOOLEAN, slot' \in [Lease -> SlotStates],
         \A m \in Lease : slot[m] = "None" => slot'[m] = "None"
  PROVE  TypeOK'
<1>1. sess \in SessType /\ opens \in 0..MaxOpens /\ Leased /\ Signals /\ Slotted
  BY TypeParts
<1>2. Slotted'
  <2>1. Slots' \subseteq Slots
    BY DEF Slots
  <2> QED
    BY <1>1, <2>1, SlotsShrink
<1>3. Leased'
  BY <1>1 DEF Leased
<1>4. Signals'
  BY Routed DEF Signals
<1> QED
  BY <1>1, <1>2, <1>3, <1>4, TypePartsNext

(* What observe makes of a slot.                                           *)
LEMMA Observed ==
  ASSUME TypeOK, NEW e \in AnEvent, Observe(e)
  PROVE  /\ slot' \in [Lease -> SlotStates] /\ e.lease \in Lease
         /\ \A m \in Lease : m # e.lease => slot'[m] = slot[m]
         /\ \/ /\ e.kind = "ResetDone" /\ slot[e.lease] = "Resetting"
               /\ slot'[e.lease] = "Active"
            \/ /\ e.kind \in {"Closed", "Failed"} /\ slot[e.lease] # "Quarantined"
               /\ slot'[e.lease] = "None"
            \/ /\ slot'[e.lease] = slot[e.lease]
               /\ ~(e.kind = "ResetDone" /\ slot[e.lease] = "Resetting")
<1> DEFINE l == e.lease
           v == IF e.kind = "ResetDone" /\ slot[l] = "Resetting" THEN "Active"
                ELSE IF e.kind \in {"Closed", "Failed"} /\ slot[l] # "Quarantined"
                THEN "None" ELSE slot[l]
<1>1. slot \in [Lease -> SlotStates] /\ l \in Lease
  BY TypeParts DEF Leased, AnEvent
<1>2. slot' = [slot EXCEPT ![l] = v]
  BY <1>1 DEF Observe
<1>3. v \in SlotStates
  BY <1>1 DEF SlotStates
<1> HIDE DEF v
<1>4. slot' \in [Lease -> SlotStates] /\ slot'[l] = v
      /\ \A m \in Lease : m # l => slot'[m] = slot[m]
  BY <1>1, <1>2, <1>3
<1>5. \/ e.kind = "ResetDone" /\ slot[l] = "Resetting" /\ v = "Active"
      \/ e.kind \in {"Closed", "Failed"} /\ slot[l] # "Quarantined" /\ v = "None"
      \/ v = slot[l] /\ ~(e.kind = "ResetDone" /\ slot[l] = "Resetting")
  BY DEF v
<1> QED
  BY <1>1, <1>4, <1>5

(* dispatch: observe, then route.                                          *)
LEMMA DispatchInv == ASSUME VadInv, Dispatch PROVE VadInv'
<1>1. /\ TypeOK /\ SessionInv /\ WireInv /\ CurrentInv /\ ServedInv /\ ResetIsAnswered
      /\ events \in Seq(AnEvent) /\ reaping \in BOOLEAN /\ sess \in SessType
      /\ opens \in 0..MaxOpens
  BY TypeParts DEF VadInv, Signals
<1>2. /\ events # <<>> /\ events' = Tail(events)
      /\ UNCHANGED <<sess, opens, commands, worker, reaping>>
  BY DEF Dispatch
<1>3. PICK e : e = Head(events)
  OBVIOUS
<1>4. /\ e \in AnEvent /\ events' \in Seq(AnEvent)
      /\ Range(events) = {e} \cup Range(events')
      /\ Len(events') = Len(events) - 1 /\ Len(events) \in Nat
      /\ e = events[1] /\ \A i \in 1..Len(events) - 1 : events'[i] = events[i + 1]
  BY <1>1, <1>2, <1>3, TailOf
<1>5. Observe(e) /\ Route(e)
  BY <1>3 DEF Dispatch
<1>6. PICK l \in Lease : l = e.lease
  BY <1>4 DEF AnEvent
<1>7. /\ slot' \in [Lease -> SlotStates]
      /\ \A m \in Lease : m # l => slot'[m] = slot[m]
      /\ \/ e.kind = "ResetDone" /\ slot[l] = "Resetting" /\ slot'[l] = "Active"
         \/ /\ e.kind \in {"Closed", "Failed"} /\ slot[l] # "Quarantined"
            /\ slot'[l] = "None"
         \/ slot'[l] = slot[l] /\ ~(e.kind = "ResetDone" /\ slot[l] = "Resetting")
  BY <1>1, <1>4, <1>5, <1>6, Observed
<1>8. e.kind \in {"Closed", "Failed"} => worker[l].pc = "Done" /\ ~Listens(l)
  BY <1>1, <1>4, <1>6 DEF WireInv, EndsTold, Listens
<1>9. Tells(e, l) => ~Asked(l) /\ ~Told(l)'
  <2> SUFFICES ASSUME Tells(e, l) PROVE ~Asked(l) /\ ~Told(l)'
    OBVIOUS
  <2>1. Told(l) /\ ToldOnce(events, l)
    BY <1>1, <1>4 DEF Told, WireInv, OneReset
  <2>2. \A d \in Range(events') : ~Tells(d, l)
    BY <1>1, <1>2, <1>3, <2>1, EventTaken
  <2> QED
    BY <1>1, <2>1, <2>2 DEF Told, WireInv, OneReset
<1>10. Moved(e)
  <2>1. \A m \in Lease : ToldOnce(events', m)
    BY <1>1, <1>2, EventTaken DEF WireInv, OneReset
  <2>2. /\ e.lease <= opens /\ e.cycle <= sess.cycles /\ e.pure
        /\ e.kind = "ResetDone" => e.cycle # None
    BY <1>1, <1>4 DEF WireInv, Numbered, AllPure
  <2>3. Range(route') \subseteq Range(route) \cup {e}
    BY <1>1, <1>4, <1>5, Routed
  <2> QED
    BY <1>2, <1>4, <2>1, <2>2, <2>3 DEF Moved
<1>11. \A m \in Lease : slot[m] = "None" => slot'[m] = "None"
  BY <1>7
<1>12. TypeOK'
  BY <1>1, <1>2, <1>4, <1>5, <1>7, <1>11, MovedTyped
<1>13. SessionInv'
  BY <1>1, <1>2 DEF SessionInv
<1>14. \A m \in Lease : slot'[m] = "None" => ~Listens(m)
  BY <1>1, <1>7, <1>8 DEF WireInv, SlotsInv
<1>15. WireInv'
  <2>1. \A m \in Lease : slot'[m] = "Active" => ~Asked(m) /\ ~Told(m)'
    <3> SUFFICES ASSUME NEW m \in Lease, slot'[m] = "Active" PROVE ~Asked(m) /\ ~Told(m)'
      OBVIOUS
    <3>1. CASE slot[m] = "Active"
      <4>1. ~Asked(m) /\ ~Told(m)
        BY <1>1, <3>1 DEF WireInv, OneReset
      <4>2. Told(m)' => Told(m)
        BY <1>4 DEF Told
      <4> QED
        BY <4>1, <4>2
    <3>2. CASE slot[m] # "Active"
      <4>1. m = l /\ e.kind = "ResetDone"
        BY <1>7, <3>2
      <4>2. Tells(e, l)
        BY <1>6, <4>1 DEF Tells
      <4> QED
        BY <1>9, <4>1, <4>2
    <3> QED
      BY <3>1, <3>2
  <2> QED
    BY <1>1, <1>10, <1>11, <1>14, <2>1, MovedWire
<1>16. CurrentInv'
  <2>1. \A m \in Lease : slot'[m] = "Cleaning" => slot[m] = "Cleaning"
    BY <1>7
  <2>2. e \in Range(events)
    BY <1>4
  <2> QED
    BY <1>1, <1>10, <2>1, <2>2, MovedCurrent
<1>17. ServedInv'
  <2>1. \A m \in Lease : Served(m) => Served(m)'
    BY <1>2, <1>7, <1>8 DEF Served, Listens
  <2>2. \A m \in Lease : slot'[m] = "Quarantined" =>
          slot[m] = "Quarantined" \/ Fails(e, m)
    BY <1>7
  <2>3. \A m \in Lease : Tells(e, m) => Served(m)' \/ slot[m] \in {"Quarantined", "Cleaning"}
    <3> SUFFICES ASSUME NEW m \in Lease, Tells(e, m),
                        slot[m] \notin {"Quarantined", "Cleaning"}
                 PROVE  Served(m)'
      OBVIOUS
    <3>1. m = l /\ e.kind = "ResetDone"
      BY <1>6 DEF Tells
    <3>2. slot[m] \in SlotStates
      BY <1>1, TypeParts DEF Leased
    <3>3. CASE slot'[m] = "Active"
      BY <3>3 DEF Served
    <3>4. CASE slot[m] = "None"
      BY <1>2, <1>11, <1>14, <3>4 DEF Served, Listens
    <3> QED
      BY <1>7, <3>1, <3>2, <3>3, <3>4 DEF SlotStates
  <2> QED
    BY <1>1, <1>2, <1>4, <1>5, <2>1, <2>2, <2>3, MovedServed
<1>18. ResetIsAnswered'
  <2> SUFFICES ASSUME sess.pendingCycle # None, ~sess.closed, ~lost'
               PROVE  slot'[sess.lease] = "Resetting" \/ InQueue(events)' \/ InQueue(route)'
    BY <1>2 DEF ResetIsAnswered
  <2>1. Current /\ ~sess.dropped
    BY <1>1 DEF SessionInv, Current
  <2>2. /\ Answers(e) => InQueue(route)'
        /\ InQueue(route) => InQueue(route)'
    BY <1>1, <1>2, <1>4, <1>5, <2>1, AnswerRouted
  <2>3. ~lost
    BY <1>1, <1>4, <1>5, Routed
  <2>4. InQueue(events) => Answers(e) \/ InQueue(events)'
    <3>1. \A d : Answers(d)' <=> Answers(d)
      BY <1>2 DEF Answers
    <3> SUFFICES ASSUME NEW i \in 1..Len(events), Answers(events[i]), i # 1
                 PROVE  InQueue(events)'
      BY <1>4 DEF InQueue
    <3>2. i - 1 \in 1..Len(events') /\ events'[i - 1] = events[i]
      BY <1>4
    <3> QED
      BY <3>1, <3>2 DEF InQueue
  <2>5. slot[sess.lease] = "Resetting" => slot'[sess.lease] = "Resetting" \/ Answers(e)
    <3> SUFFICES ASSUME slot[sess.lease] = "Resetting", slot'[sess.lease] # "Resetting"
                 PROVE  Answers(e)
      OBVIOUS
    <3>1. sess.lease = l
      BY <1>1, <1>7, <2>1, CurrentLease
    <3>2. CASE e.kind = "ResetDone"
      <4>1. Resets(l, sess.pendingCycle) /\ e \in Range(events) /\ Tells(e, l)
        BY <1>1, <1>4, <1>6, <2>1, <3>1, <3>2 DEF CurrentInv, Tells
      <4> QED
        BY <1>6, <3>1, <3>2, <4>1 DEF Answers, Resets
    <3>3. CASE e.kind = "Failed"
      BY <1>6, <3>1, <3>3 DEF Answers, Fatal
    <3>4. e.kind # "Closed"
      BY <1>1, <1>4, <1>6, <2>1, <3>1 DEF CurrentInv, Unclosed
    <3> QED
      BY <1>7, <3>1, <3>2, <3>3, <3>4
  <2> QED
    BY <1>1, <2>2, <2>3, <2>4, <2>5 DEF ResetIsAnswered
<1> QED
  BY <1>12, <1>13, <1>15, <1>16, <1>17, <1>18 DEF VadInv

(* A deadline that has passed: the slot is quarantined, the session told.  *)
LEMMA ReapInv ==
  ASSUME VadInv, NEW l \in Lease, Reap(l) PROVE VadInv'
<1>1. /\ TypeOK /\ SessionInv /\ WireInv /\ CurrentInv /\ ServedInv /\ ResetIsAnswered
      /\ events \in Seq(AnEvent) /\ reaping \in BOOLEAN /\ sess \in SessType
      /\ opens \in 0..MaxOpens /\ slot \in [Lease -> SlotStates]
  BY TypeParts DEF VadInv, Signals, Leased
<1>2. /\ slot[l] \in {"Resetting", "Cleaning"} /\ slot' = [slot EXCEPT ![l] = "Quarantined"]
      /\ UNCHANGED <<sess, opens, commands, worker, events, reaping>>
  BY DEF Reap
<1>3. PICK k \in {"ResetTimedOut", "CleanupTimedOut"} : Route(Ev(k, l, None))
  BY DEF Reap
<1>4. PICK e : e = Ev(k, l, None)
  OBVIOUS
<1>5. /\ e \in AnEvent /\ e.kind = k /\ e.lease = l /\ e.cycle = None /\ e.pure
      /\ e.kind \in Fatal /\ e.kind # "ResetDone" /\ Route(e)
  <2>1. k \in Fatal /\ k # "ResetDone"
    BY DEF Fatal
  <2> QED
    BY <1>3, <1>4, <2>1, NoneTyped, EventTyped
<1>6. /\ slot' \in [Lease -> SlotStates] /\ slot'[l] = "Quarantined"
      /\ \A m \in Lease : m # l => slot'[m] = slot[m]
  BY <1>1, <1>2 DEF SlotStates
<1>7. Moved(e)
  <2>1. \A m \in Lease : ToldOnce(events', m)
    BY <1>1, <1>2 DEF WireInv, OneReset
  <2>2. e.lease <= opens
    <3>1. ~(l > opens)
      BY <1>1, <1>2 DEF WireInv, SlotsInv
    <3> QED
      BY <1>1, <1>5, <3>1 DEF Lease
  <2>3. e.cycle <= sess.cycles
    BY <1>1, <1>5 DEF SessType, None
  <2>4. Range(route') \subseteq Range(route) \cup {e}
    BY <1>1, <1>5, Routed
  <2> QED
    BY <1>1, <1>2, <1>5, <2>1, <2>2, <2>3, <2>4 DEF Moved
<1>8. \A m \in Lease : slot[m] = "None" => slot'[m] = "None"
  BY <1>2, <1>6
<1>9. TypeOK'
  BY <1>1, <1>2, <1>5, <1>6, <1>8, MovedTyped
<1>10. SessionInv'
  BY <1>1, <1>2 DEF SessionInv
<1>11. WireInv'
  <2>1. \A m \in Lease : slot'[m] = "None" => ~Listens(m)
    BY <1>1, <1>6 DEF WireInv, SlotsInv
  <2>2. \A m \in Lease : slot'[m] = "Active" => ~Asked(m) /\ ~Told(m)'
    <3>1. \A m \in Lease : Told(m)' <=> Told(m)
      BY <1>2 DEF Told
    <3> QED
      BY <1>1, <1>6, <3>1 DEF WireInv, OneReset
  <2> QED
    BY <1>1, <1>7, <1>8, <2>1, <2>2, MovedWire
<1>12. CurrentInv'
  <2>1. \A m \in Lease : slot'[m] = "Cleaning" => slot[m] = "Cleaning"
    BY <1>6
  <2> QED
    BY <1>1, <1>5, <1>7, <2>1, MovedCurrent
<1>13. ServedInv'
  <2>1. \A m \in Lease : Served(m) => Served(m)'
    BY <1>2, <1>6 DEF Served, Listens
  <2>2. \A m \in Lease : slot'[m] = "Quarantined" =>
          slot[m] = "Quarantined" \/ Fails(e, m)
    BY <1>5, <1>6 DEF Fails
  <2>3. \A m \in Lease : ~Tells(e, m)
    BY <1>5 DEF Tells
  <2> QED
    BY <1>1, <1>2, <1>5, <2>1, <2>2, <2>3, MovedServed
<1>14. ResetIsAnswered'
  <2> SUFFICES ASSUME sess.pendingCycle # None, ~sess.closed, ~lost'
               PROVE  slot'[sess.lease] = "Resetting" \/ InQueue(events)' \/ InQueue(route)'
    BY <1>2 DEF ResetIsAnswered
  <2>1. Current /\ ~sess.dropped
    BY <1>1 DEF SessionInv, Current
  <2>2. /\ Answers(e) => InQueue(route)'
        /\ InQueue(route) => InQueue(route)'
    BY <1>1, <1>2, <1>5, <2>1, AnswerRouted
  <2>3. ~lost
    BY <1>1, <1>5, Routed
  <2>4. InQueue(events) => InQueue(events)'
    BY <1>2 DEF InQueue, Answers
  <2>5. sess.lease = l => Answers(e)
    BY <1>5 DEF Answers
  <2>6. sess.lease # l => slot'[sess.lease] = slot[sess.lease]
    BY <1>1, <1>6, <2>1, CurrentLease
  <2> QED
    BY <1>1, <2>2, <2>3, <2>4, <2>5, <2>6 DEF ResetIsAnswered
<1> QED
  BY <1>9, <1>10, <1>11, <1>12, <1>13, <1>14 DEF VadInv

(* The rest of the supervisor's rounds, and stuttering, change nothing the *)
(* invariant speaks of.                                                    *)
LEMMA RoundInv ==
  ASSUME VadInv, reaping' \in BOOLEAN,
         UNCHANGED <<sess, opens, slot, commands, worker, events, route, lost>>
  PROVE  VadInv'
<1>1. /\ TypeOK /\ SessionInv /\ WireInv /\ CurrentInv /\ ServedInv /\ ResetIsAnswered
      /\ Leased /\ Signals /\ Slotted /\ opens \in 0..MaxOpens /\ sess \in SessType
  BY TypeParts DEF VadInv
<1>2. TypeOK'
  <2>1. Leased' /\ Signals' /\ Slotted' /\ opens' \in 0..MaxOpens /\ sess' \in SessType
    BY <1>1 DEF Leased, Signals, Slotted, Slots
  <2> QED
    BY <2>1, TypePartsNext
<1>3. SessionInv'
  BY <1>1 DEF SessionInv
<1>4. WireInv'
  <2>1. sess.cycles <= sess'.cycles
    BY <1>1 DEF SessType
  <2> QED
    BY <1>1, <2>1, UnsentWire
<1>5. CurrentInv'
  BY <1>1 DEF CurrentInv, Current, Feeds, Resets, Emptied, Asked, Unclosed
<1>6. ServedInv'
  BY <1>1 DEF ServedInv, Current, Served, Listens, Doomed
<1>7. ResetIsAnswered'
  BY <1>1 DEF ResetIsAnswered, InQueue, Answers
<1> QED
  BY <1>2, <1>3, <1>4, <1>5, <1>6, <1>7 DEF VadInv

-----------------------------------------------------------------------------
(* The invariant is inductive, and the properties are parts of it.         *)
LEMMA NextInv == VadInv /\ [Next]_vars => VadInv'
<1> SUFFICES ASSUME VadInv, [Next]_vars PROVE VadInv'
  OBVIOUS
<1>1. CASE CloseForReplacement
  BY <1>1, ReplacementInv
<1>2. CASE OpenVad
  BY <1>2, OpenInv
<1>3. CASE PushFrame
  BY <1>3, PushInv
<1>4. CASE ResetCycle
  BY <1>4, ResetInv
<1>5. CASE DropActor
  BY <1>5, DropInv
<1>6. CASE OnVadEvent
  BY <1>6, MailInv
<1>7. ASSUME NEW l \in Lease, WorkerOpens(l) PROVE VadInv'
  BY <1>7, WorkerOpensInv
<1>8. ASSUME NEW l \in Lease, WorkerServes(l) PROVE VadInv'
  BY <1>8, WorkerServesInv
<1>9. ASSUME NEW l \in Lease, Reap(l) PROVE VadInv'
  BY <1>9, ReapInv
<1>10. CASE Dispatch
  BY <1>10, DispatchInv
<1>11. CASE Drained
  BY <1>11, RoundInv DEF Drained
<1>12. CASE Reaped
  BY <1>12, RoundInv DEF Reaped
<1>13. CASE UNCHANGED vars
  <2>1. reaping' \in BOOLEAN
    BY <1>13, TypeParts DEF vars, VadInv, Signals
  <2> QED
    BY <1>13, <2>1, RoundInv DEF vars
<1> QED
  BY <1>1, <1>2, <1>3, <1>4, <1>5, <1>6, <1>7, <1>8, <1>9, <1>10, <1>11, <1>12, <1>13
     DEF Next, ActorNext

(* The invariant holds of every reachable state.                           *)
LEMMA VadAlways == Spec => []VadInv
BY InitInv, NextInv, PTL DEF Spec

(* Every variable keeps its type, no lease is opened past max_workers, and *)
(* no command channel or mailbox grows past its capacity (open_with_permit,*)
(* send and dispatch of workers/vad).                                      *)
THEOREM VadTyped == Spec => []TypeOK
<1>1. VadInv => TypeOK
  BY DEF VadInv
<1> QED
  BY <1>1, VadAlways, PTL

(* A window judged in a capture cycle holds audio of that cycle only: the  *)
(* reset empties the rechunker between the frames of two cycles, and no    *)
(* frame is taken before it is answered (send, run_worker, on_binary).     *)
THEOREM NoMixedWindow == Spec => []WindowsArePure
<1>1. VadInv => WindowsArePure
  <2> SUFFICES ASSUME VadInv, NEW i \in 1..Len(route) PROVE route[i].pure
    BY DEF WindowsArePure
  <2>1. route[i] \in Range(route)
    BY TypeParts, LenProperties DEF VadInv, Signals, Range
  <2> QED
    BY <2>1 DEF VadInv, WireInv, AllPure
<1> QED
  BY <1>1, VadAlways, PTL

(* A session that waits for a reset hears of it, unless its mailbox was    *)
(* full once: the slot has its deadline, or the answer or a failure is on  *)
(* its way (reset_vad_capture_cycle, observe and reap_deadlines).          *)
THEOREM ResetAnswered == Spec => []ResetIsAnswered
<1>1. VadInv => ResetIsAnswered
  BY DEF VadInv
<1> QED
  BY <1>1, VadAlways, PTL

(* A session with a current cycle has an active slot, unless its worker    *)
(* failed: the reset's answer is observed before it is routed, and routed  *)
(* after the failure that quarantined the slot (dispatch, on_vad_event).   *)
THEOREM CycleServed == Spec => []CurrentCycleIsServed
<1>1. VadInv => CurrentCycleIsServed
  BY DEF VadInv, ServedInv, Served, Current, CurrentCycleIsServed
<1> QED
  BY <1>1, VadAlways, PTL
=============================================================================
