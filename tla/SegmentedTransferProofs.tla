----------------------- MODULE SegmentedTransferProofs -----------------------
(***************************************************************************)
(* For every file size, update step and read size: a file published by the *)
(* segmented transfer is whole, and the transfer implements AtomicTransfer. *)
(***************************************************************************)
EXTENDS SegmentedTransfer, TLAPS

(***************************************************************************)
(* The four ranges cover the file and stay inside it.                      *)
(***************************************************************************)
LEMMA RangesLemma ==
    /\ SegmentSize \in Nat \ {0}
    /\ \A i \in Segments : /\ Start(i) \in Nat
                           /\ End(i) \in Nat
                           /\ Start(i) <= End(i)
                           /\ End(i) < Total
    /\ Bytes \subseteq UNION {Start(i) .. End(i) : i \in Segments}
<1>1. /\ SegmentSize \in Nat \ {0}
      /\ 4 * SegmentSize <= Total
  BY SegmentedAssumption DEF SegmentSize, SEGMENTED_CONNECTIONS
<1>2. Segments = {0, 1, 2, 3}
  BY DEF Segments, SEGMENTED_CONNECTIONS
<1>3. /\ Start(0) = 0               /\ End(0) = SegmentSize - 1
      /\ Start(1) = SegmentSize     /\ End(1) = 2 * SegmentSize - 1
      /\ Start(2) = 2 * SegmentSize /\ End(2) = 3 * SegmentSize - 1
      /\ Start(3) = 3 * SegmentSize /\ End(3) = Total - 1
  BY <1>1 DEF Start, End, SEGMENTED_CONNECTIONS
<1>4. \A i \in Segments : /\ Start(i) \in Nat
                          /\ End(i) \in Nat
                          /\ Start(i) <= End(i)
                          /\ End(i) < Total
  BY <1>1, <1>2, <1>3, SegmentedAssumption
<1>5. ASSUME NEW b \in Bytes
      PROVE  \E i \in Segments : b \in Start(i) .. End(i)
  <2>1. b \in Int /\ 0 <= b /\ b < Total
    BY SegmentedAssumption DEF Bytes
  <2>2. \/ b \in Start(0) .. End(0) \/ b \in Start(1) .. End(1)
        \/ b \in Start(2) .. End(2) \/ b \in Start(3) .. End(3)
    BY <1>1, <1>3, <2>1, SegmentedAssumption
  <2> QED BY <1>2, <2>2
<1> QED BY <1>1, <1>4, <1>5

(***************************************************************************)
(* The invariant.  A thread that is done did its range or left a code; a   *)
(* coordinator past the loop created all threads or left a code.           *)
(***************************************************************************)
Blamed == failed # 0 \/ stop # 0

SegmentInv(i) ==
    /\ seg[i].off \in Start(i) .. End(i) + 1
    /\ Start(i) .. seg[i].off - 1 \subseteq written
    /\ seg[i].pc = "done" => seg[i].off = End(i) + 1 \/ Blamed

CoordinatorInv ==
    /\ pc = "begin" => \A i \in Segments : seg[i] = NoSegment(i)
    /\ pc \in {"join", "conclude"} => created = SEGMENTED_CONNECTIONS \/ Blamed
    /\ pc = "conclude" => \A i \in Segments : i < created => seg[i].pc = "done"
    /\ pc # "returned" => final # "new"

IInv ==
    /\ TypeOK
    /\ \A i \in Segments : SegmentInv(i)
    /\ CoordinatorInv
    /\ PublishedIsWhole

LEMMA InitIInv == Init => IInv
<1> SUFFICES ASSUME Init PROVE IInv
  OBVIOUS
<1> USE SegmentedAssumption
<1>1. \A i \in Segments : NoSegment(i) \in Segment
  BY RangesLemma DEF NoSegment, Segment, SegPc
<1>2. TypeOK
  BY <1>1 DEF Init, TypeOK, ItemStates, SEGMENTED_CONNECTIONS
<1>3. ASSUME NEW i \in Segments PROVE SegmentInv(i)
  <2>1. seg[i].off = Start(i) /\ seg[i].pc = "absent"
    BY DEF Init, NoSegment
  <2> QED BY <2>1, RangesLemma DEF SegmentInv, Init
<1>4. CoordinatorInv /\ PublishedIsWhole
  BY DEF Init, CoordinatorInv, PublishedIsWhole
<1> QED BY <1>2, <1>3, <1>4 DEF IInv

(***************************************************************************)
(* One step of a thread: the other threads' ranges are untouched because    *)
(* written only grows, and a code once set stays set.                       *)
(***************************************************************************)
LEMMA SegmentStepLemma ==
    ASSUME IInv, NEW k \in Segments, SegmentStep(k)
    PROVE  IInv'
<1> USE SegmentedAssumption
<1> DEFINE Moved == [seg EXCEPT ![k] = seg'[k]]
<1>1. /\ seg' = Moved
      /\ seg'[k] \in Segment
      /\ UNCHANGED <<coord, state, part, final>>
      /\ total' \in Nat /\ nextUpdate' \in Nat /\ bytes' \in Nat
      /\ failed' \in {0, -1, -4} /\ stop' \in 0 .. 2
  <2>1. CASE Connected(k)
    BY <2>1 DEF Connected, Goto, IInv, TypeOK, Segment, SegPc, shared, disk
  <2>2. CASE Refused(k)
    BY <2>2 DEF Refused, Goto, MarkFailed, IInv, TypeOK, Segment, SegPc, disk
  <2>3. CASE OpenPart(k)
    BY <2>3 DEF OpenPart, Goto, IInv, TypeOK, Segment, SegPc, shared, disk
  <2>4. CASE OpenFail(k)
    BY <2>4 DEF OpenFail, Goto, MarkFailed, IInv, TypeOK, Segment, SegPc, disk
  <2>5. CASE Receive(k)
    BY <2>5 DEF Receive, IInv, TypeOK, Segment, SegPc, shared
  <2>6. CASE ReceiveFail(k)
    BY <2>6 DEF ReceiveFail, Goto, MarkFailed, IInv, TypeOK, Segment, SegPc, disk
  <2>7. CASE AddBytes(k)
    <3>1. total + seg[k].got \in Nat
      BY DEF IInv, TypeOK, Segment
    <3>2. NextMultiple(total + seg[k].got) \in Nat
      BY <3>1 DEF NextMultiple
    <3> QED
      BY <2>7, <3>1, <3>2 DEF AddBytes, AfterReceive, IInv, TypeOK, Segment, SegPc, disk
  <2>8. CASE Report(k)
    BY <2>8 DEF Report, AfterReceive, IInv, TypeOK, Segment, SegPc, shared, disk
  <2>9. CASE Poll(k)
    <3>1. StopRequested \in 0 .. 2
      BY DEF StopRequested
    <3> QED
      BY <2>9, <3>1 DEF Poll, IInv, TypeOK, Segment, SegPc, shared, disk
  <2>10. CASE Decide(k)
    <3>1. seg[k] \in Segment /\ stop \in 0 .. 2
      BY DEF IInv, TypeOK
    <3>2. stop' \in 0 .. 2
      BY <2>10, <3>1 DEF Decide, Segment
    <3>3. /\ seg' = Moved
          /\ seg'[k] \in Segment
      <4>1. PICK next \in {"done", "read"} :
              seg' = [seg EXCEPT ![k].pc = next, ![k].seen = 0]
        BY <2>10 DEF Decide
      <4>2. next \in SegPc /\ 0 \in 0 .. 2
        BY DEF SegPc
      <4> QED
        BY <3>1, <4>1, <4>2 DEF IInv, TypeOK, Segment
    <3> QED
      BY <2>10, <3>2, <3>3 DEF Decide, IInv, TypeOK, disk
  <2> QED
    BY <2>1, <2>2, <2>3, <2>4, <2>5, <2>6, <2>7, <2>8, <2>9, <2>10 DEF SegmentStep
<1>2. /\ written \subseteq written' /\ written' \subseteq Bytes
      /\ Blamed => Blamed'
      /\ seg[k].off <= seg'[k].off
      /\ SegmentInv(k)'
  <2>0. SegmentInv(k) /\ TypeOK
    BY DEF IInv
  <2>9. Start(k) \in Nat /\ End(k) \in Nat /\ Start(k) <= End(k) /\ End(k) < Total
    BY RangesLemma
  <2>1. CASE Receive(k)
    <3> PICK n \in 1 .. MaxRead :
          /\ seg[k].off + n <= End(k) + 1
          /\ written' = written \cup (seg[k].off .. seg[k].off + n - 1)
          /\ seg' = [seg EXCEPT ![k].pc = "add", ![k].off = @ + n, ![k].got = n]
      BY <2>1 DEF Receive
    <3>1. seg'[k].off = seg[k].off + n /\ seg'[k].pc = "add"
      BY <2>0 DEF TypeOK, Segment
    <3>2. seg[k].off \in Start(k) .. End(k) + 1 /\ Start(k) \in Nat /\ End(k) \in Nat /\ End(k) < Total
      BY <2>0, <2>9 DEF SegmentInv
    <3>3. seg[k].off .. seg[k].off + n - 1 \subseteq Bytes
      BY <3>2 DEF Bytes
    <3>4. Start(k) .. seg'[k].off - 1 \subseteq written'
      BY <2>0, <3>1, <3>2 DEF SegmentInv
    <3> QED
      BY <2>0, <2>9, <2>1, <3>1, <3>2, <3>3, <3>4 DEF SegmentInv, TypeOK, Receive, Blamed, shared, Start, End, SegmentSize
  <2>2. CASE Connected(k) \/ Refused(k) \/ OpenPart(k) \/ OpenFail(k) \/ ReceiveFail(k)
    BY <2>0, <2>9, <2>2 DEF Connected, Refused, OpenPart, OpenFail, ReceiveFail, Goto, MarkFailed,
                      SegmentInv, TypeOK, Segment, Blamed, shared, disk, Start, End, SegmentSize
  <2>3. CASE AddBytes(k) \/ Report(k)
    BY <2>0, <2>9, <2>3 DEF AddBytes, Report, AfterReceive, SegmentInv, TypeOK, Segment, Blamed, shared,
                      disk, Start, End, SegmentSize
  <2>4. CASE Poll(k) \/ Decide(k)
    BY <2>0, <2>9, <2>4 DEF Poll, Decide, SegmentInv, TypeOK, Segment, Blamed, shared, disk, Start, End,
                      SegmentSize
  <2> QED
    BY <2>1, <2>2, <2>3, <2>4 DEF SegmentStep
<1>3. TypeOK'
  BY <1>1, <1>2 DEF IInv, TypeOK, coord
<1>4. ASSUME NEW i \in Segments PROVE SegmentInv(i)'
  <2>1. CASE i = k
    BY <1>2, <2>1
  <2>2. CASE i # k
    <3>1. seg'[i] = seg[i]
      BY <1>1, <2>2 DEF IInv, TypeOK
    <3>2. SegmentInv(i)
      BY DEF IInv
    <3> QED
      BY <1>2, <3>1, <3>2, RangesLemma DEF SegmentInv, Start, End, SegmentSize, Blamed
  <2> QED BY <2>1, <2>2
<1>5. CoordinatorInv'
  <2>1. seg[k].pc # "absent" /\ seg[k].pc # "done"
    BY DEF SegmentStep, Connected, Refused, OpenPart, OpenFail, Receive, ReceiveFail, AddBytes,
           Report, Poll, Decide
  <2>2. pc # "begin"
    <3>1. NoSegment(k).pc = "absent"
      BY DEF NoSegment
    <3> QED
      BY <2>1, <3>1 DEF IInv, CoordinatorInv
  <2>3. pc = "conclude" => ~(k < created)
    BY <2>1 DEF IInv, CoordinatorInv
  <2>4. \A i \in Segments : i # k => seg'[i] = seg[i]
    BY <1>1 DEF IInv, TypeOK
  <2> QED
    BY <1>1, <1>2, <2>2, <2>3, <2>4 DEF IInv, CoordinatorInv, coord
<1>6. PublishedIsWhole'
  BY <1>1, <1>2 DEF IInv, PublishedIsWhole, Bytes
<1> QED
  BY <1>3, <1>4, <1>5, <1>6 DEF IInv

(***************************************************************************)
(* A file is published only when the ranges of all four threads are done.  *)
(***************************************************************************)
LEMMA PublishLemma == IInv /\ Publish => written = Bytes
<1> SUFFICES ASSUME IInv, Publish PROVE written = Bytes
  OBVIOUS
<1>1. ~Blamed
  BY DEF Publish, Sound, Blamed
<1>2. created = SEGMENTED_CONNECTIONS
  BY <1>1 DEF IInv, CoordinatorInv, Publish
<1>3. \A i \in Segments : seg[i].pc = "done"
  BY <1>2 DEF IInv, CoordinatorInv, Publish, Segments, SEGMENTED_CONNECTIONS
<1>4. \A i \in Segments : Start(i) .. End(i) \subseteq written
  <2> TAKE i \in Segments
  <2>1. seg[i].off = End(i) + 1
    BY <1>1, <1>3 DEF IInv, SegmentInv
  <2>2. seg[i].off - 1 = End(i)
    BY <2>1, RangesLemma
  <2> QED
    BY <2>2 DEF IInv, SegmentInv
<1> QED
  BY <1>4, RangesLemma DEF IInv, TypeOK

LEMMA CoordinatorLemma == IInv /\ Coordinator => IInv'
<1> SUFFICES ASSUME IInv, Coordinator PROVE IInv'
  OBVIOUS
<1> USE SegmentedAssumption
<1> USE DEF IInv, TypeOK, CoordinatorInv
<1>1. CASE AlreadyComplete
  BY <1>1 DEF AlreadyComplete, Return, shared, disk, SegmentInv, Blamed, PublishedIsWhole,
              Start, End, SegmentSize, Bytes
<1>2. CASE Allocate
  <2>1. \A i \in Segments : seg[i].off = Start(i) /\ seg[i].pc = "absent"
    BY <1>2 DEF Allocate, NoSegment
  <2>2. \A i \in Segments : SegmentInv(i)'
    BY <1>2, <2>1, RangesLemma DEF Allocate, shared, SegmentInv, Start, End, SegmentSize, Blamed
  <2> QED
    BY <1>2, <2>2 DEF Allocate, shared, PublishedIsWhole
<1>3. CASE AllocateFail
  BY <1>3 DEF AllocateFail, Return, shared, SegmentInv, Blamed, PublishedIsWhole, Start, End,
              SegmentSize, Bytes
<1>4. CASE Spawn
  <2>1. created \in Segments
    BY <1>4 DEF Spawn, Segments, SEGMENTED_CONNECTIONS
  <2>2. created + 1 \in 0 .. SEGMENTED_CONNECTIONS
    BY <1>4 DEF Spawn, SEGMENTED_CONNECTIONS
  <2>3. seg' \in [Segments -> Segment]
    BY <1>4, <2>1 DEF Spawn, Segment, SegPc
  <2>4. ASSUME NEW i \in Segments PROVE SegmentInv(i)'
    <3>1. seg'[i].off = seg[i].off /\ seg'[i].pc \in {seg[i].pc, "connect"}
      BY <1>4, <2>1 DEF Spawn, Segment
    <3> QED
      BY <1>4, <3>1 DEF Spawn, shared, disk, SegmentInv, Blamed, Start, End, SegmentSize
  <2> QED
    BY <1>4, <2>2, <2>3, <2>4 DEF Spawn, shared, disk, PublishedIsWhole, Bytes
<1>5. CASE SpawnFail
  BY <1>5 DEF SpawnFail, MarkFailed, disk, SegmentInv, Blamed, PublishedIsWhole, Start, End,
              SegmentSize, Bytes
<1>6. CASE SpawnDone
  BY <1>6 DEF SpawnDone, shared, disk, SegmentInv, Blamed, PublishedIsWhole, Start, End,
              SegmentSize, Bytes
<1>7. CASE Join
  BY <1>7 DEF Join, shared, disk, SegmentInv, Blamed, PublishedIsWhole, Start, End,
              SegmentSize, Bytes
<1>8. CASE Abandon
  BY <1>8 DEF Abandon, Return, shared, SegmentInv, Blamed, PublishedIsWhole, Start, End,
              SegmentSize, Bytes
<1>9. CASE Publish
  <2>1. written = Bytes
    BY <1>9, PublishLemma
  <2> QED
    BY <1>9, <2>1 DEF Publish, Return, shared, SegmentInv, Blamed, PublishedIsWhole, Start, End,
                      SegmentSize, Bytes
<1>10. CASE PublishFail
  BY <1>10 DEF PublishFail, Return, shared, SegmentInv, Blamed, PublishedIsWhole, Start, End,
               SegmentSize, Bytes
<1> QED
  BY <1>1, <1>2, <1>3, <1>4, <1>5, <1>6, <1>7, <1>8, <1>9, <1>10 DEF Coordinator

LEMMA ClientsLemma == IInv /\ Clients => IInv'
<1> SUFFICES ASSUME IInv, Clients PROVE IInv'
  OBVIOUS
<1>1. /\ UNCHANGED <<coord, seg, shared, bytes, written, final>>
      /\ state' \in ItemStates
      /\ part' \in BOOLEAN
  BY DEF Clients, Pause, Resume, Cancel, disk, ItemStates, IInv, TypeOK
<1>2. TypeOK'
  BY <1>1 DEF coord, shared, IInv, TypeOK, Bytes
<1>3. \A i \in Segments : SegmentInv(i)'
  BY <1>1 DEF shared, IInv, SegmentInv, Blamed, Start, End, SegmentSize
<1>4. CoordinatorInv' /\ PublishedIsWhole'
  BY <1>1 DEF coord, shared, IInv, CoordinatorInv, Blamed, PublishedIsWhole, Bytes
<1> QED
  BY <1>2, <1>3, <1>4 DEF IInv

LEMMA NextIInv == IInv /\ [Next]_vars => IInv'
<1> SUFFICES ASSUME IInv, [Next]_vars PROVE IInv'
  OBVIOUS
<1>1. CASE Coordinator
  BY <1>1, CoordinatorLemma
<1>2. CASE \E i \in Segments : SegmentStep(i)
  BY <1>2, SegmentStepLemma
<1>3. CASE Clients
  BY <1>3, ClientsLemma
<1>4. CASE UNCHANGED vars
  BY <1>4 DEF vars, coord, shared, disk, IInv, TypeOK, CoordinatorInv, SegmentInv, Blamed,
              PublishedIsWhole, Start, End, SegmentSize, Bytes
<1> QED
  BY <1>1, <1>2, <1>3, <1>4 DEF Next

LEMMA Invariance == Spec => []IInv
<1> QED
  BY InitIInv, NextIInv, PTL DEF Spec

\* Every variable of the transfer keeps its type: offsets, totals and codes, and
\* no thread ever writes past the end of the file (written \subseteq Bytes).
THEOREM TypeCorrect == Spec => []TypeOK
<1>1. IInv => TypeOK
  BY DEF IInv
<1> QED
  BY Invariance, <1>1, PTL

\* The rename in http_get_segmented_to_file only ever publishes a file all of
\* whose bytes were received and written, for every file size.
THEOREM PublishedWhole == Spec => []PublishedIsWhole
<1>1. IInv => PublishedIsWhole
  BY DEF IInv
<1> QED
  BY Invariance, <1>1, PTL

(***************************************************************************)
(* Counting.  What a thread has written and not yet added to total_written  *)
(* is in got; nothing is counted twice, nothing is lost.                    *)
(***************************************************************************)
Pending(i) == IF seg[i].pc = "add" THEN seg[i].got ELSE 0
Counted(i) == seg[i].off - Start(i) - Pending(i)

TotalIsSum == total = Counted(0) + Counted(1) + Counted(2) + Counted(3)

\* Threads are created in order.
LaterAbsent == \A i \in Segments : i >= created => seg[i].pc = "absent"

CountInv == TotalIsSum /\ LaterAbsent

LEMMA CountedInt ==
    ASSUME TypeOK, NEW i \in Segments
    PROVE  Counted(i) \in Int
<1>1. Start(i) \in Nat
  BY RangesLemma
<1>2. seg[i].off \in Int /\ seg[i].got \in Nat
  BY DEF TypeOK, Segment
<1> QED
  BY <1>1, <1>2 DEF Counted, Pending

LEMMA FourSegments ==
    Segments = {0, 1, 2, 3}
<1> QED
  BY DEF Segments, SEGMENTED_CONNECTIONS

\* A thread counts exactly what it moved on by.
LEMMA CountStep ==
    ASSUME TypeOK, TypeOK', NEW k \in Segments, SegmentStep(k)
    PROVE  total' - total = Counted(k)' - Counted(k)
<1>1. /\ Start(k) \in Nat /\ Start(k)' = Start(k)
      /\ total \in Nat /\ seg[k].off \in Int /\ seg[k].got \in Nat
  BY RangesLemma DEF TypeOK, Segment, Start, SegmentSize
<1>2. seg \in [Segments -> Segment]
  BY DEF TypeOK
<1>3. CASE Receive(k)
  <2>1. PICK n \in 1 .. MaxRead :
          seg' = [seg EXCEPT ![k].pc = "add", ![k].off = @ + n, ![k].got = n]
    BY <1>3 DEF Receive
  <2>2. n \in Nat
    BY SegmentedAssumption
  <2>3. seg'[k].pc = "add" /\ seg'[k].off = seg[k].off + n /\ seg'[k].got = n
    BY <1>2, <2>1 DEF Segment
  <2>4. total' = total /\ seg[k].pc # "add"
    BY <1>3 DEF Receive, shared
  <2> QED
    BY <1>1, <2>2, <2>3, <2>4 DEF Counted, Pending
<1>4. CASE AddBytes(k)
  <2>1. /\ total' = total + seg[k].got
        /\ seg[k].pc = "add" /\ seg'[k].pc # "add"
        /\ seg'[k].off = seg[k].off
    BY <1>2, <1>4 DEF AddBytes, AfterReceive, Segment
  <2> QED
    BY <1>1, <2>1 DEF Counted, Pending
<1>5. CASE Connected(k) \/ Refused(k) \/ OpenPart(k) \/ OpenFail(k) \/ ReceiveFail(k)
  <2>1. /\ total' = total
        /\ seg[k].pc # "add" /\ seg'[k].pc # "add"
        /\ seg'[k].off = seg[k].off
    BY <1>2, <1>5 DEF Connected, Refused, OpenPart, OpenFail, ReceiveFail, Goto, Segment, shared
  <2> QED
    BY <1>1, <2>1 DEF Counted, Pending
<1>6. CASE Report(k) \/ Poll(k) \/ Decide(k)
  <2>1. /\ total' = total
        /\ seg[k].pc # "add" /\ seg'[k].pc # "add"
        /\ seg'[k].off = seg[k].off
    BY <1>2, <1>6 DEF Report, AfterReceive, Poll, Decide, Segment, shared
  <2> QED
    BY <1>1, <2>1 DEF Counted, Pending
<1> QED
  BY <1>3, <1>4, <1>5, <1>6 DEF SegmentStep

\* Only the thread that takes the step moves.
LEMMA OthersKept ==
    ASSUME TypeOK, NEW k \in Segments, SegmentStep(k)
    PROVE  \A i \in Segments \ {k} : seg'[i] = seg[i]
<1> QED
  BY DEF TypeOK, SegmentStep, Connected, Refused, OpenPart, OpenFail, Receive, ReceiveFail,
         AddBytes, Report, Poll, Decide, Goto

LEMMA NextTotalIsSum ==
    ASSUME IInv, IInv', CountInv, [Next]_vars
    PROVE  TotalIsSum'
<1>0. TypeOK /\ TypeOK'
  BY DEF IInv
<1>1. \A i \in Segments : Counted(i) \in Int /\ Counted(i)' \in Int
  <2> TAKE i \in Segments
  <2>1. /\ Start(i) \in Nat /\ Start(i)' = Start(i)
        /\ seg'[i].off \in Int /\ seg'[i].got \in Nat
    BY <1>0, RangesLemma DEF TypeOK, Segment, Start, SegmentSize
  <2>2. Counted(i)' \in Int
    BY <2>1 DEF Counted, Pending
  <2> QED
    BY <1>0, <2>2, CountedInt
<1>2. total \in Nat /\ total' \in Nat
  BY <1>0 DEF TypeOK
<1>3. CASE \E k \in Segments : SegmentStep(k)
  <2>1. PICK k \in Segments : SegmentStep(k)
    BY <1>3
  <2>2. \A i \in Segments \ {k} : Counted(i)' = Counted(i)
    BY <1>0, <2>1, OthersKept DEF Counted, Pending, Start, SegmentSize
  <2>3. total' - total = Counted(k)' - Counted(k)
    BY <1>0, <2>1, CountStep
  <2> HIDE DEF Counted
  <2> QED
    BY <1>1, <1>2, <2>2, <2>3, FourSegments DEF CountInv, TotalIsSum
<1>4. CASE ~ \E k \in Segments : SegmentStep(k)
  <2>1. total' = total
    BY <1>4 DEF Next, Coordinator, Clients, AlreadyComplete, Allocate, AllocateFail, Spawn,
                SpawnFail, SpawnDone, Join, Abandon, Publish, PublishFail, Pause, Resume,
                Cancel, vars, shared
  <2>2. \A i \in Segments : /\ seg'[i].off = seg[i].off /\ seg'[i].got = seg[i].got
                            /\ (seg'[i].pc = "add") <=> (seg[i].pc = "add")
    <3>1. CASE Spawn
      <4>1. created \in Segments /\ seg[created].pc = "absent"
        BY <1>0, <3>1 DEF CountInv, LaterAbsent, TypeOK, Spawn, Segments, SEGMENTED_CONNECTIONS
      <4> QED
        BY <1>0, <3>1, <4>1 DEF Spawn, TypeOK, Segment
    <3>2. CASE ~Spawn
      BY <1>4, <3>2 DEF Next, Coordinator, Clients, AlreadyComplete, Allocate, AllocateFail,
                SpawnFail, SpawnDone, Join, Abandon, Publish, PublishFail, Pause, Resume,
                Cancel, vars, shared
    <3> QED
      BY <3>1, <3>2
  <2>3. \A i \in Segments : Counted(i)' = Counted(i)
    BY <2>2 DEF Counted, Pending, Start, SegmentSize
  <2> QED
    BY <2>1, <2>3, FourSegments DEF CountInv, TotalIsSum
<1> QED
  BY <1>3, <1>4

LEMMA NextLaterAbsent ==
    ASSUME TypeOK, TypeOK', LaterAbsent, [Next]_vars
    PROVE  LaterAbsent'
<1>1. CASE \E k \in Segments : SegmentStep(k)
  <2>1. PICK k \in Segments : SegmentStep(k)
    BY <1>1
  <2>2. seg[k].pc # "absent" /\ created' = created
    BY <2>1 DEF SegmentStep, Connected, Refused, OpenPart, OpenFail, Receive, ReceiveFail,
                AddBytes, Report, Poll, Decide, coord
  <2> QED
    BY <2>1, <2>2, OthersKept DEF LaterAbsent
<1>2. CASE Spawn
  <2>1. seg' = [seg EXCEPT ![created].pc = "connect"] /\ created' = created + 1
    BY <1>2 DEF Spawn
  <2> QED
    BY <2>1 DEF LaterAbsent, TypeOK, Segments, SEGMENTED_CONNECTIONS
<1>3. CASE ~Spawn /\ ~ \E k \in Segments : SegmentStep(k)
  <2>1. seg' = seg /\ created' = created
    BY <1>3 DEF Next, Coordinator, Clients, AlreadyComplete, Allocate, AllocateFail,
                SpawnFail, SpawnDone, Join, Abandon, Publish, PublishFail, Pause, Resume,
                Cancel, vars, coord
  <2> QED
    BY <2>1 DEF LaterAbsent
<1> QED
  BY <1>1, <1>2, <1>3

LEMMA InitCountInv == Init => CountInv
<1> SUFFICES ASSUME Init PROVE CountInv
  OBVIOUS
<1>1. \A i \in Segments : /\ seg[i].off = Start(i) /\ seg[i].pc = "absent"
                          /\ Start(i) \in Nat
  BY RangesLemma DEF Init, NoSegment
<1>2. \A i \in Segments : Counted(i) = 0
  BY <1>1 DEF Counted, Pending
<1>3. total = 0
  BY DEF Init
<1> QED
  BY <1>1, <1>2, <1>3, FourSegments DEF CountInv, TotalIsSum, LaterAbsent

LEMMA WholeLemma == IInv /\ CountInv => WholeIsAccepted
<1> SUFFICES ASSUME IInv, CountInv, failed = 0, stop = 0,
                    \A i \in Segments : seg[i].pc = "done"
             PROVE  total = Total
  BY DEF WholeIsAccepted
<1>1. \A i \in Segments : Counted(i) = End(i) + 1 - Start(i)
  <2> TAKE i \in Segments
  <2>1. seg[i].off = End(i) + 1
    BY DEF IInv, SegmentInv, Blamed
  <2> QED
    BY <2>1, RangesLemma DEF Counted, Pending
<1>2. /\ Start(0) = 0               /\ End(0) = SegmentSize - 1
      /\ Start(1) = SegmentSize     /\ End(1) = 2 * SegmentSize - 1
      /\ Start(2) = 2 * SegmentSize /\ End(2) = 3 * SegmentSize - 1
      /\ Start(3) = 3 * SegmentSize /\ End(3) = Total - 1
  BY RangesLemma DEF Start, End, SEGMENTED_CONNECTIONS
<1> QED
  BY <1>1, <1>2, RangesLemma, FourSegments, SegmentedAssumption DEF CountInv, TotalIsSum

\* The comparison of total_written with expected_total never throws a whole file
\* away: once the threads are done with their ranges the sum is exact, for every
\* file size and every size of reads.
THEOREM WholeAccepted == Spec => []WholeIsAccepted
<1>1. IInv /\ IInv' /\ CountInv /\ [Next]_vars => CountInv'
  BY NextTotalIsSum, NextLaterAbsent DEF CountInv, IInv
<1> QED
  BY Invariance, InitCountInv, WholeLemma, <1>1, PTL DEF Spec

(***************************************************************************)
(* Progress.  Rank bounds the steps the routine still has to take: a thread  *)
(* goes through its loop at most once per byte of its range that is left.    *)
(***************************************************************************)
Place(where) == CASE where = "absent"  -> 9
                  [] where = "connect" -> 8
                  [] where = "open"    -> 7
                  [] where = "add"     -> 6
                  [] where = "report"  -> 5
                  [] where = "prefix"  -> 4
                  [] where = "poll"    -> 3
                  [] where = "decide"  -> 2
                  [] where = "read"    -> 1
                  [] where = "done"    -> 0

SegmentRank(i) == 6 * (End(i) + 1 - seg[i].off) + Place(seg[i].pc)

CoordinatorRank ==
    CASE pc = "begin"    -> SEGMENTED_CONNECTIONS + 4
      [] pc = "spawn"    -> SEGMENTED_CONNECTIONS - created + 3
      [] pc = "join"     -> 2
      [] pc = "conclude" -> 1
      [] pc = "returned" -> 0

Rank == CoordinatorRank + SegmentRank(0) + SegmentRank(1) + SegmentRank(2) + SegmentRank(3)

Nats == /\ CoordinatorRank \in Nat /\ Rank \in Nat
        /\ \A i \in Segments : SegmentRank(i) \in Nat

LEMMA RanksNat == IInv => Nats
<1> SUFFICES ASSUME IInv PROVE Nats
  OBVIOUS
<1>1. ASSUME NEW i \in Segments PROVE SegmentRank(i) \in Nat
  <2>1. End(i) + 1 - seg[i].off \in Nat
    BY RangesLemma DEF IInv, SegmentInv
  <2>2. seg[i].pc \in SegPc
    BY DEF IInv, TypeOK, Segment
  <2>3. Place(seg[i].pc) \in Nat
    BY <2>2 DEF Place, SegPc
  <2> QED
    BY <2>1, <2>3 DEF SegmentRank
<1>2. CoordinatorRank \in Nat
  BY DEF IInv, TypeOK, CoordinatorRank, SEGMENTED_CONNECTIONS
<1> HIDE DEF SegmentRank, CoordinatorRank
<1> QED
  BY <1>1, <1>2, FourSegments DEF Rank, Nats

\* A thread's own step brings it nearer its end.
LEMMA SegmentRankStep ==
    ASSUME IInv, IInv', NEW k \in Segments, SegmentStep(k)
    PROVE  SegmentRank(k)' < SegmentRank(k)
<1>0. /\ seg \in [Segments -> Segment] /\ End(k) \in Nat /\ End(k)' = End(k)
      /\ seg[k].off \in Int
  BY RangesLemma DEF IInv, TypeOK, Segment, End, SegmentSize
<1> DEFINE left == End(k) + 1 - seg[k].off
<1>1. left \in Int
  BY <1>0
<1>2. CASE Receive(k)
  <2>1. PICK n \in 1 .. MaxRead :
          seg' = [seg EXCEPT ![k].pc = "add", ![k].off = @ + n, ![k].got = n]
    BY <1>2 DEF Receive
  <2>2. n \in Nat /\ n >= 1
    BY SegmentedAssumption
  <2>3. /\ seg'[k].pc = "add" /\ seg'[k].off = seg[k].off + n
        /\ seg[k].pc \in {"prefix", "read"}
    BY <1>0, <1>2, <2>1 DEF Receive, Segment
  <2> QED
    BY <1>0, <2>2, <2>3 DEF SegmentRank, Place
<1>3. CASE ~Receive(k)
  <2>1. /\ seg'[k].off = seg[k].off
        /\ Place(seg'[k].pc) < Place(seg[k].pc)
        /\ Place(seg'[k].pc) \in Int /\ Place(seg[k].pc) \in Int
    <3>1. CASE Connected(k) \/ Refused(k) \/ OpenPart(k) \/ OpenFail(k) \/ ReceiveFail(k)
      BY <1>0, <3>1 DEF Connected, Refused, OpenPart, OpenFail, ReceiveFail, Goto, Segment, Place
    <3>2. CASE AddBytes(k) \/ Report(k)
      BY <1>0, <3>2 DEF AddBytes, Report, AfterReceive, Segment, Place
    <3>3. CASE Poll(k) \/ Decide(k)
      BY <1>0, <3>3 DEF Poll, Decide, Segment, Place
    <3> QED
      BY <1>3, <3>1, <3>2, <3>3 DEF SegmentStep
  <2> QED
    BY <1>0, <1>1, <2>1 DEF SegmentRank
<1> QED
  BY <1>2, <1>3

LEMMA RankStep ==
    ASSUME IInv, IInv', Nats, Nats', CountInv, [Next]_vars
    PROVE  /\ Coordinator \/ (\E i \in Segments : SegmentStep(i)) => Rank' < Rank
           /\ Clients \/ UNCHANGED vars => Rank' = Rank
<1>0. /\ CoordinatorRank \in Nat /\ \A i \in Segments : SegmentRank(i) \in Nat
      /\ CoordinatorRank' \in Nat /\ \A i \in Segments : SegmentRank(i)' \in Nat
  BY DEF Nats
<1>1. ASSUME NEW k \in Segments, SegmentStep(k) PROVE Rank' < Rank
  <2>1. \A i \in Segments \ {k} : SegmentRank(i)' = SegmentRank(i)
    BY <1>1, OthersKept DEF IInv, SegmentRank, End, SegmentSize
  <2>2. SegmentRank(k)' < SegmentRank(k)
    BY <1>1, SegmentRankStep
  <2>3. CoordinatorRank' = CoordinatorRank
    BY <1>1 DEF SegmentStep, Connected, Refused, OpenPart, OpenFail, Receive, ReceiveFail,
                AddBytes, Report, Poll, Decide, coord, CoordinatorRank
  <2> HIDE DEF SegmentRank, CoordinatorRank
  <2> QED
    BY <1>0, <2>1, <2>2, <2>3, FourSegments DEF Rank
<1>2. ASSUME Spawn PROVE Rank' < Rank
  <2>1. /\ created \in Segments /\ created \in Nat /\ created < SEGMENTED_CONNECTIONS
        /\ seg[created].pc = "absent"
    BY <1>2 DEF Spawn, CountInv, LaterAbsent, IInv, TypeOK, Segments, SEGMENTED_CONNECTIONS
  <2>2. ASSUME NEW i \in Segments PROVE SegmentRank(i)' <= SegmentRank(i)
    <3>1. CASE i = created
      <4>1. seg[i].off \in Int /\ End(i) \in Int /\ End(i)' = End(i)
        BY RangesLemma DEF IInv, TypeOK, Segment, End, SegmentSize
      <4>2. seg'[i].off = seg[i].off /\ seg'[i].pc = "connect"
        BY <1>2, <2>1, <3>1 DEF Spawn, IInv, TypeOK, Segment
      <4> QED
        BY <2>1, <3>1, <4>1, <4>2 DEF SegmentRank, Place
    <3>2. CASE i # created
      <4>1. seg'[i] = seg[i]
        BY <1>2, <2>1, <3>2 DEF Spawn, IInv, TypeOK
      <4> QED
        BY <1>0, <4>1 DEF SegmentRank, End, SegmentSize
    <3> QED
      BY <3>1, <3>2
  <2>3. CoordinatorRank' < CoordinatorRank
    BY <1>2, <2>1 DEF Spawn, CoordinatorRank, SEGMENTED_CONNECTIONS
  <2> HIDE DEF SegmentRank, CoordinatorRank
  <2> QED
    BY <1>0, <2>2, <2>3, FourSegments DEF Rank
\* Whoever leaves the threads alone leaves their ranks alone.
<1>3. ASSUME seg' = seg
      PROVE  /\ \A i \in Segments : SegmentRank(i)' = SegmentRank(i)
             /\ CoordinatorRank' < CoordinatorRank => Rank' < Rank
             /\ CoordinatorRank' = CoordinatorRank => Rank' = Rank
  <2>1. \A i \in Segments : SegmentRank(i)' = SegmentRank(i)
    BY <1>3 DEF SegmentRank, End, SegmentSize
  <2> HIDE DEF SegmentRank, CoordinatorRank
  <2> QED
    BY <1>0, <2>1, FourSegments DEF Rank
<1>4. ASSUME Coordinator, ~Spawn PROVE Rank' < Rank
  <2>1. seg' = seg
    BY <1>4 DEF Coordinator, AlreadyComplete, Allocate, AllocateFail, SpawnFail, SpawnDone, Join,
                Abandon, Publish, PublishFail
  <2>2. CoordinatorRank' < CoordinatorRank
    <3>1. created \in 0 .. 4 /\ created' \in 0 .. 4
      BY DEF IInv, TypeOK, SEGMENTED_CONNECTIONS
    <3> QED
      BY <1>4, <3>1 DEF Coordinator, AlreadyComplete, Allocate, AllocateFail, SpawnFail, SpawnDone,
                Join, Abandon, Publish, PublishFail, Return, CoordinatorRank, SEGMENTED_CONNECTIONS
  <2> QED
    BY <1>3, <2>1, <2>2
<1>5. ASSUME Clients \/ UNCHANGED vars PROVE Rank' = Rank
  <2>1. seg' = seg /\ pc' = pc /\ created' = created
    BY <1>5 DEF Clients, Pause, Resume, Cancel, vars, coord
  <2> QED
    BY <1>3, <2>1 DEF CoordinatorRank
<1> QED
  BY <1>1, <1>2, <1>4, <1>5

\* A thread that was created has not vanished, and a coordinator that waits for
\* it waits for a thread in the middle of its program.
CreatedInv == \A i \in Segments : i < created => seg[i].pc # "absent"

LEMMA CreatedStep ==
    ASSUME TypeOK, TypeOK', CreatedInv, [Next]_vars
    PROVE  CreatedInv'
<1>0. created \in 0 .. 4 /\ seg \in [Segments -> Segment] /\ Segments = 0 .. 3
  BY DEF TypeOK, Segments, SEGMENTED_CONNECTIONS
<1>1. ASSUME NEW k \in Segments, SegmentStep(k) PROVE CreatedInv'
  <2>1. created' = created /\ \A i \in Segments \ {k} : seg'[i] = seg[i]
    BY <1>1, OthersKept DEF SegmentStep, Connected, Refused, OpenPart, OpenFail, Receive,
         ReceiveFail, AddBytes, Report, Poll, Decide, coord
  <2>2. seg'[k].pc # "absent"
    <3>1. CASE Connected(k) \/ Refused(k) \/ OpenPart(k) \/ OpenFail(k) \/ ReceiveFail(k)
      BY <1>0, <3>1 DEF Connected, Refused, OpenPart, OpenFail, ReceiveFail, Goto, Segment
    <3>2. CASE Receive(k)
      BY <1>0, <3>2 DEF Receive, Segment
    <3>3. CASE AddBytes(k) \/ Report(k)
      BY <1>0, <3>3 DEF AddBytes, Report, AfterReceive, Segment
    <3>4. CASE Poll(k) \/ Decide(k)
      BY <1>0, <3>4 DEF Poll, Decide, Segment
    <3> QED
      BY <1>1, <3>1, <3>2, <3>3, <3>4 DEF SegmentStep
  <2> QED
    BY <2>1, <2>2 DEF CreatedInv
<1>2. CASE Spawn
  BY <1>0, <1>2 DEF Spawn, CreatedInv, Segment, SEGMENTED_CONNECTIONS
<1>3. CASE ~Spawn /\ ~ \E k \in Segments : SegmentStep(k)
  <2>1. seg' = seg /\ created' = created
    BY <1>3 DEF Next, Coordinator, Clients, AlreadyComplete, Allocate, AllocateFail,
                SpawnFail, SpawnDone, Join, Abandon, Publish, PublishFail, Pause, Resume,
                Cancel, vars, coord
  <2> QED
    BY <2>1 DEF CreatedInv
<1> QED
  BY <1>1, <1>2, <1>3

LEMMA CountInvariance == Spec => [](IInv /\ CountInv /\ CreatedInv /\ Nats)
<1>1. IInv /\ IInv' /\ CountInv /\ [Next]_vars => CountInv'
  BY NextTotalIsSum, NextLaterAbsent DEF CountInv, IInv
<1>2. Init => CreatedInv
  BY SegmentedAssumption DEF Init, CreatedInv, Segments
<1>3. IInv /\ IInv' /\ CreatedInv /\ [Next]_vars => CreatedInv'
  BY CreatedStep DEF IInv
<1> QED
  BY Invariance, InitCountInv, RanksNat, <1>1, <1>2, <1>3, PTL DEF Spec

Steps == 6 * Total + 44

LEMMA InitRank == Init => Rank = Steps
<1> SUFFICES ASSUME Init PROVE Rank = Steps
  OBVIOUS
<1>1. \A i \in Segments : SegmentRank(i) = 6 * (End(i) + 1 - Start(i)) + 9
  BY DEF Init, NoSegment, SegmentRank, Place
<1>2. CoordinatorRank = 8
  BY DEF Init, CoordinatorRank, SEGMENTED_CONNECTIONS
<1>3. /\ Start(0) = 0               /\ End(0) = SegmentSize - 1
      /\ Start(1) = SegmentSize     /\ End(1) = 2 * SegmentSize - 1
      /\ Start(2) = 2 * SegmentSize /\ End(2) = 3 * SegmentSize - 1
      /\ Start(3) = 3 * SegmentSize /\ End(3) = Total - 1
  BY RangesLemma DEF Start, End, SEGMENTED_CONNECTIONS
<1> QED
  BY <1>1, <1>2, <1>3, RangesLemma, FourSegments, SegmentedAssumption DEF Rank, Steps

\* Every step of the coordinator or of a thread brings the routine nearer its
\* end, and no client takes it back: http_get_segmented_to_file returns after at
\* most Steps steps of its own, whatever clients, the network and the other
\* threads do, for every file size and every size of reads.
THEOREM OwnStepsAreProgress ==
    Spec => /\ [](Rank \in 0 .. Steps)
            /\ [][/\ Coordinator \/ (\E i \in Segments : SegmentStep(i)) => Rank' < Rank
                  /\ Clients => Rank' = Rank]_vars
<1>1. Nats => Rank \in Nat
  BY DEF Nats
<1>2. ASSUME IInv, IInv', Nats, Nats', CountInv, [Next]_vars
      PROVE  [/\ Coordinator \/ (\E i \in Segments : SegmentStep(i)) => Rank' < Rank
              /\ Clients => Rank' = Rank]_vars
  BY <1>2, RankStep
<1>3. Init => Rank <= Steps
  BY InitRank, SegmentedAssumption DEF Steps
<1>4. ASSUME IInv, IInv', Nats, Nats', CountInv, [Next]_vars, Rank <= Steps
      PROVE  (Rank <= Steps)'
  <2>1. Rank' <= Rank
    BY <1>4, RankStep DEF Next, Nats
  <2> QED
    BY <1>4, <2>1, SegmentedAssumption DEF Nats, Steps
<1>5. Rank \in Nat /\ Rank <= Steps => Rank \in 0 .. Steps
  BY SegmentedAssumption DEF Steps
<1> QED
  BY CountInvariance, <1>1, <1>2, <1>3, <1>4, <1>5, PTL DEF Spec

\* Until the routine returns it is not waiting in vain: the coordinator is at a
\* step of its own, or the threads it joins are done, or one of them is in the
\* middle of segment_worker_main, where every outcome of its next call leads on.
THEOREM NobodyWaitsInVain ==
    Spec => [](\/ pc \in {"begin", "spawn", "conclude", "returned"}
               \/ pc = "join" /\ \A i \in Segments : i < created => seg[i].pc = "done"
               \/ \E i \in Segments : seg[i].pc \notin {"absent", "done"})
<1>1. IInv /\ CreatedInv =>
          \/ pc \in {"begin", "spawn", "conclude", "returned"}
          \/ pc = "join" /\ \A i \in Segments : i < created => seg[i].pc = "done"
          \/ \E i \in Segments : seg[i].pc \notin {"absent", "done"}
  BY DEF IInv, TypeOK, CreatedInv
<1> QED
  BY CountInvariance, <1>1, PTL

(***************************************************************************)
(* Refinement: every step of the coordinator, a thread or a client is a     *)
(* step of the atomic transfer, or is invisible to its caller.              *)
(***************************************************************************)
LEMMA RefinesInit == Init => Atomic!Init
<1> QED
  BY DEF Init, Atomic!Init, AbstractFinal, AbstractOutcome

\* What the caller can see changes only as stated.
LEMMA VisibleLemma ==
    ASSUME IInv, IInv', final' = final
    PROVE  AbstractFinal' = AbstractFinal
<1>1. CASE final = "new"
  BY <1>1 DEF IInv, PublishedIsWhole, AbstractFinal, Bytes
<1>2. CASE final # "new"
  BY <1>2 DEF AbstractFinal
<1> QED
  BY <1>1, <1>2

LEMMA RefinesNext ==
    ASSUME IInv, IInv', [Next]_vars
    PROVE  [Atomic!Next]_(Atomic!vars)
<1> USE DEF Atomic!vars
<1>0. TypeOK /\ TypeOK' /\ CoordinatorInv
  BY DEF IInv
<1>1. CASE AlreadyComplete
  <2>1. Atomic!AlreadyThere
    BY <1>1, VisibleLemma DEF AlreadyComplete, Return, disk, Atomic!AlreadyThere, AbstractFinal,
                              AbstractOutcome
  <2> QED
    BY <2>1 DEF Atomic!Next
<1>2. CASE Allocate \/ Clients
  <2>1. /\ pc # "returned" /\ pc' # "returned"
        /\ final' = final
        /\ part' \in BOOLEAN
    BY <1>0, <1>2 DEF Allocate, Clients, Pause, Resume, Cancel, coord, disk, TypeOK
  <2>2. Atomic!Work
    BY <2>1, VisibleLemma DEF Atomic!Work, AbstractOutcome
  <2> QED
    BY <2>2 DEF Atomic!Next
<1>3. CASE AllocateFail \/ Abandon \/ PublishFail
  <2>1. /\ pc # "returned" /\ pc' = "returned"
        /\ final' = final
        /\ part' = FALSE
    BY <1>3 DEF AllocateFail, Abandon, PublishFail, Return
  <2>2. rc' \in {-1, -4, -5, -6}
    BY <1>0, <1>3 DEF AllocateFail, Abandon, PublishFail, Return, TypeOK
  <2>3. AbstractOutcome = "running" /\ AbstractOutcome' \in {"stopped", "failed"}
    BY <2>1, <2>2 DEF AbstractOutcome
  <2>4. Atomic!GiveUp
    BY <2>1, <2>3, VisibleLemma DEF Atomic!GiveUp
  <2> QED
    BY <2>4 DEF Atomic!Next
<1>4. CASE Publish
  <2>1. AbstractFinal' = "whole"
    BY <1>4 DEF Publish, IInv, PublishedIsWhole, AbstractFinal
  <2>2. Atomic!Publish
    BY <1>4, <2>1 DEF Publish, Return, Atomic!Publish, AbstractOutcome
  <2> QED
    BY <2>2 DEF Atomic!Next
<1>5. CASE Spawn \/ SpawnFail \/ SpawnDone \/ Join
  <2>1. /\ pc # "returned" /\ pc' # "returned"
        /\ UNCHANGED <<final, part>>
    BY <1>5 DEF Spawn, SpawnFail, SpawnDone, Join, disk
  <2> QED
    BY <2>1, VisibleLemma DEF AbstractOutcome
<1>6. CASE \E i \in Segments : SegmentStep(i)
  <2>1. UNCHANGED <<pc, rc, final, part>>
    BY <1>6 DEF SegmentStep, Connected, Refused, OpenPart, OpenFail, Receive, ReceiveFail,
                AddBytes, Report, Poll, Decide, coord, disk
  <2> QED
    BY <2>1, VisibleLemma DEF AbstractOutcome
<1>7. CASE UNCHANGED vars
  BY <1>7, VisibleLemma DEF vars, coord, disk, AbstractOutcome
<1> QED
  BY <1>1, <1>2, <1>3, <1>4, <1>5, <1>6, <1>7 DEF Next, Coordinator

\* Seen by run_download the four-thread transfer is atomic: "ok" means a whole
\* file (or one of the right size that was there), anything else means the final
\* name is untouched and no .part file is left behind.
THEOREM Implementation == Spec => ImplementsAtomic
<1> QED
  BY Invariance, RefinesInit, RefinesNext, PTL DEF Spec, Atomic!Spec, ImplementsAtomic
==============================================================================
