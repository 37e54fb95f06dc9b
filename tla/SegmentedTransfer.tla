-------------------------- MODULE SegmentedTransfer --------------------------
(***************************************************************************)
(* The four-connection transfer of a fresh large file in the native daemon *)
(* (http_get_segmented_to_file and segment_worker_main in                  *)
(* src/ps5_payload/main.c): the download worker sizes the .part file,      *)
(* starts one thread per byte range, joins them and renames the file; the  *)
(* threads share a byte count, a failure code and a stop code behind a     *)
(* mutex, and poll the queue item for a pause or a cancel.                 *)
(*                                                                         *)
(* A byte of the model is a block of the file.  Meanwhile clients pause,   *)
(* cancel and resume the item (handle_download_action).  The DELETE of an  *)
(* item in flight acts on the transfer as Cancel does; what it does to the *)
(* final file afterwards is in NativeQueue.                                *)
(***************************************************************************)
EXTENDS Integers, FiniteSets

CONSTANTS Total,       \* expected_total
          UpdateStep,  \* BYTE_UPDATE_STEP
          MaxRead      \* the most bytes one read() returns

SEGMENTED_CONNECTIONS == 4

ASSUME SegmentedAssumption ==
    /\ Total \in Nat /\ Total >= SEGMENTED_CONNECTIONS
    /\ UpdateStep \in Nat \ {0}
    /\ MaxRead \in Nat \ {0}

VARIABLES pc,         \* where http_get_segmented_to_file is
          created,    \* threads created so far
          rc,         \* its return code
          seg,        \* the segment threads
          total,      \* shared.total_written
          nextUpdate, \* shared.next_update
          failed,     \* shared.failed
          stop,       \* shared.stop_code
          state,      \* item->state
          bytes,      \* item->bytes, what the queue shows
          written,    \* the bytes of the sized .part file that were written
          part,       \* the .part name exists
          final       \* what the final name holds

shared == <<total, nextUpdate, failed, stop>>
coord  == <<pc, created, rc>>
disk   == <<written, part, final>>
vars   == <<coord, seg, shared, state, bytes, disk>>

(***************************************************************************)
(* Byte ranges                                                             *)
(***************************************************************************)
Segments    == 0 .. SEGMENTED_CONNECTIONS - 1
SegmentSize == Total \div SEGMENTED_CONNECTIONS
Start(i)    == SegmentSize * i
\* Mutants: the last range runs one byte over; the last range drops the remainder.
EndPast(i)     == IF i = SEGMENTED_CONNECTIONS - 1 THEN Total
                  ELSE SegmentSize * (i + 1) - 1
EndRounded(i)  == SegmentSize * (i + 1) - 1
End(i)      == IF i = SEGMENTED_CONNECTIONS - 1 THEN Total - 1
               ELSE SegmentSize * (i + 1) - 1
Bytes       == 0 .. Total - 1

(***************************************************************************)
(* Types                                                                   *)
(***************************************************************************)
SegPc == {"absent", "connect", "open", "prefix", "poll", "decide", "read",
          "add", "report", "done"}
Segment == [pc   : SegPc,
            off  : Int,     \* offset: the next byte to write
            got  : Nat,     \* bytes written and not yet added to total_written
            seen : 0 .. 2]  \* what item_stop_requested returned
NoSegment(i) == [pc |-> "absent", off |-> Start(i), got |-> 0, seen |-> 0]

ItemStates == {"downloading", "waiting", "paused", "cancelled"}

TypeOK ==
    /\ pc \in {"begin", "spawn", "join", "conclude", "returned"}
    /\ created \in 0 .. SEGMENTED_CONNECTIONS
    /\ rc \in {0, -1, -4, -5, -6}
    /\ seg \in [Segments -> Segment]
    /\ total \in Nat
    /\ nextUpdate \in Nat
    /\ failed \in {0, -1, -4}
    /\ stop \in 0 .. 2
    /\ state \in ItemStates
    /\ bytes \in Nat
    /\ written \subseteq Bytes
    /\ part \in BOOLEAN
    /\ final \in {"none", "other", "sized", "new"}

Init ==
    /\ pc = "begin"
    /\ created = 0
    /\ rc = 0
    /\ seg = [i \in Segments |-> NoSegment(i)]
    /\ total = 0
    /\ nextUpdate = UpdateStep
    /\ failed = 0
    /\ stop = 0
    /\ state = "downloading"
    /\ bytes = 0
    /\ written = {}
    /\ part \in BOOLEAN
    /\ final \in {"none", "other", "sized"}

(***************************************************************************)
(* http_get_segmented_to_file                                              *)
(***************************************************************************)
Return(code) == /\ rc' = code
                /\ pc' = "returned"

\* A file of the expected size is taken for the file.
AlreadyComplete ==
    /\ pc = "begin"
    /\ final = "sized"
    /\ bytes' = Total
    /\ Return(0)
    /\ UNCHANGED <<created, seg, shared, state, disk>>

\* unlink, open with O_CREAT, ftruncate to the full size.
Allocate ==
    /\ pc = "begin"
    /\ final # "sized"
    /\ part' = TRUE
    /\ written' = {}
    /\ pc' = "spawn"
    /\ UNCHANGED <<created, rc, seg, shared, state, bytes, final>>

AllocateFail ==
    /\ pc = "begin"
    /\ final # "sized"
    /\ part' = FALSE
    /\ Return(-1)
    /\ UNCHANGED <<created, seg, shared, state, bytes, written, final>>

MarkFailed(code) == failed' = IF failed = 0 THEN code ELSE failed

Spawn ==
    /\ pc = "spawn"
    /\ created < SEGMENTED_CONNECTIONS
    /\ seg' = [seg EXCEPT ![created].pc = "connect"]
    /\ created' = created + 1
    /\ UNCHANGED <<pc, rc, shared, state, bytes, disk>>

SpawnFail ==
    /\ pc = "spawn"
    /\ created < SEGMENTED_CONNECTIONS
    /\ MarkFailed(-1)
    /\ pc' = "join"
    /\ UNCHANGED <<created, rc, seg, total, nextUpdate, stop, state, bytes, disk>>

SpawnDone ==
    /\ pc = "spawn"
    /\ created = SEGMENTED_CONNECTIONS
    /\ pc' = "join"
    /\ UNCHANGED <<created, rc, seg, shared, state, bytes, disk>>

\* Mutant: threads that were never created are joined, too.
JoinAll ==
    /\ pc = "join"
    /\ \A i \in Segments : seg[i].pc = "done"
    /\ bytes' = total
    /\ pc' = "conclude"
    /\ UNCHANGED <<created, rc, seg, shared, state, disk>>

\* pthread_join of the created threads, then the total is shown once more.
Join ==
    /\ pc = "join"
    /\ \A i \in Segments : i < created => seg[i].pc = "done"
    /\ bytes' = total
    /\ pc' = "conclude"
    /\ UNCHANGED <<created, rc, seg, shared, state, disk>>

\* Mutant: only a stop keeps the file from being published.
SoundUnlessStopped == stop = 0

Sound == stop = 0 /\ failed = 0 /\ total = Total

\* Mutant: the .part file stays.
AbandonKeeping ==
    /\ pc = "conclude"
    /\ ~Sound
    /\ Return(CASE stop = 1 -> -5
                [] stop = 2 -> -6
                [] OTHER    -> IF failed # 0 THEN failed ELSE -1)
    /\ UNCHANGED <<created, seg, shared, state, bytes, disk>>

Abandon ==
    /\ pc = "conclude"
    /\ ~Sound
    /\ part' = FALSE
    /\ Return(CASE stop = 1 -> -5
                [] stop = 2 -> -6
                [] OTHER    -> IF failed # 0 THEN failed ELSE -1)
    /\ UNCHANGED <<created, seg, shared, state, bytes, written, final>>

Publish ==
    /\ pc = "conclude"
    /\ Sound
    /\ part
    /\ part' = FALSE
    /\ final' = "new"
    /\ Return(0)
    /\ UNCHANGED <<created, seg, shared, state, bytes, written>>

\* rename fails, always so when a cancel removed the .part file.
PublishFail ==
    /\ pc = "conclude"
    /\ Sound
    /\ part' = FALSE
    /\ Return(-1)
    /\ UNCHANGED <<created, seg, shared, state, bytes, written, final>>

Coordinator ==
    \/ AlreadyComplete \/ Allocate \/ AllocateFail \/ Spawn \/ SpawnFail
    \/ SpawnDone \/ Join \/ Abandon \/ Publish \/ PublishFail

(***************************************************************************)
(* segment_worker_main                                                     *)
(***************************************************************************)
Goto(i, where) == seg' = [seg EXCEPT ![i].pc = where]

\* Connection, request and headers; only 206 will do.
Connected(i) ==
    /\ seg[i].pc = "connect"
    /\ Goto(i, "open")
    /\ UNCHANGED <<coord, shared, state, bytes, disk>>

Refused(i) ==
    /\ seg[i].pc = "connect"
    /\ \E code \in {-1, -4} : MarkFailed(code)
    /\ Goto(i, "done")
    /\ UNCHANGED <<coord, total, nextUpdate, stop, state, bytes, disk>>

\* open without O_CREAT: it finds the sized file, or fails once it is unlinked.
OpenPart(i) ==
    /\ seg[i].pc = "open"
    /\ part
    /\ \E next \in {"prefix", "poll"} : Goto(i, next)
    /\ UNCHANGED <<coord, shared, state, bytes, disk>>

OpenFail(i) ==
    /\ seg[i].pc = "open"
    /\ MarkFailed(-1)
    /\ Goto(i, "done")
    /\ UNCHANGED <<coord, total, nextUpdate, stop, state, bytes, disk>>

\* Body bytes that came with the headers, or those of one read(), never past
\* the end of the range, written at the segment's own offset.
Receive(i) ==
    /\ seg[i].pc \in {"prefix", "read"}
    /\ \E n \in 1 .. MaxRead :
          /\ seg[i].off + n <= End(i) + 1
          /\ written' = written \cup (seg[i].off .. seg[i].off + n - 1)
          /\ seg' = [seg EXCEPT ![i].pc = "add", ![i].off = @ + n, ![i].got = n]
    /\ UNCHANGED <<coord, shared, state, bytes, part, final>>

\* read or write fails, or the server closes before the end of the range.
ReceiveFail(i) ==
    /\ seg[i].pc \in {"prefix", "read"}
    /\ MarkFailed(-1)
    /\ Goto(i, "done")
    /\ UNCHANGED <<coord, total, nextUpdate, stop, state, bytes, disk>>

AfterReceive(i) == IF seg[i].off > End(i) THEN "done" ELSE "poll"

\* segmented_add_bytes under the shared lock.  The item is updated later, under
\* another lock, with the total of this moment: got carries it until then.
NextMultiple(n) == ((n \div UpdateStep) + 1) * UpdateStep

AddBytes(i) ==
    LET sum    == total + seg[i].got
        update == sum >= nextUpdate \/ sum >= Total
    IN  /\ seg[i].pc = "add"
        /\ total' = sum
        /\ nextUpdate' = IF nextUpdate <= sum THEN NextMultiple(sum) ELSE nextUpdate
        /\ seg' = [seg EXCEPT ![i].pc  = IF update THEN "report" ELSE AfterReceive(i),
                              ![i].got = IF update THEN sum ELSE 0]
        /\ UNCHANGED <<coord, failed, stop, state, bytes, disk>>

Report(i) ==
    /\ seg[i].pc = "report"
    /\ bytes' = seg[i].got
    /\ seg' = [seg EXCEPT ![i].pc = AfterReceive(i), ![i].got = 0]
    /\ UNCHANGED <<coord, shared, state, disk>>

\* segmented_should_stop: the item under the queue's lock, then the shared
\* codes under theirs.
StopRequested == CASE state = "cancelled" -> 1
                   [] state = "paused"    -> 2
                   [] OTHER               -> 0

Poll(i) ==
    /\ seg[i].pc = "poll"
    /\ seg' = [seg EXCEPT ![i].pc = "decide", ![i].seen = StopRequested]
    /\ UNCHANGED <<coord, shared, state, bytes, disk>>

Decide(i) ==
    /\ seg[i].pc = "decide"
    /\ stop' = IF stop = 0 THEN seg[i].seen ELSE stop
    /\ seg' = [seg EXCEPT ![i].pc = IF failed # 0 \/ stop' # 0 THEN "done" ELSE "read",
                          ![i].seen = 0]
    /\ UNCHANGED <<coord, total, nextUpdate, failed, state, bytes, disk>>

SegmentStep(i) ==
    \/ Connected(i) \/ Refused(i) \/ OpenPart(i) \/ OpenFail(i) \/ Receive(i)
    \/ ReceiveFail(i) \/ AddBytes(i) \/ Report(i) \/ Poll(i) \/ Decide(i)

(***************************************************************************)
(* Clients, through handle_download_action                                 *)
(***************************************************************************)
Pause ==
    /\ pc # "returned"
    /\ state \in {"downloading", "waiting"}
    /\ state' = "paused"
    /\ UNCHANGED <<coord, seg, shared, bytes, disk>>

Resume ==
    /\ pc # "returned"
    /\ state # "downloading"
    /\ state' = "waiting"
    /\ UNCHANGED <<coord, seg, shared, bytes, disk>>

Cancel ==
    /\ pc # "returned"
    /\ state' = "cancelled"
    /\ part' = FALSE
    /\ UNCHANGED <<coord, seg, shared, bytes, written, final>>

Clients == Pause \/ Resume \/ Cancel

Next == Coordinator \/ (\E i \in Segments : SegmentStep(i)) \/ Clients

Spec == Init /\ [][Next]_vars

------------------------------------------------------------------------------
(***************************************************************************)
(* Properties                                                              *)
(***************************************************************************)
\* The file under the final name has every byte, whatever the threads, the
\* clients and the network did before the rename.
PublishedIsWhole == final = "new" => written = Bytes

\* No byte is counted twice or lost: when every thread has done its range, the
\* shared total is the file's size, and a whole file is never thrown away by
\* the comparison with expected_total.
WholeIsAccepted ==
    /\ pc \in {"join", "conclude"}
    /\ failed = 0 /\ stop = 0
    /\ \A i \in Segments : seg[i].pc = "done"
    => total = Total

\* Until the routine returns, the coordinator or a thread has a step to take
\* without any help from clients: nobody waits for a thread that will not end.
\* (Each such step is progress along a finite program, so the routine returns.)
NeverStuck ==
    pc # "returned" =>
        ENABLED Coordinator \/ \E i \in Segments : ENABLED SegmentStep(i)

\* The caller sees an atomic transfer.
AbstractFinal ==
    IF final = "new" THEN IF written = Bytes THEN "whole" ELSE "torn" ELSE final
AbstractOutcome ==
    CASE pc # "returned"                 -> "running"
      [] pc = "returned" /\ rc = 0       -> "ok"
      [] pc = "returned" /\ rc \in {-5, -6} -> "stopped"
      [] OTHER                           -> "failed"

Atomic == INSTANCE AtomicTransfer
              WITH final <- AbstractFinal, outcome <- AbstractOutcome

ImplementsAtomic == Atomic!Spec
==============================================================================
