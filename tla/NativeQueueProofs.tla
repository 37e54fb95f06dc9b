-------------------------- MODULE NativeQueueProofs --------------------------
(***************************************************************************)
(* Proofs about the native queue, for every table size, every set of links, *)
(* handler threads and worker threads, and any number of requests.          *)
(***************************************************************************)
EXTENDS NativeQueue, FileStoreProofs

LEMMA ChunksLemma == NoFile \notin Seq(Chunks) /\ Hole \in Chunks
<1> QED
  BY NoFileAssumption DEF Chunks

LEMMA AllocateLemma ==
    ASSUME NEW store, NEW fds, StoreInv(Workers, Chunks, fds, store), NEW n \in FileNames, NEW w \in Workers,
           NEW content \in Seq(Chunks)
    PROVE  /\ StoreInv(Workers, Chunks, [AfterUnlink(fds, n) EXCEPT ![w] = n], [store EXCEPT ![n] = content])
           /\ StoreInv(Workers, Chunks, [fds EXCEPT ![w] = Detached], [store EXCEPT ![n] = content])
<1>1. content # NoFile
  BY NoFileAssumption
<1>2. [store EXCEPT ![n] = content] \in [FileNames -> Contents]
  BY DEF StoreInv, Contents
<1> QED
  BY <1>1, <1>2 DEF StoreInv, Exists, AfterUnlink

(***************************************************************************)
(* Types                                                                   *)
(***************************************************************************)
TypeInv == TypeOK /\ StoreInv(Workers, Chunks, fd, files)

LEMMA SpendLemma ==
    ASSUME TypeOK, NEW b \in {"posts", "ops", "faults"}, Spend(b)
    PROVE  budget' \in [{"posts", "ops", "faults"} -> Nat]
<1> QED
  BY DEF TypeOK, Spend

LEMMA InitTypeInv == Init => TypeInv
<1> SUFFICES ASSUME Init PROVE TypeInv
  OBVIOUS
<1> USE NativeQueueAssumption
<1>1. EmptyItem \in Item /\ NoXfer \in Xfer /\ Idle \in ClientStates
  BY DEF EmptyItem, Item, States, UrlValues, PathValues, NoXfer, Xfer, Idle, ClientStates
<1>2. StoreInv(Workers, Chunks, fd, files)
  BY DEF Init, StoreInv, Contents
<1>3. budget \in [{"posts", "ops", "faults"} -> Nat]
  BY DEF Init
<1>4. slots \in [SlotIndex -> Item] /\ at \in [Workers -> SlotIndex]
  BY <1>1 DEF Init, SlotIndex
<1>5. /\ pc \in [Workers -> WorkerPc] /\ xfer \in [Workers -> Xfer]
      /\ client \in [Clients -> ClientStates]
  BY <1>1 DEF Init, WorkerPc
<1>6. /\ count \in 0 .. MaxDownloads /\ nextId \in Nat \ {0}
      /\ started \in BOOLEAN /\ shutdown \in BOOLEAN
  <2>1. count = 0 /\ nextId = 1 /\ started = FALSE /\ shutdown = FALSE
    BY DEF Init
  <2>2. 0 \in 0 .. MaxDownloads
    OBVIOUS
  <2>3. nextId \in Nat \ {0}
    BY <2>1
  <2> QED
    BY <2>1, <2>2, <2>3, Zenon
<1>7. TypeOK
  BY <1>2, <1>3, <1>4, <1>5, <1>6 DEF TypeOK, StoreInv, Contents
<1> QED
  BY <1>2, <1>7 DEF TypeInv

\* A worker step that writes one field of its slot.
LEMMA SlotLemma ==
    ASSUME TypeOK, NEW w \in Workers
    PROVE  /\ at[w] \in SlotIndex /\ slots[at[w]] \in Item /\ xfer[w] \in Xfer
           /\ \A st \in States : [slots EXCEPT ![at[w]].state = st] \in [SlotIndex -> Item]
           /\ \A u \in UrlValues :
                 [slots EXCEPT ![at[w]].resolved = u] \in [SlotIndex -> Item]
           /\ \A p \in PathValues, st \in States :
                 [slots EXCEPT ![at[w]].path = p, ![at[w]].state = st] \in [SlotIndex -> Item]
<1> QED
  BY DEF TypeOK, Item

\* A transfer step that sets the return code.
LEMMA RcLemma ==
    ASSUME TypeOK, NEW w \in Workers, NEW rc \in {"ok", "stopped", "error"}
    PROVE  [xfer EXCEPT ![w].rc = rc] \in [Workers -> Xfer]
<1>1. xfer \in [Workers -> Xfer] /\ xfer[w] \in Xfer
  BY DEF TypeOK
<1> DEFINE x == [xfer[w] EXCEPT !.rc = rc]
<1>2. x \in Xfer
  BY <1>1 DEF Xfer
<1> HIDE DEF x
<1>3. [xfer EXCEPT ![w] = x] \in [Workers -> Xfer]
  BY <1>1, <1>2
<1> QED
  BY <1>3 DEF x

LEMMA ResolveTypes ==
    ASSUME TypeInv, NEW w \in Workers,
           \/ Scan(w) \/ MarkResolving(w) \/ ResolveOk(w) \/ ResolveFail(w)
           \/ ProbeOk(w) \/ ProbeFail(w) \/ Finish(w)
    PROVE  TypeInv'
<1> USE NativeQueueAssumption
<1>0. TypeOK /\ StoreInv(Workers, Chunks, fd, files)
  BY DEF TypeInv
<1>1. UNCHANGED <<count, nextId, started, shutdown, fd, client, files>>
  BY DEF Scan, MarkResolving, ResolveOk, ResolveFail, ProbeOk, ProbeFail, Finish, table
<1>2. pc' \in [Workers -> WorkerPc]
  BY <1>0 DEF TypeOK, WorkerPc, Scan, MarkResolving, ResolveOk, ResolveFail, ProbeOk, ProbeFail,
              Finish
<1>3. at' \in [Workers -> SlotIndex]
  <2>1. Live \subseteq SlotIndex
    BY <1>0 DEF TypeOK, Live, SlotIndex
  <2>2. Waiting \subseteq SlotIndex
    BY <2>1 DEF Waiting
  <2> QED
    BY <1>0, <2>2 DEF TypeOK, Scan, MarkResolving, ResolveOk, ResolveFail, ProbeOk, ProbeFail,
                      Finish
<1>4. budget' \in [{"posts", "ops", "faults"} -> Nat]
  BY <1>0, SpendLemma DEF TypeOK, Scan, MarkResolving, ResolveOk, ResolveFail, ProbeOk, ProbeFail,
                          Finish
<1>5. slots' \in [SlotIndex -> Item] /\ xfer' \in [Workers -> Xfer]
  <2>0. /\ at[w] \in SlotIndex /\ slots[at[w]] \in Item /\ xfer[w] \in Xfer
        /\ \A st \in States : [slots EXCEPT ![at[w]].state = st] \in [SlotIndex -> Item]
        /\ \A u \in UrlValues :
              [slots EXCEPT ![at[w]].resolved = u] \in [SlotIndex -> Item]
        /\ \A p \in PathValues, st \in States :
              [slots EXCEPT ![at[w]].path = p, ![at[w]].state = st] \in [SlotIndex -> Item]
    BY <1>0, SlotLemma
  <2>1. CASE Scan(w)
    BY <1>0, <2>1 DEF Scan, TypeOK, table
  <2>2. CASE MarkResolving(w)
    <3>1. NoXfer \in Xfer /\ slots[at[w]].url \in UrlValues
      BY <2>0 DEF NoXfer, Xfer, Item, UrlValues, PathValues
    <3>2. [NoXfer EXCEPT !.url = slots[at[w]].url] \in Xfer
      BY <3>1 DEF Xfer
    <3>3. "resolving" \in States
      BY DEF States
    <3> QED
      BY <1>0, <2>0, <2>2, <3>2, <3>3 DEF MarkResolving, SetState, TypeOK
  <2>3. CASE ResolveOk(w)
    <3>1. \A u \in {xfer[w].url, slots[at[w]].url} : u \in UrlValues
      BY <2>0 DEF Xfer, Item
    <3>2. PICK u \in UrlValues : /\ slots' = [slots EXCEPT ![at[w]].resolved = u]
                                 /\ xfer' = [xfer EXCEPT ![w].probed = u]
      BY <2>3, <3>1 DEF ResolveOk
    <3>3. xfer' \in [Workers -> Xfer]
      BY <1>0, <3>2 DEF TypeOK, Xfer
    <3> QED
      BY <2>0, <3>2, <3>3
  <2>4. CASE ResolveFail(w) \/ ProbeFail(w)
    <3>1. PICK st \in {"failed", "manual-action-required"} : SetState(w, st)
      BY <2>4 DEF ResolveFail, ProbeFail
    <3>2. st \in States
      BY DEF States
    <3> QED
      BY <1>0, <2>0, <2>4, <3>1, <3>2 DEF ResolveFail, ProbeFail, SetState, TypeOK
  <2>5. CASE ProbeOk(w)
    <3>1. \A u \in UrlValues : PathFor(u) \in PathValues
      BY DEF PathFor, UrlValues, PathValues
    <3>2. \A u \in {xfer[w].probed, slots[at[w]].resolved} : PathFor(u) \in PathValues
      BY <2>0, <3>1 DEF Xfer, Item
    <3>3. PICK p \in PathValues :
            slots' = [slots EXCEPT ![at[w]].path = p, ![at[w]].state = "downloading"]
      BY <2>5, <3>2 DEF ProbeOk
    <3>4. "downloading" \in States
      BY DEF States
    <3> QED
      BY <1>0, <2>0, <2>5, <3>3, <3>4 DEF ProbeOk, TypeOK
  <2>6. CASE Finish(w)
    <3>1. Outcome(xfer[w].rc, slots[at[w]].state) \in States
      BY <2>0 DEF Outcome, States, Xfer, Item
    <3>2. NoXfer \in Xfer
      BY DEF NoXfer, Xfer, UrlValues, PathValues
    <3> QED
      BY <1>0, <2>0, <2>6, <3>1, <3>2 DEF Finish, SetState, TypeOK
  <2> QED
    BY <2>1, <2>2, <2>3, <2>4, <2>5, <2>6
<1> QED
  BY <1>0, <1>1, <1>2, <1>3, <1>4, <1>5 DEF TypeInv, TypeOK

LEMMA TransferTypes ==
    ASSUME TypeInv, NEW w \in Workers,
           \/ Prepare(w) \/ ConnectFail(w) \/ OpenPart(w) \/ Prefix(w) \/ ReadChunk(w)
           \/ CheckStop(w) \/ EndOfBody(w) \/ TransferError(w) \/ RenamePart(w)
           \/ RenameFail(w)
    PROVE  TypeInv'
<1> USE NativeQueueAssumption
<1>0. /\ TypeOK /\ StoreInv(Workers, Chunks, fd, files)
      /\ slots[at[w]] \in Item /\ xfer[w] \in Xfer
      /\ slots[at[w]].path \in PathValues /\ xfer[w].path \in PathValues
  BY SlotLemma DEF TypeInv, Item, Xfer
<1>1. UNCHANGED <<slots, count, nextId, started, shutdown, at, client>>
  BY DEF Prepare, ConnectFail, OpenPart, Prefix, ReadChunk, Receive, CheckStop, EndOfBody,
         TransferError, RenamePart, RenameFail, table
<1>2. pc' \in [Workers -> WorkerPc]
  BY <1>0 DEF TypeOK, WorkerPc, Prepare, ConnectFail, OpenPart, Prefix, ReadChunk, Receive,
              CheckStop, EndOfBody, TransferError, RenamePart, RenameFail
<1>3. budget' \in [{"posts", "ops", "faults"} -> Nat]
  BY <1>0, SpendLemma DEF TypeOK, Prepare, ConnectFail, OpenPart, Prefix, ReadChunk, Receive,
                          CheckStop, EndOfBody, TransferError, RenamePart, RenameFail
<1>4. xfer' \in [Workers -> Xfer]
  <2>1. CASE Prepare(w)
    <3>1. CASE xfer' = [xfer EXCEPT ![w].rc = "error"] \/ xfer' = [xfer EXCEPT ![w].rc = "ok"]
      BY <1>0, <3>1, RcLemma
    <3>2. ASSUME NEW start,
                 start = 0 \/ start = SizeOrZero(files, PartOf(slots[at[w]].path)),
                 xfer' = [xfer EXCEPT ![w].url    = slots[at[w]].resolved,
                                      ![w].path   = slots[at[w]].path,
                                      ![w].total  = IF start < Size THEN start ELSE Size,
                                      ![w].append = start > 0]
          PROVE  xfer' \in [Workers -> Xfer]
      <4>1. files[PartOf(slots[at[w]].path)] \in Contents
        BY <1>0, NamesLemma DEF StoreInv, Contents
      <4>2. start \in Nat
        BY <3>2, <4>1 DEF SizeOrZero, Exists, Contents
      <4>3. (IF start < Size THEN start ELSE Size) \in 0 .. Size /\ (start > 0) \in BOOLEAN
        BY <4>2
      <4> QED
        BY <1>0, <3>2, <4>3 DEF TypeOK, Xfer, Item
    <3> QED
      BY <2>1, <3>1, <3>2 DEF Prepare
  <2>2. CASE Prefix(w) \/ ReadChunk(w)
    <3>1. xfer[w].total + 1 \in 0 .. Size /\ xfer' = [xfer EXCEPT ![w].total = @ + 1]
      BY <1>0, <2>2 DEF Prefix, ReadChunk, Receive, Xfer
    <3> QED
      BY <1>0, <3>1 DEF TypeOK, Xfer
  <2>3. CASE ConnectFail(w) \/ EndOfBody(w) \/ TransferError(w)
    <3>1. xfer' = [xfer EXCEPT ![w].rc = "error"]
      BY <2>3 DEF ConnectFail, EndOfBody, TransferError
    <3> QED
      BY <1>0, <3>1, RcLemma
  <2>4. CASE OpenPart(w) \/ RenameFail(w)
    BY <1>0, <2>4 DEF OpenPart, RenameFail, TypeOK
  <2>5. CASE CheckStop(w) \/ RenamePart(w)
    <3>1. xfer' = xfer \/ \E rc \in {"ok", "stopped"} : xfer' = [xfer EXCEPT ![w].rc = rc]
      BY <2>5 DEF CheckStop, RenamePart
    <3>2. xfer \in [Workers -> Xfer]
      BY <1>0 DEF TypeOK
    <3>3. \A rc \in {"ok", "stopped"} : [xfer EXCEPT ![w].rc = rc] \in [Workers -> Xfer]
      BY <1>0, RcLemma
    <3> QED
      BY <3>1, <3>2, <3>3
  <2> QED
    BY <2>1, <2>2, <2>3, <2>4, <2>5
<1>5. StoreInv(Workers, Chunks, fd, files)'
  <2>1. CASE Prepare(w)
    <3> DEFINE part == PartOf(slots[at[w]].path)
    <3>1. \/ files' = files /\ fd' = fd
          \/ files' = Unlinked(files, part) /\ fd' = AfterUnlink(fd, part)
      BY <2>1 DEF Prepare
    <3>2. StoreInv(Workers, Chunks, AfterUnlink(fd, part), Unlinked(files, part))
      BY <1>0, NamesLemma, UnlinkLemma
    <3> QED
      BY <1>0, <3>1, <3>2
  <2>2. CASE Prefix(w) \/ ReadChunk(w)
    <3>1. /\ xfer[w].append \in BOOLEAN /\ xfer[w].total \in Nat
          /\ xfer[w].url \in UrlValues
          /\ xfer[w].total < Size => xfer[w].total + 1 \in 1 .. Size
      BY <1>0 DEF Xfer
    <3>2. xfer[w].total < Size => <<xfer[w].url, xfer[w].total + 1>> \in Chunks
      BY <3>1 DEF Chunks
    <3> DEFINE chunk == <<xfer[w].url, xfer[w].total + 1>>
    <3>3. xfer[w].total < Size
             => StoreInv(Workers, Chunks, fd,
                         Written(files, fd[w], xfer[w].append, xfer[w].total, chunk))
      <4> HIDE DEF chunk
      <4> QED
        BY <1>0, <3>1, <3>2, ChunksLemma, WriteLemma DEF chunk
    <3> QED
      BY <1>0, <2>2, <3>3 DEF Prefix, ReadChunk, Receive
  <2>3. CASE ConnectFail(w) \/ RenameFail(w)
    BY <1>0, <2>3 DEF ConnectFail, RenameFail
  <2>4. CASE EndOfBody(w) \/ TransferError(w)
    BY <1>0, <2>4, CloseLemma DEF EndOfBody, TransferError
  <2>5. CASE OpenPart(w)
    <3>1. xfer[w].append \in BOOLEAN
      BY <1>0 DEF Xfer
    <3> DEFINE part == PartOf(xfer[w].path)
    <3>2. part \in FileNames
      BY <1>0, NamesLemma
    <3>3. StoreInv(Workers, Chunks, [fd EXCEPT ![w] = part], Opened(files, part, xfer[w].append))
      BY <1>0, <3>1, <3>2, ChunksLemma, OpenLemma
    <3> QED
      BY <2>5, <3>3 DEF OpenPart
  <2>6. CASE CheckStop(w)
    <3> DEFINE part == PartOf(xfer[w].path)
    <3>1. part \in FileNames
      BY <1>0, NamesLemma
    <3>2. StoreInv(Workers, Chunks, AfterUnlink(fd, part), Unlinked(files, part))
      BY <1>0, <3>1, UnlinkLemma
    <3>3. StoreInv(Workers, Chunks, [AfterUnlink(fd, part) EXCEPT ![w] = Detached], Unlinked(files, part))
      BY <3>2, CloseLemma
    <3>4. StoreInv(Workers, Chunks, [fd EXCEPT ![w] = Detached], files)
      BY <1>0, CloseLemma
    <3> QED
      BY <1>0, <2>6, <3>3, <3>4 DEF CheckStop
  <2>7. CASE RenamePart(w)
    <3>1. PartOf(xfer[w].path) # FinalOf(slots[at[w]].path)
      BY DEF PartOf, FinalOf
    <3> QED
      BY <1>0, <2>7, <3>1, NamesLemma, RenameLemma DEF RenamePart
  <2> QED
    BY <2>1, <2>2, <2>3, <2>4, <2>5, <2>6, <2>7
<1>6. fd' \in [Workers -> FileNames \cup {Detached}] /\ files' \in [FileNames -> Contents]
  BY <1>5 DEF StoreInv, Contents
<1> QED
  BY <1>0, <1>1, <1>2, <1>3, <1>4, <1>5, <1>6 DEF TypeInv, TypeOK

LEMMA SegmentTypes ==
    ASSUME TypeInv, NEW w \in Workers,
           \/ Allocate(w) \/ SegmentStop(w) \/ SegmentsEnd(w) \/ SegmentsFail(w)
           \/ SegmentsRename(w)
    PROVE  TypeInv'
<1> USE NativeQueueAssumption
<1> DEFINE part == PartOf(xfer[w].path)
<1>0. /\ TypeOK /\ StoreInv(Workers, Chunks, fd, files)
      /\ slots[at[w]] \in Item /\ xfer[w] \in Xfer
      /\ slots[at[w]].path \in PathValues /\ part \in FileNames
  BY SlotLemma, NamesLemma DEF TypeInv, Item, Xfer
<1>1. UNCHANGED <<slots, count, nextId, started, shutdown, at, client>>
  BY DEF Allocate, SegmentStop, SegmentsEnd, SegmentsFail, SegmentsRename, table
<1>2. pc' \in [Workers -> WorkerPc]
  BY <1>0 DEF TypeOK, WorkerPc, Allocate, SegmentStop, SegmentsEnd, SegmentsFail, SegmentsRename
<1>3. budget' \in [{"posts", "ops", "faults"} -> Nat]
  BY <1>0, SpendLemma DEF TypeOK, Allocate, SegmentStop, SegmentsEnd, SegmentsFail,
                          SegmentsRename
<1>4. xfer' \in [Workers -> Xfer]
  <2>1. xfer' = xfer \/ \E rc \in {"ok", "stopped"} : xfer' = [xfer EXCEPT ![w].rc = rc]
    BY DEF Allocate, SegmentStop, SegmentsEnd, SegmentsFail, SegmentsRename
  <2>2. xfer \in [Workers -> Xfer]
    BY <1>0 DEF TypeOK
  <2>3. \A rc \in {"ok", "stopped"} : [xfer EXCEPT ![w].rc = rc] \in [Workers -> Xfer]
    BY <1>0, RcLemma
  <2> QED
    BY <2>1, <2>2, <2>3
<1>5. StoreInv(Workers, Chunks, fd, files)'
  <2>1. CASE Allocate(w)
    <3>1. Allocated \in Seq(Chunks)
      BY DEF Allocated, Chunks
    <3> QED
      BY <1>0, <2>1, <3>1, AllocateLemma DEF Allocate
  <2>2. CASE SegmentsEnd(w)
    <3>1. CASE fd[w] = Detached
      BY <1>0, <2>2, <3>1, CloseLemma DEF SegmentsEnd
    <3>2. CASE fd[w] # Detached
      <4> DEFINE whole == [i \in 1 .. Size |-> <<xfer[w].url, i>>]
      <4>1. xfer[w].url \in UrlValues
        BY <1>0 DEF Xfer
      <4>2. \A i \in 1 .. Size : <<xfer[w].url, i>> \in Chunks
        BY <4>1 DEF Chunks
      <4>3. whole \in Seq(Chunks)
        BY <4>2
      <4>4. fd[w] \in FileNames
        BY <1>0, <3>2 DEF StoreInv
      <4>5. files' = [files EXCEPT ![fd[w]] = whole] /\ fd' = [fd EXCEPT ![w] = Detached]
        BY <2>2, <3>2 DEF SegmentsEnd
      <4> HIDE DEF whole
      <4> QED
        BY <1>0, <4>3, <4>4, <4>5, AllocateLemma
    <3> QED
      BY <3>1, <3>2
  <2>3. CASE SegmentStop(w) \/ SegmentsFail(w)
    <3>1. StoreInv(Workers, Chunks, AfterUnlink(fd, part), Unlinked(files, part))
      BY <1>0, UnlinkLemma
    <3>2. StoreInv(Workers, Chunks, [AfterUnlink(fd, part) EXCEPT ![w] = Detached], Unlinked(files, part))
      BY <3>1, CloseLemma
    <3> QED
      BY <1>0, <2>3, <3>2 DEF SegmentStop, SegmentsFail
  <2>4. CASE SegmentsRename(w)
    <3>1. part # FinalOf(slots[at[w]].path)
      BY DEF PartOf, FinalOf
    <3> QED
      BY <1>0, <2>4, <3>1, NamesLemma, RenameLemma DEF SegmentsRename
  <2> QED
    BY <2>1, <2>2, <2>3, <2>4
<1>6. fd' \in [Workers -> FileNames \cup {Detached}] /\ files' \in [FileNames -> Contents]
  BY <1>5 DEF StoreInv, Contents
<1> QED
  BY <1>0, <1>1, <1>2, <1>3, <1>4, <1>5, <1>6 DEF TypeInv, TypeOK

LEMMA ClientTypes ==
    ASSUME TypeInv, NEW c \in Clients, ClientStep(c)
    PROVE  TypeInv'
<1> USE NativeQueueAssumption
<1>0. /\ TypeOK /\ StoreInv(Workers, Chunks, fd, files)
      /\ Live \subseteq SlotIndex
      /\ \A i \in SlotIndex : slots[i] \in Item
  BY DEF TypeInv, TypeOK, Live, SlotIndex
<1>1. budget' \in [{"posts", "ops", "faults"} -> Nat]
  BY <1>0, SpendLemma DEF TypeOK, ClientStep, Post, StartWorker, StartFail, Request, Pause, Resume,
                          Cancel, DeleteActive, DeleteInactive, DeleteUnlink, Shutdown
<1>2. /\ UNCHANGED <<at, xfer>>
      /\ pc' \in [Workers -> WorkerPc]
      /\ started' \in BOOLEAN /\ shutdown' \in BOOLEAN
  BY <1>0 DEF TypeOK, ClientStep, Post, StartWorker, StartFail, Request, Pause, Resume, Cancel,
              DeleteActive, DeleteInactive, DeleteUnlink, Shutdown, threads, WorkerPc
<1>3. count' \in 0 .. MaxDownloads /\ nextId' \in Nat \ {0}
  <2>1. CASE Post(c)
    BY <1>0, <2>1 DEF Post, TypeOK
  <2>2. CASE DeleteInactive(c)
    BY <1>0, <2>2 DEF DeleteInactive, TypeOK, Live
  <2>3. CASE ~Post(c) /\ ~DeleteInactive(c)
    BY <1>0, <2>3 DEF TypeOK, ClientStep, StartWorker, StartFail, Pause, Resume, Cancel,
                      DeleteActive, DeleteUnlink, Shutdown, table
  <2> QED
    BY <2>1, <2>2, <2>3
<1>4. slots' \in [SlotIndex -> Item]
  <2>1. CASE Post(c)
    <3>1. count + 1 \in SlotIndex
      BY <1>0, <2>1 DEF Post, TypeOK, SlotIndex
    <3>2. PICK u \in Urls :
            slots' = [slots EXCEPT ![count + 1] =
                        [EmptyItem EXCEPT !.id = nextId, !.url = u, !.state = "waiting"]]
      BY <2>1 DEF Post
    <3>3. [EmptyItem EXCEPT !.id = nextId, !.url = u, !.state = "waiting"] \in Item
      BY <1>0 DEF EmptyItem, Item, States, UrlValues, PathValues, TypeOK
    <3> QED
      BY <1>0, <3>1, <3>2, <3>3 DEF TypeOK
  <2>2. CASE Pause(c) \/ Resume(c) \/ Cancel(c) \/ DeleteActive(c)
    <3>1. PICK i \in SlotIndex, st \in {"paused", "waiting", "cancelled"} :
            slots' = [slots EXCEPT ![i].state = st]
      BY <1>0, <2>2 DEF Pause, Resume, Cancel, DeleteActive
    <3>2. st \in States
      BY DEF States
    <3> QED
      BY <1>0, <3>1, <3>2 DEF TypeOK, Item
  <2>3. CASE DeleteInactive(c)
    <3>1. PICK i \in SlotIndex : slots' = ShiftedOut(i)
      BY <1>0, <2>3 DEF DeleteInactive
    <3>2. \A j \in i .. count - 1 : j + 1 \in SlotIndex
      BY <1>0, <3>1 DEF TypeOK, SlotIndex
    <3> QED
      BY <1>0, <3>1, <3>2 DEF ShiftedOut
  <2>4. CASE StartWorker(c) \/ StartFail(c) \/ DeleteUnlink(c) \/ Shutdown(c)
    BY <1>0, <2>4 DEF StartWorker, StartFail, DeleteUnlink, Shutdown, table, TypeOK
  <2> QED
    BY <2>1, <2>2, <2>3, <2>4 DEF ClientStep
<1>5. client' \in [Clients -> ClientStates]
  <2>1. Idle \in ClientStates
    BY DEF Idle, ClientStates, PathValues
  <2>2. CASE Post(c)
    <3>1. client[c] \in [pc : {"idle", "starting"}, path : PathValues]
      BY <1>0, <2>2 DEF Post, TypeOK, ClientStates
    <3>2. [client[c] EXCEPT !.pc = "starting"] \in ClientStates
      BY <3>1 DEF ClientStates
    <3> QED
      BY <1>0, <2>2, <3>2 DEF Post, TypeOK
  <2>3. CASE DeleteActive(c) \/ DeleteInactive(c)
    <3>1. PICK i \in SlotIndex : ThenUnlink(c, slots[i].path)
      BY <1>0, <2>3 DEF DeleteActive, DeleteInactive
    <3>2. slots[i].path # NoPath =>
            [pc |-> "unlinking", path |-> slots[i].path] \in ClientStates
      BY <1>0 DEF Item, PathValues, ClientStates
    <3> QED
      BY <1>0, <3>1, <3>2 DEF ThenUnlink, TypeOK
  <2>4. CASE StartWorker(c) \/ StartFail(c) \/ DeleteUnlink(c)
    BY <1>0, <2>1, <2>4 DEF StartWorker, StartFail, DeleteUnlink, TypeOK
  <2>5. CASE Pause(c) \/ Resume(c) \/ Cancel(c) \/ Shutdown(c)
    BY <1>0, <2>5 DEF Pause, Resume, Cancel, Shutdown, TypeOK
  <2> QED
    BY <2>2, <2>3, <2>4, <2>5 DEF ClientStep
<1>6. StoreInv(Workers, Chunks, fd, files)'
  <2>1. CASE Cancel(c)
    <3>1. PICK i \in SlotIndex :
            /\ files' = IF slots[i].path = NoPath THEN files
                        ELSE Unlinked(files, PartOf(slots[i].path))
            /\ fd' = IF slots[i].path = NoPath THEN fd
                     ELSE AfterUnlink(fd, PartOf(slots[i].path))
      BY <1>0, <2>1 DEF Cancel
    <3>2. PartOf(slots[i].path) \in FileNames
      BY <1>0, NamesLemma DEF Item
    <3> QED
      BY <1>0, <3>1, <3>2, UnlinkLemma
  <2>2. CASE DeleteUnlink(c)
    <3> DEFINE p == client[c].path
    <3>1. p \in PathValues
      BY <1>0 DEF TypeOK, ClientStates, PathValues
    <3>2. PartOf(p) \in FileNames /\ FinalOf(p) \in FileNames
      BY <3>1, NamesLemma
    <3>3. StoreInv(Workers, Chunks, AfterUnlink(fd, PartOf(p)), Unlinked(files, PartOf(p)))
      BY <1>0, <3>2, UnlinkLemma
    <3>4. StoreInv(Workers, Chunks, AfterUnlink(AfterUnlink(fd, PartOf(p)), FinalOf(p)),
                   Unlinked(Unlinked(files, PartOf(p)), FinalOf(p)))
      BY <3>2, <3>3, UnlinkLemma
    <3> QED
      BY <2>2, <3>4 DEF DeleteUnlink
  <2>3. CASE ~Cancel(c) /\ ~DeleteUnlink(c)
    <3>1. UNCHANGED <<fd, files>>
      BY <2>3 DEF ClientStep, Post, StartWorker, StartFail, Pause, Resume, DeleteActive,
                  DeleteInactive, Shutdown
    <3> QED
      BY <1>0, <3>1
  <2> QED
    BY <2>1, <2>2, <2>3
<1>7. fd' \in [Workers -> FileNames \cup {Detached}] /\ files' \in [FileNames -> Contents]
  BY <1>6 DEF StoreInv, Contents
<1> QED
  BY <1>0, <1>1, <1>2, <1>3, <1>4, <1>5, <1>6, <1>7 DEF TypeInv, TypeOK

LEMMA RestartTypes == TypeInv /\ Restart => TypeInv'
<1> SUFFICES ASSUME TypeInv, Restart PROVE TypeInv'
  OBVIOUS
<1> USE NativeQueueAssumption
<1>0. TypeOK /\ StoreInv(Workers, Chunks, fd, files)
  BY DEF TypeInv
<1>1. EmptyItem \in Item /\ NoXfer \in Xfer /\ Idle \in ClientStates
  BY DEF EmptyItem, Item, States, UrlValues, PathValues, NoXfer, Xfer, Idle, ClientStates
<1>2. StoreInv(Workers, Chunks, fd, files)'
  BY <1>0 DEF Restart, StoreInv
<1>3. budget' \in [{"posts", "ops", "faults"} -> Nat]
  BY <1>0, SpendLemma DEF Restart
<1>4. slots' \in [SlotIndex -> Item] /\ at' \in [Workers -> SlotIndex]
  BY <1>1 DEF Restart, SlotIndex
<1>5. /\ pc' \in [Workers -> WorkerPc] /\ xfer' \in [Workers -> Xfer]
      /\ client' \in [Clients -> ClientStates]
  BY <1>1 DEF Restart, WorkerPc
<1>6. /\ count' \in 0 .. MaxDownloads /\ nextId' \in Nat \ {0}
      /\ started' \in BOOLEAN /\ shutdown' \in BOOLEAN
  <2>1. count' = 0 /\ nextId' = 1 /\ started' = FALSE /\ shutdown' = FALSE
    BY DEF Restart
  <2>2. 0 \in 0 .. MaxDownloads
    OBVIOUS
  <2>3. nextId' \in Nat \ {0}
    BY <2>1
  <2> QED
    BY <2>1, <2>2, <2>3, Zenon
<1> QED
  BY <1>2, <1>3, <1>4, <1>5, <1>6 DEF TypeInv, TypeOK, StoreInv, Contents

LEMMA TypeStep == TypeInv /\ [Next]_vars => TypeInv'
<1> SUFFICES ASSUME TypeInv, [Next]_vars PROVE TypeInv'
  OBVIOUS
<1>1. CASE \E w \in Workers : WorkerStep(w)
  BY <1>1, ResolveTypes, TransferTypes, SegmentTypes DEF WorkerStep
<1>2. CASE \E c \in Clients : ClientStep(c)
  BY <1>2, ClientTypes
<1>3. CASE Restart
  BY <1>3, RestartTypes
<1>4. CASE UNCHANGED vars
  <2>1. UNCHANGED <<slots, count, nextId, started, shutdown, pc, at, xfer, fd, client, files,
                    budget>>
    BY <1>4 DEF vars
  <2> QED
    BY <2>1 DEF TypeInv, TypeOK, StoreInv
<1> QED
  BY <1>1, <1>2, <1>3, <1>4 DEF Next

LEMMA TypeInvariance == Spec => []TypeInv
<1> QED
  BY InitTypeInv, TypeStep, PTL DEF Spec

\* Whatever clients post, cancel and delete while workers run, the table's count
\* stays within the table, item pointers stay inside it, and every descriptor
\* refers to a file that exists.
THEOREM TypeCorrect == Spec => []TypeOK
<1>1. TypeInv => TypeOK
  BY DEF TypeInv
<1> QED
  BY TypeInvariance, <1>1, PTL

(***************************************************************************)
(* Ids                                                                     *)
(***************************************************************************)
IdsKept == /\ UNCHANGED <<count, nextId>>
           /\ \A i \in SlotIndex : slots'[i].id = slots[i].id

LEMMA WorkersKeepIds ==
    ASSUME TypeOK, NEW w \in Workers, WorkerStep(w)
    PROVE  IdsKept
<1>0. at[w] \in SlotIndex /\ slots \in [SlotIndex -> Item]
  BY DEF TypeOK
<1>1. CASE MarkResolving(w) \/ ResolveFail(w) \/ ProbeFail(w) \/ Finish(w)
  <2>1. PICK st : slots' = [slots EXCEPT ![at[w]].state = st]
    BY <1>1 DEF MarkResolving, ResolveFail, ProbeFail, Finish, SetState
  <2> QED
    BY <1>0, <1>1, <2>1 DEF MarkResolving, ResolveFail, ProbeFail, Finish, IdsKept, Item
<1>2. CASE ResolveOk(w) \/ ProbeOk(w)
  BY <1>0, <1>2 DEF ResolveOk, ProbeOk, IdsKept, Item
<1>3. CASE UNCHANGED table
  BY <1>3 DEF table, IdsKept
<1>4. \/ MarkResolving(w) \/ ResolveFail(w) \/ ProbeFail(w) \/ Finish(w)
      \/ ResolveOk(w) \/ ProbeOk(w) \/ UNCHANGED table
  BY DEF WorkerStep, Scan, Prepare, ConnectFail, OpenPart, Prefix, ReadChunk, Receive, CheckStop,
         EndOfBody, TransferError, RenamePart, RenameFail, Allocate, SegmentStop, SegmentsEnd,
         SegmentsFail, SegmentsRename
<1> QED
  BY <1>1, <1>2, <1>3, <1>4

LEMMA IdsKeptLemma == TypeOK /\ IdsAscending /\ IdsKept => IdsAscending'
<1> SUFFICES ASSUME TypeOK, IdsAscending, IdsKept PROVE IdsAscending'
  OBVIOUS
<1>1. Live' = Live /\ nextId' = nextId
  BY DEF IdsKept, Live
<1>2. Live \subseteq SlotIndex
  BY NativeQueueAssumption DEF TypeOK, Live, SlotIndex
<1>3. \A i \in Live : slots'[i].id = slots[i].id
  BY <1>2 DEF IdsKept
<1> QED
  BY <1>1, <1>3 DEF IdsAscending

LEMMA IdsStep == TypeOK /\ IdsAscending /\ [Next]_vars => IdsAscending'
<1> SUFFICES ASSUME TypeOK, IdsAscending, [Next]_vars PROVE IdsAscending'
  OBVIOUS
<1>0. /\ count \in 0 .. MaxDownloads /\ nextId \in Nat
      /\ Live \subseteq SlotIndex
      /\ slots \in [SlotIndex -> Item]
      /\ \A i \in SlotIndex : slots[i].id \in Nat
  BY NativeQueueAssumption DEF TypeOK, Live, SlotIndex, Item
<1>1. CASE \E w \in Workers : WorkerStep(w)
  BY <1>1, WorkersKeepIds, IdsKeptLemma
<1>2. ASSUME NEW c \in Clients, ClientStep(c) PROVE IdsAscending'
  <2>1. CASE Post(c)
    <3>1. PICK u \in Urls :
            slots' = [slots EXCEPT ![count + 1] =
                        [EmptyItem EXCEPT !.id = nextId, !.url = u, !.state = "waiting"]]
      BY <2>1 DEF Post
    <3>2. /\ count + 1 \in SlotIndex /\ count' = count + 1 /\ nextId' = nextId + 1
      BY <1>0, <2>1, NativeQueueAssumption DEF Post, SlotIndex
    <3>3. slots'[count + 1].id = nextId
      BY <1>0, <3>1, <3>2 DEF EmptyItem
    <3>4. \A i \in Live : slots'[i] = slots[i]
      BY <1>0, <3>1 DEF Live
    <3>5. Live' = Live \cup {count + 1}
      BY <1>0, <3>2 DEF Live
    <3>6. \A i \in Live : i < count + 1 /\ slots[i].id < nextId
      BY <1>0 DEF Live, IdsAscending
    <3>7. ~(count + 1 \in Live) /\ \A i \in Live : i \in Nat /\ slots[i].id \in Nat
      BY <1>0 DEF Live
    <3>8. \A i \in Live' : slots'[i].id < nextId'
      BY <1>0, <3>2, <3>3, <3>4, <3>5, <3>6, <3>7
    <3>9. ASSUME NEW i \in Live', NEW j \in Live', i < j
          PROVE  slots'[i].id < slots'[j].id
      <4>1. i \in Live
        BY <1>0, <3>5, <3>6, <3>7, <3>9
      <4>2. CASE j \in Live
        BY <3>4, <3>9, <4>1, <4>2 DEF IdsAscending
      <4>3. CASE j = count + 1
        BY <3>3, <3>4, <3>6, <4>1, <4>3
      <4> QED
        BY <3>5, <4>2, <4>3
    <3> QED
      BY <3>8, <3>9 DEF IdsAscending
  <2>2. CASE DeleteInactive(c)
    <3>1. PICK i \in Live : slots' = ShiftedOut(i)
      BY <2>2 DEF DeleteInactive
    <3>2. count' = count - 1 /\ nextId' = nextId
      BY <2>2 DEF DeleteInactive
    <3>3. \A j \in Live' : /\ j \in SlotIndex /\ j \in Live /\ j + 1 \in Live
                           /\ slots'[j] = IF i <= j THEN slots[j + 1] ELSE slots[j]
      BY <1>0, <3>1, <3>2 DEF ShiftedOut, Live, SlotIndex
    <3> QED
      BY <1>0, <3>2, <3>3 DEF IdsAscending, Live
  <2>3. CASE Pause(c) \/ Resume(c) \/ Cancel(c) \/ DeleteActive(c)
    <3>1. PICK i \in SlotIndex, st \in {"paused", "waiting", "cancelled"} :
            slots' = [slots EXCEPT ![i].state = st]
      BY <1>0, <2>3 DEF Pause, Resume, Cancel, DeleteActive
    <3>2. IdsKept
      BY <1>0, <2>3, <3>1 DEF Pause, Resume, Cancel, DeleteActive, IdsKept, Item
    <3> QED
      BY <3>2, IdsKeptLemma
  <2>4. CASE StartWorker(c) \/ StartFail(c) \/ DeleteUnlink(c) \/ Shutdown(c)
    <3>1. IdsKept
      BY <2>4 DEF StartWorker, StartFail, DeleteUnlink, Shutdown, table, IdsKept
    <3> QED
      BY <3>1, IdsKeptLemma
  <2> QED
    BY <1>2, <2>1, <2>2, <2>3, <2>4 DEF ClientStep
<1>3. CASE Restart
  BY <1>3 DEF Restart, IdsAscending, Live
<1>4. CASE UNCHANGED vars
  BY <1>4, IdsKeptLemma DEF vars, IdsKept
<1> QED
  BY <1>1, <1>2, <1>3, <1>4 DEF Next

\* Appending and shifting under the lock keep ids strictly increasing along the
\* table, so handle_download_action's first match is the only match.
THEOREM AscendingIds == Spec => []IdsAscending
<1>1. Init => IdsAscending
  BY DEF Init, IdsAscending, Live
<1>2. TypeInv => TypeOK
  BY DEF TypeInv
<1> QED
  BY TypeInvariance, IdsStep, <1>1, <1>2, PTL DEF Spec

(***************************************************************************)
(* One worker, when there is one handler thread                            *)
(***************************************************************************)
OneClient == \A c, d \in Clients : c = d

WorkerInv ==
    /\ \A c \in Clients : client[c].pc = "starting" => ~started
    /\ ~started => \A w \in Workers : pc[w] = "absent"
    /\ \A v, w \in Workers : pc[v] # "absent" /\ pc[w] # "absent" => v = w

LEMMA WorkerInvStep ==
    ASSUME OneClient, TypeOK, WorkerInv, [Next]_vars
    PROVE  WorkerInv'
<1>0. pc \in [Workers -> WorkerPc] /\ client \in [Clients -> ClientStates]
  BY DEF TypeOK
<1>1. ASSUME NEW w \in Workers, WorkerStep(w) PROVE WorkerInv'
  <2>1. UNCHANGED <<started, client>>
    BY <1>1 DEF WorkerStep, Scan, MarkResolving, ResolveOk, ResolveFail, ProbeOk, ProbeFail,
                Prepare, ConnectFail, OpenPart, Prefix, ReadChunk, Receive, CheckStop, EndOfBody,
                TransferError, RenamePart, RenameFail, Allocate, SegmentStop, SegmentsEnd,
         SegmentsFail, SegmentsRename, Finish
  <2>2. pc[w] # "absent" /\ \A v \in Workers : v # w => pc'[v] = pc[v]
    BY <1>0, <1>1 DEF WorkerStep, Scan, MarkResolving, ResolveOk, ResolveFail, ProbeOk, ProbeFail,
                Prepare, ConnectFail, OpenPart, Prefix, ReadChunk, Receive, CheckStop, EndOfBody,
                TransferError, RenamePart, RenameFail, Allocate, SegmentStop, SegmentsEnd,
         SegmentsFail, SegmentsRename, Finish
  <2> QED
    BY <2>1, <2>2 DEF WorkerInv
<1>2. ASSUME NEW c \in Clients, ClientStep(c) PROVE WorkerInv'
  <2>1. CASE Post(c)
    <3>1. /\ UNCHANGED <<pc, started>>
          /\ client' = IF started THEN client ELSE [client EXCEPT ![c].pc = "starting"]
      BY <2>1 DEF Post, threads
    <3> QED
      BY <1>0, <3>1 DEF WorkerInv
  <2>2. CASE StartWorker(c)
    <3>1. started' = TRUE /\ client' = [client EXCEPT ![c] = Idle]
          /\ \E w \in Workers : pc' = [pc EXCEPT ![w] = "scan"]
      BY <2>2 DEF StartWorker
    <3>2. \A w \in Workers : pc[w] = "absent"
      BY <2>2 DEF StartWorker, WorkerInv
    <3>3. \A d \in Clients : client'[d].pc # "starting"
      BY <1>0, <3>1 DEF OneClient, Idle
    <3> QED
      BY <1>0, <3>1, <3>2, <3>3 DEF WorkerInv
  <2>3. CASE StartFail(c) \/ DeleteUnlink(c)
    <3>1. UNCHANGED <<pc, started>> /\ client' = [client EXCEPT ![c] = Idle]
      BY <2>3 DEF StartFail, DeleteUnlink, threads
    <3> QED
      BY <1>0, <3>1 DEF WorkerInv, Idle
  <2>4. CASE DeleteActive(c) \/ DeleteInactive(c)
    <3>1. PICK p : ThenUnlink(c, p)
      BY <2>4 DEF DeleteActive, DeleteInactive
    <3>2. UNCHANGED <<pc, started>>
      BY <2>4 DEF DeleteActive, DeleteInactive, threads
    <3> QED
      BY <1>0, <3>1, <3>2 DEF ThenUnlink, WorkerInv
  <2>5. CASE Pause(c) \/ Resume(c) \/ Cancel(c) \/ Shutdown(c)
    <3>1. UNCHANGED <<pc, started, client>>
      BY <2>5 DEF Pause, Resume, Cancel, Shutdown, threads
    <3> QED
      BY <3>1 DEF WorkerInv
  <2> QED
    BY <1>2, <2>1, <2>2, <2>3, <2>4, <2>5 DEF ClientStep
<1>3. CASE Restart
  BY <1>3 DEF Restart, WorkerInv, Idle
<1>4. CASE UNCHANGED vars
  BY <1>4 DEF vars, WorkerInv
<1> QED
  BY <1>1, <1>2, <1>3, <1>4 DEF Next

LEMMA WorkerInvariance ==
    ASSUME OneClient
    PROVE  Spec => []WorkerInv
<1>1. Init => WorkerInv
  BY DEF Init, WorkerInv, Idle
<1>2. TypeInv => TypeOK
  BY DEF TypeInv
<1>3. TypeOK /\ WorkerInv /\ [Next]_vars => WorkerInv'
  BY WorkerInvStep
<1> QED
  BY TypeInvariance, <1>1, <1>2, <1>3, PTL DEF Spec

\* If requests are handled one at a time there is one worker at most.  The
\* hypothesis is needed: with two handlers in new_download and start_worker at
\* once it fails (run native_two_posts).
THEOREM OneClientOneWorker ==
    ASSUME OneClient
    PROVE  Spec => []SingleWorker
<1>1. WorkerInv => SingleWorker
  BY DEF WorkerInv, SingleWorker, Running
<1> QED
  BY WorkerInvariance, <1>1, PTL

(***************************************************************************)
(* What the theorems below suppose of a behaviour, where the code promises *)
(* nothing: there is one worker (OneClientOneWorker; run native_two_posts  *)
(* shows two), a worker's pointer leads to the item it was taken for, and  *)
(* nobody unlinks a .part file between the look at its length and the open.*)
(* NoDelete and NoCancel suppose that a request is not made at all.        *)
(***************************************************************************)
NoDelete == "delete" \notin Ops
NoCancel == "cancel" \notin Ops

PointersHold ==
    \A w \in Workers : Holding(w) /\ pc'[w] # "absent" =>
        at[w] \in Live' /\ slots'[at[w]].id = slots[at[w]].id

MeasuredStays ==
    \A w \in Workers : pc[w] = "connect" /\ xfer[w].append /\ pc'[w] = "connect" =>
        Exists(files', PartOf(xfer[w].path))

\* No two items of the table download to the same file.
NamesApart ==
    \A i, j \in Live : NameOf[slots[i].url] = NameOf[slots[j].url] => i = j

\* A DELETE that leaves the pointers right is one of an item behind those that
\* workers are on: these do not move.
LEMMA PointersLemma ==
    ASSUME TypeOK, IdsAscending, PointersHold, NEW i \in Live, slots' = ShiftedOut(i),
           count' = count - 1, pc' = pc, NEW w \in Workers, Holding(w)
    PROVE  at[w] \in Live' /\ at[w] < i /\ slots'[at[w]] = slots[at[w]]
<1>0. /\ count \in Nat /\ Live \subseteq SlotIndex /\ i \in Nat
      /\ \A j \in Live : slots[j].id \in Nat
  BY NativeQueueAssumption DEF TypeOK, Live, SlotIndex, Item
<1>1. at[w] \in Live' /\ slots'[at[w]].id = slots[at[w]].id
  BY DEF PointersHold, Holding
<1>2. at[w] \in Live /\ at[w] + 1 \in Live /\ at[w] \in Nat /\ at[w] < count
  BY <1>0, <1>1 DEF Live
<1>3. slots'[at[w]] = IF at[w] \in i .. count - 1 THEN slots[at[w] + 1] ELSE slots[at[w]]
  BY <1>0, <1>2 DEF ShiftedOut
<1>4. slots[at[w]].id < slots[at[w] + 1].id
  BY <1>2 DEF IdsAscending
<1>5. at[w] \notin i .. count - 1
  BY <1>0, <1>1, <1>2, <1>3, <1>4
<1> QED
  BY <1>0, <1>1, <1>2, <1>3, <1>5

(***************************************************************************)
(* Active items have a worker                                              *)
(***************************************************************************)
\* Where there is no thread, or no longer.
Gone == {"absent", "stopped"}

ActiveInv ==
    /\ ActiveHasWorker
    /\ \A w \in Workers : pc[w] = "finish" /\ xfer[w].rc = "stopped"
                             => slots[at[w]].state \notin Active
    /\ \A w \in Workers : pc[w] = "rename" => xfer[w].rc = "error"

LEMMA ActiveWorkerStep ==
    ASSUME TypeOK, SingleWorker, ActiveInv, NEW w \in Workers, WorkerStep(w)
    PROVE  ActiveInv'
<1>0. /\ pc \in [Workers -> WorkerPc] /\ at \in [Workers -> SlotIndex]
      /\ xfer \in [Workers -> Xfer] /\ slots \in [SlotIndex -> Item]
      /\ Live \subseteq SlotIndex
  BY NativeQueueAssumption DEF TypeOK, Live, SlotIndex
<1>1. pc[w] \notin Gone /\ \A v \in Workers : v # w => pc[v] \in Gone
  BY DEF SingleWorker, Running, Gone, WorkerStep, Scan, MarkResolving, ResolveOk, ResolveFail,
       ProbeOk, ProbeFail, Prepare, ConnectFail, OpenPart, Prefix, ReadChunk, Receive,
       CheckStop, EndOfBody, TransferError, RenamePart, RenameFail, Allocate, SegmentStop,
       SegmentsEnd, SegmentsFail, SegmentsRename, Finish
<1>2. \A v \in Workers : v # w => pc'[v] \in Gone
  BY <1>0, <1>1 DEF WorkerStep, Scan, MarkResolving, ResolveOk, ResolveFail, ProbeOk, ProbeFail,
         Prepare, ConnectFail, OpenPart, Prefix, ReadChunk, Receive, CheckStop, EndOfBody,
         TransferError, RenamePart, RenameFail, Allocate, SegmentStop, SegmentsEnd,
         SegmentsFail, SegmentsRename, Finish
\* Only the slot w is on can be active, before and after.
<1>3. \A i \in Live : slots[i].state \in Active => Holding(w) /\ i = at[w]
  BY <1>0, <1>1 DEF ActiveInv, ActiveHasWorker, Held, Holding, Gone
<1>4. SUFFICES
        /\ \A i \in Live' : slots'[i].state \in Active => Holding(w)' /\ i = at'[w]
        /\ pc'[w] = "finish" /\ xfer'[w].rc = "stopped" => slots'[at'[w]].state \notin Active
        /\ pc'[w] = "rename" => xfer'[w].rc = "error"
  BY <1>2 DEF ActiveInv, ActiveHasWorker, Held, Gone
<1>5. Live' = Live
  BY DEF Live, WorkerStep, Scan, MarkResolving, ResolveOk, ResolveFail, ProbeOk, ProbeFail,
         Prepare, ConnectFail, OpenPart, Prefix, ReadChunk, Receive, CheckStop, EndOfBody,
         TransferError, RenamePart, RenameFail, Allocate, SegmentStop, SegmentsEnd,
         SegmentsFail, SegmentsRename, Finish, table
<1>6. CASE Scan(w)
  BY <1>0, <1>3, <1>5, <1>6 DEF Scan, table, Holding
<1>7. CASE MarkResolving(w)
  BY <1>0, <1>3, <1>5, <1>7 DEF MarkResolving, SetState, Holding, Item
<1>8. CASE ResolveOk(w)
  BY <1>0, <1>3, <1>5, <1>8 DEF ResolveOk, Holding, Item
<1>9. CASE ResolveFail(w) \/ ProbeFail(w)
  <2>1. PICK st \in {"failed", "manual-action-required"} :
          slots' = [slots EXCEPT ![at[w]].state = st]
    BY <1>9 DEF ResolveFail, ProbeFail, SetState
  <2>2. pc'[w] = "scan" /\ at' = at
    BY <1>0, <1>9 DEF ResolveFail, ProbeFail
  <2> QED
    BY <1>0, <1>3, <1>5, <2>1, <2>2 DEF Active, Item
<1>10. CASE ProbeOk(w)
  <2>1. PICK p : slots' = [slots EXCEPT ![at[w]].path = p, ![at[w]].state = "downloading"]
    BY <1>10 DEF ProbeOk
  <2>2. pc'[w] = "prepare" /\ at' = at
    BY <1>0, <1>10 DEF ProbeOk
  <2> QED
    BY <1>0, <1>3, <1>5, <2>1, <2>2 DEF Holding, Item
<1>11. CASE Finish(w)
  <2>1. Outcome(xfer[w].rc, slots[at[w]].state) \notin Active
    <3>1. xfer[w].rc \in {"ok", "stopped", "error"}
      BY <1>0 DEF Xfer
    <3>2. xfer[w].rc = "stopped" => slots[at[w]].state \notin Active
      BY <1>11 DEF ActiveInv, Finish
    <3> QED
      BY <3>1, <3>2 DEF Outcome, Active
  <2>2. pc'[w] = "scan" /\ at' = at
    BY <1>0, <1>11 DEF Finish
  <2> QED
    BY <1>0, <1>3, <1>5, <1>11, <2>1, <2>2 DEF Finish, SetState, Item
<1>12. CASE Allocate(w) \/ SegmentStop(w) \/ SegmentsEnd(w) \/ SegmentsFail(w) \/ SegmentsRename(w)
  <2>1. slots' = slots /\ at' = at /\ Holding(w)'
    BY <1>0, <1>12 DEF Allocate, SegmentStop, SegmentsEnd, SegmentsFail, SegmentsRename, table,
                       Holding
  <2>2. /\ pc'[w] # "rename"
        /\ pc'[w] = "finish" /\ xfer'[w].rc = "stopped" => slots[at[w]].state \notin Active
    BY <1>0, <1>12 DEF Allocate, SegmentStop, SegmentsEnd, SegmentsFail, SegmentsRename, Active,
                       Xfer
  <2> QED
    BY <1>3, <1>5, <2>1, <2>2
<1>13. CASE \/ Prepare(w) \/ ConnectFail(w) \/ OpenPart(w) \/ Prefix(w) \/ ReadChunk(w)
            \/ CheckStop(w) \/ EndOfBody(w) \/ TransferError(w) \/ RenamePart(w)
            \/ RenameFail(w)
  <2>1. /\ slots' = slots /\ at' = at
        /\ Holding(w)'
    BY <1>0, <1>13 DEF Prepare, ConnectFail, OpenPart, Prefix, ReadChunk, Receive, CheckStop,
                       EndOfBody, TransferError, RenamePart, RenameFail, table, Holding
  <2>2. /\ pc'[w] = "finish" /\ xfer'[w].rc = "stopped" => slots[at[w]].state \notin Active
        /\ pc'[w] = "rename" => xfer'[w].rc = "error"
    <3>1. CASE Prepare(w)
      BY <1>0, <3>1 DEF Prepare, Xfer
    <3>2. CASE ConnectFail(w) \/ TransferError(w) \/ RenamePart(w)
      BY <1>0, <3>2 DEF ConnectFail, TransferError, RenamePart, Xfer
    <3>3. CASE OpenPart(w) \/ Prefix(w) \/ ReadChunk(w)
      BY <1>0, <3>3 DEF OpenPart, Prefix, ReadChunk, Receive
    <3>4. CASE CheckStop(w)
      BY <1>0, <3>4 DEF CheckStop, Active
    <3>5. CASE EndOfBody(w)
      BY <1>0, <3>5 DEF EndOfBody, Xfer
    <3>6. CASE RenameFail(w)
      BY <1>0, <3>6 DEF RenameFail, ActiveInv
    <3> QED
      BY <1>13, <3>1, <3>2, <3>3, <3>4, <3>5, <3>6
  <2> QED
    BY <1>3, <1>5, <2>1, <2>2
<1> QED
  BY <1>6, <1>7, <1>8, <1>9, <1>10, <1>11, <1>12, <1>13 DEF WorkerStep

LEMMA ActiveClientStep ==
    ASSUME TypeOK, IdsAscending, PointersHold, ActiveInv, NEW c \in Clients, ClientStep(c)
    PROVE  ActiveInv'
<1>0. /\ pc \in [Workers -> WorkerPc] /\ at \in [Workers -> SlotIndex]
      /\ slots \in [SlotIndex -> Item]
      /\ Live \subseteq SlotIndex
      /\ count \in 0 .. MaxDownloads
  BY NativeQueueAssumption DEF TypeOK, Live, SlotIndex
<1>1. UNCHANGED <<at, xfer>>
  BY DEF ClientStep, Post, StartWorker, StartFail, Pause, Resume, Cancel, DeleteActive,
         DeleteInactive, DeleteUnlink, Shutdown, threads
<1>2. \A v \in Workers : /\ Holding(v) => Holding(v)'
                         /\ pc'[v] \in {"finish", "rename"} => pc'[v] = pc[v]
  <2>1. CASE StartWorker(c)
    BY <1>0, <2>1 DEF StartWorker, Holding
  <2>2. CASE pc' = pc
    BY <2>2 DEF Holding
  <2> QED
    BY <2>1, <2>2 DEF ClientStep, Post, StartFail, Pause, Resume, Cancel, DeleteActive,
                      DeleteInactive, DeleteUnlink, Shutdown, threads
<1>3. CASE DeleteInactive(c)
  <2>1. PICK i \in Live : slots' = ShiftedOut(i)
    BY <1>3 DEF DeleteInactive
  <2>2. count' = count - 1 /\ pc' = pc
    BY <1>3 DEF DeleteInactive, threads
  <2>3. \A w \in Workers : Holding(w) =>
            at[w] \in Live' /\ at[w] < i /\ slots'[at[w]] = slots[at[w]]
    BY <2>1, <2>2, PointersLemma
  <2>4. ASSUME NEW j \in Live', slots'[j].state \in Active
        PROVE  j \in Held
    <3>1. /\ j \in SlotIndex /\ j \in Live /\ j + 1 \in Live
          /\ slots'[j] = IF i <= j THEN slots[j + 1] ELSE slots[j]
      BY <1>0, <2>1, <2>2 DEF ShiftedOut, Live, SlotIndex
    <3>2. CASE i <= j
      <4>1. j + 1 \in Held
        BY <2>4, <3>1, <3>2 DEF ActiveInv, ActiveHasWorker
      <4>2. PICK w \in Workers : Holding(w) /\ at[w] = j + 1
        BY <4>1 DEF Held
      <4> QED
        BY <2>3, <3>2, <4>2 DEF Live
    <3>3. CASE ~(i <= j)
      BY <2>4, <3>1, <3>3 DEF ActiveInv, ActiveHasWorker
    <3> QED
      BY <3>2, <3>3
  <2> QED
    BY <1>1, <2>2, <2>3, <2>4 DEF ActiveInv, ActiveHasWorker, Held, Holding
<1>4. CASE ~DeleteInactive(c)
  <2>1. SUFFICES
          /\ \A i \in SlotIndex : slots'[i].state \in Active => slots'[i].state = slots[i].state
          /\ \A i \in Live' \ Live : slots'[i].state \notin Active
    BY <1>0, <1>1, <1>2 DEF ActiveInv, ActiveHasWorker, Held
  <2>2. CASE Post(c)
    <3>1. PICK u \in Urls :
            slots' = [slots EXCEPT ![count + 1] =
                        [EmptyItem EXCEPT !.id = nextId, !.url = u, !.state = "waiting"]]
      BY <2>2 DEF Post
    <3>2. Live' \ Live = {count + 1} /\ count + 1 \in SlotIndex
      BY <1>0, <2>2, NativeQueueAssumption DEF Post, Live, SlotIndex
    <3>3. slots'[count + 1].state = "waiting"
      BY <1>0, <3>1, <3>2 DEF EmptyItem
    <3>4. \A i \in SlotIndex : i # count + 1 => slots'[i] = slots[i]
      BY <1>0, <3>1
    <3> QED
      BY <3>2, <3>3, <3>4 DEF Active
  <2>3. CASE Pause(c) \/ Resume(c) \/ Cancel(c) \/ DeleteActive(c)
    <3>1. PICK i \in SlotIndex, st \in {"paused", "waiting", "cancelled"} :
            slots' = [slots EXCEPT ![i].state = st]
      BY <1>0, <2>3 DEF Pause, Resume, Cancel, DeleteActive
    <3>2. Live' = Live
      BY <2>3 DEF Pause, Resume, Cancel, DeleteActive, Live
    <3> QED
      BY <1>0, <3>1, <3>2 DEF Active, Item
  <2>4. CASE StartWorker(c) \/ StartFail(c) \/ DeleteUnlink(c) \/ Shutdown(c)
    BY <2>4 DEF StartWorker, StartFail, DeleteUnlink, Shutdown, table, Live
  <2> QED
    BY <1>4, <2>2, <2>3, <2>4 DEF ClientStep
<1> QED
  BY <1>3, <1>4

LEMMA ActiveInvStep ==
    ASSUME TypeOK, IdsAscending, SingleWorker, ActiveInv, [Next]_vars, [PointersHold]_vars
    PROVE  ActiveInv'
<1>1. CASE UNCHANGED vars
  BY <1>1 DEF vars, ActiveInv, ActiveHasWorker, Live, Held, Holding
<1>2. CASE \E w \in Workers : WorkerStep(w)
  BY <1>2, ActiveWorkerStep
<1>3. CASE PointersHold /\ \E c \in Clients : ClientStep(c)
  BY <1>3, ActiveClientStep
<1>4. CASE Restart
  BY <1>4 DEF Restart, ActiveInv, ActiveHasWorker, Live
<1> QED
  BY <1>1, <1>2, <1>3, <1>4 DEF Next

LEMMA ActiveInvariance ==
    Spec /\ []SingleWorker /\ [][PointersHold]_vars => []ActiveInv
<1>1. Init => ActiveInv
  BY DEF Init, ActiveInv, ActiveHasWorker, Live
<1>2. TypeInv => TypeOK
  BY DEF TypeInv
<1>3. /\ TypeOK /\ IdsAscending /\ SingleWorker /\ ActiveInv
      /\ [Next]_vars /\ [PointersHold]_vars
      => ActiveInv'
  BY ActiveInvStep
<1> QED
  BY TypeInvariance, AscendingIds, <1>1, <1>2, <1>3, PTL DEF Spec

\* As long as there is one worker and its pointer stays right, no item is left
\* behind as resolving or downloading: whatever any number of handler threads
\* pauses, cancels, resumes or deletes, and whatever fails, at whatever moment, an
\* item in these states is the one the worker is on.
THEOREM ActiveItemsHaveWorker ==
    Spec /\ []SingleWorker /\ [][PointersHold]_vars => []ActiveHasWorker
<1>1. ActiveInv => ActiveHasWorker
  BY DEF ActiveInv
<1> QED
  BY ActiveInvariance, <1>1, PTL

\* Without DELETE nothing moves in the table and the pointers stay right.
AtLive == \A w \in Workers : Holding(w) => at[w] \in Live

LEMMA AtLiveStep ==
    ASSUME NoDelete, TypeOK, AtLive, [Next]_vars
    PROVE  AtLive' /\ [PointersHold]_vars
<1>0. /\ pc \in [Workers -> WorkerPc] /\ at \in [Workers -> SlotIndex]
      /\ slots \in [SlotIndex -> Item] /\ count \in Nat
      /\ Live \subseteq SlotIndex /\ Waiting \subseteq Live
  BY NativeQueueAssumption DEF TypeOK, Live, SlotIndex, Waiting
<1>1. CASE UNCHANGED vars
  BY <1>1 DEF vars, AtLive, Holding, Live
<1>2. CASE Restart
  BY <1>2 DEF Restart, AtLive, Holding, PointersHold
<1>3. ASSUME NEW w \in Workers, WorkerStep(w)
      PROVE  AtLive' /\ PointersHold
  <2>1. IdsKept /\ Live' = Live
    BY <1>3, WorkersKeepIds DEF IdsKept, Live
  <2>2. CASE Scan(w)
    BY <1>0, <2>1, <2>2 DEF Scan, AtLive, PointersHold, IdsKept, Holding
  <2>3. CASE at' = at /\ pc[w] # "scan" /\ \A v \in Workers : v # w => pc'[v] = pc[v]
    BY <1>0, <1>3, <2>1, <2>3 DEF AtLive, PointersHold, IdsKept, Holding, WorkerStep, Scan,
         MarkResolving, ResolveOk, ResolveFail, ProbeOk, ProbeFail, Prepare, ConnectFail,
         OpenPart, Prefix, ReadChunk, Receive, CheckStop, EndOfBody, TransferError,
         RenamePart, RenameFail, Allocate, SegmentStop, SegmentsEnd, SegmentsFail,
         SegmentsRename, Finish
  <2> QED
    BY <1>0, <1>3, <2>2, <2>3 DEF WorkerStep, MarkResolving, ResolveOk, ResolveFail, ProbeOk,
         ProbeFail, Prepare, ConnectFail, OpenPart, Prefix, ReadChunk, Receive, CheckStop,
         EndOfBody, TransferError, RenamePart, RenameFail, Allocate, SegmentStop, SegmentsEnd,
         SegmentsFail, SegmentsRename, Finish
<1>4. ASSUME NEW c \in Clients, ClientStep(c)
      PROVE  AtLive' /\ PointersHold
  <2>1. ~DeleteInactive(c) /\ ~DeleteActive(c)
    BY DEF NoDelete, DeleteInactive, DeleteActive, Request
  <2>2. at' = at /\ \A v \in Workers : Holding(v)' => Holding(v)
    <3>1. CASE StartWorker(c)
      BY <1>0, <3>1 DEF StartWorker, Holding
    <3>2. CASE pc' = pc /\ at' = at
      BY <3>2 DEF Holding
    <3> QED
      BY <1>4, <2>1, <3>1, <3>2 DEF ClientStep, Post, StartFail, Pause, Resume, Cancel,
         DeleteUnlink, Shutdown, threads
  <2>3. \A i \in Live : i \in Live' /\ slots'[i].id = slots[i].id
    <3>1. CASE Post(c)
      <4>1. \E item : slots' = [slots EXCEPT ![count + 1] = item]
        BY <3>1 DEF Post
      <4>2. count' = count + 1 /\ \A i \in Live : i # count + 1
        BY <1>0, <3>1 DEF Post, Live
      <4> QED
        BY <1>0, <4>1, <4>2 DEF Live
    <3>2. CASE Pause(c) \/ Resume(c) \/ Cancel(c)
      <4>1. PICK j \in SlotIndex :
                \E st : slots' = [slots EXCEPT ![j].state = st]
        BY <1>0, <3>2 DEF Pause, Resume, Cancel
      <4>2. count' = count
        BY <3>2 DEF Pause, Resume, Cancel
      <4> QED
        BY <1>0, <4>1, <4>2 DEF Live, Item
    <3>3. CASE StartWorker(c) \/ StartFail(c) \/ DeleteUnlink(c) \/ Shutdown(c)
      BY <3>3 DEF StartWorker, StartFail, DeleteUnlink, Shutdown, table, Live
    <3> QED
      BY <1>4, <2>1, <3>1, <3>2, <3>3 DEF ClientStep
  <2> QED
    BY <2>2, <2>3 DEF AtLive, PointersHold
<1> QED
  BY <1>1, <1>2, <1>3, <1>4 DEF Next

LEMMA NoDeleteKeepsPointers ==
    ASSUME NoDelete
    PROVE  Spec => [][PointersHold]_vars
<1>1. Init => AtLive
  BY DEF Init, AtLive, Holding
<1>2. TypeInv => TypeOK
  BY DEF TypeInv
<1>3. TypeOK /\ AtLive /\ [Next]_vars => AtLive' /\ [PointersHold]_vars
  BY AtLiveStep
<1> QED
  BY TypeInvariance, <1>1, <1>2, <1>3, PTL DEF Spec

(***************************************************************************)
(* Items and the worker on them                                            *)
(***************************************************************************)
\* Where a worker has not read the item yet; is in http_get_to_file; has a .part
\* file open there.
Early        == {"absent", "stopped", "scan", "picked"}
Transferring == {"connect", "prefix", "check", "read", "rename", "allocate", "segcheck",
                 "segments", "segrename"}
WithFile     == {"prefix", "check", "read", "segcheck", "segments"}

SlotOk(s) == /\ s.url \in Urls
             /\ s.resolved \in {NoUrl, s.url}
             /\ s.path \in {NoPath, NameOf[s.url]}

PlaceOk(s, x, p, d) ==
    /\ p \notin Early => x.url = s.url
    /\ p \notin Early \cup {"resolve"} => x.probed = s.url /\ s.resolved = s.url
    /\ p \notin Early \cup {"resolve", "probe"} => s.path = NameOf[s.url]
    /\ p \in Transferring => x.path = s.path
    /\ d # Detached => p \in WithFile /\ d = PartOf(x.path)

Places ==
    /\ \A i \in Live : SlotOk(slots[i])
    /\ \A w \in Workers : /\ Holding(w) => at[w] \in Live
                          /\ PlaceOk(slots[at[w]], xfer[w], pc[w], fd[w])

LEMMA WorkerFrame ==
    ASSUME TypeOK, SingleWorker, NEW w \in Workers, WorkerStep(w)
    PROVE  /\ pc[w] \notin Gone
           /\ \A v \in Workers : v # w => /\ pc[v] \in Gone /\ pc'[v] = pc[v]
                                          /\ at'[v] = at[v] /\ xfer'[v] = xfer[v]
           /\ UNCHANGED <<count, client>> /\ Live' = Live
           /\ pc[w] # "scan" => at' = at
<1>0. pc \in [Workers -> WorkerPc] /\ at \in [Workers -> SlotIndex] /\ xfer \in [Workers -> Xfer]
  BY DEF TypeOK
<1>1. pc[w] \notin Gone /\ \A v \in Workers : v # w => pc[v] \in Gone
  BY DEF SingleWorker, Running, Gone, WorkerStep, Scan, MarkResolving, ResolveOk, ResolveFail,
       ProbeOk, ProbeFail, Prepare, ConnectFail, OpenPart, Prefix, ReadChunk, Receive,
       CheckStop, EndOfBody, TransferError, RenamePart, RenameFail, Allocate, SegmentStop,
       SegmentsEnd, SegmentsFail, SegmentsRename, Finish
<1>2. \A v \in Workers : v # w => pc'[v] = pc[v] /\ at'[v] = at[v]
  BY <1>0 DEF WorkerStep, Scan, MarkResolving, ResolveOk, ResolveFail, ProbeOk, ProbeFail,
         Prepare, ConnectFail, OpenPart, Prefix, ReadChunk, Receive, CheckStop, EndOfBody,
         TransferError, RenamePart, RenameFail, Allocate, SegmentStop, SegmentsEnd,
         SegmentsFail, SegmentsRename, Finish
<1>3. \A v \in Workers : v # w => xfer'[v] = xfer[v]
  BY <1>0 DEF WorkerStep, Scan, MarkResolving, ResolveOk, ResolveFail, ProbeOk, ProbeFail,
         Prepare, ConnectFail, OpenPart, Prefix, ReadChunk, Receive, CheckStop, EndOfBody,
         TransferError, RenamePart, RenameFail, Allocate, SegmentStop, SegmentsEnd,
         SegmentsFail, SegmentsRename, Finish
<1>4. UNCHANGED <<count, client>> /\ (pc[w] # "scan" => at' = at)
  BY DEF WorkerStep, Scan, MarkResolving, ResolveOk, ResolveFail, ProbeOk, ProbeFail,
         Prepare, ConnectFail, OpenPart, Prefix, ReadChunk, Receive, CheckStop, EndOfBody,
         TransferError, RenamePart, RenameFail, Allocate, SegmentStop, SegmentsEnd,
         SegmentsFail, SegmentsRename, Finish, table
<1> QED
  BY <1>1, <1>2, <1>3, <1>4 DEF Live

\* The workers that are gone have no file open and get none.
LEMMA GoneFrame ==
    ASSUME TypeInv, SingleWorker, Places, NEW w \in Workers, WorkerStep(w)
    PROVE  \A v \in Workers : v # w => fd'[v] = Detached
<1>0. /\ TypeOK /\ fd \in [Workers -> FileNames \cup {Detached}]
      /\ xfer[w] \in Xfer /\ slots[at[w]] \in Item
      /\ \A p \in PathValues : PartOf(p) # Detached /\ FinalOf(p) # Detached
  BY DetachedAssumption, SlotLemma, NamesLemma DEF TypeInv, TypeOK
<1>1. \A v \in Workers : v # w => fd[v] = Detached
  BY <1>0, WorkerFrame DEF Places, PlaceOk, WithFile, Gone
<1>2. xfer[w].path \in PathValues /\ slots[at[w]].path \in PathValues
  BY <1>0 DEF Xfer, Item
<1> DEFINE part == PartOf(xfer[w].path)
           own  == PartOf(slots[at[w]].path)
           final == FinalOf(slots[at[w]].path)
<1>3. part # Detached /\ own # Detached /\ final # Detached
  BY <1>0, <1>2
<1>4. \/ fd' = fd \/ fd' = [fd EXCEPT ![w] = Detached] \/ fd' = [fd EXCEPT ![w] = part]
      \/ fd' = AfterUnlink(fd, own) \/ fd' = [AfterUnlink(fd, part) EXCEPT ![w] = Detached]
      \/ fd' = [AfterUnlink(fd, part) EXCEPT ![w] = part] \/ fd' = AfterRename(fd, part, final)
  BY DEF WorkerStep, Scan, MarkResolving, ResolveOk, ResolveFail, ProbeOk, ProbeFail,
         Prepare, ConnectFail, OpenPart, Prefix, ReadChunk, Receive, CheckStop, EndOfBody,
         TransferError, RenamePart, RenameFail, Allocate, SegmentStop, SegmentsEnd,
         SegmentsFail, SegmentsRename, Finish
<1> HIDE DEF part, own, final
<1> QED
  BY <1>0, <1>1, <1>3, <1>4 DEF AfterUnlink, AfterRename

LEMMA PlacesWorkerStep ==
    ASSUME TypeInv, SingleWorker, Places, NEW w \in Workers, WorkerStep(w)
    PROVE  Places'
<1> DEFINE i == at[w]
           s == slots[i]
           x == xfer[w]
<1>0. /\ TypeOK
      /\ slots \in [SlotIndex -> Item] /\ at \in [Workers -> SlotIndex]
      /\ pc \in [Workers -> WorkerPc] /\ xfer \in [Workers -> Xfer]
      /\ fd \in [Workers -> FileNames \cup {Detached}]
      /\ i \in SlotIndex /\ s \in Item /\ x \in Xfer
      /\ Live \subseteq SlotIndex /\ Waiting \subseteq Live
      /\ NoUrl \notin Urls
  BY NativeQueueAssumption DEF TypeInv, TypeOK, Live, SlotIndex, Waiting
<1>1. /\ pc[w] \notin {"absent", "stopped"} /\ Live' = Live
      /\ pc[w] # "scan" => at' = at
      /\ \A v \in Workers : v # w => pc'[v] \in {"absent", "stopped"} /\ fd'[v] = Detached
  BY <1>0, WorkerFrame, GoneFrame DEF Gone
<1>2. /\ pc[w] # "scan" => i \in Live /\ SlotOk(s)
      /\ PlaceOk(s, x, pc[w], fd[w])
  BY <1>1 DEF Places, Holding
<1>3. \A v \in Workers : v # w => /\ Holding(v)' => at'[v] \in Live'
                                  /\ PlaceOk(slots[at[v]], xfer[v], pc[v], fd[v])'
  BY <1>1 DEF Holding, PlaceOk, Early, Transferring
<1>4. SUFFICES /\ \A j \in Live : SlotOk(slots'[j])
               /\ Holding(w)' => at'[w] \in Live
               /\ PlaceOk(slots'[at'[w]], xfer'[w], pc'[w], fd'[w])
  BY <1>1, <1>3 DEF Places
<1>5. CASE Scan(w)
  BY <1>0, <1>2, <1>5 DEF Scan, table, Places, Holding, PlaceOk, Early, Transferring, WithFile
\* The other actions leave the place and write at most the slot it is on.
<1>6. ASSUME pc[w] # "scan", NEW t, slots' = [slots EXCEPT ![i] = t], SlotOk(t),
             PlaceOk(t, xfer'[w], pc'[w], fd'[w])
      PROVE  /\ \A j \in Live : SlotOk(slots'[j])
             /\ Holding(w)' => at'[w] \in Live
             /\ PlaceOk(slots'[at'[w]], xfer'[w], pc'[w], fd'[w])
  <2>1. at'[w] = i /\ i \in Live /\ slots'[i] = t /\ \A j \in Live : j # i => slots'[j] = slots[j]
    BY <1>0, <1>1, <1>2, <1>6
  <2> HIDE DEF i
  <2> QED
    BY <2>1, <1>6 DEF Places
<1>7. CASE MarkResolving(w)
  <2> DEFINE t == [s EXCEPT !.state = "resolving"]
  <2>1. /\ pc[w] = "picked" /\ pc'[w] = "resolve" /\ fd' = fd
        /\ slots' = [slots EXCEPT ![i] = t] /\ xfer'[w].url = s.url
    BY <1>0, <1>7 DEF MarkResolving, SetState, NoXfer
  <2>2. t.url = s.url /\ t.resolved = s.resolved /\ t.path = s.path
    BY <1>0 DEF Item
  <2> HIDE DEF t, s
  <2>3. SlotOk(t) /\ PlaceOk(t, xfer'[w], pc'[w], fd'[w])
    BY <1>2, <2>1, <2>2 DEF SlotOk, PlaceOk, Early, Transferring, WithFile
  <2> QED
    BY <1>6, <2>1, <2>3
<1>8. CASE ResolveOk(w)
  <2>1. PICK u \in {x.url, s.url} : /\ slots' = [slots EXCEPT ![i].resolved = u]
                                    /\ xfer' = [xfer EXCEPT ![w].probed = u]
    BY <1>8 DEF ResolveOk
  <2>2. pc[w] = "resolve" /\ pc'[w] = "probe" /\ fd' = fd
    BY <1>0, <1>8 DEF ResolveOk
  <2>3. u = s.url
    BY <1>2, <2>1, <2>2 DEF PlaceOk, Early
  <2> DEFINE t == [s EXCEPT !.resolved = u]
  <2>4. /\ slots' = [slots EXCEPT ![i] = t]
        /\ xfer'[w].url = x.url /\ xfer'[w].probed = u
    BY <1>0, <2>1 DEF Xfer
  <2>5. t.url = s.url /\ t.resolved = u /\ t.path = s.path
    BY <1>0 DEF Item
  <2> HIDE DEF t, s, x
  <2>6. SlotOk(t) /\ PlaceOk(t, xfer'[w], pc'[w], fd'[w])
    BY <1>2, <2>2, <2>3, <2>4, <2>5 DEF SlotOk, PlaceOk, Early, Transferring, WithFile
  <2> QED
    BY <1>6, <2>2, <2>4, <2>6
<1>9. CASE ResolveFail(w) \/ ProbeFail(w) \/ Finish(w)
  <2>1. PICK st : slots' = [slots EXCEPT ![i].state = st]
    BY <1>9 DEF ResolveFail, ProbeFail, Finish, SetState
  <2>2. pc[w] \in {"resolve", "probe", "finish"} /\ pc'[w] = "scan" /\ fd' = fd
    BY <1>0, <1>9 DEF ResolveFail, ProbeFail, Finish
  <2> DEFINE t == [s EXCEPT !.state = st]
  <2>3. /\ slots' = [slots EXCEPT ![i] = t]
        /\ t.url = s.url /\ t.resolved = s.resolved /\ t.path = s.path
    BY <1>0, <2>1 DEF Item
  <2> HIDE DEF t, s, x
  <2>4. SlotOk(t) /\ PlaceOk(t, xfer'[w], pc'[w], fd'[w])
    BY <1>2, <2>2, <2>3 DEF SlotOk, PlaceOk, Early, Transferring, WithFile
  <2> QED
    BY <1>6, <2>2, <2>3, <2>4
<1>10. CASE ProbeOk(w)
  <2>1. PICK u \in {x.probed, s.resolved} :
          slots' = [slots EXCEPT ![i].path = PathFor(u), ![i].state = "downloading"]
    BY <1>10 DEF ProbeOk
  <2>2. pc[w] = "probe" /\ pc'[w] = "prepare" /\ fd' = fd /\ xfer' = xfer
    BY <1>0, <1>10 DEF ProbeOk
  <2>3. u = s.url /\ u \in Urls
    BY <1>2, <2>1, <2>2 DEF PlaceOk, SlotOk, Early
  <2>4. PathFor(u) = NameOf[s.url]
    BY <1>0, <2>3 DEF PathFor
  <2> DEFINE t == [s EXCEPT !.path = PathFor(u), !.state = "downloading"]
  <2>5. /\ slots' = [slots EXCEPT ![i] = t]
        /\ t.url = s.url /\ t.resolved = s.resolved /\ t.path = PathFor(u)
    BY <1>0, <2>1 DEF Item
  <2> HIDE DEF t, s, x
  <2>6. SlotOk(t) /\ PlaceOk(t, xfer'[w], pc'[w], fd'[w])
    BY <1>2, <2>2, <2>3, <2>4, <2>5 DEF SlotOk, PlaceOk, Early, Transferring, WithFile, x
  <2> QED
    BY <1>6, <2>2, <2>5, <2>6
\* The transfer leaves the slots alone.
<1>11. ASSUME pc[w] # "scan", slots' = slots, PlaceOk(s, xfer'[w], pc'[w], fd'[w])
       PROVE  /\ \A j \in Live : SlotOk(slots'[j])
              /\ Holding(w)' => at'[w] \in Live
              /\ PlaceOk(slots'[at'[w]], xfer'[w], pc'[w], fd'[w])
  BY <1>1, <1>2, <1>11 DEF Places
<1>12. CASE Prepare(w)
  <2>1. /\ pc[w] = "prepare" /\ slots' = slots
        /\ pc'[w] \in {"finish", "connect", "allocate"}
    BY <1>0, <1>12 DEF Prepare, table
  <2>2. s.url = x.url /\ s.resolved = s.url /\ x.probed = s.url /\ s.path = NameOf[s.url]
        /\ fd[w] = Detached
    BY <1>2, <2>1 DEF PlaceOk, Early, WithFile
  <2>3. fd'[w] = Detached
    BY <1>0, <1>12, <2>2 DEF Prepare, AfterUnlink
  <2>4. /\ xfer'[w].url = s.url /\ xfer'[w].probed = s.url
        /\ pc'[w] # "finish" => xfer'[w].path = s.path
    BY <1>0, <1>12, <2>2 DEF Prepare, Xfer
  <2> HIDE DEF s, x, i
  <2>5. PlaceOk(s, xfer'[w], pc'[w], fd'[w])
    BY <2>1, <2>2, <2>3, <2>4 DEF PlaceOk, Early, Transferring, WithFile
  <2> QED
    BY <1>11, <2>1, <2>5
<1>13. CASE \/ ConnectFail(w) \/ OpenPart(w) \/ Prefix(w) \/ ReadChunk(w) \/ CheckStop(w)
            \/ EndOfBody(w) \/ TransferError(w) \/ RenamePart(w) \/ RenameFail(w)
            \/ Allocate(w) \/ SegmentStop(w) \/ SegmentsEnd(w) \/ SegmentsFail(w)
            \/ SegmentsRename(w)
  <2> DEFINE part == PartOf(x.path)
             final == FinalOf(s.path)
  <2>0. s.path \in PathValues /\ x.path \in PathValues
    BY <1>0 DEF Item, Xfer
  <2>1. /\ pc[w] \in Transferring /\ slots' = slots
        /\ pc'[w] \in Transferring \cup {"finish"}
    BY <1>0, <1>13 DEF ConnectFail, OpenPart, Prefix, ReadChunk, Receive, CheckStop,
         EndOfBody, TransferError, RenamePart, RenameFail, Allocate, SegmentStop, SegmentsEnd,
         SegmentsFail, SegmentsRename, Transferring, table
  <2>2. xfer'[w].url = x.url /\ xfer'[w].probed = x.probed /\ xfer'[w].path = x.path
    BY <1>0, <1>13 DEF ConnectFail, OpenPart, Prefix, ReadChunk, Receive, CheckStop,
         EndOfBody, TransferError, RenamePart, RenameFail, Allocate, SegmentStop, SegmentsEnd,
         SegmentsFail, SegmentsRename, Xfer
  <2>3. fd'[w] # Detached => pc'[w] \in WithFile /\ fd'[w] = part
    <3>1. fd[w] \in {Detached, part} /\ (pc[w] \notin WithFile => fd[w] = Detached)
      BY <1>2 DEF PlaceOk
    <3>2. part # Detached /\ AfterUnlink(fd, part)[w] = Detached
      BY <1>0, <2>0, <3>1, DetachedAssumption, NamesLemma DEF AfterUnlink
    <3>3. fd[w] = Detached => AfterRename(fd, part, final)[w] = Detached
      BY <1>0, <2>0, DetachedAssumption, NamesLemma DEF AfterRename
    <3>4. AfterUnlink(fd, part) \in [Workers -> FileNames \cup {Detached}]
      BY <1>0 DEF AfterUnlink
    <3> HIDE DEF part, final
    <3>5. CASE ConnectFail(w) \/ RenameFail(w)
      BY <1>0, <3>1, <3>5 DEF ConnectFail, RenameFail, WithFile
    <3>6. CASE OpenPart(w) \/ Allocate(w)
      BY <1>0, <3>4, <3>6 DEF OpenPart, Allocate, WithFile, part
    <3>7. CASE Prefix(w) \/ ReadChunk(w)
      BY <1>0, <3>1, <3>7 DEF Prefix, ReadChunk, Receive, WithFile
    <3>8. CASE CheckStop(w) \/ SegmentStop(w)
      BY <1>0, <3>1, <3>4, <3>8 DEF CheckStop, SegmentStop, WithFile, part
    <3>9. CASE EndOfBody(w) \/ TransferError(w) \/ SegmentsEnd(w) \/ SegmentsFail(w)
      BY <1>0, <3>4, <3>9 DEF EndOfBody, TransferError, SegmentsEnd, SegmentsFail, WithFile, part
    <3>10. CASE RenamePart(w) \/ SegmentsRename(w)
      BY <3>1, <3>3, <3>10 DEF RenamePart, SegmentsRename, WithFile, part, final
    <3> QED
      BY <1>13, <3>5, <3>6, <3>7, <3>8, <3>9, <3>10
  <2> HIDE DEF s, x, i
  <2>4. PlaceOk(s, xfer'[w], pc'[w], fd'[w])
    BY <1>2, <2>1, <2>2, <2>3 DEF PlaceOk, Early, Transferring, WithFile
  <2> QED
    BY <1>11, <2>1, <2>4 DEF Transferring
<1> QED
  BY <1>5, <1>7, <1>8, <1>9, <1>10, <1>12, <1>13 DEF WorkerStep

\* A request leaves of an item in the table all but its state as it is.
SameItem(s, t) == t.url = s.url /\ t.resolved = s.resolved /\ t.path = s.path
NewItem(t)     == /\ t.state = "waiting" /\ t.url \in Urls
                  /\ t.resolved = NoUrl /\ t.path = NoPath

\* All but a DELETE leave it where it is, too.
LEMMA RequestFrame ==
    ASSUME TypeInv, NEW c \in Clients, ClientStep(c), ~DeleteInactive(c)
    PROVE  /\ \A i \in Live : i \in Live' /\ SameItem(slots[i], slots'[i])
           /\ \A i \in Live' \ Live : NewItem(slots'[i])
<1>0. /\ slots \in [SlotIndex -> Item] /\ count \in 0 .. MaxDownloads /\ Live \subseteq SlotIndex
  BY NativeQueueAssumption DEF TypeInv, TypeOK, Live, SlotIndex
<1>1. CASE Post(c)
  <2>1. PICK u \in Urls :
          slots' = [slots EXCEPT ![count + 1] =
                      [EmptyItem EXCEPT !.id = nextId, !.url = u, !.state = "waiting"]]
    BY <1>1 DEF Post
  <2>2. Live' \ Live = {count + 1} /\ count + 1 \in SlotIndex /\ Live \subseteq Live'
    BY <1>0, <1>1, NativeQueueAssumption DEF Post, Live, SlotIndex
  <2>3. NewItem(slots'[count + 1])
    BY <1>0, <2>1, <2>2 DEF EmptyItem, NewItem
  <2>4. \A i \in Live : slots'[i] = slots[i]
    BY <1>0, <2>1 DEF Live
  <2> QED
    BY <2>2, <2>3, <2>4 DEF SameItem
<1>2. CASE Pause(c) \/ Resume(c) \/ Cancel(c) \/ DeleteActive(c)
  <2>1. PICK i \in SlotIndex, st \in {"paused", "waiting", "cancelled"} :
          slots' = [slots EXCEPT ![i].state = st]
    BY <1>0, <1>2 DEF Pause, Resume, Cancel, DeleteActive
  <2>2. Live' = Live
    BY <1>2 DEF Pause, Resume, Cancel, DeleteActive, Live
  <2> QED
    BY <1>0, <2>1, <2>2 DEF SameItem, Item
<1>3. CASE StartWorker(c) \/ StartFail(c) \/ DeleteUnlink(c) \/ Shutdown(c)
  BY <1>3 DEF StartWorker, StartFail, DeleteUnlink, Shutdown, table, Live, SameItem
<1> QED
  BY <1>1, <1>2, <1>3 DEF ClientStep

LEMMA ClientFrame ==
    ASSUME TypeInv, IdsAscending, PointersHold, Places, NEW c \in Clients, ClientStep(c)
    PROVE  /\ UNCHANGED <<at, xfer>>
           /\ \A v \in Workers : pc'[v] = pc[v] \/ (pc[v] = "absent" /\ pc'[v] = "scan")
           /\ \A v \in Workers : Holding(v) =>
                  at[v] \in Live' /\ SameItem(slots[at[v]], slots'[at[v]])
           /\ \A j \in Live' : \/ NewItem(slots'[j])
                               \/ \E i \in Live : SameItem(slots[i], slots'[j])
<1>0. /\ slots \in [SlotIndex -> Item] /\ pc \in [Workers -> WorkerPc]
      /\ count \in 0 .. MaxDownloads /\ Live \subseteq SlotIndex /\ TypeOK
  BY NativeQueueAssumption DEF TypeInv, TypeOK, Live, SlotIndex
<1>1. UNCHANGED <<at, xfer>>
  BY DEF ClientStep, Post, StartWorker, StartFail, Pause, Resume, Cancel, DeleteActive,
         DeleteInactive, DeleteUnlink, Shutdown, threads
<1>2. \A v \in Workers : pc'[v] = pc[v] \/ (pc[v] = "absent" /\ pc'[v] = "scan")
  <2>1. CASE StartWorker(c)
    BY <1>0, <2>1 DEF StartWorker
  <2>2. CASE pc' = pc
    BY <2>2
  <2> QED
    BY <2>1, <2>2 DEF ClientStep, Post, StartFail, Pause, Resume, Cancel, DeleteActive,
                      DeleteInactive, DeleteUnlink, Shutdown, threads
<1>3. /\ \A v \in Workers : Holding(v) =>
             at[v] \in Live' /\ SameItem(slots[at[v]], slots'[at[v]])
      /\ \A j \in Live' : \/ NewItem(slots'[j])
                          \/ \E i \in Live : SameItem(slots[i], slots'[j])
  <2>1. CASE DeleteInactive(c)
    <3>1. PICK i \in Live : slots' = ShiftedOut(i)
      BY <2>1 DEF DeleteInactive
    <3>2. count' = count - 1 /\ pc' = pc
      BY <2>1 DEF DeleteInactive, threads
    <3>3. \A w \in Workers : Holding(w) => at[w] \in Live' /\ slots'[at[w]] = slots[at[w]]
      BY <1>0, <3>1, <3>2, PointersLemma
    <3>4. \A j \in Live' : /\ j \in SlotIndex /\ j \in Live /\ j + 1 \in Live
                           /\ slots'[j] = IF i <= j THEN slots[j + 1] ELSE slots[j]
      BY <1>0, <3>1, <3>2 DEF ShiftedOut, Live, SlotIndex
    <3> QED
      BY <3>3, <3>4 DEF SameItem
  <2>2. CASE ~DeleteInactive(c)
    <3>1. /\ \A i \in Live : i \in Live' /\ SameItem(slots[i], slots'[i])
          /\ \A i \in Live' \ Live : NewItem(slots'[i])
      BY <2>2, RequestFrame
    <3>2. \A v \in Workers : Holding(v) => at[v] \in Live
      BY DEF Places
    <3> QED
      BY <3>1, <3>2
  <2> QED
    BY <2>1, <2>2
<1> QED
  BY <1>1, <1>2, <1>3

\* A request touches the files by unlinking some: a descriptor goes with its file.
LEMMA UnlinkFrame ==
    ASSUME TypeInv, NEW c \in Clients, ClientStep(c)
    PROVE  /\ \A n \in FileNames : files'[n] \in {files[n], NoFile}
           /\ \A v \in Workers : \/ fd'[v] = fd[v]
                                 \/ fd'[v] = Detached /\ files'[fd[v]] = NoFile
           /\ ~Cancel(c) /\ ~DeleteUnlink(c) => files' = files /\ fd' = fd
<1>0. /\ files \in [FileNames -> Contents] /\ fd \in [Workers -> FileNames \cup {Detached}]
      /\ \A i \in SlotIndex : slots[i].path \in PathValues
      /\ client[c].path \in PathValues
      /\ Live \subseteq SlotIndex
  BY NativeQueueAssumption DEF TypeInv, TypeOK, Item, ClientStates, PathValues, Live, SlotIndex
<1>1. ASSUME NEW n \in FileNames, NEW f, NEW d, f \in [FileNames -> Contents],
             d \in [Workers -> FileNames \cup {Detached}]
      PROVE  /\ Unlinked(f, n) \in [FileNames -> Contents]
             /\ AfterUnlink(d, n) \in [Workers -> FileNames \cup {Detached}]
             /\ \A m \in FileNames : Unlinked(f, n)[m] = IF m = n THEN NoFile ELSE f[m]
             /\ \A v \in Workers : AfterUnlink(d, n)[v] = IF d[v] = n THEN Detached ELSE d[v]
  BY <1>1 DEF Unlinked, AfterUnlink, Contents
<1>2. CASE Cancel(c)
  <2>1. PICK i \in Live :
          \/ files' = files /\ fd' = fd
          \/ /\ files' = Unlinked(files, PartOf(slots[i].path))
             /\ fd' = AfterUnlink(fd, PartOf(slots[i].path))
    BY <1>2 DEF Cancel
  <2>2. PartOf(slots[i].path) \in FileNames
    BY <1>0, NamesLemma
  <2> HIDE DEF Cancel
  <2> QED
    BY <1>0, <1>1, <1>2, <2>1, <2>2
<1>3. CASE DeleteUnlink(c)
  <2> DEFINE a == PartOf(client[c].path)
             b == FinalOf(client[c].path)
  <2>1. a \in FileNames /\ b \in FileNames
    BY <1>0, NamesLemma
  <2>2. /\ files' = Unlinked(Unlinked(files, a), b)
        /\ fd' = AfterUnlink(AfterUnlink(fd, a), b)
    BY <1>3 DEF DeleteUnlink
  <2> HIDE DEF a, b
  <2>3. /\ \A m \in FileNames : files'[m] = IF m \in {a, b} THEN NoFile ELSE files[m]
        /\ \A v \in Workers : fd'[v] = IF fd[v] \in {a, b} THEN Detached ELSE fd[v]
    <3>1. /\ Unlinked(files, a) \in [FileNames -> Contents]
          /\ AfterUnlink(fd, a) \in [Workers -> FileNames \cup {Detached}]
          /\ \A m \in FileNames : Unlinked(files, a)[m] = IF m = a THEN NoFile ELSE files[m]
          /\ \A v \in Workers : AfterUnlink(fd, a)[v] = IF fd[v] = a THEN Detached ELSE fd[v]
      BY <1>0, <1>1, <2>1
    <3>2. /\ \A m \in FileNames : files'[m] = IF m = b THEN NoFile ELSE Unlinked(files, a)[m]
          /\ \A v \in Workers : fd'[v] = IF AfterUnlink(fd, a)[v] = b THEN Detached
                                         ELSE AfterUnlink(fd, a)[v]
      BY <1>1, <2>1, <2>2, <3>1
    <3>3. Detached # b
      BY <2>1, DetachedAssumption
    <3> QED
      BY <3>1, <3>2, <3>3
  <2> QED
    BY <1>0, <1>3, <2>1, <2>3
<1>4. CASE ~Cancel(c) /\ ~DeleteUnlink(c)
  BY <1>4 DEF ClientStep, Post, StartWorker, StartFail, Pause, Resume, DeleteActive,
              DeleteInactive, Shutdown
<1> QED
  BY <1>2, <1>3, <1>4

LEMMA PlacesClientStep ==
    ASSUME TypeInv, IdsAscending, PointersHold, Places, NEW c \in Clients, ClientStep(c)
    PROVE  Places'
<1>1. /\ UNCHANGED <<at, xfer>>
      /\ \A v \in Workers : pc'[v] = pc[v] \/ (pc[v] = "absent" /\ pc'[v] = "scan")
      /\ \A v \in Workers : Holding(v) =>
             at[v] \in Live' /\ SameItem(slots[at[v]], slots'[at[v]])
      /\ \A j \in Live' : \/ NewItem(slots'[j])
                          \/ \E i \in Live : SameItem(slots[i], slots'[j])
      /\ \A v \in Workers : fd'[v] \in {fd[v], Detached}
  BY ClientFrame, UnlinkFrame
<1>2. \A i \in Live' : SlotOk(slots'[i])
  BY <1>1 DEF Places, SlotOk, SameItem, NewItem
<1>3. ASSUME NEW w \in Workers
      PROVE  /\ Holding(w)' => at'[w] \in Live'
             /\ PlaceOk(slots'[at'[w]], xfer'[w], pc'[w], fd'[w])
  <2>1. PlaceOk(slots[at[w]], xfer[w], pc[w], fd[w]) /\ (Holding(w) => at[w] \in Live)
    BY DEF Places
  <2>2. CASE pc[w] \in {"absent", "stopped", "scan"}
    <3>1. pc'[w] \in {"absent", "stopped", "scan"}
      BY <1>1, <2>2
    <3>2. fd'[w] = Detached
      BY <1>1, <2>1, <2>2 DEF PlaceOk, WithFile
    <3> QED
      BY <3>1, <3>2 DEF PlaceOk, Holding, Early, Transferring
  <2>3. CASE pc[w] \notin {"absent", "stopped", "scan"}
    <3>1. pc'[w] = pc[w] /\ at[w] \in Live' /\ SameItem(slots[at[w]], slots'[at[w]])
      BY <1>1, <2>3 DEF Holding
    <3> QED
      BY <1>1, <2>1, <3>1 DEF PlaceOk, SameItem
  <2> QED
    BY <2>2, <2>3
<1> QED
  BY <1>2, <1>3 DEF Places

LEMMA InitPlaces == Init => Places
<1> QED
  BY DEF Init, Places, Live, Holding, PlaceOk, Early, Transferring

LEMMA PlacesStep ==
    ASSUME TypeInv, IdsAscending, SingleWorker, Places, [Next]_vars, [PointersHold]_vars
    PROVE  Places'
<1>1. CASE UNCHANGED vars
  <2>1. UNCHANGED <<slots, count, pc, at, xfer, fd>>
    BY <1>1 DEF vars
  <2> QED
    BY <2>1 DEF Places, Live, Holding
<1>2. CASE \E w \in Workers : WorkerStep(w)
  BY <1>2, PlacesWorkerStep
<1>3. CASE PointersHold /\ \E c \in Clients : ClientStep(c)
  BY <1>3, PlacesClientStep
<1>4. CASE Restart
  BY <1>4 DEF Restart, Places, Live, Holding, PlaceOk, Early, Transferring
<1> QED
  BY <1>1, <1>2, <1>3, <1>4 DEF Next

LEMMA PlacesInvariance ==
    Spec /\ []SingleWorker /\ [][PointersHold]_vars
        => [](TypeInv /\ IdsAscending /\ ActiveInv /\ Places)
<1>1. /\ TypeInv /\ IdsAscending /\ SingleWorker /\ Places
      /\ [Next]_vars /\ [PointersHold]_vars
      => Places'
  BY PlacesStep
<1> QED
  BY TypeInvariance, AscendingIds, ActiveInvariance, InitPlaces, <1>1, PTL DEF Spec

(***************************************************************************)
(* What is left of a cancelled item                                        *)
(***************************************************************************)
\* No worker will touch the item's files again; Alone: nor will one on behalf of
\* another item.
Abandoned(i) == \/ i \notin Held
                \/ \E w \in Workers : at[w] = i /\ pc[w] = "finish" /\ xfer[w].rc = "stopped"
Alone(i) == \A j \in Live \ {i} : NameOf[slots[j].url] # slots[i].path

CancelInv ==
    \A i \in Live :
        slots[i].state = "cancelled" /\ slots[i].path # NoPath /\ Abandoned(i) /\ Alone(i)
            => ~Exists(files, PartOf(slots[i].path))

\* A worker writes the slot it is on and no other, and never its URL.
LEMMA SlotFrame ==
    ASSUME TypeOK, NEW w \in Workers, WorkerStep(w)
    PROVE  \A j \in SlotIndex : /\ slots'[j].url = slots[j].url
                                /\ j # at[w] => slots'[j] = slots[j]
<1>0. slots \in [SlotIndex -> Item] /\ at[w] \in SlotIndex
  BY DEF TypeOK
<1>1. \/ slots' = slots
      \/ \E st : slots' = [slots EXCEPT ![at[w]].state = st]
      \/ \E u : slots' = [slots EXCEPT ![at[w]].resolved = u]
      \/ \E p : slots' = [slots EXCEPT ![at[w]].path = p, ![at[w]].state = "downloading"]
  BY DEF WorkerStep, Scan, MarkResolving, ResolveOk, ResolveFail, ProbeOk, ProbeFail,
         Prepare, ConnectFail, OpenPart, Prefix, ReadChunk, Receive, CheckStop, EndOfBody,
         TransferError, RenamePart, RenameFail, Allocate, SegmentStop, SegmentsEnd,
         SegmentsFail, SegmentsRename, Finish, SetState, table
<1>2. CASE slots' = slots
  BY <1>2
<1>3. ASSUME NEW st, slots' = [slots EXCEPT ![at[w]].state = st]
      PROVE  \A j \in SlotIndex : /\ slots'[j].url = slots[j].url
                                  /\ j # at[w] => slots'[j] = slots[j]
  BY <1>0, <1>3 DEF Item
<1>4. ASSUME NEW u, slots' = [slots EXCEPT ![at[w]].resolved = u]
      PROVE  \A j \in SlotIndex : /\ slots'[j].url = slots[j].url
                                  /\ j # at[w] => slots'[j] = slots[j]
  BY <1>0, <1>4 DEF Item
<1>5. ASSUME NEW p, slots' = [slots EXCEPT ![at[w]].path = p, ![at[w]].state = "downloading"]
      PROVE  \A j \in SlotIndex : /\ slots'[j].url = slots[j].url
                                  /\ j # at[w] => slots'[j] = slots[j]
  BY <1>0, <1>5 DEF Item
<1> QED
  BY <1>1, <1>2, <1>3, <1>4, <1>5

\* A .part file comes into being only under the name the worker downloads to.
LEMMA PartFrame ==
    ASSUME TypeInv, Places, NEW w \in Workers, WorkerStep(w), NEW p \in PathValues,
           Exists(files', PartOf(p)), ~Exists(files, PartOf(p))
    PROVE  pc[w] \in Transferring /\ p = xfer[w].path
<1> DEFINE part  == PartOf(xfer[w].path)
           own   == PartOf(slots[at[w]].path)
           final == FinalOf(slots[at[w]].path)
           n     == PartOf(p)
<1>0. /\ files \in [FileNames -> Contents] /\ n \in FileNames /\ own \in FileNames
      /\ xfer[w].path \in PathValues /\ n # final
      /\ fd[w] \in {Detached, part}
  BY SlotLemma, NamesLemma DEF TypeInv, TypeOK, Item, Xfer, Places, PlaceOk
<1>1. SUFFICES pc[w] \in Transferring /\ n = part
  BY <1>0, NamesLemma
<1>2. CASE files' = files
  BY <1>2
<1>3. CASE Prepare(w)
  BY <1>0, <1>3 DEF Prepare, Unlinked, Exists
<1> HIDE DEF part, own, final, n
<1>4. CASE pc[w] \in Transferring
  <2>1. \/ files' = Unlinked(files, part)
        \/ \E a : files' = Opened(files, part, a)
        \/ \E a, pos, chunk : files' = Written(files, fd[w], a, pos, chunk)
        \/ files' = Renamed(files, part, final)
        \/ \E c : files' = [files EXCEPT ![part] = c]
    <3>1. CASE CheckStop(w) \/ SegmentStop(w) \/ SegmentsFail(w)
      BY <1>2, <3>1 DEF CheckStop, SegmentStop, SegmentsFail, part
    <3>2. CASE OpenPart(w) \/ Allocate(w)
      BY <3>2 DEF OpenPart, Allocate, part
    <3>3. CASE Prefix(w) \/ ReadChunk(w)
      BY <3>3 DEF Prefix, ReadChunk, Receive
    <3>4. CASE SegmentsEnd(w)
      BY <1>0, <1>2, <3>4 DEF SegmentsEnd
    <3>5. CASE RenamePart(w) \/ SegmentsRename(w)
      BY <3>5 DEF RenamePart, SegmentsRename, part, final
    <3> QED
      BY <1>2, <1>4, <3>1, <3>2, <3>3, <3>4, <3>5 DEF WorkerStep, Scan, MarkResolving, ResolveOk,
           ResolveFail, ProbeOk, ProbeFail, Prepare, ConnectFail, EndOfBody, TransferError,
           RenameFail, Finish, Transferring
  <2>2. n # part => files'[n] \in {files[n], NoFile}
    BY <1>0, <2>1 DEF Unlinked, Opened, Written, Renamed
  <2> QED
    BY <1>4, <2>2 DEF Exists, n
<1> QED
  BY <1>2, <1>3, <1>4 DEF WorkerStep, Scan, MarkResolving, ResolveOk, ResolveFail, ProbeOk,
       ProbeFail, ConnectFail, OpenPart, Prefix, ReadChunk, Receive, CheckStop, EndOfBody,
       TransferError, RenamePart, RenameFail, Allocate, SegmentStop, SegmentsEnd,
       SegmentsFail, SegmentsRename, Finish, Transferring

LEMMA CancelWorkerStep ==
    ASSUME TypeInv, SingleWorker, ActiveInv, Places, CancelInv, NEW w \in Workers, WorkerStep(w)
    PROVE  CancelInv'
<1> DEFINE k == at[w]
<1>0. /\ TypeOK /\ Live' = Live /\ Live \subseteq SlotIndex
      /\ slots \in [SlotIndex -> Item] /\ k \in SlotIndex
      /\ pc \in [Workers -> WorkerPc] /\ xfer \in [Workers -> Xfer] /\ xfer[w] \in Xfer
      /\ files \in [FileNames -> Contents]
      /\ PlaceOk(slots[k], xfer[w], pc[w], fd[w])
      /\ pc[w] # "scan" => k \in Live /\ at'[w] = k
      /\ pc[w] \notin {"absent", "stopped"}
      /\ \A v \in Workers : v # w => /\ pc[v] \in {"absent", "stopped"}
                                     /\ pc'[v] \in {"absent", "stopped"}
  BY WorkerFrame, NativeQueueAssumption
     DEF TypeInv, TypeOK, Live, SlotIndex, Places, Holding, Gone
<1>1. SUFFICES ASSUME NEW i \in Live, slots'[i].state = "cancelled", slots'[i].path # NoPath,
                      Abandoned(i)', Alone(i)'
               PROVE  ~Exists(files', PartOf(slots'[i].path))
  BY <1>0 DEF CancelInv
<1>2. ASSUME i # k PROVE ~Exists(files', PartOf(slots'[i].path))
  <2>1. slots'[i] = slots[i] /\ slots[i].path \in PathValues
    BY <1>0, <1>2, SlotFrame DEF Item
  <2>2. Alone(i)
    BY <1>0, <1>1, <2>1, SlotFrame DEF Alone
  <2>3. i \notin Held
    BY <1>0, <1>2 DEF Held, Holding
  <2>4. ~Exists(files, PartOf(slots[i].path))
    BY <1>1, <2>1, <2>2, <2>3 DEF CancelInv, Abandoned
  <2>5. ASSUME pc[w] \in Transferring PROVE slots[i].path # xfer[w].path
    <3>1. k \in Live \ {i} /\ xfer[w].path = NameOf[slots[k].url]
      BY <1>0, <1>2, <2>5 DEF PlaceOk, Transferring, Early
    <3> QED
      BY <2>2, <3>1 DEF Alone
  <2> QED
    BY <2>1, <2>4, <2>5, PartFrame
<1>3. ASSUME i = k, slots'[i] = slots[i], files' = files, Abandoned(i)
      PROVE  ~Exists(files', PartOf(slots'[i].path))
  <2>1. Alone(i)
    BY <1>0, <1>1, <1>3, SlotFrame DEF Alone
  <2> QED
    BY <1>1, <1>3, <2>1 DEF CancelInv
<1>4. ASSUME i = k PROVE ~Exists(files', PartOf(slots'[i].path))
  \* The worker does not go on with the item.
  <2>1. pc[w] # "scan" => \/ pc'[w] \in {"absent", "stopped", "scan"}
                          \/ pc'[w] = "finish" /\ xfer'[w].rc = "stopped"
    BY <1>0, <1>1, <1>4 DEF Abandoned, Held, Holding
  <2>2. CASE Scan(w)
    <3>1. slots'[i] = slots[i] /\ files' = files /\ i \notin Held
      BY <1>0, <1>4, <2>2 DEF Scan, table, Held, Holding
    <3> QED
      BY <1>3, <1>4, <3>1 DEF Abandoned
  <2>3. CASE ResolveFail(w) \/ ProbeFail(w)
    <3>1. PICK st \in {"failed", "manual-action-required"} :
            slots' = [slots EXCEPT ![k].state = st]
      BY <2>3 DEF ResolveFail, ProbeFail, SetState
    <3>2. slots'[i].state = st
      BY <1>0, <1>4, <3>1 DEF Item
    <3> QED
      BY <1>1, <3>2
  <2>4. CASE Finish(w)
    <3>1. slots'[i].state = Outcome(xfer[w].rc, slots[i].state) /\ files' = files
      BY <1>0, <1>4, <2>4 DEF Finish, SetState, Item
    <3>2. xfer[w].rc = "stopped"
      BY <1>0, <1>1, <3>1 DEF Outcome, Xfer
    <3>3. slots'[i] = slots[i]
      BY <1>0, <1>4, <2>4, <3>2 DEF Finish, SetState, Item, Outcome
    <3>4. Abandoned(i)
      BY <1>4, <2>4, <3>2 DEF Finish, Abandoned
    <3> QED
      BY <1>3, <1>4, <3>1, <3>3, <3>4
  <2>5. CASE CheckStop(w) \/ SegmentStop(w)
    <3>1. slots' = slots /\ slots[k].state = "cancelled" /\ xfer[w].path = slots[k].path
      BY <1>0, <1>1, <1>4, <2>5 DEF CheckStop, SegmentStop, table, PlaceOk, Transferring
    <3>2. pc'[w] = "finish"
      BY <1>0, <2>1, <2>5 DEF CheckStop, SegmentStop
    <3>3. files' = Unlinked(files, PartOf(slots[k].path))
      BY <1>0, <2>5, <3>1, <3>2 DEF CheckStop, SegmentStop
    <3>4. PartOf(slots[k].path) \in FileNames
      BY <1>0, NamesLemma DEF Item
    <3> QED
      BY <1>0, <1>4, <3>1, <3>3, <3>4 DEF Unlinked, Exists
  <2>6. CASE RenameFail(w)
    BY <1>0, <2>1, <2>6 DEF RenameFail, ActiveInv
  <2>7. CASE \/ MarkResolving(w) \/ ResolveOk(w) \/ ProbeOk(w) \/ Prepare(w) \/ ConnectFail(w)
             \/ OpenPart(w) \/ Prefix(w) \/ ReadChunk(w) \/ EndOfBody(w) \/ TransferError(w)
             \/ RenamePart(w) \/ Allocate(w) \/ SegmentsEnd(w) \/ SegmentsFail(w)
             \/ SegmentsRename(w)
    <3>1. CASE \/ MarkResolving(w) \/ ResolveOk(w) \/ ProbeOk(w) \/ OpenPart(w) \/ Prefix(w)
               \/ ReadChunk(w) \/ Allocate(w) \/ SegmentsEnd(w) \/ SegmentsFail(w)
      BY <1>0, <2>1, <3>1 DEF MarkResolving, ResolveOk, ProbeOk, OpenPart, Prefix, ReadChunk,
           Receive, Allocate, SegmentsEnd, SegmentsFail
    <3>2. CASE ConnectFail(w) \/ EndOfBody(w) \/ TransferError(w)
      <4>1. xfer'[w].rc = "error" /\ pc[w] # "scan" /\ pc'[w] \in {"rename", "finish"}
        BY <1>0, <3>2 DEF ConnectFail, EndOfBody, TransferError, Xfer
      <4> QED
        BY <2>1, <4>1
    <3>3. CASE RenamePart(w) \/ SegmentsRename(w)
      <4>1. xfer'[w].rc = "ok" /\ pc[w] # "scan" /\ pc'[w] = "finish"
        BY <1>0, <3>3 DEF RenamePart, SegmentsRename, Xfer
      <4> QED
        BY <2>1, <4>1
    <3>4. CASE Prepare(w)
      <4>1. /\ pc[w] # "scan" /\ pc'[w] \in {"finish", "connect", "allocate"}
            /\ pc'[w] = "finish" => xfer'[w].rc # "stopped"
        BY <1>0, <3>4 DEF Prepare, Xfer
      <4> QED
        BY <2>1, <4>1
    <3> QED
      BY <2>7, <3>1, <3>2, <3>3, <3>4
  <2> QED
    BY <2>2, <2>3, <2>4, <2>5, <2>6, <2>7 DEF WorkerStep
<1> QED
  BY <1>2, <1>4

\* Without a DELETE, or where no two items share a file, the item whose file is
\* left alone was alone before.
LEMMA CancelClientStep ==
    ASSUME TypeInv, IdsAscending, PointersHold, ActiveInv, Places, NoDelete \/ NamesApart,
           CancelInv, NEW c \in Clients, ClientStep(c)
    PROVE  CancelInv'
<1>0. /\ slots \in [SlotIndex -> Item] /\ files \in [FileNames -> Contents]
      /\ Live \subseteq SlotIndex /\ count \in Nat
  BY NativeQueueAssumption DEF TypeInv, TypeOK, Live, SlotIndex
<1>1. /\ UNCHANGED <<at, xfer>>
      /\ \A v \in Workers : pc'[v] = pc[v] \/ (pc[v] = "absent" /\ pc'[v] = "scan")
      /\ \A n \in FileNames : files'[n] \in {files[n], NoFile}
  BY ClientFrame, UnlinkFrame
<1>2. SUFFICES ASSUME NEW i \in Live', slots'[i].state = "cancelled", slots'[i].path # NoPath,
                      Abandoned(i)', Alone(i)'
               PROVE  ~Exists(files', PartOf(slots'[i].path))
  BY DEF CancelInv
\* It is enough to find the item before the step, cancelled and abandoned.
<1>3. ASSUME NEW k \in Live, slots'[i] = slots[k], Abandoned(k), Alone(k)
      PROVE  ~Exists(files', PartOf(slots'[i].path))
  <2>1. ~Exists(files, PartOf(slots[k].path))
    BY <1>2, <1>3 DEF CancelInv
  <2>2. PartOf(slots[k].path) \in FileNames
    BY <1>0, NamesLemma DEF Item
  <2> QED
    BY <1>1, <1>3, <2>1, <2>2 DEF Exists
<1>4. CASE DeleteInactive(c)
  <2>1. PICK d \in Live : slots' = ShiftedOut(d)
    BY <1>4 DEF DeleteInactive
  <2>2. count' = count - 1 /\ pc' = pc /\ NamesApart
    BY <1>4 DEF DeleteInactive, threads, NoDelete, Request
  <2>3. \A w \in Workers : Holding(w) => at[w] < d
    BY <2>1, <2>2, PointersLemma DEF TypeInv
  <2> DEFINE k == IF d <= i THEN i + 1 ELSE i
  <2>4. k \in Live /\ slots'[i] = slots[k] /\ i \in Nat /\ d \in Nat
    BY <1>0, <2>1, <2>2 DEF ShiftedOut, Live, SlotIndex
  <2>5. Alone(k)
    <3>1. slots[k].path = NameOf[slots[k].url]
      BY <1>2, <2>4 DEF Places, SlotOk
    <3> HIDE DEF k
    <3> QED
      BY <2>2, <2>4, <3>1 DEF Alone, NamesApart
  <2>6. Abandoned(k)
    <3>1. CASE d <= i
      BY <2>3, <2>4, <3>1 DEF Abandoned, Held
    <3>2. CASE ~(d <= i)
      BY <1>1, <1>2, <2>2, <2>4, <3>2 DEF Abandoned, Held, Holding
    <3> QED
      BY <3>1, <3>2
  <2> HIDE DEF k
  <2> QED
    BY <1>3, <2>4, <2>5, <2>6
<1>5. CASE ~DeleteInactive(c)
  <2>1. /\ \A k \in Live : k \in Live' /\ SameItem(slots[k], slots'[k])
        /\ \A k \in Live' \ Live : NewItem(slots'[k])
    BY <1>5, RequestFrame
  <2>2. i \in Live /\ slots'[i].path = slots[i].path /\ PartOf(slots[i].path) \in FileNames
    BY <1>0, <1>2, <2>1, NamesLemma DEF SameItem, NewItem, Item
  <2>3. Abandoned(i)
    BY <1>1, <1>2 DEF Abandoned, Held, Holding
  <2>4. Alone(i)
    <3>1. \A j \in Live \ {i} : j \in Live' \ {i} /\ slots'[j].url = slots[j].url
      BY <2>1 DEF SameItem
    <3> QED
      BY <1>2, <2>2, <3>1 DEF Alone
  <2>5. CASE slots[i].state = "cancelled"
    <3>1. ~Exists(files, PartOf(slots[i].path))
      BY <1>2, <2>2, <2>3, <2>4, <2>5 DEF CancelInv
    <3> QED
      BY <1>1, <2>2, <3>1 DEF Exists
  \* Only now it is cancelled: not by a DELETE, which finds a worker on it.
  <2>6. CASE slots[i].state # "cancelled"
    <3>1. Cancel(c)
      <4>1. CASE Post(c)
        <5>1. \E item : slots' = [slots EXCEPT ![count + 1] = item]
          BY <4>1 DEF Post
        <5>2. i # count + 1
          BY <1>0, <2>2 DEF Live
        <5> QED
          BY <1>0, <1>2, <2>2, <2>6, <5>1, <5>2
      <4>2. CASE Pause(c) \/ Resume(c)
        <5>1. PICK j \in SlotIndex, st \in {"paused", "waiting"} :
                slots' = [slots EXCEPT ![j].state = st]
          BY <1>0, <4>2 DEF Pause, Resume
        <5> QED
          BY <1>0, <1>2, <2>2, <2>6, <5>1 DEF Item
      <4>3. CASE StartWorker(c) \/ StartFail(c) \/ Shutdown(c) \/ DeleteUnlink(c)
        BY <1>2, <2>6, <4>3 DEF StartWorker, StartFail, Shutdown, DeleteUnlink, table
      <4>4. CASE DeleteActive(c)
        <5>1. PICK j \in Live : /\ slots[j].state \in Active
                                /\ slots' = [slots EXCEPT ![j].state = "cancelled"]
          BY <4>4 DEF DeleteActive
        <5>2. i = j
          BY <1>0, <1>2, <2>2, <2>6, <5>1
        <5>3. i \in Held
          BY <5>1, <5>2 DEF ActiveInv, ActiveHasWorker
        <5>4. PICK w \in Workers : at[w] = i /\ pc[w] = "finish" /\ xfer[w].rc = "stopped"
          BY <2>3, <5>3 DEF Abandoned
        <5> QED
          BY <5>1, <5>2, <5>4 DEF ActiveInv
      <4> QED
        BY <1>5, <4>1, <4>2, <4>3, <4>4 DEF ClientStep
    <3>2. PICK j \in Live :
            /\ slots' = [slots EXCEPT ![j].state = "cancelled"]
            /\ files' = IF slots[j].path = NoPath THEN files
                        ELSE Unlinked(files, PartOf(slots[j].path))
      BY <3>1 DEF Cancel
    <3>3. i = j
      BY <1>0, <1>2, <2>2, <2>6, <3>2
    <3> QED
      BY <1>0, <1>2, <2>2, <3>2, <3>3 DEF Unlinked, Exists
  <2> QED
    BY <2>5, <2>6
<1> QED
  BY <1>4, <1>5

LEMMA CancelStep ==
    ASSUME TypeInv, IdsAscending, SingleWorker, ActiveInv, Places, NoDelete \/ NamesApart,
           CancelInv, [Next]_vars, [PointersHold]_vars
    PROVE  CancelInv'
<1>1. CASE UNCHANGED vars
  <2>1. UNCHANGED <<slots, count, pc, at, xfer, files>>
    BY <1>1 DEF vars
  <2> QED
    BY <2>1 DEF CancelInv, Live, Abandoned, Alone, Held, Holding
<1>2. CASE \E w \in Workers : WorkerStep(w)
  BY <1>2, CancelWorkerStep
<1>3. CASE PointersHold /\ \E c \in Clients : ClientStep(c)
  BY <1>3, CancelClientStep
<1>4. CASE Restart
  BY <1>4 DEF Restart, CancelInv, Live
<1> QED
  BY <1>1, <1>2, <1>3, <1>4 DEF Next

\* A cancelled item's .part file is gone as soon as no worker is on the item,
\* whenever during resolving, probing or downloading the request came: the
\* handler removes what is there, and the worker removes what it still wrote.
\* DELETE of an item a worker is on may take the place of the cancel.  (Of two
\* items with one file, the DELETE of one leaves the file for the other for as
\* long as its unlink is outstanding.)
THEOREM CancelLeavesNothing ==
    /\ Spec
    /\ []SingleWorker
    /\ [][PointersHold]_vars
    /\ [](NoDelete \/ NamesApart)
    => []CancelledLeavesNoPart
<1>1. Init => CancelInv
  BY DEF Init, CancelInv, Live
<1>2. /\ TypeInv /\ IdsAscending /\ SingleWorker /\ ActiveInv /\ Places
      /\ (NoDelete \/ NamesApart) /\ CancelInv /\ [Next]_vars /\ [PointersHold]_vars
      => CancelInv'
  BY CancelStep
<1>3. CancelInv => CancelledLeavesNoPart
  BY DEF CancelInv, CancelledLeavesNoPart, Abandoned, Alone
<1> QED
  BY PlacesInvariance, <1>1, <1>2, <1>3, PTL DEF Spec

(***************************************************************************)
(* What the files hold                                                     *)
(***************************************************************************)
NamesDiffer == \A u, v \in Urls : NameOf[u] = NameOf[v] => u = v

\* c may be the content of the .part file of u.
PartOk(u, c) == c # NoFile => IsPrefixOf(c, Whole(u)) \/ (u \in Large /\ Len(c) = Size)

\* What a worker at p that downloads u knows of the .part file's content c: how
\* many chunks it has counted are in the file, unless a request has unlinked it.
TransferOk(u, x, p, d, c) ==
    /\ p = "connect" => IF x.append THEN c # NoFile /\ Len(c) = x.total /\ x.total > 0
                        ELSE x.total = 0 /\ (c = NoFile \/ Len(c) = 0)
    /\ p = "prefix" => x.total < Size
    /\ p \in WithFile => d = PartOf(NameOf[u]) \/ (d = Detached /\ c = NoFile)
    /\ p \in {"prefix", "check", "read", "rename"} =>
          c = NoFile \/ (Len(c) = x.total /\ IsPrefixOf(c, Whole(u)))
    /\ p = "rename" => x.rc = "error" /\ (u \in Sized => x.total = Size)
    /\ p \in {"allocate", "segcheck", "segments", "segrename"} =>
          x.total = 0 /\ ~x.append /\ u \in Ranged \cap Sized \cap Large
    /\ p = "allocate" => c = NoFile \/ Len(c) = 0
    /\ p \in {"segcheck", "segments"} => c \in {NoFile, Allocated}
    /\ p = "segrename" => c \in {NoFile, Whole(u)}

TransferInv(w) ==
    LET u == slots[at[w]].url
    IN  TransferOk(u, xfer[w], pc[w], fd[w], files[PartOf(NameOf[u])])

FilesInv ==
    /\ PartIsPrefix /\ FinalIsWhole
    /\ \A w \in Workers : TransferInv(w)

LEMMA WholeLemma ==
    ASSUME NEW u \in UrlValues
    PROVE  /\ Whole(u) \in Seq(Chunks) /\ Whole(u) # NoFile
           /\ Len(Whole(u)) = Size /\ DOMAIN Whole(u) = 1 .. Size
           /\ \A k \in 1 .. Size : Whole(u)[k] = <<u, k>>
<1>1. Whole(u) \in [1 .. Size -> Chunks]
  BY DEF Whole, Chunks
<1>2. Whole(u) \in Seq(Chunks)
  <2> HIDE DEF Whole, Chunks
  <2> QED
    BY <1>1, NativeQueueAssumption
<1> QED
  BY <1>2, NoFileAssumption, NativeQueueAssumption DEF Whole

LEMMA AllocatedLemma == /\ Allocated \in Seq(Chunks) /\ Allocated # NoFile
                        /\ Len(Allocated) = Size
<1>1. Allocated \in [1 .. Size -> Chunks]
  BY DEF Allocated, Chunks
<1>2. Allocated \in Seq(Chunks)
  <2> HIDE DEF Allocated, Chunks
  <2> QED
    BY <1>1, NativeQueueAssumption
<1> QED
  BY <1>2, NoFileAssumption, NativeQueueAssumption DEF Allocated

\* A file grows towards Whole(u) chunk by chunk, and has reached it at its length.
LEMMA PrefixLemma ==
    ASSUME NEW u \in Urls, NEW s \in Seq(Chunks)
    PROVE  /\ IsPrefixOf(<<>>, Whole(u)) /\ IsPrefixOf(Whole(u), Whole(u))
           /\ IsPrefixOf(s, s) /\ IsPrefixOf(<<>>, s)
           /\ IsPrefixOf(s, Whole(u)) => Len(s) <= Size
           /\ IsPrefixOf(s, Whole(u)) /\ Len(s) < Size
                 => /\ IsPrefixOf(Append(s, <<u, Len(s) + 1>>), Whole(u))
                    /\ IsPrefixOf(s, Append(s, <<u, Len(s) + 1>>))
                    /\ Len(Append(s, <<u, Len(s) + 1>>)) = Len(s) + 1
                    /\ Append(s, <<u, Len(s) + 1>>) \in Seq(Chunks)
           /\ IsPrefixOf(s, Whole(u)) /\ Len(s) = Size => s = Whole(u)
<1>1. Size \in Nat /\ Len(s) \in Nat /\ s \in [1 .. Len(s) -> Chunks] /\ u \in UrlValues
  BY NativeQueueAssumption, LenProperties DEF UrlValues
<1>2. IsPrefixOf(<<>>, Whole(u)) /\ IsPrefixOf(<<>>, s)
  BY <1>1, WholeLemma DEF IsPrefixOf
<1>3. IsPrefixOf(s, s) /\ IsPrefixOf(Whole(u), Whole(u))
  BY <1>1, WholeLemma DEF IsPrefixOf
<1>4. IsPrefixOf(s, Whole(u)) => Len(s) <= Size
  BY <1>1, WholeLemma DEF IsPrefixOf
<1>5. ASSUME IsPrefixOf(s, Whole(u)), Len(s) < Size
      PROVE  /\ IsPrefixOf(Append(s, <<u, Len(s) + 1>>), Whole(u))
             /\ IsPrefixOf(s, Append(s, <<u, Len(s) + 1>>))
             /\ Len(Append(s, <<u, Len(s) + 1>>)) = Len(s) + 1
             /\ Append(s, <<u, Len(s) + 1>>) \in Seq(Chunks)
  <2> DEFINE n == Append(s, <<u, Len(s) + 1>>)
  <2>1. <<u, Len(s) + 1>> \in Chunks
    BY <1>1, <1>5 DEF Chunks
  <2>2. n \in Seq(Chunks) /\ Len(n) = Len(s) + 1 /\ DOMAIN n = 1 .. Len(s) + 1
    BY <2>1, AppendProperties, LenProperties
  <2>3. \A k \in 1 .. Len(s) : n[k] = s[k]
    BY <2>1, AppendProperties
  <2>4. \A k \in 1 .. Len(s) + 1 : n[k] = <<u, k>>
    <3>1. n[Len(s) + 1] = <<u, Len(s) + 1>>
      BY <2>1, AppendProperties
    <3>2. \A k \in 1 .. Len(s) : s[k] = <<u, k>>
      BY <1>1, <1>5, WholeLemma DEF IsPrefixOf
    <3> QED
      BY <1>1, <2>3, <3>1, <3>2
  <2> HIDE DEF n
  <2>5. IsPrefixOf(n, Whole(u))
    BY <1>1, <1>5, <2>2, <2>4, WholeLemma DEF IsPrefixOf
  <2>6. IsPrefixOf(s, n)
    BY <1>1, <2>2, <2>3 DEF IsPrefixOf
  <2> QED
    BY <2>2, <2>5, <2>6 DEF n
<1>6. ASSUME IsPrefixOf(s, Whole(u)), Len(s) = Size
      PROVE  s = Whole(u)
  <2>1. \A k \in 1 .. Size : s[k] = <<u, k>>
    BY <1>1, <1>6, WholeLemma DEF IsPrefixOf
  <2>2. s = [k \in 1 .. Size |-> <<u, k>>]
    BY <1>1, <1>6, <2>1
  <2> QED
    BY <2>2 DEF Whole
<1> QED
  BY <1>2, <1>3, <1>4, <1>5, <1>6

\* The progress of u is kept: its .part file grows or becomes the final file.
Kept(u) ==
    LET part == PartOf(NameOf[u])
    IN  Exists(files, part) /\ (u \in Large => Len(files[part]) \in 1 .. Size - 1) =>
          \/ files'[part] # NoFile /\ IsPrefixOf(files[part], files'[part])
          \/ files'[FinalOf(NameOf[u])] = files[part]

LEMMA UnchangedKept ==
    ASSUME Ranged \subseteq Urls, files \in [FileNames -> Contents], files' = files
    PROVE  \A u \in Ranged : Kept(u)
<1> SUFFICES ASSUME NEW u \in Ranged, Exists(files, PartOf(NameOf[u]))
             PROVE  IsPrefixOf(files[PartOf(NameOf[u])], files[PartOf(NameOf[u])])
  BY DEF Kept, Exists
<1> DEFINE c == files[PartOf(NameOf[u])]
<1>1. u \in Urls /\ PartOf(NameOf[u]) \in FileNames
  BY NamesLemma, NativeQueueAssumption DEF PathValues
<1>2. c \in Seq(Chunks)
  BY <1>1 DEF Exists, Contents
<1> HIDE DEF c
<1>3. IsPrefixOf(c, c)
  BY <1>1, <1>2, PrefixLemma
<1> QED
  BY <1>3 DEF c

\* The worker finds its item cancelled and unlinks what it has.
CancelStop(w) == CheckStop(w) /\ slots[at[w]].state = "cancelled"

\* A transfer that ends well leaves the whole file under the final name f.
EndOk(u, x, p, f) == p = "finish" /\ x.rc = "ok" /\ u \in Sized => f = Whole(u)

\* A step of the worker w while it is on an item with the URL u.
FileStep(w, u) ==
    LET part  == PartOf(NameOf[u])
        final == FinalOf(NameOf[u])
    IN  /\ \A n \in FileNames \ {part, final} : files'[n] = files[n]
        /\ PartOk(u, files'[part])
        /\ files'[final] # files[final] =>
              files'[final] = files[part] /\ (u \in Sized => files'[final] = Whole(u))
        /\ u \in Ranged /\ ~CancelStop(w) => Kept(u)
        /\ TransferOk(u, xfer'[w], pc'[w], fd'[w], files'[part])
        /\ EndOk(u, xfer'[w], pc'[w], files'[final])

LEMMA FileStepHolds ==
    ASSUME TypeInv, SingleWorker, Places, FilesInv,
           NEW w \in Workers, WorkerStep(w), pc[w] # "scan"
    PROVE  FileStep(w, slots[at[w]].url)
<1> DEFINE s     == slots[at[w]]
           u     == s.url
           x     == xfer[w]
           y     == xfer'[w]
           part  == PartOf(NameOf[u])
           final == FinalOf(NameOf[u])
           c     == files[part]
           f     == files[final]
<1>0. /\ TypeOK
      /\ files \in [FileNames -> Contents] /\ pc \in [Workers -> WorkerPc]
      /\ xfer \in [Workers -> Xfer] /\ fd \in [Workers -> FileNames \cup {Detached}]
      /\ x \in Xfer /\ x.total \in Nat /\ x.append \in BOOLEAN
      /\ Size \in Nat /\ Size > 0 /\ NoUrl \notin Urls /\ NoPath \notin Paths
  BY NativeQueueAssumption, NoPathAssumption DEF TypeInv, TypeOK, Xfer
<1>1. /\ PlaceOk(s, x, pc[w], fd[w]) /\ at[w] \in Live /\ u \in Urls
      /\ pc[w] \notin {"absent", "stopped"}
  BY <1>0, WorkerFrame DEF Places, Holding, SlotOk, Gone
<1>2. /\ NameOf[u] \in Paths /\ NameOf[u] # NoPath /\ NameOf[u] \in PathValues
      /\ part \in FileNames /\ final \in FileNames /\ part # final /\ part # Detached
      /\ c \in Contents /\ f \in Contents /\ u \in UrlValues
  <2>1. NameOf[u] \in Paths /\ NameOf[u] # NoPath /\ NameOf[u] \in PathValues /\ u \in UrlValues
    BY <1>0, <1>1, NativeQueueAssumption DEF PathValues, UrlValues
  <2>2. part \in FileNames /\ final \in FileNames /\ part # final /\ part # Detached
    BY <2>1, NamesLemma, DetachedAssumption
  <2> HIDE DEF part, final
  <2> QED
    BY <1>0, <2>1, <2>2
<1>3. /\ TransferOk(u, x, pc[w], fd[w], c)
      /\ PartOk(u, c)
      /\ u \in Sized => f \in {NoFile, Whole(u)}
  BY <1>1 DEF FilesInv, TransferInv, PartIsPrefix, FinalIsWhole, PartOk, Exists
<1>4. SUFFICES
        /\ \A n \in FileNames \ {part, final} : files'[n] = files[n]
        /\ PartOk(u, files'[part])
        /\ files'[final] # f => files'[final] = c /\ (u \in Sized => files'[final] = Whole(u))
        /\ u \in Ranged /\ ~CancelStop(w) /\ c # NoFile
             /\ (u \in Large => Len(c) \in 1 .. Size - 1) =>
              \/ files'[part] # NoFile /\ IsPrefixOf(c, files'[part])
              \/ files'[final] = c
        /\ TransferOk(u, y, pc'[w], fd'[w], files'[part])
        /\ EndOk(u, y, pc'[w], files'[final])
  BY DEF FileStep, Kept, Exists
<1> DEFINE Goal ==
        /\ \A n \in FileNames \ {part, final} : files'[n] = files[n]
        /\ PartOk(u, files'[part])
        /\ files'[final] # f => files'[final] = c /\ (u \in Sized => files'[final] = Whole(u))
        /\ u \in Ranged /\ ~CancelStop(w) /\ c # NoFile
             /\ (u \in Large => Len(c) \in 1 .. Size - 1) =>
              \/ files'[part] # NoFile /\ IsPrefixOf(c, files'[part])
              \/ files'[final] = c
        /\ TransferOk(u, y, pc'[w], fd'[w], files'[part])
        /\ EndOk(u, y, pc'[w], files'[final])
<1>5. ASSUME files' = files, TransferOk(u, y, pc'[w], fd'[w], c), EndOk(u, y, pc'[w], f)
      PROVE  Goal
  <2>1. c # NoFile => IsPrefixOf(c, c)
    BY <1>1, <1>2, PrefixLemma DEF Contents
  <2> QED
    BY <1>3, <1>5, <2>1
\* Only the part changes.
<1>6. ASSUME NEW c2, files' = [files EXCEPT ![part] = c2], PartOk(u, c2),
             TransferOk(u, y, pc'[w], fd'[w], c2), EndOk(u, y, pc'[w], f),
             u \in Ranged /\ ~CancelStop(w) /\ c # NoFile
               /\ (u \in Large => Len(c) \in 1 .. Size - 1)
               => c2 # NoFile /\ IsPrefixOf(c, c2)
      PROVE  Goal
  <2>1. /\ files'[part] = c2 /\ files'[final] = f
        /\ \A n \in FileNames \ {part, final} : files'[n] = files[n]
    BY <1>0, <1>2, <1>6
  <2> HIDE DEF part, final, u, c, f, y
  <2> QED
    BY <1>6, <2>1
\* The part becomes the final file.
<1>7. ASSUME files' = Renamed(files, part, final), u \in Sized => c = Whole(u),
             pc'[w] = "finish"
      PROVE  Goal
  <2>1. /\ files'[part] = NoFile /\ files'[final] = c
        /\ \A n \in FileNames \ {part, final} : files'[n] = files[n]
    BY <1>0, <1>2, <1>7 DEF Renamed
  <2> HIDE DEF part, final, u, c, f, y
  <2> QED
    BY <1>7, <2>1 DEF PartOk, TransferOk, EndOk, WithFile
<1> HIDE DEF Goal
<1>8. SUFFICES Goal
  BY DEF Goal
<1>9. CASE \/ MarkResolving(w) \/ ResolveOk(w) \/ ResolveFail(w) \/ ProbeOk(w) \/ ProbeFail(w)
           \/ Finish(w)
  <2>1. files' = files /\ pc'[w] \in {"resolve", "probe", "prepare", "scan"}
    BY <1>0, <1>9 DEF MarkResolving, ResolveOk, ResolveFail, ProbeOk, ProbeFail, Finish
  <2>2. TransferOk(u, y, pc'[w], fd'[w], c) /\ EndOk(u, y, pc'[w], f)
    BY <2>1 DEF TransferOk, EndOk, WithFile
  <2> QED
    BY <1>5, <2>1, <2>2
<1>10. CASE Prepare(w)
  <2>1. /\ pc[w] = "prepare" /\ x.probed = u /\ s.resolved = u /\ s.path = NameOf[u]
        /\ fd[w] = Detached
    BY <1>1, <1>10 DEF Prepare, PlaceOk, Early, WithFile
  <2>2. u # NoUrl /\ (Expects(w) <=> u \in Sized)
    BY <1>0, <1>1, <2>1 DEF Expects
  <2> DEFINE size  == SizeOrZero(files, part)
             keep  == KeepsPart(w, part)
             drop  == size > 0 /\ ~keep
             start == IF keep THEN size ELSE 0
  <2>3. /\ size = IF c = NoFile THEN 0 ELSE Len(c)
        /\ size \in 0 .. Size
    <3>1. size = IF c = NoFile THEN 0 ELSE Len(c)
      BY DEF SizeOrZero, Exists
    <3>2. c # NoFile => Len(c) \in 0 .. Size
      <4>1. ASSUME c # NoFile PROVE Len(c) \in Nat /\ Len(c) <= Size
        <5>1. c \in Seq(Chunks)
          BY <1>2, <4>1 DEF Contents
        <5>2. Len(c) \in Nat
          BY <5>1, LenProperties
        <5>3. Len(c) <= Size
          <6>1. PartOk(u, c) /\ u \in Urls
            BY <1>1, <1>3
          <6> HIDE DEF c, u
          <6> QED
            <7>1. IsPrefixOf(c, Whole(u)) => Len(c) <= Size
              BY <5>1, <6>1, PrefixLemma
            <7>2. IsPrefixOf(c, Whole(u)) \/ Len(c) = Size
              BY <4>1, <6>1 DEF PartOk
            <7>3. Size \in Nat
              BY <1>0
            <7> QED
              BY <7>1, <7>2, <7>3
        <5> QED
          BY <5>2, <5>3
      <4> QED
        BY <1>0, <4>1
    <3> QED
      BY <1>0, <3>1, <3>2
  <2>4. /\ keep <=> size > 0 /\ u \in Ranged
        /\ keep => start = size /\ ~drop
        /\ ~keep => start = 0
    BY <1>0, <2>1, <2>2, <2>3 DEF KeepsPart
  <2> HIDE DEF size, keep
  <2>5. CASE Expects(w) /\ SizeIs(files, final, Size)
    <3>1. files' = files /\ pc'[w] = "finish" /\ f # NoFile
      BY <1>0, <1>10, <2>1, <2>2, <2>5 DEF Prepare, SizeIs, Exists
    <3>2. TransferOk(u, y, pc'[w], fd'[w], c) /\ EndOk(u, y, pc'[w], f)
      BY <1>3, <2>2, <2>5, <3>1 DEF TransferOk, EndOk, WithFile
    <3> QED
      BY <1>5, <3>1, <3>2
  <2>6. CASE ~(Expects(w) /\ SizeIs(files, final, Size))
    <3>1. /\ files' = IF drop THEN Unlinked(files, part) ELSE files
          /\ pc' = [pc EXCEPT ![w] = IF start = 0 /\ Segmented(w) THEN "allocate" ELSE "connect"]
          /\ xfer' = [xfer EXCEPT ![w].url    = s.resolved,
                                  ![w].path   = s.path,
                                  ![w].total  = IF start < Size THEN start ELSE Size,
                                  ![w].append = start > 0]
      BY <1>10, <2>1, <2>2, <2>6 DEF Prepare, size, keep
    <3>2. /\ pc'[w] = IF start = 0 /\ Segmented(w) THEN "allocate" ELSE "connect"
          /\ y.total = IF start < Size THEN start ELSE Size
          /\ y.append <=> start > 0
      BY <1>0, <3>1 DEF Xfer
    <3>3. y.total = start
      BY <1>0, <2>3, <2>4, <3>2
    <3>4. Segmented(w) <=> u \in Ranged \cap Sized \cap Large
      BY <2>1 DEF Segmented
    <3>5. CASE drop
      <4>1. files' = [files EXCEPT ![part] = NoFile]
        BY <3>1, <3>5 DEF Unlinked
      <4>2. start = 0 /\ u \notin Ranged
        BY <2>4, <3>5
      <4>3. TransferOk(u, y, pc'[w], fd'[w], NoFile) /\ PartOk(u, NoFile) /\ EndOk(u, y, pc'[w], f)
        BY <1>0, <3>2, <3>3, <3>4, <4>2 DEF TransferOk, EndOk, WithFile, PartOk
      <4> QED
        BY <1>6, <4>1, <4>2, <4>3
    <3>6. CASE ~drop
      <4>1. start = size
        BY <2>3, <2>4, <3>6
      <4>2. TransferOk(u, y, pc'[w], fd'[w], c) /\ EndOk(u, y, pc'[w], f)
        <5>1. y.total = (IF c = NoFile THEN 0 ELSE Len(c)) /\ y.total \in Nat
          BY <1>0, <2>3, <3>3, <4>1
        <5>2. y.append <=> y.total > 0
          BY <3>2, <3>3
        <5>3. \/ pc'[w] = "connect"
              \/ /\ pc'[w] = "allocate" /\ y.total = 0 /\ u \in Ranged \cap Sized \cap Large
          BY <3>2, <3>3, <3>4
        <5>4. y.total = 0 => c = NoFile \/ Len(c) = 0
          BY <5>1
        <5> HIDE DEF y, c, f, u
        <5> QED
          BY <5>1, <5>2, <5>3, <5>4 DEF TransferOk, EndOk, WithFile
      <4> QED
        BY <1>5, <3>1, <3>6, <4>2
    <3> QED
      BY <3>5, <3>6
  <2> QED
    BY <2>5, <2>6
\* From here on the worker has its URL and its path.
<1>11. ASSUME pc[w] \in Transferring
       PROVE  /\ x.url = u /\ x.probed = u /\ x.path = NameOf[u] /\ s.path = NameOf[u]
              /\ PartOf(x.path) = part /\ FinalOf(s.path) = final
              /\ Expects(w) <=> u \in Sized
  <2>1. x.url = u /\ x.probed = u /\ x.path = NameOf[u] /\ s.path = NameOf[u]
    BY <1>1, <1>11 DEF PlaceOk, Transferring, Early
  <2> QED
    BY <2>1 DEF Expects
<1>12. CASE ConnectFail(w) \/ TransferError(w) \/ EndOfBody(w) \/ RenameFail(w)
  <2>1. files' = files /\ pc[w] \in Transferring
    BY <1>12 DEF ConnectFail, TransferError, EndOfBody, RenameFail, Transferring
  <2>2. TransferOk(u, y, pc'[w], fd'[w], c) /\ EndOk(u, y, pc'[w], f)
    <3>1. CASE ConnectFail(w) \/ TransferError(w)
      BY <1>0, <3>1 DEF ConnectFail, TransferError, TransferOk, EndOk, WithFile, Xfer
    <3>2. CASE EndOfBody(w)
      <4>1. /\ pc[w] = "read" /\ y.rc = "error" /\ y.total = x.total
            /\ pc'[w] = "finish" \/ (pc'[w] = "rename" /\ (u \in Sized => x.total = Size))
        BY <1>0, <1>11, <2>1, <3>2 DEF EndOfBody, Xfer
      <4> QED
        BY <1>3, <4>1 DEF TransferOk, EndOk, WithFile
    <3>3. CASE RenameFail(w)
      BY <1>0, <1>3, <3>3 DEF RenameFail, TransferOk, EndOk, WithFile
    <3> QED
      BY <1>12, <3>1, <3>2, <3>3
  <2> QED
    BY <1>5, <2>1, <2>2
<1>13. CASE CheckStop(w)
  <2>0. pc[w] = "check" /\ PartOf(x.path) = part
    BY <1>11, <1>13 DEF CheckStop, Transferring
  <2>1. CASE s.state = "cancelled"
    <3>1. files' = [files EXCEPT ![part] = NoFile] /\ pc'[w] = "finish" /\ y.rc = "stopped"
      BY <1>0, <1>13, <2>0, <2>1 DEF CheckStop, Unlinked, Xfer
    <3>2. /\ TransferOk(u, y, pc'[w], fd'[w], NoFile) /\ PartOk(u, NoFile)
          /\ EndOk(u, y, pc'[w], f)
      BY <3>1 DEF TransferOk, EndOk, WithFile, PartOk
    <3>3. CancelStop(w)
      BY <1>13, <2>1 DEF CancelStop
    <3> QED
      BY <1>6, <3>1, <3>2, <3>3
  <2>2. CASE s.state # "cancelled"
    <3>1. /\ files' = files
          /\ \/ pc'[w] = "finish" /\ y.rc = "stopped"
             \/ pc'[w] = "read" /\ y = x /\ fd' = fd
      BY <1>0, <1>13, <2>2 DEF CheckStop, Xfer
    <3>2. TransferOk(u, y, pc'[w], fd'[w], c) /\ EndOk(u, y, pc'[w], f)
      BY <1>3, <2>0, <3>1 DEF TransferOk, EndOk, WithFile
    <3> QED
      BY <1>5, <3>1, <3>2
  <2> QED
    BY <2>1, <2>2
<1>14. CASE OpenPart(w)
  <2>1. /\ pc[w] = "connect" /\ PartOf(x.path) = part /\ x.url = u
        /\ IF x.append THEN c # NoFile /\ Len(c) = x.total /\ x.total > 0
           ELSE x.total = 0 /\ (c = NoFile \/ Len(c) = 0)
    BY <1>3, <1>11, <1>14 DEF OpenPart, TransferOk, Transferring
  <2> DEFINE c2 == IF x.append /\ c # NoFile THEN c ELSE <<>>
  <2>2. /\ files' = [files EXCEPT ![part] = c2]
        /\ pc'[w] \in {"prefix", "check"} /\ fd'[w] = part /\ y = x
    BY <1>0, <1>14, <2>1 DEF OpenPart, Opened, Exists
  <2>3. x.total = 0 \/ (x.total # Size /\ u \in Ranged)
    <3>1. ~Refused(w)
      BY <1>14 DEF OpenPart
    <3> QED
      BY <1>0, <2>1, <3>1 DEF Refused
  <2>4. x.total < Size
    <3>1. x.total \in 0 .. Size
      BY <1>0 DEF Xfer
    <3> HIDE DEF x
    <3> QED
      BY <1>0, <2>3, <3>1
  <2>5. /\ c2 # NoFile /\ Len(c2) = x.total /\ IsPrefixOf(c2, Whole(u))
        /\ c # NoFile => IsPrefixOf(c, c2)
    <3>1. ASSUME x.append
          PROVE  /\ c2 # NoFile /\ Len(c2) = x.total /\ IsPrefixOf(c2, Whole(u))
                 /\ c # NoFile => IsPrefixOf(c, c2)
      <4>1. c2 = c /\ c # NoFile /\ Len(c) = x.total /\ c \in Seq(Chunks)
        <5>1. c # NoFile /\ Len(c) = x.total
          BY <2>1, <3>1
        <5> QED
          BY <1>2, <3>1, <5>1 DEF Contents
      <4>2. IsPrefixOf(c, c)
        BY <1>1, <4>1, PrefixLemma
      <4>3. IsPrefixOf(c, Whole(u))
        BY <1>0, <1>3, <2>4, <4>1 DEF PartOk
      <4> HIDE DEF c, c2
      <4> QED
        BY <4>1, <4>2, <4>3
    <3>2. ASSUME ~x.append
          PROVE  /\ c2 # NoFile /\ Len(c2) = x.total /\ IsPrefixOf(c2, Whole(u))
                 /\ c # NoFile => IsPrefixOf(c, c2)
      <4>0. <<>> \in Seq(Chunks) /\ <<>> # NoFile /\ Len(<<>>) = 0 /\ IsPrefixOf(<<>>, Whole(u))
        <5>1. <<>> \in Seq(Chunks) /\ Len(<<>>) = 0
          OBVIOUS
        <5>2. <<>> # NoFile
          BY <5>1, NoFileAssumption, Zenon
        <5> QED
          BY <1>1, <5>1, <5>2, PrefixLemma
      <4>1. c2 = <<>> /\ x.total = 0
        BY <2>1, <3>2
      <4>2. c # NoFile => c = <<>>
        <5>1. ASSUME c # NoFile PROVE c = <<>>
          <6>1. c \in Seq(Chunks) /\ Len(c) = 0
            BY <1>2, <2>1, <3>2, <5>1 DEF Contents
          <6> HIDE DEF c
          <6> QED
            BY <6>1, EmptySeq
        <5> QED
          BY <5>1
      <4>3. IsPrefixOf(<<>>, <<>>)
        BY <1>1, <4>0, PrefixLemma
      <4> HIDE DEF c, c2
      <4> QED
        BY <4>0, <4>1, <4>2, <4>3
    <3> QED
      BY <3>1, <3>2
  <2> HIDE DEF c2, part, c, f, u, x, y
  <2>6. TransferOk(u, y, pc'[w], fd'[w], c2) /\ PartOk(u, c2) /\ EndOk(u, y, pc'[w], f)
    BY <2>2, <2>4, <2>5 DEF TransferOk, EndOk, WithFile, PartOk, part
  <2> QED
    BY <1>6, <2>2, <2>5, <2>6
<1>15. CASE Prefix(w) \/ ReadChunk(w)
  <2>0. /\ pc[w] \in {"prefix", "read"} /\ x.url = u
        /\ fd[w] = part \/ (fd[w] = Detached /\ c = NoFile)
        /\ c # NoFile => Len(c) = x.total /\ IsPrefixOf(c, Whole(u))
    BY <1>3, <1>11, <1>15 DEF Prefix, ReadChunk, TransferOk, Transferring, WithFile
  \* Unlinked meanwhile: what is written goes with the file.
  <2>a. CASE fd[w] = Detached /\ c = NoFile
    <3>1. files' = files /\ pc'[w] = "check" /\ fd' = fd
      BY <1>0, <1>15, <2>a DEF Prefix, ReadChunk, Receive, Written
    <3>2. TransferOk(u, y, pc'[w], fd'[w], c) /\ EndOk(u, y, pc'[w], f)
      BY <2>a, <3>1 DEF TransferOk, EndOk, WithFile
    <3> QED
      BY <1>5, <3>1, <3>2
  <2>b. SUFFICES ASSUME fd[w] = part PROVE Goal
    BY <2>0, <2>a
  <2>c. c # NoFile
    BY <2>b, <1>2 DEF TypeInv, StoreInv, Exists
  <2>1. /\ pc[w] \in {"prefix", "read"} /\ x.url = u /\ fd[w] = part
        /\ c # NoFile /\ Len(c) = x.total /\ IsPrefixOf(c, Whole(u))
    BY <2>0, <2>b, <2>c
  <2> DEFINE chunk == <<u, x.total + 1>>
             c2    == Append(c, <<u, Len(c) + 1>>)
  <2>2. /\ x.total < Size /\ pc'[w] = "check" /\ fd' = fd
        /\ y.total = x.total + 1
        /\ files' = Written(files, part, x.append, x.total, chunk)
    BY <1>0, <1>15, <2>1 DEF Prefix, ReadChunk, Receive, Xfer
  <2>3. c \in Seq(Chunks)
    BY <1>2, <2>1 DEF Contents
  <2>4. chunk \in Chunks
    BY <1>0, <1>2, <2>2 DEF Chunks
  <2>5. files' = [files EXCEPT ![part] = c2]
    <3> DEFINE pos == IF x.append THEN Len(c) ELSE x.total
    <3>1. pos \in Nat /\ pos = Len(c)
      BY <1>0, <2>1
    <3>2. files' = [files EXCEPT ![part] = WriteAt(c, pos, chunk)]
      BY <1>0, <1>2, <2>2 DEF Written
    <3>3. WriteAt(c, pos, chunk) = Append(c, chunk)
      <4> HIDE DEF c, chunk, pos
      <4> QED
        BY <2>3, <2>4, <3>1, ChunksLemma, WriteAtLemma
    <3> QED
      BY <2>1, <3>2, <3>3
  <2>6. /\ IsPrefixOf(c2, Whole(u)) /\ IsPrefixOf(c, c2)
        /\ Len(c2) = x.total + 1 /\ c2 # NoFile
    <3>1. /\ IsPrefixOf(c2, Whole(u)) /\ IsPrefixOf(c, c2)
          /\ Len(c2) = Len(c) + 1 /\ c2 \in Seq(Chunks)
      <4>1. u \in Urls /\ Len(c) < Size /\ IsPrefixOf(c, Whole(u))
        BY <1>1, <2>1, <2>2
      <4> HIDE DEF c, u
      <4> QED
        BY <2>3, <4>1, PrefixLemma
    <3> HIDE DEF c2
    <3> QED
      BY <2>1, <3>1, NoFileAssumption
  <2> HIDE DEF c2, part, c, f, u, x, y
  <2>7. TransferOk(u, y, pc'[w], fd'[w], c2) /\ PartOk(u, c2) /\ EndOk(u, y, pc'[w], f)
    BY <2>1, <2>2, <2>6 DEF TransferOk, EndOk, WithFile, PartOk, part
  <2> QED
    BY <1>6, <2>5, <2>6, <2>7
<1>16. CASE RenamePart(w)
  <2>0. pc[w] = "rename" /\ PartOf(x.path) = part /\ c # NoFile
    BY <1>11, <1>16 DEF RenamePart, Transferring, Exists
  <2>1. /\ pc[w] = "rename" /\ PartOf(x.path) = part /\ FinalOf(s.path) = final
        /\ c # NoFile /\ Len(c) = x.total /\ IsPrefixOf(c, Whole(u))
        /\ u \in Sized => x.total = Size
    BY <1>3, <1>11, <2>0 DEF TransferOk, Transferring
  <2>2. files' = Renamed(files, part, final) /\ pc'[w] = "finish"
    BY <1>0, <1>16, <2>1 DEF RenamePart
  <2>3. u \in Sized => c = Whole(u)
    <3>1. c \in Seq(Chunks) /\ u \in Urls
      BY <1>1, <1>2, <2>1 DEF Contents
    <3> HIDE DEF c, u, x
    <3> QED
      BY <2>1, <3>1, PrefixLemma
  <2> QED
    BY <1>7, <2>2, <2>3
<1>17. CASE SegmentsRename(w)
  <2>1. /\ pc[w] = "segrename" /\ PartOf(x.path) = part /\ FinalOf(s.path) = final
        /\ c = Whole(u)
    BY <1>3, <1>11, <1>17 DEF SegmentsRename, TransferOk, Transferring, Exists
  <2>2. files' = Renamed(files, part, final) /\ pc'[w] = "finish"
    BY <1>0, <1>17, <2>1 DEF SegmentsRename
  <2> QED
    BY <1>7, <2>1, <2>2
\* The transfer over four connections: what of the file is there is not one that
\* a single stream has begun.
<1>18. ASSUME pc[w] \in {"allocate", "segcheck", "segments", "segrename"}
       PROVE  /\ x.total = 0 /\ ~x.append /\ u \in Ranged /\ u \in Sized /\ u \in Large
              /\ x.url = u /\ PartOf(x.path) = part
              /\ c # NoFile => ~(Len(c) \in 1 .. Size - 1)
  <2>1. /\ x.total = 0 /\ ~x.append /\ u \in Ranged /\ u \in Sized /\ u \in Large
        /\ x.url = u /\ PartOf(x.path) = part
    BY <1>3, <1>11, <1>18 DEF TransferOk, Transferring
  <2>2. c # NoFile => Len(c) = 0 \/ Len(c) = Size
    BY <1>2, <1>3, <1>18, WholeLemma, AllocatedLemma DEF TransferOk
  <2> HIDE DEF c
  <2> QED
    BY <1>0, <2>1, <2>2
<1>19. CASE Allocate(w)
  <2>1. pc[w] = "allocate" /\ pc'[w] = "segcheck" /\ xfer' = xfer
    BY <1>0, <1>19 DEF Allocate
  <2>2. files' = [files EXCEPT ![part] = Allocated] /\ fd'[w] = part
    BY <1>0, <1>18, <1>19, <2>1 DEF Allocate, AfterUnlink
  <2>3. /\ TransferOk(u, y, pc'[w], fd'[w], Allocated) /\ PartOk(u, Allocated)
        /\ EndOk(u, y, pc'[w], f)
    BY <1>18, <2>1, <2>2, AllocatedLemma DEF TransferOk, EndOk, WithFile, PartOk
  <2> QED
    BY <1>6, <1>18, <2>1, <2>2, <2>3
<1>20. CASE SegmentStop(w)
  <2>1. pc[w] = "segcheck"
    BY <1>20 DEF SegmentStop
  <2>2. CASE s.state \in {"cancelled", "paused"}
    <3>1. files' = [files EXCEPT ![part] = NoFile] /\ pc'[w] = "finish" /\ y.rc = "stopped"
      BY <1>0, <1>18, <1>20, <2>1, <2>2 DEF SegmentStop, Unlinked, Xfer
    <3>2. /\ TransferOk(u, y, pc'[w], fd'[w], NoFile) /\ PartOk(u, NoFile)
          /\ EndOk(u, y, pc'[w], f)
      BY <3>1 DEF TransferOk, EndOk, WithFile, PartOk
    <3> QED
      BY <1>6, <1>18, <2>1, <3>1, <3>2
  <2>3. CASE s.state \notin {"cancelled", "paused"}
    <3>1. files' = files /\ pc'[w] = "segments" /\ xfer' = xfer /\ fd' = fd
      BY <1>0, <1>1, <1>20, <2>3 DEF SegmentStop
    <3>2. TransferOk(u, y, pc'[w], fd'[w], c) /\ EndOk(u, y, pc'[w], f)
      BY <1>3, <2>1, <3>1 DEF TransferOk, EndOk, WithFile
    <3> QED
      BY <1>5, <3>1, <3>2
  <2> QED
    BY <2>2, <2>3
<1>21. CASE SegmentsEnd(w)
  <2>1. /\ pc[w] = "segments" /\ pc'[w] = "segrename" /\ xfer' = xfer
        /\ fd[w] = part \/ (fd[w] = Detached /\ c = NoFile)
    BY <1>0, <1>3, <1>21 DEF SegmentsEnd, TransferOk, WithFile
  <2>2. CASE fd[w] = part
    <3>1. files' = [files EXCEPT ![part] = Whole(u)]
      BY <1>0, <1>2, <1>18, <1>21, <2>1, <2>2 DEF SegmentsEnd, Whole
    <3>2. /\ TransferOk(u, y, pc'[w], fd'[w], Whole(u)) /\ PartOk(u, Whole(u))
          /\ EndOk(u, y, pc'[w], f)
      BY <1>2, <1>18, <2>1, WholeLemma DEF TransferOk, EndOk, WithFile, PartOk
    <3> QED
      BY <1>6, <1>18, <2>1, <3>1, <3>2
  <2>3. CASE fd[w] = Detached /\ c = NoFile
    <3>1. files' = files
      BY <1>21, <2>3 DEF SegmentsEnd
    <3>2. TransferOk(u, y, pc'[w], fd'[w], c) /\ EndOk(u, y, pc'[w], f)
      BY <1>18, <2>1, <2>3 DEF TransferOk, EndOk, WithFile
    <3> QED
      BY <1>5, <3>1, <3>2
  <2> QED
    BY <2>1, <2>2, <2>3
<1>22. CASE SegmentsFail(w)
  <2>1. pc[w] \in {"allocate", "segcheck", "segments", "segrename"}
    BY <1>22 DEF SegmentsFail
  <2>2. files' = [files EXCEPT ![part] = NoFile] /\ pc'[w] = "connect" /\ xfer' = xfer
    BY <1>0, <1>18, <1>22, <2>1 DEF SegmentsFail, Unlinked
  <2>3. /\ TransferOk(u, y, pc'[w], fd'[w], NoFile) /\ PartOk(u, NoFile)
        /\ EndOk(u, y, pc'[w], f)
    BY <1>18, <2>1, <2>2 DEF TransferOk, EndOk, WithFile, PartOk
  <2> QED
    BY <1>6, <1>18, <2>1, <2>2, <2>3
<1>23. ~Scan(w)
  BY DEF Scan
<1> QED
  BY <1>9, <1>10, <1>12, <1>13, <1>14, <1>15, <1>16, <1>17, <1>19, <1>20, <1>21, <1>22, <1>23
     DEF WorkerStep

\* The state of the item a worker is on: never cancelled by the worker, and
\* completed only by Finish after a successful transfer.
LEMMA StateFrame ==
    ASSUME TypeOK, NEW w \in Workers, WorkerStep(w)
    PROVE  LET s == slots[at[w]]
               t == slots'[at[w]]
           IN  /\ t.state = "cancelled" => s.state = "cancelled"
               /\ t.state = "completed" =>
                     \/ s.state = "completed" /\ t.path = s.path
                     \/ /\ pc[w] = "finish" /\ xfer[w].rc = "ok" /\ t.path = s.path
<1> DEFINE s == slots[at[w]]
           t == slots'[at[w]]
           Goal == /\ t.state = "cancelled" => s.state = "cancelled"
                   /\ t.state = "completed" =>
                         \/ s.state = "completed" /\ t.path = s.path
                         \/ pc[w] = "finish" /\ xfer[w].rc = "ok" /\ t.path = s.path
<1>0. slots \in [SlotIndex -> Item] /\ at[w] \in SlotIndex /\ s \in Item /\ xfer[w] \in Xfer
  BY SlotLemma DEF TypeOK
<1>1. SUFFICES Goal
  OBVIOUS
<1>2. ASSUME NEW st, slots' = [slots EXCEPT ![at[w]].state = st]
      PROVE  t.state = st /\ t.path = s.path
  BY <1>0, <1>2 DEF Item
<1>3. CASE MarkResolving(w) \/ ResolveFail(w) \/ ProbeFail(w)
  <2>1. PICK st \in {"resolving", "failed", "manual-action-required"} :
          slots' = [slots EXCEPT ![at[w]].state = st]
    BY <1>3 DEF MarkResolving, ResolveFail, ProbeFail, SetState
  <2> QED
    BY <1>2, <2>1
<1>4. CASE Finish(w)
  <2>1. t.state = Outcome(xfer[w].rc, s.state) /\ t.path = s.path /\ pc[w] = "finish"
    BY <1>2, <1>4 DEF Finish, SetState
  <2> HIDE DEF s, t
  <2> QED
    BY <1>0, <2>1 DEF Outcome, Xfer
<1>5. CASE ResolveOk(w)
  <2>1. PICK u : slots' = [slots EXCEPT ![at[w]].resolved = u]
    BY <1>5 DEF ResolveOk
  <2> QED
    BY <1>0, <2>1 DEF Item
<1>6. CASE ProbeOk(w)
  <2>1. PICK p : slots' = [slots EXCEPT ![at[w]].path = p, ![at[w]].state = "downloading"]
    BY <1>6 DEF ProbeOk
  <2>2. t.state = "downloading"
    BY <1>0, <2>1 DEF Item
  <2> QED
    BY <2>2
<1>7. CASE slots' = slots
  BY <1>7
<1> QED
  BY <1>3, <1>4, <1>5, <1>6, <1>7 DEF WorkerStep, Scan, Prepare, ConnectFail, OpenPart, Prefix,
     ReadChunk, Receive, CheckStop, EndOfBody, TransferError, RenamePart, RenameFail, Allocate,
     SegmentStop, SegmentsEnd, SegmentsFail, SegmentsRename, table

\* What a step of the worker makes of the files of every link.
LEMMA FilesWorkerStep ==
    ASSUME TypeInv, SingleWorker, Places, FilesInv, NamesDiffer,
           NEW w \in Workers, WorkerStep(w)
    PROVE  /\ FilesInv'
           /\ \A v \in Sized : files'[FinalOf(NameOf[v])] \in {files[FinalOf(NameOf[v])], Whole(v)}
           /\ ~CancelStop(w) => \A v \in Ranged : Kept(v)
           /\ pc[w] # "scan" => EndOk(slots[at[w]].url, xfer'[w], pc'[w],
                                      files'[FinalOf(NameOf[slots[at[w]].url])])
<1> DEFINE k == at[w]
           u == slots[k].url
<1>0. /\ TypeOK /\ Live' = Live /\ Live \subseteq SlotIndex
      /\ pc[w] \notin {"absent", "stopped"} /\ pc \in [Workers -> WorkerPc]
      /\ \A v \in Workers : v # w => pc'[v] \in {"absent", "stopped"}
      /\ files \in [FileNames -> Contents]
      /\ Ranged \subseteq Urls /\ Sized \subseteq Urls
  BY WorkerFrame, NativeQueueAssumption DEF TypeInv, TypeOK, Live, SlotIndex, Gone
<1>1. \A v \in Workers : v # w => TransferInv(v)'
  BY <1>0 DEF TransferInv, TransferOk, WithFile
<1>2. \A v \in Urls : /\ PartOf(NameOf[v]) \in FileNames /\ FinalOf(NameOf[v]) \in FileNames
                      /\ NameOf[v] \in PathValues /\ v \in UrlValues
  BY NamesLemma, NativeQueueAssumption DEF PathValues, UrlValues
<1>3. CASE Scan(w)
  <2>1. UNCHANGED <<slots, files, xfer, fd>> /\ pc[w] = "scan" /\ pc'[w] \in {"picked", "stopped"}
    BY <1>0, <1>3 DEF Scan, table
  <2>2. TransferInv(w)'
    BY <2>1 DEF TransferInv, TransferOk, WithFile
  <2>3. PartIsPrefix' /\ FinalIsWhole'
    BY <2>1 DEF FilesInv, PartIsPrefix, FinalIsWhole
  <2>4. \A v \in Ranged : Kept(v)
    BY <1>0, <2>1, UnchangedKept
  <2> QED
    BY <1>1, <2>1, <2>2, <2>3, <2>4 DEF FilesInv
<1>4. CASE pc[w] # "scan"
  <2>1. /\ FileStep(w, u) /\ at' = at /\ k \in Live /\ u \in Urls /\ slots'[k].url = u
    BY <1>0, <1>4, FileStepHolds, WorkerFrame, SlotFrame DEF Places, Holding, SlotOk
  <2> HIDE DEF u
  <2> DEFINE part  == PartOf(NameOf[u])
             final == FinalOf(NameOf[u])
  <2>2. /\ \A n \in FileNames \ {part, final} : files'[n] = files[n]
        /\ PartOk(u, files'[part])
        /\ files'[final] # files[final] => (u \in Sized => files'[final] = Whole(u))
        /\ u \in Ranged /\ ~CancelStop(w) => Kept(u)
        /\ TransferOk(u, xfer'[w], pc'[w], fd'[w], files'[part])
        /\ EndOk(u, xfer'[w], pc'[w], files'[final])
    BY <2>1 DEF FileStep
  <2>3. TransferInv(w)'
    BY <2>1, <2>2 DEF TransferInv
  \* Other links have other files.
  <2>4. ASSUME NEW v \in Urls, v # u
        PROVE  /\ files'[PartOf(NameOf[v])] = files[PartOf(NameOf[v])]
               /\ files'[FinalOf(NameOf[v])] = files[FinalOf(NameOf[v])]
    <3>1. NameOf[v] # NameOf[u]
      BY <2>1, <2>4 DEF NamesDiffer
    <3>2. /\ PartOf(NameOf[v]) \notin {part, final}
          /\ FinalOf(NameOf[v]) \notin {part, final}
      BY <1>2, <2>1, <3>1, NamesLemma
    <3> HIDE DEF part, final
    <3> QED
      BY <1>2, <2>2, <3>2
  <2>5. PartIsPrefix'
    <3> SUFFICES ASSUME NEW v \in Urls PROVE PartOk(v, files'[PartOf(NameOf[v])])
      BY DEF PartIsPrefix, PartOk, Exists
    <3>1. PartOk(v, files[PartOf(NameOf[v])])
      BY DEF FilesInv, PartIsPrefix, PartOk, Exists
    <3> QED
      BY <2>2, <2>4, <3>1
  <2>6. \A v \in Sized : files'[FinalOf(NameOf[v])] \in {files[FinalOf(NameOf[v])], Whole(v)}
    BY <1>0, <2>2, <2>4
  <2>7. FinalIsWhole'
    BY <2>6 DEF FilesInv, FinalIsWhole
  <2>8. ASSUME NEW v \in Ranged, v # u PROVE Kept(v)
    <3> DEFINE c == files[PartOf(NameOf[v])]
    <3>1. v \in Urls /\ files'[PartOf(NameOf[v])] = c
      BY <1>0, <2>4, <2>8
    <3>2. c # NoFile => c \in Seq(Chunks)
      BY <1>0, <1>2, <3>1 DEF Contents
    <3>3. c # NoFile => IsPrefixOf(c, c)
      <4> HIDE DEF c
      <4> QED
        BY <3>1, <3>2, PrefixLemma
    <3> QED
      BY <3>1, <3>3 DEF Kept, Exists
  <2>9. FilesInv'
    BY <1>1, <2>3, <2>5, <2>7 DEF FilesInv
  <2> QED
    BY <2>2, <2>6, <2>8, <2>9 DEF u
<1> QED
  BY <1>3, <1>4 DEF WorkerStep, MarkResolving, ResolveOk, ResolveFail, ProbeOk, ProbeFail,
     Prepare, ConnectFail, OpenPart, Prefix, ReadChunk, Receive, CheckStop, EndOfBody,
     TransferError, RenamePart, RenameFail, Allocate, SegmentStop, SegmentsEnd,
     SegmentsFail, SegmentsRename, Finish

LEMMA FilesClientStep ==
    ASSUME TypeInv, IdsAscending, Places, FilesInv, PointersHold, MeasuredStays,
           NEW c \in Clients, ClientStep(c)
    PROVE  FilesInv'
<1>0. /\ \A n \in FileNames : files'[n] \in {files[n], NoFile}
      /\ \A v \in Workers : \/ fd'[v] = fd[v]
                            \/ fd'[v] = Detached /\ files'[fd[v]] = NoFile
      /\ \A u \in Urls : /\ PartOf(NameOf[u]) \in FileNames
                          /\ FinalOf(NameOf[u]) \in FileNames
  BY UnlinkFrame, NamesLemma, NativeQueueAssumption DEF PathValues
<1>1. /\ UNCHANGED <<at, xfer>>
      /\ \A v \in Workers : pc'[v] = pc[v] \/ (pc[v] = "absent" /\ pc'[v] = "scan")
      /\ \A v \in Workers : Holding(v) => SameItem(slots[at[v]], slots'[at[v]])
  BY ClientFrame
<1>2. ASSUME NEW w \in Workers PROVE TransferInv(w)'
  <2>1. CASE pc'[w] \in {"absent", "stopped", "scan"}
    BY <2>1 DEF TransferInv, TransferOk, WithFile
  <2>2. CASE pc'[w] \notin {"absent", "stopped", "scan"}
    <3> DEFINE u == slots[at[w]].url
               part == PartOf(NameOf[u])
    <3>1. /\ pc'[w] = pc[w] /\ at[w] \in Live /\ slots'[at'[w]].url = u /\ u \in Urls
          /\ TransferOk(u, xfer[w], pc[w], fd[w], files[part])
          /\ pc[w] \in Transferring => xfer[w].path = NameOf[u]
      BY <1>1, <2>2 DEF Places, PlaceOk, SlotOk, Holding, FilesInv, TransferInv, SameItem,
                        Transferring, Early
    <3>2. files'[part] \in {files[part], NoFile}
      BY <1>0, <3>1
    <3>3. pc[w] = "connect" /\ xfer[w].append => files'[part] # NoFile
      BY <3>1 DEF MeasuredStays, Exists, Transferring
    <3> HIDE DEF part, u
    <3>4. TransferOk(u, xfer[w], pc[w], fd'[w], files'[part])
      BY <1>0, <3>1, <3>2, <3>3 DEF TransferOk, part
    <3> QED
      BY <1>1, <3>1, <3>4 DEF TransferInv, part
  <2> QED
    BY <2>1, <2>2
<1>3. PartIsPrefix' /\ FinalIsWhole'
  <2>1. PartIsPrefix'
    BY <1>0 DEF FilesInv, PartIsPrefix, Exists
  <2>2. FinalIsWhole'
    BY <1>0, NativeQueueAssumption DEF FilesInv, FinalIsWhole
  <2> QED
    BY <2>1, <2>2
<1> QED
  BY <1>2, <1>3 DEF FilesInv

\* The files that requests take away.
Unlinking == \E c \in Clients : Cancel(c) \/ DeleteUnlink(c)

LEMMA FilesStep ==
    ASSUME TypeInv, IdsAscending, SingleWorker, Places, FilesInv, NamesDiffer,
           [Next]_vars, [PointersHold /\ MeasuredStays]_vars
    PROVE  /\ FilesInv'
           /\ \/ \A u \in Ranged : Kept(u)
              \/ Unlinking \/ \E w \in Workers : CancelStop(w)
<1>0. Ranged \subseteq Urls /\ files \in [FileNames -> Contents]
  BY NativeQueueAssumption DEF TypeInv, TypeOK
<1>1. CASE UNCHANGED vars
  <2>1. UNCHANGED <<slots, count, pc, at, xfer, fd, files>>
    BY <1>1 DEF vars
  <2>2. FilesInv'
    BY <2>1 DEF FilesInv, PartIsPrefix, FinalIsWhole, TransferInv
  <2> QED
    BY <1>0, <2>1, <2>2, UnchangedKept
<1>2. CASE \E w \in Workers : WorkerStep(w)
  BY <1>2, FilesWorkerStep
<1>3. CASE PointersHold /\ MeasuredStays /\ \E c \in Clients : ClientStep(c)
  <2>1. PICK c \in Clients : ClientStep(c)
    BY <1>3
  <2>2. FilesInv'
    BY <1>3, <2>1, FilesClientStep
  <2>3. files' = files \/ Unlinking
    BY <2>1, UnlinkFrame DEF Unlinking
  <2> QED
    BY <1>0, <2>2, <2>3, UnchangedKept
<1>4. CASE Restart
  <2>1. files' = files /\ \A w \in Workers : pc'[w] = "absent"
    BY <1>4 DEF Restart
  <2>2. \A w \in Workers : TransferInv(w)'
    BY <2>1 DEF TransferInv, TransferOk, WithFile
  <2>3. FilesInv'
    BY <2>1, <2>2 DEF FilesInv, PartIsPrefix, FinalIsWhole
  <2> QED
    BY <1>0, <2>1, <2>3, UnchangedKept
<1> QED
  BY <1>1, <1>2, <1>3, <1>4 DEF Next

LEMMA InitFiles == Init => FilesInv
<1> SUFFICES ASSUME Init PROVE FilesInv
  OBVIOUS
<1>1. (\A w \in Workers : pc[w] = "absent") /\ \A n \in FileNames : files[n] = NoFile
  BY DEF Init
<1>2. \A u \in Urls : PartOf(NameOf[u]) \in FileNames /\ FinalOf(NameOf[u]) \in FileNames
  BY NamesLemma, NativeQueueAssumption DEF PathValues
<1>3. \A w \in Workers : TransferInv(w)
  BY <1>1 DEF TransferInv, TransferOk, WithFile
<1>4. PartIsPrefix /\ FinalIsWhole
  BY <1>1, <1>2, NativeQueueAssumption DEF PartIsPrefix, FinalIsWhole, Exists
<1> QED
  BY <1>3, <1>4 DEF FilesInv

LEMMA FilesInvariance ==
    ASSUME NamesDiffer
    PROVE  Spec /\ []SingleWorker /\ [][PointersHold /\ MeasuredStays]_vars
               => [](TypeInv /\ IdsAscending /\ Places /\ FilesInv)
<1>1. /\ TypeInv /\ IdsAscending /\ SingleWorker /\ Places /\ FilesInv
      /\ [Next]_vars /\ [PointersHold /\ MeasuredStays]_vars
      => FilesInv'
  BY FilesStep
<1>2. [PointersHold /\ MeasuredStays]_vars => [PointersHold]_vars
  OBVIOUS
<1> QED
  BY PlacesInvariance, InitFiles, <1>1, <1>2, PTL DEF Spec

\* A .part file holds the beginning of the file it is for, or is a large one at
\* its full length, through pauses, cancels, deletes, faults and restarts: resuming
\* at its length (http_get_to_file) is right.  Of the requests of any number of
\* handler threads this supposes that they leave one worker, its pointer and, from
\* the look at the length to the open, the .part file (run native_cancel_resume
\* shows what comes of a cancel in between).
THEOREM PartsArePrefixes ==
    ASSUME NamesDiffer
    PROVE  Spec /\ []SingleWorker /\ [][PointersHold /\ MeasuredStays]_vars => []PartIsPrefix
<1>1. FilesInv => PartIsPrefix
  BY DEF FilesInv
<1> QED
  BY FilesInvariance, <1>1, PTL

\* What is under a final name is the whole file, for a link with a Content-Length,
\* under the same hypotheses: the byte count that decides the rename is the length
\* of a prefix, or the file is gone and there is nothing to rename, and the four
\* connections end only together.
THEOREM FinalsAreWhole ==
    ASSUME NamesDiffer
    PROVE  Spec /\ []SingleWorker /\ [][PointersHold /\ MeasuredStays]_vars => []FinalIsWhole
<1>1. FilesInv => FinalIsWhole
  BY DEF FilesInv
<1> QED
  BY FilesInvariance, <1>1, PTL

\* What has been received is given up only where a client asks for it: by a cancel,
\* the unlink of a DELETE, or the worker that finds its item cancelled.  Pauses,
\* faults, restarts and the other requests, in any order, take nothing away.
THEOREM ProgressGoesOnRequest ==
    ASSUME NamesDiffer
    PROVE  Spec /\ []SingleWorker /\ [][PointersHold /\ MeasuredStays]_vars
               => [][\/ \A u \in Ranged : Kept(u)
                     \/ Unlinking \/ \E w \in Workers : CancelStop(w)]_vars
<1>1. /\ TypeInv /\ IdsAscending /\ SingleWorker /\ Places /\ FilesInv
      /\ [Next]_vars /\ [PointersHold /\ MeasuredStays]_vars
      => [\/ \A u \in Ranged : Kept(u)
          \/ Unlinking \/ \E w \in Workers : CancelStop(w)]_vars
  BY FilesStep
<1> QED
  BY FilesInvariance, <1>1, PTL DEF Spec

(***************************************************************************)
(* Completed items: a DELETE would unlink the final file                   *)
(***************************************************************************)
DoneInv(i) ==
    LET u == slots[i].url
    IN  slots[i].state = "completed" =>
           /\ slots[i].path = NameOf[u]
           /\ u \in Sized => files[FinalOf(NameOf[u])] = Whole(u)

CompletedInv ==
    /\ \A i \in Live : DoneInv(i)
    /\ \A w \in Workers :
          EndOk(slots[at[w]].url, xfer[w], pc[w], files[FinalOf(NameOf[slots[at[w]].url])])

NoUnlinking == \A c \in Clients : client[c].pc # "unlinking"

LEMMA NoUnlinkingStep ==
    ASSUME NoDelete, TypeOK, NoUnlinking, [Next]_vars
    PROVE  NoUnlinking'
<1>0. client \in [Clients -> ClientStates]
  BY DEF TypeOK
<1>1. CASE \E w \in Workers : WorkerStep(w)
  <2>1. client' = client
    BY <1>1 DEF WorkerStep, Scan, MarkResolving, ResolveOk, ResolveFail, ProbeOk, ProbeFail,
         Prepare, ConnectFail, OpenPart, Prefix, ReadChunk, Receive, CheckStop, EndOfBody,
         TransferError, RenamePart, RenameFail, Allocate, SegmentStop, SegmentsEnd,
         SegmentsFail, SegmentsRename, Finish
  <2> QED
    BY <2>1 DEF NoUnlinking
<1>2. ASSUME NEW c \in Clients, ClientStep(c) PROVE NoUnlinking'
  <2>1. ~DeleteActive(c) /\ ~DeleteInactive(c)
    BY DEF NoDelete, DeleteActive, DeleteInactive, Request
  <2>2. CASE client' = client \/ client' = [client EXCEPT ![c] = Idle]
    BY <1>0, <2>2 DEF Idle, NoUnlinking
  <2>3. CASE client' = [client EXCEPT ![c].pc = "starting"]
    BY <1>0, <2>3 DEF ClientStates, NoUnlinking
  <2> QED
    BY <1>2, <2>1, <2>2, <2>3 DEF ClientStep, Post, StartWorker, StartFail, Pause, Resume, Cancel,
                                  DeleteUnlink, Shutdown
<1>3. CASE Restart
  BY <1>3 DEF Restart, NoUnlinking, Idle
<1>4. CASE UNCHANGED vars
  BY <1>4 DEF vars, NoUnlinking
<1> QED
  BY <1>1, <1>2, <1>3, <1>4 DEF Next

LEMMA CompletedWorkerStep ==
    ASSUME TypeInv, SingleWorker, Places, FilesInv, CompletedInv, NamesDiffer,
           NEW w \in Workers, WorkerStep(w)
    PROVE  CompletedInv'
<1> DEFINE k == at[w]
           u == slots[k].url
<1>0. /\ TypeOK /\ Live' = Live /\ Live \subseteq SlotIndex
      /\ pc[w] \notin {"absent", "stopped"} /\ pc \in [Workers -> WorkerPc]
      /\ \A v \in Workers : v # w => pc'[v] \in {"absent", "stopped"}
      /\ pc[w] # "scan" => at' = at /\ k \in Live /\ PlaceOk(slots[k], xfer[w], pc[w], fd[w])
      /\ k \in SlotIndex
  BY WorkerFrame, NativeQueueAssumption DEF TypeInv, TypeOK, Live, SlotIndex, Gone, Places, Holding
<1>1. /\ \A v \in Sized : files'[FinalOf(NameOf[v])] \in {files[FinalOf(NameOf[v])], Whole(v)}
      /\ pc[w] # "scan" => EndOk(u, xfer'[w], pc'[w], files'[FinalOf(NameOf[u])])
  BY FilesWorkerStep
<1>2. \A i \in SlotIndex : /\ slots'[i].url = slots[i].url
                           /\ i # k => slots'[i] = slots[i]
  BY <1>0, SlotFrame
<1>3. ASSUME NEW i \in Live PROVE DoneInv(i)'
  <2> DEFINE v == slots[i].url
             f == FinalOf(NameOf[v])
  <2>1. i \in SlotIndex /\ slots'[i].url = v /\ DoneInv(i)
    BY <1>0, <1>2 DEF CompletedInv
  <2>2. slots'[i].state = "completed" =>
           \/ slots[i].state = "completed" /\ slots'[i].path = slots[i].path
           \/ /\ i = k /\ pc[w] = "finish" /\ xfer[w].rc = "ok"
              /\ slots'[i].path = slots[i].path
    BY <1>0, <1>2, <2>1, StateFrame
  <2>3. SUFFICES ASSUME slots'[i].state = "completed"
                 PROVE  slots'[i].path = NameOf[v] /\ (v \in Sized => files'[f] = Whole(v))
    BY <2>1 DEF DoneInv
  <2>4. slots'[i].path = NameOf[v] /\ (v \in Sized => files[f] = Whole(v))
    <3>1. CASE slots[i].state = "completed" /\ slots'[i].path = slots[i].path
      BY <2>1, <3>1 DEF DoneInv
    <3>2. CASE i = k /\ pc[w] = "finish" /\ xfer[w].rc = "ok" /\ slots'[i].path = slots[i].path
      <4>1. slots[i].path = NameOf[v]
        BY <1>0, <3>2 DEF PlaceOk, Early
      <4>2. EndOk(v, xfer[w], pc[w], files[f])
        BY <3>2 DEF CompletedInv
      <4> QED
        BY <3>2, <4>1, <4>2 DEF EndOk
    <3> QED
      BY <2>2, <2>3, <3>1, <3>2
  <2> HIDE DEF v
  <2> QED
    BY <1>1, <2>4
<1>4. ASSUME NEW v \in Workers
      PROVE  EndOk(slots[at[v]].url, xfer[v], pc[v], files[FinalOf(NameOf[slots[at[v]].url])])'
  <2>1. CASE v # w
    BY <1>0, <2>1 DEF EndOk
  <2>2. CASE v = w /\ pc[w] # "scan"
    <3>1. slots'[at'[w]].url = u
      BY <1>0, <1>2, <2>2
    <3> QED
      BY <1>1, <2>2, <3>1
  <2>3. CASE v = w /\ pc[w] = "scan"
    <3>1. pc'[w] # "finish"
      BY <1>0, <2>3 DEF WorkerStep, Scan, MarkResolving, ResolveOk, ResolveFail, ProbeOk,
         ProbeFail, Prepare, ConnectFail, OpenPart, Prefix, ReadChunk, Receive, CheckStop,
         EndOfBody, TransferError, RenamePart, RenameFail, Allocate, SegmentStop, SegmentsEnd,
         SegmentsFail, SegmentsRename, Finish
    <3> QED
      BY <2>3, <3>1 DEF EndOk
  <2> QED
    BY <2>1, <2>2, <2>3
<1> QED
  BY <1>0, <1>3, <1>4 DEF CompletedInv

LEMMA CompletedClientStep ==
    ASSUME TypeInv, NoDelete, NoUnlinking, IdsAscending, PointersHold, Places, CompletedInv,
           NEW c \in Clients, ClientStep(c)
    PROVE  CompletedInv'
<1>0. /\ slots \in [SlotIndex -> Item] /\ count \in 0 .. MaxDownloads /\ Live \subseteq SlotIndex
      /\ files \in [FileNames -> Contents] /\ Sized \subseteq Urls
  BY NativeQueueAssumption DEF TypeInv, TypeOK, Live, SlotIndex
<1>1. ~DeleteActive(c) /\ ~DeleteInactive(c) /\ ~DeleteUnlink(c)
  BY DEF NoDelete, NoUnlinking, DeleteActive, DeleteInactive, DeleteUnlink, Request
<1>2. /\ UNCHANGED <<at, xfer>>
      /\ \A v \in Workers : pc'[v] = pc[v] \/ (pc[v] = "absent" /\ pc'[v] = "scan")
      /\ \A v \in Workers : Holding(v) => SameItem(slots[at[v]], slots'[at[v]])
      /\ \A i \in Live : i \in Live' /\ SameItem(slots[i], slots'[i])
      /\ \A i \in Live' \ Live : NewItem(slots'[i])
  BY <1>1, ClientFrame, RequestFrame
\* A cancel unlinks a .part file.
<1>3. \A u \in Sized : files'[FinalOf(NameOf[u])] = files[FinalOf(NameOf[u])]
  <2>1. CASE Cancel(c)
    <3>1. PICK i \in Live : files' = files \/ files' = Unlinked(files, PartOf(slots[i].path))
      BY <2>1 DEF Cancel
    <3>2. \A p, q : FinalOf(p) # PartOf(q)
      BY DEF FinalOf, PartOf
    <3>3. \A u \in Sized : FinalOf(NameOf[u]) \in FileNames
      BY <1>0, NamesLemma, NativeQueueAssumption DEF PathValues
    <3> QED
      BY <1>0, <3>1, <3>2, <3>3 DEF Unlinked
  <2>2. CASE ~Cancel(c)
    BY <1>1, <2>2, UnlinkFrame
  <2> QED
    BY <2>1, <2>2
<1>4. \A i \in Live : slots'[i].state = "completed" => slots[i].state = "completed"
  <2>1. CASE Post(c)
    <3>1. \E item : slots' = [slots EXCEPT ![count + 1] = item]
      BY <2>1 DEF Post
    <3>2. count + 1 \notin Live
      BY <1>0 DEF Live
    <3> QED
      BY <1>0, <3>1, <3>2
  <2>2. CASE Pause(c) \/ Resume(c) \/ Cancel(c)
    <3>1. PICK j \in SlotIndex, st \in {"paused", "waiting", "cancelled"} :
            slots' = [slots EXCEPT ![j].state = st]
      BY <1>0, <2>2 DEF Pause, Resume, Cancel
    <3> QED
      BY <1>0, <3>1 DEF Item
  <2>3. CASE StartWorker(c) \/ StartFail(c) \/ Shutdown(c)
    BY <2>3 DEF StartWorker, StartFail, Shutdown, table
  <2> QED
    BY <1>1, <2>1, <2>2, <2>3 DEF ClientStep
<1>5. \A i \in Live' : DoneInv(i)'
  BY <1>2, <1>3, <1>4 DEF CompletedInv, DoneInv, SameItem, NewItem
<1>6. ASSUME NEW w \in Workers
      PROVE  EndOk(slots[at[w]].url, xfer[w], pc[w], files[FinalOf(NameOf[slots[at[w]].url])])'
  <2>1. CASE pc'[w] # "finish"
    BY <2>1 DEF EndOk
  <2>2. CASE pc'[w] = "finish"
    <3>1. pc[w] = "finish" /\ slots'[at'[w]].url = slots[at[w]].url
      BY <1>2, <2>2 DEF Holding, SameItem
    <3> QED
      BY <1>2, <1>3, <2>2, <3>1 DEF CompletedInv, EndOk
  <2> QED
    BY <2>1, <2>2
<1> QED
  BY <1>5, <1>6 DEF CompletedInv

LEMMA CompletedStep ==
    ASSUME NoDelete, NamesDiffer, TypeInv, IdsAscending, SingleWorker, Places, FilesInv,
           NoUnlinking, CompletedInv, [Next]_vars, [PointersHold]_vars
    PROVE  CompletedInv'
<1>1. CASE UNCHANGED vars
  <2>1. UNCHANGED <<slots, count, pc, at, xfer, files>>
    BY <1>1 DEF vars
  <2> QED
    BY <2>1 DEF CompletedInv, Live, DoneInv
<1>2. CASE \E w \in Workers : WorkerStep(w)
  BY <1>2, CompletedWorkerStep
<1>3. CASE PointersHold /\ \E c \in Clients : ClientStep(c)
  BY <1>3, CompletedClientStep
<1>4. CASE Restart
  BY <1>4 DEF Restart, CompletedInv, Live, EndOk
<1> QED
  BY <1>1, <1>2, <1>3, <1>4 DEF Next

\* An item shown as completed has its whole file in place, however often the same
\* link is posted, fetched, paused, cancelled and found already there.  Without
\* DELETE, which unlinks the final file when its lock is long released.
THEOREM CompletedAreWhole ==
    ASSUME NoDelete, NamesDiffer
    PROVE  Spec /\ []SingleWorker /\ [][MeasuredStays]_vars => []CompletedIsWhole
<1>1. Init => NoUnlinking /\ CompletedInv
  BY DEF Init, NoUnlinking, Idle, CompletedInv, Live, EndOk
<1>2. TypeInv => TypeOK
  BY DEF TypeInv
<1>3. TypeOK /\ NoUnlinking /\ [Next]_vars => NoUnlinking'
  BY NoUnlinkingStep
<1>4. /\ TypeInv /\ IdsAscending /\ SingleWorker /\ Places /\ FilesInv /\ NoUnlinking
      /\ CompletedInv /\ [Next]_vars /\ [PointersHold]_vars
      => CompletedInv'
  BY CompletedStep
<1>5. [PointersHold]_vars /\ [MeasuredStays]_vars => [PointersHold /\ MeasuredStays]_vars
  OBVIOUS
<1>6. CompletedInv => CompletedIsWhole
  BY DEF CompletedInv, DoneInv, CompletedIsWhole
<1> QED
  BY FilesInvariance, NoDeleteKeepsPointers, TypeInvariance, <1>1, <1>2, <1>3, <1>4, <1>5, <1>6, PTL
     DEF Spec

(***************************************************************************)
(* Progress, without cancel and DELETE                                     *)
(***************************************************************************)
NoneCancelled == \A i \in Live : slots[i].state # "cancelled"

LEMMA NoneCancelledStep ==
    ASSUME NoCancel, NoDelete, TypeOK, NoneCancelled, AtLive, [Next]_vars
    PROVE  NoneCancelled'
<1>0. /\ slots \in [SlotIndex -> Item] /\ count \in Nat /\ Live \subseteq SlotIndex
  BY NativeQueueAssumption DEF TypeOK, Live, SlotIndex
<1>1. ASSUME NEW w \in Workers, WorkerStep(w) PROVE NoneCancelled'
  <2>1. Live' = Live
    BY <1>1, WorkersKeepIds DEF IdsKept, Live
  <2> QED
    BY <1>0, <1>1, <2>1, SlotFrame, StateFrame DEF NoneCancelled
<1>2. ASSUME NEW c \in Clients, ClientStep(c) PROVE NoneCancelled'
  <2>0. ~DeleteActive(c) /\ ~DeleteInactive(c) /\ ~Cancel(c)
    BY DEF NoDelete, NoCancel, DeleteActive, DeleteInactive, Cancel, Request
  <2>1. CASE Post(c)
    <3>1. PICK u \in Urls :
            slots' = [slots EXCEPT ![count + 1] =
                        [EmptyItem EXCEPT !.id = nextId, !.url = u, !.state = "waiting"]]
      BY <2>1 DEF Post
    <3>2. Live' = Live \cup {count + 1} /\ count + 1 \in SlotIndex /\ count + 1 \notin Live
      BY <1>0, <2>1, NativeQueueAssumption DEF Post, Live, SlotIndex
    <3>3. slots'[count + 1].state = "waiting"
      BY <1>0, <3>1, <3>2 DEF EmptyItem
    <3>4. \A i \in Live : slots'[i] = slots[i]
      BY <1>0, <3>1, <3>2
    <3> QED
      BY <3>2, <3>3, <3>4 DEF NoneCancelled
  <2>2. CASE Pause(c) \/ Resume(c)
    <3>1. PICK j \in SlotIndex, st \in {"paused", "waiting"} :
            slots' = [slots EXCEPT ![j].state = st]
      BY <1>0, <2>2 DEF Pause, Resume
    <3>2. Live' = Live
      BY <2>2 DEF Pause, Resume, Live
    <3> QED
      BY <1>0, <3>1, <3>2 DEF Item, NoneCancelled
  <2>3. CASE StartWorker(c) \/ StartFail(c) \/ Shutdown(c) \/ DeleteUnlink(c)
    BY <2>3 DEF StartWorker, StartFail, Shutdown, DeleteUnlink, table, Live, NoneCancelled
  <2> QED
    BY <1>2, <2>0, <2>1, <2>2, <2>3 DEF ClientStep
<1>3. CASE Restart
  BY <1>3 DEF Restart, Live, NoneCancelled
<1>4. CASE UNCHANGED vars
  BY <1>4 DEF vars, Live, NoneCancelled
<1> QED
  BY <1>1, <1>2, <1>3, <1>4 DEF Next

\* Then nobody unlinks a .part file that is about to be resumed, and what the
\* other steps do keeps the progress.
LEMMA QuietStep ==
    ASSUME NoCancel, TypeInv, SingleWorker, Places, FilesInv, NoUnlinking, AtLive,
           NoneCancelled, [Next]_vars
    PROVE  /\ [MeasuredStays]_vars
           /\ ~Unlinking /\ \A w \in Workers : ~CancelStop(w)
<1>1. ~Unlinking
  BY DEF NoCancel, NoUnlinking, Unlinking, Cancel, DeleteUnlink, Request
<1>2. \A w \in Workers : ~CancelStop(w)
  BY DEF CancelStop, CheckStop, NoneCancelled, AtLive, Holding
<1>3. SUFFICES ASSUME ~UNCHANGED vars, NEW w \in Workers, pc[w] = "connect", xfer[w].append,
                      pc'[w] = "connect"
               PROVE  Exists(files', PartOf(xfer[w].path))
  BY <1>1, <1>2 DEF MeasuredStays
<1>4. Exists(files, PartOf(xfer[w].path))
  <2>1. xfer[w].path = NameOf[slots[at[w]].url]
    BY <1>3 DEF Places, PlaceOk, Early, Transferring
  <2>2. TransferInv(w)
    BY DEF FilesInv
  <2> QED
    BY <1>3, <2>1, <2>2 DEF TransferInv, TransferOk, Exists
<1>5. CASE \E v \in Workers : WorkerStep(v)
  <2>1. PICK v \in Workers : WorkerStep(v)
    BY <1>5
  <2>2. v = w
    BY <1>3, <2>1, WorkerFrame DEF Gone, TypeInv
  <2>3. pc'[w] # "connect"
    BY <1>3, <2>1, <2>2 DEF TypeInv, TypeOK, WorkerStep, Scan, MarkResolving, ResolveOk,
         ResolveFail, ProbeOk, ProbeFail, Prepare, ConnectFail, OpenPart, Prefix, ReadChunk,
         Receive, CheckStop, EndOfBody, TransferError, RenamePart, RenameFail, Allocate,
         SegmentStop, SegmentsEnd, SegmentsFail, SegmentsRename, Finish
  <2> QED
    BY <1>3, <2>3
<1>6. CASE \E c \in Clients : ClientStep(c)
  BY <1>1, <1>4, <1>6, UnlinkFrame DEF Unlinking, Exists
<1>7. CASE Restart
  BY <1>4, <1>7 DEF Restart, Exists
<1> QED
  BY <1>3, <1>5, <1>6, <1>7 DEF Next

\* Without cancel and DELETE nobody else takes a file away from the worker.
LEMMA QuietInvariance ==
    ASSUME NoDelete, NoCancel, NamesDiffer
    PROVE  Spec /\ []SingleWorker
               => /\ [][PointersHold /\ MeasuredStays]_vars
                  /\ [][\A u \in Ranged : Kept(u)]_vars
<1>1. Init => NoUnlinking /\ AtLive /\ NoneCancelled /\ FilesInv
  BY InitFiles DEF Init, NoUnlinking, Idle, AtLive, Holding, NoneCancelled, Live
<1>2. TypeInv => TypeOK
  BY DEF TypeInv
<1>3. /\ TypeInv /\ IdsAscending /\ SingleWorker /\ Places /\ FilesInv /\ NoUnlinking
      /\ AtLive /\ NoneCancelled /\ [Next]_vars /\ [PointersHold]_vars
      => /\ FilesInv' /\ NoUnlinking' /\ AtLive' /\ NoneCancelled'
         /\ [PointersHold /\ MeasuredStays]_vars
         /\ \A u \in Ranged : Kept(u)
  <2> SUFFICES ASSUME TypeInv, IdsAscending, SingleWorker, Places, FilesInv, NoUnlinking,
                      AtLive, NoneCancelled, [Next]_vars, [PointersHold]_vars
               PROVE  /\ FilesInv' /\ NoUnlinking' /\ AtLive' /\ NoneCancelled'
                      /\ [PointersHold /\ MeasuredStays]_vars
                      /\ \A u \in Ranged : Kept(u)
    OBVIOUS
  <2>1. NoUnlinking' /\ AtLive' /\ NoneCancelled'
    BY <1>2, NoUnlinkingStep, AtLiveStep, NoneCancelledStep
  <2>2. /\ [PointersHold /\ MeasuredStays]_vars
        /\ ~Unlinking /\ \A w \in Workers : ~CancelStop(w)
    BY QuietStep
  <2> QED
    BY <2>1, <2>2, FilesStep
<1>4. (\A u \in Ranged : Kept(u)) => [\A u \in Ranged : Kept(u)]_vars
  OBVIOUS
<1> QED
  BY PlacesInvariance, NoDeleteKeepsPointers, <1>1, <1>3, <1>4, PTL DEF Spec

\* What PartsArePrefixes and FinalsAreWhole suppose of the requests holds when no
\* client cancels or deletes: with one client (OneClientOneWorker) they then hold of
\* every behaviour.
THEOREM NoCancelKeepsMeasured ==
    ASSUME NoDelete, NoCancel, NamesDiffer
    PROVE  Spec /\ []SingleWorker => [][PointersHold /\ MeasuredStays]_vars
<1> QED
  BY QuietInvariance, PTL

\* No step throws away what a server with ranges has sent: not a pause, a fault, a
\* restart or the next resume, of one worker without cancel and DELETE.
THEOREM ProgressIsKept ==
    ASSUME NoDelete, NoCancel, NamesDiffer
    PROVE  Spec /\ []SingleWorker => ProgressKept
<1>1. [\A u \in Ranged : Kept(u)]_vars
      => [\A u \in Ranged :
            LET part == PartOf(NameOf[u])
            IN  Exists(files, part) /\ (u \in Large => Len(files[part]) \in 1 .. Size - 1) =>
                  \/ Exists(files, part)' /\ IsPrefixOf(files[part], files[part]')
                  \/ files[FinalOf(NameOf[u])]' = files[part]]_vars
  BY DEF Kept, Exists
<1> QED
  BY QuietInvariance, <1>1, PTL DEF ProgressKept

(***************************************************************************)
(* Progress: the steps a worker still has to take on the item it is on.    *)
(* It goes through the loop at most once per chunk that is left.           *)
(***************************************************************************)
Place(p) == CASE p = "finish"    -> 1
              [] p = "rename"    -> 2
              [] p = "read"      -> 3
              [] p = "check"     -> 4
              [] p = "prefix"    -> 5
              [] p = "connect"   -> 6
              [] p = "segrename" -> 7
              [] p = "segments"  -> 8
              [] p = "segcheck"  -> 9
              [] p = "allocate"  -> 10
              [] p = "prepare"   -> 11
              [] p = "probe"     -> 12
              [] p = "resolve"   -> 13
              [] p = "picked"    -> 14
              [] OTHER           -> 0

\* Before Prepare the whole body may be left.
Left(p, x) == IF p \in {"picked", "resolve", "probe", "prepare"} THEN Size
              ELSE IF p \in {"absent", "stopped", "scan"} THEN 0
              ELSE Size - x.total

StepsLeft(w) == 3 * Left(pc[w], xfer[w]) + Place(pc[w])

LEMMA StepsLeftNat ==
    ASSUME TypeOK, NEW w \in Workers
    PROVE  StepsLeft(w) \in 0 .. 3 * Size + 14
<1>1. Size \in Nat /\ pc[w] \in WorkerPc /\ xfer[w].total \in 0 .. Size
  BY NativeQueueAssumption DEF TypeOK, Xfer
<1>2. Left(pc[w], xfer[w]) \in 0 .. Size
  BY <1>1 DEF Left
<1>3. Place(pc[w]) \in 0 .. 14
  BY <1>1 DEF Place
<1> QED
  BY <1>1, <1>2, <1>3 DEF StepsLeft

LEMMA StepsLeftStep ==
    ASSUME TypeOK, TypeOK', NEW w \in Workers, WorkerStep(w), pc[w] # "scan"
    PROVE  StepsLeft(w)' < StepsLeft(w)
<1> DEFINE p == pc[w]
           q == pc'[w]
           m == xfer[w].total
           n == xfer'[w].total
<1>0. /\ Size \in Nat /\ m \in 0 .. Size /\ n \in 0 .. Size
      /\ pc \in [Workers -> WorkerPc] /\ xfer \in [Workers -> Xfer]
  BY NativeQueueAssumption DEF TypeOK, Xfer
<1>1. CASE \/ MarkResolving(w) \/ ResolveOk(w) \/ ResolveFail(w) \/ ProbeOk(w) \/ ProbeFail(w)
  <2>1. \/ p = "picked" /\ q = "resolve"
        \/ p = "resolve" /\ q \in {"probe", "scan"}
        \/ p = "probe" /\ q \in {"prepare", "scan"}
    <3>1. CASE MarkResolving(w) \/ ResolveFail(w)
      BY <1>0, <3>1 DEF MarkResolving, ResolveFail
    <3>2. CASE ResolveOk(w)
      BY <1>0, <3>2 DEF ResolveOk
    <3>3. CASE ProbeOk(w) \/ ProbeFail(w)
      BY <1>0, <3>3 DEF ProbeOk, ProbeFail
    <3> QED
      BY <1>1, <3>1, <3>2, <3>3
  <2> QED
    BY <1>0, <2>1 DEF StepsLeft, Left, Place
<1>2. CASE Prepare(w)
  <2>1. p = "prepare" /\ q \in {"finish", "connect", "allocate"}
    BY <1>0, <1>2 DEF Prepare
  <2> QED
    BY <1>0, <2>1 DEF StepsLeft, Left, Place
<1>3. CASE Prefix(w) \/ ReadChunk(w)
  <2>1. p \in {"prefix", "read"} /\ q = "check" /\ n = m + 1
    BY <1>0, <1>3 DEF Prefix, ReadChunk, Receive, Xfer
  <2> QED
    BY <1>0, <2>1 DEF StepsLeft, Left, Place
<1>4. CASE \/ ConnectFail(w) \/ OpenPart(w) \/ CheckStop(w) \/ EndOfBody(w) \/ TransferError(w)
           \/ RenamePart(w) \/ RenameFail(w) \/ Allocate(w) \/ SegmentStop(w) \/ SegmentsEnd(w)
           \/ SegmentsFail(w) \/ SegmentsRename(w)
  <2>1. n = m
    BY <1>0, <1>4 DEF ConnectFail, OpenPart, CheckStop, EndOfBody, TransferError, RenamePart,
         RenameFail, Allocate, SegmentStop, SegmentsEnd, SegmentsFail, SegmentsRename, Xfer
  <2>2. \/ p = "connect" /\ q \in {"finish", "prefix", "check"}
        \/ p = "check" /\ q \in {"finish", "read"}
        \/ p = "read" /\ q \in {"rename", "finish"}
        \/ p = "rename" /\ q = "finish"
        \/ p = "allocate" /\ q \in {"segcheck", "connect"}
        \/ p = "segcheck" /\ q \in {"finish", "segments", "connect"}
        \/ p = "segments" /\ q \in {"segrename", "connect"}
        \/ p = "segrename" /\ q \in {"finish", "connect"}
    BY <1>0, <1>4 DEF ConnectFail, OpenPart, CheckStop, EndOfBody, TransferError, RenamePart,
         RenameFail, Allocate, SegmentStop, SegmentsEnd, SegmentsFail, SegmentsRename
  <2> QED
    BY <1>0, <2>1, <2>2 DEF StepsLeft, Left, Place
<1>5. CASE Finish(w)
  <2>1. p = "finish" /\ q = "scan"
    BY <1>0, <1>5 DEF Finish
  <2> QED
    BY <1>0, <2>1 DEF StepsLeft, Left, Place
<1> QED
  BY <1>1, <1>2, <1>3, <1>4, <1>5 DEF WorkerStep, Scan

\* Others leave it alone, but for the thread that is created and the process
\* that dies.
LEMMA StepsLeftKept ==
    ASSUME TypeOK, NEW w \in Workers, [Next]_vars, ~WorkerStep(w)
    PROVE  StepsLeft(w)' <= StepsLeft(w)
<1>0. /\ Size \in Nat /\ pc \in [Workers -> WorkerPc] /\ xfer \in [Workers -> Xfer]
      /\ StepsLeft(w) \in 0 .. 3 * Size + 14
  BY NativeQueueAssumption, StepsLeftNat DEF TypeOK
<1>1. CASE pc'[w] = pc[w] /\ xfer'[w] = xfer[w]
  BY <1>0, <1>1 DEF StepsLeft
<1>2. CASE pc'[w] \in {"absent", "scan"}
  BY <1>0, <1>2 DEF StepsLeft, Left, Place
<1>3. ASSUME NEW v \in Workers, v # w, WorkerStep(v)
      PROVE  pc'[w] = pc[w] /\ xfer'[w] = xfer[w]
  <2>1. pc'[w] = pc[w]
    BY <1>0, <1>3 DEF WorkerStep, Scan, MarkResolving, ResolveOk, ResolveFail, ProbeOk, ProbeFail,
         Prepare, ConnectFail, OpenPart, Prefix, ReadChunk, Receive, CheckStop, EndOfBody,
         TransferError, RenamePart, RenameFail, Allocate, SegmentStop, SegmentsEnd,
         SegmentsFail, SegmentsRename, Finish
  <2>2. xfer'[w] = xfer[w]
    BY <1>0, <1>3 DEF WorkerStep, Scan, MarkResolving, ResolveOk, ResolveFail, ProbeOk, ProbeFail,
         Prepare, ConnectFail, OpenPart, Prefix, ReadChunk, Receive, CheckStop, EndOfBody,
         TransferError, RenamePart, RenameFail, Allocate, SegmentStop, SegmentsEnd,
         SegmentsFail, SegmentsRename, Finish
  <2> QED
    BY <2>1, <2>2
<1>4. ASSUME NEW c \in Clients, ClientStep(c)
      PROVE  pc'[w] \in {pc[w], "scan"} /\ xfer'[w] = xfer[w]
  <2>1. CASE StartWorker(c)
    BY <1>0, <2>1 DEF StartWorker
  <2>2. CASE ~StartWorker(c)
    BY <1>4, <2>2 DEF ClientStep, Post, StartFail, Pause, Resume, Cancel, DeleteActive,
         DeleteInactive, DeleteUnlink, Shutdown, threads
  <2> QED
    BY <2>1, <2>2
<1>5. CASE Restart
  BY <1>2, <1>5 DEF Restart
<1>6. CASE UNCHANGED vars
  BY <1>1, <1>6 DEF vars
<1> QED
  BY <1>1, <1>2, <1>3, <1>4, <1>5, <1>6 DEF Next

\* A worker that picked an item is back at the queue after at most 3 * Size + 14
\* steps of its own, whatever clients and other workers do to the item, the table
\* and the files meanwhile: each of its steps brings it nearer, no other step
\* takes it back.  (That it keeps taking steps is the fairness of FairSpec.)
THEOREM WorkersReturn ==
    Spec => /\ [](\A w \in Workers : StepsLeft(w) \in 0 .. 3 * Size + 14)
            /\ [][\A w \in Workers :
                     /\ WorkerStep(w) /\ pc[w] # "scan" => StepsLeft(w)' < StepsLeft(w)
                     /\ ~WorkerStep(w) => StepsLeft(w)' <= StepsLeft(w)]_vars
<1>1. TypeInv => TypeOK /\ \A w \in Workers : StepsLeft(w) \in 0 .. 3 * Size + 14
  BY StepsLeftNat DEF TypeInv
<1>2. ASSUME TypeInv, TypeInv', [Next]_vars
      PROVE  [\A w \in Workers :
                     /\ WorkerStep(w) /\ pc[w] # "scan" => StepsLeft(w)' < StepsLeft(w)
                     /\ ~WorkerStep(w) => StepsLeft(w)' <= StepsLeft(w)]_vars
  BY <1>2, StepsLeftStep, StepsLeftKept DEF TypeInv
<1> QED
  BY TypeInvariance, <1>1, <1>2, PTL DEF Spec
==============================================================================
