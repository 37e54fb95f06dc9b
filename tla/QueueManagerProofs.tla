-------------------------- MODULE QueueManagerProofs --------------------------
(***************************************************************************)
(* Proofs about the queue of the PC build, for any items, names, servers,  *)
(* file sizes, threads and workloads.                                      *)
(***************************************************************************)
EXTENDS QueueManager, FileStoreProofs

(***************************************************************************)
(* Types.  A thread counts its attempts to the last one; past prepare it   *)
(* has a URL, and past the answer of a server without ranges it starts at  *)
(* the beginning.                                                          *)
(***************************************************************************)
Busy == {"request", "complete", "open", "check", "read", "replace", "record"}

LocalInv(x) ==
    /\ x.pc # "cleanup" => x.attempt < Retries
    /\ x.pc \in Busy => UrlOf[x.id] # NoUrl
    /\ x.pc \in {"open", "check", "read"} /\ UrlOf[x.id] \notin Ranged => x.existing = 0

TypeInv ==
    /\ TypeOK
    /\ StoreInv(Threads, Chunks, fd, files)
    /\ \A t \in Threads : LocalInv(thr[t]) /\ (Alive(t) => thr[t].id \in added)
    /\ \A i \in Items : rows[i] # NoRow => i \in added
    /\ \A c \in Clients : client[c].pc # "idle" => client[c].id \in added

LEMMA RowLemma ==
    ASSUME NEW r \in Row, NEW st \in States, NEW n \in Nat, NEW p \in PathValues, NEW b \in BOOLEAN
    PROVE  /\ [r EXCEPT !.state = st] \in Row
           /\ [r EXCEPT !.bytes = n] \in Row
           /\ [r EXCEPT !.state = st, !.bytes = n] \in Row
           /\ [r EXCEPT !.state = st, !.name = p] \in Row
           /\ [r EXCEPT !.state = st, !.bytes = n, !.sized = b] \in Row
           /\ [r EXCEPT !.sized = b] \in Row
<1> QED
  BY DEF Row

LEMMA NoRowLemma == NoRow \notin Row /\ NoRow.state = "none"
<1>1. NoRow.state = "none"
  BY DEF NoRow
<1>2. \A r \in Row : r.state \in States
  BY DEF Row
<1> QED
  BY <1>1, <1>2 DEF States

LEMMA FreshLemma ==
    /\ \A i \in Items : FreshRow(i) \in Row
    /\ AnyItem \in Items /\ NoLocals \in Thread /\ Idle \in ClientState
    /\ [NoLocals EXCEPT !.pc = "ended"] \in Thread
    /\ LocalInv(NoLocals) /\ LocalInv([NoLocals EXCEPT !.pc = "ended"])
<1>1. ASSUME NEW i \in Items PROVE FreshRow(i) \in Row
  <2>1. i \in Named => NameOf[UrlOf[i]] \in PathValues
    BY QueueManagerAssumption DEF Urls, PathValues
  <2>2. (IF i \in Named THEN NameOf[UrlOf[i]] ELSE NoPath) \in PathValues
    BY <2>1 DEF PathValues
  <2> QED
    BY <2>2 DEF FreshRow, Row, States
<1>2. AnyItem \in Items
  BY QueueManagerAssumption DEF AnyItem
<1>3. FreshRow(AnyItem) \in Row /\ NoPath \in PathValues
  BY <1>1, <1>2 DEF PathValues
<1>4. NoLocals \in Thread /\ Idle \in ClientState /\ [NoLocals EXCEPT !.pc = "ended"] \in Thread
  BY <1>2, <1>3 DEF NoLocals, Idle, Thread, ClientState, ThreadPc, Retries
<1>5. LocalInv(NoLocals) /\ LocalInv([NoLocals EXCEPT !.pc = "ended"])
  BY DEF LocalInv, NoLocals, Busy, Retries
<1> QED
  BY <1>1, <1>2, <1>4, <1>5

LEMMA SpendLemma ==
    ASSUME TypeOK, NEW b \in {"ops", "faults"}, Spend(b)
    PROVE  budget' \in Workload
<1> QED
  BY DEF TypeOK, Workload, Spend

\* The locals of a thread that go with its item.
LEMMA ThreadLemma ==
    ASSUME TypeInv, NEW t \in Threads
    PROVE  /\ thr[t] \in Thread /\ thr[t].id \in Items /\ thr[t].it \in Row /\ LocalInv(thr[t])
           /\ thr[t].target \in PathValues /\ thr[t].existing \in Nat
           /\ thr[t].pc \in ThreadPc /\ thr[t].attempt \in 0 .. Retries
           /\ Part(t) \in FileNames /\ FinalOf(thr[t].target) \in FileNames
           /\ Part(t) # FinalOf(thr[t].target)
           /\ Url(t) # NoUrl => Url(t) \in Urls
<1>1. thr[t] \in Thread /\ LocalInv(thr[t])
  BY DEF TypeInv, TypeOK
<1>2. thr[t].id \in Items /\ thr[t].it \in Row /\ thr[t].target \in PathValues
      /\ thr[t].existing \in Nat /\ thr[t].pc \in ThreadPc /\ thr[t].attempt \in 0 .. Retries
  BY <1>1 DEF Thread
<1> QED
  BY <1>1, <1>2, NamesLemma DEF Part, Url, Urls

\* The size of a file, as a thread reads it.
LEMMA SizeLemma ==
    ASSUME NEW store \in [FileNames -> Contents], NEW n \in FileNames
    PROVE  SizeOrZero(store, n) \in Nat
<1>1. store[n] \in Contents
  OBVIOUS
<1> QED
  BY <1>1 DEF SizeOrZero, Exists, Contents

LEMMA TargetLemma ==
    ASSUME TypeInv, NEW t \in Threads, Url(t) # NoUrl
    PROVE  /\ Wanted(t) \in Paths
           /\ \A mode \in Modes : Targets(Wanted(t), mode) \subseteq Paths
<1>1. Wanted(t) \in Paths
  BY ThreadLemma, QueueManagerAssumption DEF Wanted, PathValues, Row
<1>2. Renames[Wanted(t)] \in Seq(Paths)
  BY <1>1, QueueManagerAssumption
<1>3. FirstFree(Wanted(t)) \subseteq Paths
  BY <1>2 DEF FirstFree
<1> QED
  BY <1>1, <1>3, QueueManagerAssumption DEF Targets

\* What a thread's step does to its own locals.
LEMMA LocalsStep ==
    ASSUME TypeInv, NEW t \in Threads, ThreadStep(t)
    PROVE  \E x \in Thread :
              /\ thr' = [thr EXCEPT ![t] = x] /\ LocalInv(x)
              /\ x.id = thr[t].id \/ x = [NoLocals EXCEPT !.pc = "ended"]
<1> DEFINE Goal == \E x \in Thread :
                      /\ thr' = [thr EXCEPT ![t] = x] /\ LocalInv(x)
                      /\ x.id = thr[t].id \/ x = [NoLocals EXCEPT !.pc = "ended"]
           i == thr[t].id
<1>0. /\ thr \in [Threads -> Thread] /\ thr[t] \in Thread /\ i \in Items /\ thr[t].it \in Row
      /\ LocalInv(thr[t]) /\ rows \in [Items -> Row \cup {NoRow}]
      /\ thr[t].attempt \in 0 .. Retries /\ thr[t].existing \in Nat
  BY ThreadLemma DEF TypeInv, TypeOK
<1>1. Ended(t) => Goal
  BY FreshLemma DEF Ended
<1>2. ASSUME NEW where \in ThreadPc \ (Busy \cup {"cleanup"}), Goto(t, where), thr[t].pc # "cleanup"
      PROVE  Goal
  <2> DEFINE x == [thr[t] EXCEPT !.pc = where]
  <2>1. thr' = [thr EXCEPT ![t] = x]
    BY <1>0, <1>2 DEF Goto
  <2>2. x \in Thread /\ LocalInv(x) /\ x.id = i
    BY <1>0, <1>2 DEF Thread, LocalInv, Busy
  <2> QED
    BY <2>1, <2>2
<1>3. ASSUME NEW where \in {"complete", "check", "read", "replace", "record"}, Goto(t, where),
             thr[t].pc \in Busy,
             where \in {"check", "read"} => thr[t].pc \in {"open", "check", "read"}
      PROVE  Goal
  <2> DEFINE x == [thr[t] EXCEPT !.pc = where]
  <2>1. thr' = [thr EXCEPT ![t] = x]
    BY <1>0, <1>3 DEF Goto
  <2>2. x \in Thread /\ LocalInv(x) /\ x.id = i
    BY <1>0, <1>3 DEF Thread, LocalInv, Busy, ThreadPc
  <2> QED
    BY <2>1, <2>2
<1>4. CASE Load(t)
  <2>1. CASE rows[i] # NoRow
    <3> DEFINE x == [thr[t] EXCEPT !.pc = "prepare", !.it = rows[i]]
    <3>1. thr' = [thr EXCEPT ![t] = x]
      BY <1>0, <1>4, <2>1 DEF Load
    <3>2. x \in Thread /\ LocalInv(x) /\ x.id = i
      BY <1>0, <1>4, <2>1 DEF Load, Thread, ThreadPc, LocalInv, Busy
    <3> QED
      BY <3>1, <3>2
  <2> QED
    BY <1>1, <1>4, <2>1 DEF Load
<1>5. CASE Caught(t)
  <2>1. CASE rows[i] = NoRow \/ rows[i].state \in {"paused", "cancelled"}
    BY <1>1, <1>5, <2>1 DEF Caught
  <2>2. CASE ~(rows[i] = NoRow \/ rows[i].state \in {"paused", "cancelled"})
    <3> DEFINE x == [thr[t] EXCEPT !.pc = "fail", !.it = rows[i]]
    <3>1. thr' = [thr EXCEPT ![t] = x]
      BY <1>0, <1>5, <2>2 DEF Caught
    <3>2. x \in Thread /\ LocalInv(x) /\ x.id = i
      BY <1>0, <1>5, <2>2 DEF Caught, Thread, ThreadPc, LocalInv, Busy
    <3> QED
      BY <3>1, <3>2
  <2> QED
    BY <2>1, <2>2
<1>6. CASE Fail(t)
  <2> DEFINE r == [thr[t].it EXCEPT !.state = "failed"]
             x == [thr[t] EXCEPT !.pc = "sleep", !.it = r]
  <2>1. r \in Row
    BY <1>0 DEF Row, States
  <2>2. thr' = [thr EXCEPT ![t] = x]
    BY <1>0, <1>6 DEF Fail
  <2>3. x \in Thread /\ LocalInv(x) /\ x.id = i
    BY <1>0, <1>6, <2>1 DEF Fail, Thread, ThreadPc, LocalInv, Busy
  <2> QED
    BY <2>2, <2>3
<1>7. CASE Sleep(t)
  <2> DEFINE n == thr[t].attempt + 1
             x == [thr[t] EXCEPT !.attempt = n, !.pc = IF n < Retries THEN "prepare" ELSE "cleanup"]
  <2>1. thr' = [thr EXCEPT ![t] = x]
    BY <1>0, <1>7 DEF Sleep
  <2>2. x \in Thread /\ LocalInv(x) /\ x.id = i
    BY <1>0, <1>7 DEF Sleep, Thread, ThreadPc, LocalInv, Busy, Retries
  <2> QED
    BY <2>1, <2>2
<1>8. CASE Prepare(t)
  <2>0. PICK mode \in Modes : \E p \in Targets(Wanted(t), mode) :
          thr' = [thr EXCEPT ![t].pc = "request", ![t].target = p,
                             ![t].existing = SizeOrZero(files, PartOf(p))]
    BY <1>8 DEF Prepare
  <2>1. PICK p \in Targets(Wanted(t), mode) :
          thr' = [thr EXCEPT ![t].pc = "request", ![t].target = p,
                             ![t].existing = SizeOrZero(files, PartOf(p))]
    BY <2>0
  <2>2. p \in PathValues /\ PartOf(p) \in FileNames
    BY <1>8, TargetLemma, NamesLemma DEF Prepare, PathValues
  <2>3. SizeOrZero(files, PartOf(p)) \in Nat
    BY <2>2, SizeLemma DEF TypeInv, TypeOK
  <2> DEFINE x == [thr[t] EXCEPT !.pc = "request", !.target = p,
                                 !.existing = SizeOrZero(files, PartOf(p))]
  <2>4. thr' = [thr EXCEPT ![t] = x]
    BY <1>0, <2>1
  <2>5. x \in Thread /\ LocalInv(x) /\ x.id = i
    BY <1>0, <1>8, <2>2, <2>3 DEF Prepare, Url, Thread, ThreadPc, LocalInv, Busy
  <2> QED
    BY <2>4, <2>5
<1>9. CASE Respond(t)
  <2> DEFINE r == [thr[t].it EXCEPT !.state = "downloading", !.bytes = Kept(t),
                                    !.sized = @ \/ Url(t) \in Sized]
             x == [thr[t] EXCEPT !.pc = "open", !.it = r, !.existing = Kept(t)]
  <2>1. Kept(t) \in Nat /\ (Url(t) \notin Ranged => Kept(t) = 0)
    BY <1>0 DEF Kept
  <2>2. (thr[t].it.sized \/ Url(t) \in Sized) \in BOOLEAN /\ "downloading" \in States
    BY <1>0 DEF Row, States
  <2>3. r = [thr[t].it EXCEPT !.state = "downloading", !.bytes = Kept(t),
                              !.sized = thr[t].it.sized \/ Url(t) \in Sized]
    OBVIOUS
  <2>4. r \in Row
    BY <1>0, <2>1, <2>2, <2>3 DEF Row
  <2>5. thr' = [thr EXCEPT ![t] = x]
    BY <1>0, <1>9 DEF Respond
  <2> HIDE DEF r
  <2>6. x \in Thread /\ LocalInv(x) /\ x.id = i
    BY <1>0, <1>9, <2>1, <2>4 DEF Respond, Url, Thread, ThreadPc, LocalInv, Busy
  <2> QED
    BY <2>5, <2>6
<1>10. CASE Chunk(t)
  <2> DEFINE r == [thr[t].it EXCEPT !.bytes = thr[t].it.bytes + 1]
             x == [thr[t] EXCEPT !.pc = "check", !.it = r]
  <2>1. r \in Row
    BY <1>0 DEF Row
  <2>2. thr' = [thr EXCEPT ![t] = x]
    BY <1>0, <1>10 DEF Chunk
  <2>3. x \in Thread /\ LocalInv(x) /\ x.id = i
    BY <1>0, <1>10, <2>1 DEF Chunk, Thread, ThreadPc, LocalInv, Busy
  <2> QED
    BY <2>2, <2>3
<1>11. CASE PrepareFail(t) \/ RequestFail(t) \/ NoSpace(t) \/ ReadFail(t) \/ ReplaceFail(t)
  <2>1. Goto(t, "caught") /\ thr[t].pc # "cleanup"
    BY <1>11 DEF PrepareFail, RequestFail, NoSpace, ReadFail, ReplaceFail, Raise
  <2> QED
    BY <1>2, <2>1 DEF ThreadPc, Busy
<1>12. CASE TakePart(t) \/ Open(t) \/ Replace(t)
  BY <1>3, <1>12 DEF TakePart, Open, Replace, Busy
<1>13. CASE CompleteTaken(t)
  BY <1>1, <1>2, <1>13 DEF CompleteTaken, Raise, ThreadPc, Busy
<1>14. CASE Check(t)
  BY <1>1, <1>3, <1>14 DEF Check, Settle, Busy
<1>15. CASE EndOfBody(t)
  <2>1. Goto(t, "caught") \/ Goto(t, "replace")
    BY <1>15 DEF EndOfBody
  <2>2. thr[t].pc = "read"
    BY <1>15 DEF EndOfBody
  <2> QED
    BY <1>2, <1>3, <2>1, <2>2 DEF ThreadPc, Busy
<1>16. CASE Record(t) \/ Cleanup(t)
  BY <1>1, <1>16 DEF Record, Cleanup
<1> QED
  BY <1>4, <1>5, <1>6, <1>7, <1>8, <1>9, <1>10, <1>11, <1>12, <1>13, <1>14, <1>15, <1>16 DEF ThreadStep

\* A thread writes only the row of its item.
LEMMA RowsStep ==
    ASSUME TypeInv, NEW t \in Threads, ThreadStep(t)
    PROVE  /\ rows' = rows \/ \E r \in Row : rows' = [rows EXCEPT ![thr[t].id] = r]
           /\ UNCHANGED <<past, stops, pauses, client>>
           /\ handle' = handle \/ handle' = [handle EXCEPT ![thr[t].id] = NoThread]
           /\ budget' \in Workload
           /\ Alive(t)
<1> DEFINE i == thr[t].id
<1>0. i \in Items /\ thr[t].it \in Row /\ thr[t].target \in PathValues /\ thr[t].existing \in Nat
  BY ThreadLemma
<1>1. rows' = rows \/ \E r \in Row : rows' = [rows EXCEPT ![i] = r]
  <2>1. CASE Fail(t)
    <3>1. [thr[t].it EXCEPT !.state = "failed"] \in Row
      BY <1>0 DEF Row, States
    <3> QED
      BY <2>1, <3>1 DEF Fail, Save
  <2>2. CASE Respond(t)
    <3> DEFINE r == [thr[t].it EXCEPT !.state = "downloading", !.bytes = Kept(t),
                                      !.sized = thr[t].it.sized \/ Url(t) \in Sized]
    <3>1. Kept(t) \in Nat
      BY <1>0 DEF Kept
    <3>2. r \in Row
      BY <1>0, <3>1 DEF Row, States
    <3> QED
      BY <2>2, <3>2 DEF Respond, Save
  <2>3. CASE CompleteTaken(t)
    <3>1. SizeOrZero(files, FinalOf(thr[t].target)) \in Nat
      BY ThreadLemma, SizeLemma DEF TypeInv, TypeOK
    <3>2. [thr[t].it EXCEPT !.state = "completed", !.bytes = SizeOrZero(files, FinalOf(thr[t].target))] \in Row
      BY <1>0, <3>1 DEF Row, States
    <3> QED
      BY <2>3, <3>2 DEF CompleteTaken, Save
  <2>4. CASE Check(t)
    <3>1. \A st \in {"cancelled", "paused"} : [thr[t].it EXCEPT !.state = st] \in Row
      BY <1>0 DEF Row, States
    <3> QED
      BY <2>4, <3>1 DEF Check, Settle, Save
  <2>5. CASE Chunk(t)
    <3>1. [thr[t].it EXCEPT !.bytes = thr[t].it.bytes + 1] \in Row
      BY <1>0 DEF Row
    <3> QED
      BY <2>5, <3>1 DEF Chunk, Save
  <2>6. CASE Record(t)
    <3>1. [thr[t].it EXCEPT !.state = "completed", !.name = thr[t].target] \in Row
      BY <1>0 DEF Row, States
    <3> QED
      BY <2>6, <3>1 DEF Record, Save
  <2> QED
    BY <2>1, <2>2, <2>3, <2>4, <2>5, <2>6
       DEF ThreadStep, Load, Prepare, PrepareFail, RequestFail, TakePart, NoSpace, Open, EndOfBody,
           ReadFail, Replace, ReplaceFail, Caught, Sleep, Cleanup
<1>2. UNCHANGED <<past, stops, pauses, client>> /\ Alive(t)
  BY DEF ThreadStep, Load, Prepare, PrepareFail, RequestFail, TakePart, CompleteTaken, Respond,
         NoSpace, Open, Check, Chunk, EndOfBody, ReadFail, Replace, ReplaceFail, Record, Caught,
         Fail, Sleep, Cleanup, events, Alive
<1>3. handle' = handle \/ handle' = [handle EXCEPT ![i] = NoThread]
  BY DEF ThreadStep, Load, Prepare, PrepareFail, RequestFail, TakePart, CompleteTaken, Respond,
         NoSpace, Open, Check, Chunk, EndOfBody, ReadFail, Replace, ReplaceFail, Record, Caught,
         Fail, Sleep, Cleanup, events
<1>4. budget' = budget \/ Spend("faults")
  BY DEF ThreadStep, Load, Prepare, PrepareFail, RequestFail, TakePart, CompleteTaken, Respond,
         NoSpace, Open, Check, Chunk, EndOfBody, ReadFail, Replace, ReplaceFail, Record, Caught,
         Fail, Sleep, Cleanup
<1> QED
  BY <1>1, <1>2, <1>3, <1>4, SpendLemma DEF TypeInv, TypeOK

\* A thread works on its .part file and its final file, through the descriptor it
\* holds.
LEMMA FilesStep ==
    ASSUME TypeInv, NEW t \in Threads, ThreadStep(t)
    PROVE  /\ StoreInv(Threads, Chunks, fd', files')
           /\ \A n \in FileNames \ {Part(t), FinalOf(thr[t].target), fd[t]} : files'[n] = files[n]
           /\ \A u \in Threads \ {t} : fd[u] \notin {Part(t), FinalOf(thr[t].target)} => fd'[u] = fd[u]
<1> DEFINE part  == Part(t)
           final == FinalOf(thr[t].target)
<1>0. /\ StoreInv(Threads, Chunks, fd, files) /\ NoFile \notin Seq(Chunks) /\ Hole \in Chunks
      /\ part \in FileNames /\ final \in FileNames /\ part # final
      /\ thr[t].existing \in Nat /\ fd \in [Threads -> FileNames \cup {Detached}]
  BY ThreadLemma, ContentAssumption DEF TypeInv, TypeOK, Chunks
<1>a. StoreInv(Threads, Chunks, fd, files) /\ NoFile \notin Seq(Chunks) /\ Hole \in Chunks
  BY <1>0
<1>1. CASE TakePart(t) \/ Replace(t)
  <2>1. /\ Exists(files, part) /\ files' = Renamed(files, part, final)
        /\ fd' = AfterRename(fd, part, final)
    BY <1>1 DEF TakePart, Replace
  <2> QED
    BY <1>0, <2>1, RenameLemma
<1>2. CASE Respond(t) \/ NoSpace(t)
  <2>1. \/ UNCHANGED <<files, fd>>
        \/ files' = Unlinked(files, part) /\ fd' = AfterUnlink(fd, part)
    BY <1>2 DEF Respond, NoSpace, Discarding
  <2> QED
    BY <1>0, <2>1, UnlinkLemma
<1>3. CASE Open(t)
  <2> DEFINE append == thr[t].existing > 0
  <2>1. append \in BOOLEAN
    OBVIOUS
  <2>2. files' = Opened(files, part, append) /\ fd' = [fd EXCEPT ![t] = part]
    BY <1>3 DEF Open
  <2> HIDE DEF part, append
  <2>p. part \in FileNames
    BY <1>0
  <2>3. StoreInv(Threads, Chunks, [fd EXCEPT ![t] = part], Opened(files, part, append))
    BY <1>a, <2>1, <2>p, OpenLemma
  <2>4. \A n \in FileNames \ {part} : Opened(files, part, append)[n] = files[n]
    BY <1>a, <2>p DEF Opened, StoreInv
  <2> QED
    BY <1>0, <2>2, <2>3, <2>4 DEF part
<1>4. CASE Chunk(t)
  <2> DEFINE n     == thr[t].it.bytes
             chunk == <<Url(t), Sent(t, n)>>
  <2>1. n \in Nat /\ n < Size /\ Size \in Nat /\ chunk \in Chunks
    <3>1. n \in Nat /\ n < Size /\ Size \in Nat
      BY <1>4, ThreadLemma, QueueManagerAssumption DEF Chunk, Row
    <3>2. Url(t) \in Urls /\ (Url(t) \notin Ranged => thr[t].existing = 0)
      BY <1>4, ThreadLemma DEF Chunk, LocalInv, Busy, Url
    <3>3. Sent(t, n) = n + 1
      BY <3>1, <3>2 DEF Sent
    <3> QED
      BY <3>1, <3>2, <3>3 DEF Chunks
  <2> DEFINE append == thr[t].existing > 0
  <2>2. files' = Written(files, fd[t], append, n, chunk) /\ fd' = fd /\ append \in BOOLEAN
    BY <1>4 DEF Chunk
  <2> HIDE DEF chunk, n, append
  <2>n. n \in Nat /\ chunk \in Chunks /\ append \in BOOLEAN
    BY <2>1, <2>2
  <2>3. StoreInv(Threads, Chunks, fd, Written(files, fd[t], append, n, chunk))
    BY <1>a, <2>n, WriteLemma
  <2>4. \A m \in FileNames \ {fd[t]} : Written(files, fd[t], append, n, chunk)[m] = files[m]
    BY <1>a DEF Written, StoreInv
  <2> QED
    BY <2>2, <2>3, <2>4
<1>5. CASE ~(TakePart(t) \/ Replace(t) \/ Respond(t) \/ NoSpace(t) \/ Open(t) \/ Chunk(t))
  <2>1. files' = files /\ (fd' = fd \/ fd' = [fd EXCEPT ![t] = Detached])
    BY <1>5 DEF ThreadStep, Load, Prepare, PrepareFail, RequestFail, CompleteTaken, Check, Settle, Closed,
                EndOfBody, ReadFail, ReplaceFail, Record, Caught, Fail, Sleep, Cleanup
  <2> QED
    BY <1>0, <2>1, CloseLemma
<1> QED
  BY <1>1, <1>2, <1>3, <1>4, <1>5

LEMMA ThreadTypes ==
    ASSUME TypeInv, NEW t \in Threads, ThreadStep(t)
    PROVE  TypeInv'
<1>1. PICK x \in Thread :
        /\ thr' = [thr EXCEPT ![t] = x] /\ LocalInv(x)
        /\ x.id = thr[t].id \/ x = [NoLocals EXCEPT !.pc = "ended"]
  BY LocalsStep
<1>2. /\ rows' = rows \/ \E r \in Row : rows' = [rows EXCEPT ![thr[t].id] = r]
      /\ UNCHANGED <<past, stops, pauses, client>>
      /\ handle' = handle \/ handle' = [handle EXCEPT ![thr[t].id] = NoThread]
      /\ budget' \in Workload
      /\ Alive(t)
  BY RowsStep
<1>3. StoreInv(Threads, Chunks, fd', files')
  BY FilesStep
<1>4. thr[t].id \in Items /\ thr[t].id \in added /\ TypeOK
  BY <1>2, ThreadLemma DEF TypeInv
<1>5. rows' \in [Items -> Row \cup {NoRow}] /\ \A i \in Items : rows'[i] # NoRow => i \in added'
  BY <1>2, <1>4 DEF TypeInv, TypeOK, past
<1>6. \A u \in Threads : LocalInv(thr'[u]) /\ (Alive(u)' => thr'[u].id \in added')
  <2>1. x = [NoLocals EXCEPT !.pc = "ended"] => x.pc = "ended"
    BY DEF NoLocals
  <2> QED
    BY <1>1, <1>2, <1>4, <2>1 DEF TypeInv, TypeOK, Alive, past
<1>7. thr' \in [Threads -> Thread] /\ handle' \in [Items -> Threads \cup {NoThread}]
  BY <1>1, <1>2, <1>4 DEF TypeOK
<1>8. TypeOK'
  BY <1>2, <1>3, <1>4, <1>5, <1>7 DEF TypeOK, StoreInv, Contents, past
<1> QED
  BY <1>2, <1>3, <1>5, <1>6, <1>8 DEF TypeInv, past

\* A handler thread's step, field by field.
LEMMA ClientTypes ==
    ASSUME TypeInv, NEW c \in Clients, ClientStep(c)
    PROVE  TypeInv'
<1>0. /\ TypeOK /\ StoreInv(Threads, Chunks, fd, files)
      /\ client \in [Clients -> ClientState] /\ client[c].id \in Items /\ client[c].it \in Row
      /\ rows \in [Items -> Row \cup {NoRow}] /\ Idle \in ClientState /\ Idle.pc = "idle"
  BY FreshLemma DEF TypeInv, TypeOK, ClientState, Idle
<1>1. ASSUME NEW where \in {"wait", "write", "spawn", "unlink", "remove"}, NEW i \in added, NEW r \in Row,
             Then(c, where, i, r)
      PROVE  /\ client' \in [Clients -> ClientState]
             /\ \A d \in Clients : client'[d].pc # "idle" => client'[d].id \in added
  <2> DEFINE x == [pc |-> where, id |-> i, it |-> r]
  <2>1. x \in ClientState /\ x.id \in added
    BY <1>0, <1>1 DEF ClientState, TypeOK
  <2>2. client' = [client EXCEPT ![c] = x]
    BY <1>1 DEF Then
  <2> HIDE DEF x
  <2> QED
    BY <1>0, <2>1, <2>2 DEF TypeInv
<1>2. ASSUME client' = [client EXCEPT ![c] = Idle]
      PROVE  /\ client' \in [Clients -> ClientState]
             /\ \A d \in Clients : client'[d].pc # "idle" => client'[d].id \in added
  BY <1>0, <1>2 DEF TypeInv
<1>3. ASSUME NEW i \in Items,
             Start(c, i) \/ Pause(c, i) \/ Cancel(c, i) \/ Delete(c, i)
      PROVE  TypeInv'
  <2>1. i \in added /\ rows[i] \in Row /\ budget' \in Workload
    BY <1>0, <1>3, SpendLemma DEF Start, Pause, Cancel, Delete, Request, TypeInv
  <2>2. UNCHANGED <<rows, past, handle, thr, fd, files>>
    BY <1>3 DEF Start, Pause, Cancel, Delete, events
  <2>3. stops' \in [Threads -> BOOLEAN] /\ pauses' \in [Threads -> BOOLEAN]
    BY <1>0, <1>3 DEF Start, Pause, Cancel, Delete, events, SetStop, TypeOK
  <2>4. \A st \in States : [rows[i] EXCEPT !.state = st] \in Row
    BY <2>1 DEF Row
  <2>5. /\ client' \in [Clients -> ClientState]
        /\ \A d \in Clients : client'[d].pc # "idle" => client'[d].id \in added
    <3>1. client' = client \/ \E where \in {"wait", "write", "unlink"}, r \in Row : Then(c, where, i, r)
      BY <1>3, <2>1, <2>4 DEF Start, Pause, Cancel, Delete, States
    <3> QED
      BY <1>0, <1>1, <2>1, <3>1 DEF TypeInv
  <2> QED
    BY <1>0, <2>1, <2>2, <2>3, <2>5 DEF TypeInv, TypeOK, Alive, past
<1>4. CASE MarkWaiting(c) \/ Write(c)
  <2>1. /\ client[c].id \in added /\ rows' = [rows EXCEPT ![client[c].id] = client[c].it]
        /\ UNCHANGED <<past, events, thr, fd, files, budget>>
    BY <1>4 DEF MarkWaiting, Write, Save, TypeInv
  <2>2. rows' \in [Items -> Row \cup {NoRow}] /\ \A i \in Items : rows'[i] # NoRow => i \in added
    BY <1>0, <2>1 DEF TypeInv
  <2>3. /\ client' \in [Clients -> ClientState]
        /\ \A d \in Clients : client'[d].pc # "idle" => client'[d].id \in added
    BY <1>0, <1>1, <1>2, <1>4, <2>1 DEF MarkWaiting, Write
  <2> QED
    BY <1>0, <2>1, <2>2, <2>3 DEF TypeInv, TypeOK, Alive, past, events
<1>5. CASE Spawn(c)
  <2>1. PICK t \in Threads :
          /\ thr[t].pc = "absent"
          /\ thr' = [thr EXCEPT ![t].pc = "load", ![t].id = client[c].id]
          /\ handle' = [handle EXCEPT ![client[c].id] = t]
    BY <1>5 DEF Spawn
  <2> DEFINE x == [thr[t] EXCEPT !.pc = "load", !.id = client[c].id]
  <2>2. thr' = [thr EXCEPT ![t] = x] /\ thr[t] \in Thread /\ LocalInv(thr[t])
    BY <1>0, <2>1 DEF TypeOK, TypeInv
  <2>3. client[c].id \in added
    BY <1>5 DEF Spawn, TypeInv
  <2>4. x \in Thread /\ LocalInv(x) /\ x.id \in added
    BY <1>0, <2>1, <2>2, <2>3 DEF Thread, ThreadPc, LocalInv, Busy
  <2> HIDE DEF x
  <2>5. /\ thr' \in [Threads -> Thread] /\ handle' \in [Items -> Threads \cup {NoThread}]
        /\ \A u \in Threads : LocalInv(thr'[u]) /\ (Alive(u)' => thr'[u].id \in added)
    BY <1>0, <2>1, <2>2, <2>4 DEF TypeOK, TypeInv, Alive
  <2>6. /\ UNCHANGED <<rows, past, stops, pauses, fd, files, budget>>
        /\ client' = [client EXCEPT ![c] = Idle]
    BY <1>5 DEF Spawn
  <2> QED
    BY <1>0, <1>2, <2>5, <2>6 DEF TypeInv, TypeOK, past
<1>6. CASE SpawnRefused(c)
  BY <1>0, <1>2, <1>6 DEF SpawnRefused, TypeInv, TypeOK, Alive, past, events
<1>7. CASE DeleteFiles(c)
  <2> DEFINE p == client[c].it.name
  <2>1. StoreInv(Threads, Chunks, fd', files')
    <3>1. CASE p = NoPath
      BY <1>0, <1>7, <3>1 DEF DeleteFiles
    <3>2. CASE p # NoPath
      <4>1. PartOf(p) \in FileNames /\ FinalOf(p) \in FileNames
        BY <1>0, NamesLemma DEF Row
      <4>2. StoreInv(Threads, Chunks, AfterUnlink(fd, FinalOf(p)), Unlinked(files, FinalOf(p)))
        BY <1>0, <4>1, UnlinkLemma
      <4>3. StoreInv(Threads, Chunks, AfterUnlink(AfterUnlink(fd, FinalOf(p)), PartOf(p)),
                     Unlinked(Unlinked(files, FinalOf(p)), PartOf(p)))
        BY <4>1, <4>2, UnlinkLemma
      <4> QED
        BY <1>7, <3>2, <4>3 DEF DeleteFiles
    <3> QED
      BY <3>1, <3>2
  <2>2. /\ client[c].id \in added /\ Then(c, "remove", client[c].id, client[c].it)
        /\ erased' = erased \cup {client[c].id}
        /\ UNCHANGED <<rows, added, events, thr, budget>>
    BY <1>7 DEF DeleteFiles, TypeInv
  <2> QED
    BY <1>0, <1>1, <2>1, <2>2 DEF TypeInv, TypeOK, Alive, events, StoreInv, Contents
<1>8. CASE DeleteRow(c)
  <2>1. /\ rows' = [rows EXCEPT ![client[c].id] = NoRow]
        /\ erased' = erased \ {client[c].id}
        /\ client' = [client EXCEPT ![c] = Idle]
        /\ UNCHANGED <<added, events, thr, fd, files, budget>>
    BY <1>8 DEF DeleteRow
  <2>2. rows' \in [Items -> Row \cup {NoRow}] /\ \A i \in Items : rows'[i] # NoRow => i \in added
    BY <1>0, <2>1 DEF TypeInv
  <2> QED
    BY <1>0, <1>2, <2>1, <2>2 DEF TypeInv, TypeOK, Alive, events
<1> QED
  BY <1>3, <1>4, <1>5, <1>6, <1>7, <1>8 DEF ClientStep

LEMMA AddTypes ==
    ASSUME TypeInv, NEW i \in Items, AddResult(i)
    PROVE  TypeInv'
<1>1. PICK known \in BOOLEAN : rows' = [rows EXCEPT ![i] = [FreshRow(i) EXCEPT !.sized = known]]
  BY DEF AddResult, Save
<1>2. [FreshRow(i) EXCEPT !.sized = known] \in Row
  BY FreshLemma DEF Row
<1>3. added' = added \cup {i} /\ UNCHANGED <<erased, events, thr, fd, client, files, budget>>
  BY DEF AddResult
<1>4. /\ rows' \in [Items -> Row \cup {NoRow}]
      /\ \A j \in Items : rows'[j] # NoRow => j \in added'
  BY <1>1, <1>2, <1>3 DEF TypeInv, TypeOK
<1> QED
  BY <1>3, <1>4 DEF TypeInv, TypeOK, Alive, events

LEMMA RestartTypes == TypeInv /\ Restart => TypeInv'
<1> SUFFICES ASSUME TypeInv, Restart PROVE TypeInv'
  OBVIOUS
<1>1. StoreInv(Threads, Chunks, fd', files')
  BY DEF Restart, TypeInv, TypeOK, StoreInv
<1>2. budget' \in Workload
  BY SpendLemma DEF Restart, TypeInv
<1>3. \A t \in Threads : thr'[t] = NoLocals /\ LocalInv(thr'[t]) /\ ~Alive(t)'
  BY FreshLemma DEF Restart, Alive, NoLocals
<1>4. \A c \in Clients : client'[c] = Idle /\ client'[c].pc = "idle"
  BY DEF Restart, Idle
<1>5. /\ thr' \in [Threads -> Thread] /\ client' \in [Clients -> ClientState]
      /\ handle' \in [Items -> Threads \cup {NoThread}]
      /\ stops' \in [Threads -> BOOLEAN] /\ pauses' \in [Threads -> BOOLEAN]
  BY FreshLemma DEF Restart
<1> QED
  BY <1>1, <1>2, <1>3, <1>4, <1>5 DEF Restart, TypeInv, TypeOK, StoreInv, Contents, past

LEMMA InitTypes == Init => TypeInv
<1> SUFFICES ASSUME Init PROVE TypeInv
  OBVIOUS
<1>1. StoreInv(Threads, Chunks, fd, files)
  BY DEF Init, StoreInv
<1>2. budget \in Workload
  BY QueueManagerAssumption DEF Init
<1>3. \A t \in Threads : LocalInv(thr[t]) /\ ~Alive(t)
  BY FreshLemma DEF Init, Alive, NoLocals
<1>4. \A c \in Clients : client[c].pc = "idle"
  BY DEF Init, Idle
<1> QED
  BY <1>1, <1>2, <1>3, <1>4, FreshLemma DEF Init, TypeInv, TypeOK, StoreInv, Contents

LEMMA NextTypes == TypeInv /\ [Next]_vars => TypeInv'
<1> SUFFICES ASSUME TypeInv, [Next]_vars PROVE TypeInv'
  OBVIOUS
<1>1. CASE UNCHANGED vars
  BY <1>1 DEF vars, past, events, TypeInv, TypeOK, Alive
<1> QED
  BY <1>1, ThreadTypes, AddTypes, ClientTypes, RestartTypes DEF Next

LEMMA TypeInvariance == Spec => []TypeInv
<1> QED
  BY InitTypes, NextTypes, PTL DEF Spec

\* Every variable keeps its type, with any number of clients and threads on an
\* item: no thread makes a fourth attempt, every path it works on is the name of a
\* file, and whatever it writes is a chunk of the body.
THEOREM TypeCorrect == Spec => []TypeOK
<1>1. TypeInv => TypeOK
  BY DEF TypeInv
<1> QED
  BY TypeInvariance, <1>1, PTL

----------------------------------------------------------------------------
(***************************************************************************)
(* Threads and rows, while an item has one thread at most: any number of   *)
(* handlers may pause, cancel and delete it meanwhile, and write whole rows *)
(* from copies they took earlier.                                          *)
(***************************************************************************)
OneThread == \A t, u \in Threads : Alive(t) /\ Alive(u) /\ thr[t].id = thr[u].id => t = u

Downloading(row) == row # NoRow /\ row.state = "downloading"
Completed(row)   == row # NoRow /\ row.state = "completed"

PlaceInv ==
    \A t \in Threads :
        /\ thr[t].pc \in {"sleep", "cleanup"} => ~Downloading(rows[thr[t].id])
        /\ thr[t].pc \in {"open", "check", "read"} => thr[t].it.state = "downloading"

\* What handlers are about to write.
DraftInv ==
    \A c \in Clients :
        client[c].pc \in {"wait", "spawn", "write"} => client[c].it.state # "downloading"

RunInv == EventsReachThread /\ PlaceInv /\ DraftInv

\* How a thread's step leaves its row, its locals and its events.
LEMMA OutcomeLemma ==
    ASSUME TypeInv, PlaceInv, NEW t \in Threads, ThreadStep(t)
    PROVE  /\ thr'[t].pc \in {"sleep", "cleanup"} => ~Downloading(rows'[thr[t].id])
           /\ thr'[t].pc \in {"open", "check", "read"} => thr'[t].it.state = "downloading"
           /\ Completed(rows'[thr[t].id]) => ~Alive(t)' \/ Completed(rows[thr[t].id])
           /\ ~Alive(t)' => ~Downloading(rows'[thr[t].id])
           /\ Alive(t)' => handle' = handle /\ thr'[t].id = thr[t].id
           /\ \A u \in Threads \ {t} : thr'[u] = thr[u]
<1> DEFINE i == thr[t].id
           x == thr'[t]
<1>0. /\ thr \in [Threads -> Thread] /\ thr[t] \in Thread /\ i \in Items /\ thr[t].it \in Row
      /\ rows \in [Items -> Row \cup {NoRow}] /\ Alive(t)
      /\ thr[t].pc \in {"open", "check", "read"} => thr[t].it.state = "downloading"
      /\ thr[t].pc \in {"sleep", "cleanup"} => ~Downloading(rows[i])
  BY ThreadLemma, RowsStep DEF TypeInv, TypeOK, PlaceInv
<1>1. /\ \A u \in Threads \ {t} : thr'[u] = thr[u]
      /\ Alive(t)' => thr'[t].id = i
  <2>1. PICK y \in Thread : /\ thr' = [thr EXCEPT ![t] = y]
                            /\ y.id = thr[t].id \/ y = [NoLocals EXCEPT !.pc = "ended"]
    BY LocalsStep
  <2>2. y = [NoLocals EXCEPT !.pc = "ended"] => y.pc = "ended"
    BY DEF NoLocals
  <2> QED
    BY <1>0, <2>1, <2>2 DEF Alive
<1>2. ASSUME Ended(t) PROVE x.pc = "ended" /\ ~Alive(t)'
  BY <1>0, <1>2 DEF Ended, NoLocals, Alive
<1>3. ASSUME NEW where, Goto(t, where)
      PROVE  x.pc = where /\ x.it = thr[t].it /\ (where \notin {"absent", "ended"} => Alive(t)')
  BY <1>0, <1>3 DEF Goto, Alive, Thread
<1>4. \A r : rows' = [rows EXCEPT ![i] = r] => rows'[i] = r
  BY <1>0
<1> DEFINE Goal == /\ x.pc \in {"sleep", "cleanup"} => ~Downloading(rows'[i])
                   /\ x.pc \in {"open", "check", "read"} => x.it.state = "downloading"
                   /\ Completed(rows'[i]) => ~Alive(t)' \/ Completed(rows[i])
                   /\ ~Alive(t)' => ~Downloading(rows'[i])
                   /\ Alive(t)' => handle' = handle
<1>5. ASSUME Load(t) \/ Caught(t) PROVE Goal
  <2>1. rows' = rows /\ handle' = handle
    BY <1>5 DEF Load, Caught, events
  <2>2. \/ x.pc \in {"prepare", "fail"}
        \/ Ended(t) /\ ~Downloading(rows[i])
    <3>1. CASE Ended(t) /\ (rows[i] = NoRow \/ rows[i].state \in {"paused", "cancelled"})
      BY <3>1 DEF Downloading
    <3>2. CASE thr' = [thr EXCEPT ![t].pc = "prepare", ![t].it = rows[i]]
      BY <1>0, <3>2 DEF Thread
    <3>3. CASE thr' = [thr EXCEPT ![t].pc = "fail", ![t].it = rows[i]]
      BY <1>0, <3>3 DEF Thread
    <3> QED
      BY <1>5, <3>1, <3>2, <3>3 DEF Load, Caught
  <2>3. x.pc \in {"prepare", "fail"} => Alive(t)'
    BY DEF Alive
  <2> QED
    BY <1>0, <1>2, <2>1, <2>2, <2>3
<1>6. ASSUME Fail(t) PROVE Goal
  <2>1. rows'[i] = [thr[t].it EXCEPT !.state = "failed"] /\ x.pc = "sleep" /\ handle' = handle
    BY <1>0, <1>4, <1>6 DEF Fail, Save, events
  <2>2. rows'[i].state = "failed"
    BY <1>0, <2>1 DEF Row
  <2> QED
    BY <2>1, <2>2 DEF Alive, Downloading, Completed
<1>7. ASSUME Sleep(t) PROVE Goal
  <2>1. rows' = rows /\ handle' = handle /\ x.pc \in {"prepare", "cleanup"} /\ thr[t].pc = "sleep"
    BY <1>0, <1>7 DEF Sleep, events
  <2> QED
    BY <1>0, <2>1 DEF Alive
<1>8. ASSUME Cleanup(t) PROVE Goal
  BY <1>0, <1>2, <1>8 DEF Cleanup
<1>9. ASSUME Prepare(t) PROVE Goal
  <2>1. rows' = rows /\ handle' = handle /\ x.pc = "request"
    BY <1>0, <1>9 DEF Prepare, events
  <2> QED
    BY <1>0, <2>1 DEF Alive
<1>10. ASSUME NEW where \in {"caught", "complete", "replace", "record"}, Goto(t, where),
              rows' = rows, handle' = handle
       PROVE  Goal
  BY <1>0, <1>3, <1>10
<1>11. ASSUME PrepareFail(t) \/ RequestFail(t) \/ NoSpace(t) \/ ReadFail(t) \/ ReplaceFail(t)
              \/ TakePart(t) \/ Replace(t) \/ EndOfBody(t)
       PROVE  Goal
  <2>1. /\ rows' = rows /\ handle' = handle
        /\ \E where \in {"caught", "complete", "replace", "record"} : Goto(t, where)
    BY <1>11 DEF PrepareFail, RequestFail, NoSpace, ReadFail, ReplaceFail, TakePart, Replace, EndOfBody,
                 Raise, events
  <2> QED
    BY <1>10, <2>1
<1>12. ASSUME Respond(t) PROVE Goal
  <2> DEFINE r == [thr[t].it EXCEPT !.state = "downloading", !.bytes = Kept(t),
                                    !.sized = @ \/ Url(t) \in Sized]
  <2>1. rows'[i] = r /\ x.pc = "open" /\ x.it = r /\ handle' = handle
    BY <1>0, <1>4, <1>12 DEF Respond, Save, events
  <2>2. r.state = "downloading"
    BY <1>0 DEF Row
  <2> QED
    BY <2>1, <2>2 DEF Alive, Completed
<1>13. ASSUME Open(t) PROVE Goal
  BY <1>0, <1>3, <1>13 DEF Open, events
<1>14. ASSUME Check(t) PROVE Goal
  <2>1. CASE Goto(t, "read") /\ rows' = rows
    BY <1>0, <1>3, <1>14, <2>1 DEF Check, events
  <2>2. ASSUME NEW st \in {"cancelled", "paused"}, Settle(t, st) PROVE Goal
    <3>1. rows'[i] = [thr[t].it EXCEPT !.state = st] /\ Ended(t)
      BY <1>4, <2>2 DEF Settle, Save
    <3>2. rows'[i].state = st
      BY <1>0, <3>1 DEF Row
    <3> QED
      BY <1>2, <2>2, <3>1, <3>2 DEF Downloading, Completed
  <2> QED
    BY <1>14, <2>1, <2>2 DEF Check
<1>15. ASSUME Chunk(t) PROVE Goal
  <2> DEFINE r == [thr[t].it EXCEPT !.bytes = thr[t].it.bytes + 1]
  <2>1. x.pc = "check" /\ x.it = r /\ handle' = handle /\ (rows' = rows \/ rows'[i] = r)
    BY <1>0, <1>4, <1>15 DEF Chunk, Save, events
  <2>2. r.state = "downloading"
    BY <1>0, <1>15 DEF Row, Chunk
  <2> QED
    BY <1>0, <2>1, <2>2 DEF Alive, Completed
<1>16. ASSUME CompleteTaken(t) PROVE Goal
  <2>1. CASE Raise(t) /\ rows' = rows
    BY <1>10, <1>16, <2>1 DEF CompleteTaken, Raise, events
  <2>2. CASE \E n : Save(i, [thr[t].it EXCEPT !.state = "completed", !.bytes = n]) /\ Ended(t)
    <3>1. rows'[i].state = "completed"
      BY <1>0, <1>4, <2>2 DEF Save, Row
    <3> QED
      BY <1>2, <2>2, <3>1 DEF Downloading
  <2> QED
    BY <1>16, <2>1, <2>2 DEF CompleteTaken
<1>17. ASSUME Record(t) PROVE Goal
  <2>1. rows'[i] = [thr[t].it EXCEPT !.state = "completed", !.name = thr[t].target] /\ Ended(t)
    BY <1>0, <1>4, <1>17 DEF Record, Save
  <2>2. rows'[i].state = "completed"
    BY <1>0, <2>1 DEF Row
  <2> QED
    BY <1>2, <2>1, <2>2 DEF Downloading
<1>18. Goal
  BY <1>5, <1>6, <1>7, <1>8, <1>9, <1>11, <1>12, <1>13, <1>14, <1>15, <1>16, <1>17 DEF ThreadStep
<1> QED
  BY <1>1, <1>18

LEMMA RunThread ==
    ASSUME TypeInv, RunInv, NEW t \in Threads, ThreadStep(t)
    PROVE  RunInv'
<1> DEFINE i == thr[t].id
<1>0. /\ rows \in [Items -> Row \cup {NoRow}] /\ i \in Items /\ Alive(t)
      /\ handle \in [Items -> Threads \cup {NoThread}]
      /\ \A j \in Items \ {i} : rows'[j] = rows[j]
      /\ UNCHANGED client
      /\ handle' = handle \/ handle' = [handle EXCEPT ![i] = NoThread]
      /\ thr \in [Threads -> Thread] /\ \A u \in Threads : thr[u].id \in Items
  BY ThreadLemma, RowsStep DEF TypeInv, TypeOK
<1>1. /\ thr'[t].pc \in {"sleep", "cleanup"} => ~Downloading(rows'[i])
      /\ thr'[t].pc \in {"open", "check", "read"} => thr'[t].it.state = "downloading"
      /\ Alive(t)' => handle' = handle /\ thr'[t].id = i
      /\ \A u \in Threads \ {t} : thr'[u] = thr[u]
  BY OutcomeLemma DEF RunInv
<1>2. \A u \in Threads \ {t} : Alive(u) => thr[u].id # i
  BY <1>0 DEF RunInv, EventsReachThread
<1>3. \A u \in Threads \ {t} : Alive(u)' <=> Alive(u)
  BY <1>1 DEF Alive
<1>4. EventsReachThread'
  BY <1>0, <1>1, <1>2, <1>3 DEF RunInv, EventsReachThread
<1>5. ASSUME NEW u \in Threads
      PROVE  /\ thr'[u].pc \in {"sleep", "cleanup"} => ~Downloading(rows'[thr'[u].id])
             /\ thr'[u].pc \in {"open", "check", "read"} => thr'[u].it.state = "downloading"
  <2>1. CASE u = t
    <3>1. thr'[t].pc \in {"sleep", "cleanup"} => Alive(t)'
      BY DEF Alive
    <3> QED
      BY <1>1, <2>1, <3>1
  <2>2. CASE u # t
    <3>1. thr'[u] = thr[u] /\ (thr[u].pc \in {"sleep", "cleanup"} => Alive(u))
      BY <1>1, <2>2 DEF Alive
    <3> QED
      BY <1>0, <1>2, <2>2, <3>1 DEF RunInv, PlaceInv
  <2> QED
    BY <2>1, <2>2
<1>6. DraftInv'
  BY <1>0 DEF RunInv, DraftInv
<1> QED
  BY <1>4, <1>5, <1>6 DEF RunInv, PlaceInv

LEMMA RunClient ==
    ASSUME TypeInv, RunInv, OneThread', NEW c \in Clients, ClientStep(c)
    PROVE  RunInv'
<1>0. /\ client \in [Clients -> ClientState] /\ client[c].id \in Items /\ client[c].it \in Row
      /\ rows \in [Items -> Row \cup {NoRow}] /\ Idle.pc = "idle"
      /\ thr \in [Threads -> Thread] /\ \A u \in Threads : thr[u].id \in Items
      /\ handle \in [Items -> Threads \cup {NoThread}]
  BY ThreadLemma DEF TypeInv, TypeOK, ClientState, Idle
<1>1. ASSUME NEW where, NEW i, NEW r, Then(c, where, i, r),
             where \in {"wait", "spawn", "write"} => r.state # "downloading"
      PROVE  DraftInv'
  BY <1>0, <1>1 DEF Then, RunInv, DraftInv
<1>2. ASSUME client' = [client EXCEPT ![c] = Idle] PROVE DraftInv'
  BY <1>0, <1>2 DEF RunInv, DraftInv
<1>3. ASSUME UNCHANGED <<thr, handle, rows>>, DraftInv' PROVE RunInv'
  BY <1>3 DEF RunInv, EventsReachThread, PlaceInv, Alive
<1>4. ASSUME NEW i \in Items, Start(c, i) \/ Pause(c, i) \/ Cancel(c, i) \/ Delete(c, i)
      PROVE  RunInv'
  <2>1. UNCHANGED <<thr, handle, rows>> /\ rows[i] \in Row
    BY <1>0, <1>4 DEF Start, Pause, Cancel, Delete, events
  <2>2. \A st : [rows[i] EXCEPT !.state = st].state = st
    BY <2>1 DEF Row
  <2>3. \/ client' = client
        \/ \E st \in {"waiting", "paused", "cancelled"} : \E where :
              Then(c, where, i, [rows[i] EXCEPT !.state = st])
        \/ Then(c, "write", i, rows[i]) /\ rows[i].state = "completed"
        \/ Then(c, "unlink", i, rows[i])
    BY <1>4 DEF Start, Pause, Cancel, Delete
  <2>4. CASE client' = client
    BY <1>3, <2>1, <2>4 DEF RunInv, DraftInv
  <2>5. ASSUME NEW st \in {"waiting", "paused", "cancelled"}, NEW where,
               Then(c, where, i, [rows[i] EXCEPT !.state = st])
        PROVE  RunInv'
    <3>1. [rows[i] EXCEPT !.state = st].state # "downloading"
      BY <2>2
    <3> QED
      BY <1>1, <1>3, <2>1, <2>5, <3>1
  <2>6. CASE Then(c, "write", i, rows[i]) /\ rows[i].state = "completed"
    BY <1>1, <1>3, <2>1, <2>6
  <2>7. CASE Then(c, "unlink", i, rows[i])
    BY <1>1, <1>3, <2>1, <2>7
  <2> QED
    BY <2>3, <2>4, <2>5, <2>6, <2>7
<1>5. CASE MarkWaiting(c) \/ Write(c)
  <2> DEFINE i == client[c].id
             r == client[c].it
  <2>1. /\ rows' = [rows EXCEPT ![i] = r] /\ UNCHANGED <<thr, handle>>
        /\ r.state # "downloading"
    BY <1>0, <1>5 DEF MarkWaiting, Write, Save, events, RunInv, DraftInv
  <2>2. \A j \in Items : Downloading(rows'[j]) => Downloading(rows[j])
    BY <1>0, <2>1 DEF Downloading
  <2>3. DraftInv'
    BY <1>1, <1>2, <1>5, <2>1 DEF MarkWaiting, Write
  <2> QED
    BY <1>0, <2>1, <2>2, <2>3 DEF RunInv, EventsReachThread, PlaceInv, Alive
<1>6. CASE Spawn(c)
  <2> DEFINE i == client[c].id
  <2>1. PICK t \in Threads :
          /\ thr[t].pc = "absent"
          /\ thr' = [thr EXCEPT ![t].pc = "load", ![t].id = i]
          /\ handle' = [handle EXCEPT ![i] = t]
    BY <1>6 DEF Spawn
  <2>2. /\ thr'[t].pc = "load" /\ thr'[t].id = i /\ handle'[i] = t /\ Alive(t)'
        /\ \A u \in Threads \ {t} : thr'[u] = thr[u] /\ (Alive(u)' <=> Alive(u))
        /\ \A j \in Items \ {i} : handle'[j] = handle[j]
    BY <1>0, <2>1 DEF Thread, Alive
  <2>3. UNCHANGED rows /\ client' = [client EXCEPT ![c] = Idle]
    BY <1>6 DEF Spawn
  <2>4. \A u \in Threads \ {t} : Alive(u) => thr[u].id # i
    <3>1. \A u \in Threads : Alive(u)' /\ Alive(t)' /\ thr'[u].id = thr'[t].id => u = t
      BY DEF OneThread
    <3> QED
      BY <2>2, <3>1
  <2>5. EventsReachThread'
    BY <1>0, <2>2, <2>4 DEF RunInv, EventsReachThread
  <2>6. PlaceInv'
    BY <2>2, <2>3 DEF RunInv, PlaceInv
  <2> QED
    BY <1>2, <2>3, <2>5, <2>6 DEF RunInv
<1>7. CASE SpawnRefused(c)
  BY <1>2, <1>3, <1>7 DEF SpawnRefused, events
<1>8. CASE DeleteFiles(c)
  <2>1. UNCHANGED <<thr, handle, rows>> /\ Then(c, "remove", client[c].id, client[c].it)
    BY <1>8 DEF DeleteFiles, events
  <2> QED
    BY <1>1, <1>3, <2>1
<1>9. CASE DeleteRow(c)
  <2>1. /\ rows' = [rows EXCEPT ![client[c].id] = NoRow] /\ UNCHANGED <<thr, handle>>
        /\ client' = [client EXCEPT ![c] = Idle]
    BY <1>9 DEF DeleteRow, events
  <2>2. \A j \in Items : Downloading(rows'[j]) => Downloading(rows[j])
    BY <1>0, <2>1 DEF Downloading
  <2> QED
    BY <1>0, <1>2, <2>1, <2>2 DEF RunInv, EventsReachThread, PlaceInv, Alive
<1> QED
  BY <1>4, <1>5, <1>6, <1>7, <1>8, <1>9 DEF ClientStep

LEMMA RunAdd ==
    ASSUME TypeInv, RunInv, NEW i \in Items, AddResult(i)
    PROVE  RunInv'
<1>1. PICK known \in BOOLEAN : rows' = [rows EXCEPT ![i] = [FreshRow(i) EXCEPT !.sized = known]]
  BY DEF AddResult, Save
<1>2. [FreshRow(i) EXCEPT !.sized = known].state \in {"waiting", "manual-action-required"}
  BY DEF FreshRow
<1>3. /\ rows \in [Items -> Row \cup {NoRow}] /\ \A u \in Threads : thr[u].id \in Items
      /\ UNCHANGED <<thr, handle, client>>
  BY ThreadLemma DEF TypeInv, TypeOK, AddResult, events
<1>4. \A j \in Items : Downloading(rows'[j]) => Downloading(rows[j])
  BY <1>1, <1>2, <1>3 DEF Downloading
<1> QED
  BY <1>3, <1>4 DEF RunInv, EventsReachThread, PlaceInv, DraftInv, Alive

\* A state of a helper that was just started.
LEMMA RunFresh ==
    ASSUME \A t \in Threads : thr[t] = NoLocals, \A c \in Clients : client[c] = Idle
    PROVE  RunInv
<1>1. \A t \in Threads : thr[t].pc = "absent"
  BY DEF NoLocals
<1>2. \A c \in Clients : client[c].pc = "idle"
  BY DEF Idle
<1> QED
  BY <1>1, <1>2 DEF RunInv, EventsReachThread, PlaceInv, DraftInv, Alive

LEMMA RunNext ==
    ASSUME TypeInv, RunInv, OneThread', [Next]_vars
    PROVE  RunInv'
<1>1. CASE UNCHANGED vars
  BY <1>1 DEF vars, past, events, RunInv, EventsReachThread, PlaceInv, DraftInv, Alive
<1>2. CASE Restart
  <2>1. (\A t \in Threads : thr'[t] = NoLocals) /\ (\A c \in Clients : client'[c] = Idle)
    BY <1>2 DEF Restart
  <2>2. \A t \in Threads : thr'[t].pc = "absent"
    BY <2>1 DEF NoLocals
  <2>3. \A c \in Clients : client'[c].pc = "idle"
    BY <2>1 DEF Idle
  <2> QED
    BY <2>2, <2>3 DEF RunInv, EventsReachThread, PlaceInv, DraftInv, Alive
<1> QED
  BY <1>1, <1>2, RunThread, RunClient, RunAdd DEF Next

LEMMA RunInvariance == Spec /\ []OneThread => [](TypeInv /\ RunInv)
<1>1. Init => RunInv
  BY RunFresh DEF Init
<1>2. TypeInv /\ RunInv /\ OneThread' /\ [Next]_vars => RunInv'
  BY RunNext
<1> QED
  BY <1>1, <1>2, TypeInvariance, PTL DEF Spec

\* The events in the dicts are those of the thread at work: pause and cancel reach
\* it, after any number of earlier threads of the item that ended in any way, and
\* whatever handlers do at the same time.  Nothing but a second thread of the item
\* takes them away, by registering its own.
THEOREM ReachedByEvents == Spec /\ []OneThread => []EventsReachThread
<1>1. RunInv => EventsReachThread
  BY DEF RunInv
<1> QED
  BY <1>1, RunInvariance, PTL

\* However a thread ends, its row no longer says downloading: every way out of
\* download and _run settled it first, and no handler wrote it back, however old
\* the copy it wrote.
THEOREM SettledAtEnd == Spec /\ []OneThread => EndSettlesRow
<1>1. ASSUME TypeInv, RunInv, [Next]_vars
      PROVE  [\A t \in Threads :
                 Alive(t) /\ thr'[t].pc = "ended"
                   => rows'[thr[t].id] = NoRow \/ rows'[thr[t].id].state # "downloading"]_vars
  <2> SUFFICES ASSUME NEW t \in Threads, Alive(t), thr'[t].pc = "ended", Next
               PROVE  rows'[thr[t].id] = NoRow \/ rows'[thr[t].id].state # "downloading"
    BY <1>1
  <2>0. /\ TypeInv /\ PlaceInv /\ thr \in [Threads -> Thread] /\ thr[t].pc # "ended"
    BY <1>1 DEF TypeInv, TypeOK, Alive, RunInv
  <2>1. ThreadStep(t)
    <3>1. ASSUME NEW u \in Threads, ThreadStep(u) PROVE u = t
      BY <2>0, <3>1, OutcomeLemma
    <3>2. ASSUME NEW i \in Items, AddResult(i) PROVE FALSE
      BY <2>0, <3>2 DEF AddResult
    <3>3. ASSUME NEW c \in Clients, ClientStep(c) PROVE FALSE
      BY <2>0, <3>3 DEF ClientStep, Start, Pause, Cancel, Delete, MarkWaiting, Spawn, SpawnRefused, Write,
                        DeleteFiles, DeleteRow, Thread
    <3>4. ~Restart
      BY <2>0 DEF Restart, NoLocals
    <3> QED
      BY <3>1, <3>2, <3>3, <3>4 DEF Next
  <2>2. ~Alive(t)'
    BY DEF Alive
  <2> QED
    BY <2>0, <2>1, <2>2, OutcomeLemma DEF Downloading
<1> QED
  BY <1>1, RunInvariance, PTL DEF Spec, EndSettlesRow

----------------------------------------------------------------------------
(***************************************************************************)
(* One handler thread at a time, which starts or deletes an item only      *)
(* between its threads.  Then an item has one thread at most; its row is   *)
(* written by that thread, and by a handler that pauses or cancels.        *)
(***************************************************************************)
HandlerInv(c) ==
    LET i == client[c].id
    IN  /\ client[c].pc \in {"wait", "spawn", "unlink", "remove"} => OnItem(i) = {}
        /\ client[c].pc \in {"wait", "spawn"} => client[c].it.state = "waiting"
        /\ client[c].pc = "spawn" => rows[i] = client[c].it
        /\ client[c].pc = "write" =>
              /\ client[c].it.state # "downloading"
              /\ client[c].it.state = "completed" => rows[i] = client[c].it

SoloInv ==
    /\ EventsReachThread
    /\ PlaceInv
    /\ \A i \in Items : Completed(rows[i]) => OnItem(i) = {}
    /\ \A c \in Clients : HandlerInv(c)

LEMMA SoloThread ==
    ASSUME TypeInv, SoloInv, NEW t \in Threads, ThreadStep(t)
    PROVE  SoloInv'
<1> DEFINE i == thr[t].id
<1>0. /\ rows \in [Items -> Row \cup {NoRow}] /\ i \in Items /\ Alive(t)
      /\ handle \in [Items -> Threads \cup {NoThread}]
      /\ \A j \in Items \ {i} : rows'[j] = rows[j]
      /\ UNCHANGED client
      /\ handle' = handle \/ handle' = [handle EXCEPT ![i] = NoThread]
      /\ thr \in [Threads -> Thread] /\ \A u \in Threads : thr[u].id \in Items
  BY ThreadLemma, RowsStep DEF TypeInv, TypeOK
<1>1. /\ thr'[t].pc \in {"sleep", "cleanup"} => ~Downloading(rows'[i])
      /\ thr'[t].pc \in {"open", "check", "read"} => thr'[t].it.state = "downloading"
      /\ Completed(rows'[i]) => ~Alive(t)'
      /\ Alive(t)' => handle' = handle /\ thr'[t].id = i
      /\ \A u \in Threads \ {t} : thr'[u] = thr[u]
  BY <1>0, OutcomeLemma DEF SoloInv, OnItem
<1>2. \A u \in Threads \ {t} : Alive(u) => thr[u].id # i
  BY <1>0 DEF SoloInv, PlaceInv, EventsReachThread
<1>3. \A u \in Threads \ {t} : Alive(u)' <=> Alive(u)
  BY <1>1 DEF Alive
<1>4. EventsReachThread'
  BY <1>0, <1>1, <1>2, <1>3 DEF SoloInv, PlaceInv, EventsReachThread
<1>5. ASSUME NEW u \in Threads
      PROVE  /\ thr'[u].pc \in {"sleep", "cleanup"} => ~Downloading(rows'[thr'[u].id])
             /\ thr'[u].pc \in {"open", "check", "read"} => thr'[u].it.state = "downloading"
  <2>1. CASE u = t
    <3>1. thr'[t].pc \in {"sleep", "cleanup"} => Alive(t)'
      BY DEF Alive
    <3> QED
      BY <1>1, <2>1, <3>1
  <2>2. CASE u # t
    <3>1. thr'[u] = thr[u] /\ (thr[u].pc \in {"sleep", "cleanup"} => Alive(u))
      BY <1>1, <2>2 DEF Alive
    <3> QED
      BY <1>0, <1>2, <2>2, <3>1 DEF SoloInv, PlaceInv
  <2> QED
    BY <2>1, <2>2
<1>6. \A j \in Items : OnItem(j)' \subseteq OnItem(j)
  BY <1>0, <1>1, <1>3 DEF OnItem
<1>7. ASSUME NEW j \in Items, Completed(rows'[j]) PROVE OnItem(j)' = {}
  <2>1. CASE j # i
    BY <1>0, <1>6, <1>7, <2>1 DEF SoloInv, PlaceInv
  <2>2. CASE j = i
    <3>1. ~Alive(t)'
      BY <1>1, <1>7, <2>2
    <3> QED
      BY <1>1, <1>2, <1>3, <2>2, <3>1 DEF OnItem
  <2> QED
    BY <2>1, <2>2
<1>8. ASSUME NEW c \in Clients PROVE HandlerInv(c)'
  <2> DEFINE j == client[c].id
  <2>1. HandlerInv(c) /\ j \in Items
    BY DEF SoloInv, PlaceInv, TypeInv, TypeOK, ClientState
  <2>2. t \in OnItem(i)
    BY <1>0 DEF OnItem
  <2>3. client[c].pc = "spawn" => j # i
    BY <2>1, <2>2 DEF HandlerInv
  <2>4. client[c].pc = "write" /\ client[c].it.state = "completed" => j # i
    <3> SUFFICES ASSUME client[c].pc = "write", client[c].it.state = "completed", j = i PROVE FALSE
      OBVIOUS
    <3>1. rows[i] = client[c].it /\ client[c].it \in Row
      BY <2>1 DEF HandlerInv, TypeInv, TypeOK, ClientState
    <3>2. Completed(rows[i])
      BY <3>1, NoRowLemma DEF Completed
    <3> QED
      BY <1>0, <2>2, <3>2 DEF SoloInv, PlaceInv
  <2> QED
    BY <1>0, <1>6, <2>1, <2>3, <2>4 DEF HandlerInv
<1> QED
  BY <1>4, <1>5, <1>7, <1>8 DEF SoloInv, PlaceInv

LEMMA SoloClient ==
    ASSUME OneHandler, TypeInv, SoloInv, NEW c \in Clients, ClientStep(c)
    PROVE  SoloInv'
<1>0. /\ client \in [Clients -> ClientState] /\ client[c].id \in Items /\ client[c].it \in Row
      /\ rows \in [Items -> Row \cup {NoRow}] /\ HandlerInv(c) /\ Idle.pc = "idle"
      /\ \A d \in Clients : d = c
      /\ thr \in [Threads -> Thread] /\ \A u \in Threads : thr[u].id \in Items
      /\ handle \in [Items -> Threads \cup {NoThread}]
  BY ThreadLemma DEF OneHandler, TypeInv, TypeOK, SoloInv, PlaceInv, ClientState, Idle
<1>1. ASSUME NEW where, NEW i, NEW r, Then(c, where, i, r)
      PROVE  client'[c].pc = where /\ client'[c].id = i /\ client'[c].it = r
  BY <1>0, <1>1 DEF Then
<1>2. ASSUME client' = [client EXCEPT ![c] = Idle] PROVE HandlerInv(c)'
  BY <1>0, <1>2 DEF HandlerInv
<1>3. ASSUME UNCHANGED <<thr, handle, rows>>, HandlerInv(c)' PROVE SoloInv'
  BY <1>0, <1>3 DEF SoloInv, PlaceInv, EventsReachThread, Alive, OnItem
<1>4. ASSUME NEW i \in Items, Start(c, i) \/ Pause(c, i) \/ Cancel(c, i) \/ Delete(c, i)
      PROVE  SoloInv'
  <2>1. UNCHANGED <<thr, handle, rows>> /\ rows[i] \in Row
    BY <1>0, <1>4 DEF Start, Pause, Cancel, Delete, events
  <2>2. OnItem(i)' = OnItem(i)
    BY <2>1 DEF OnItem, Alive
  <2>3. \A st : [rows[i] EXCEPT !.state = st].state = st
    BY <2>1 DEF Row
  <2>4. CASE Start(c, i)
    <3>1. OnItem(i) = {} /\ Then(c, "wait", i, [rows[i] EXCEPT !.state = "waiting"])
      BY <2>4 DEF Start, OneHandler
    <3>2. client'[c].pc = "wait" /\ client'[c].id = i /\ client'[c].it.state = "waiting"
      BY <1>1, <2>3, <3>1
    <3> QED
      BY <1>3, <2>1, <2>2, <3>1, <3>2 DEF HandlerInv
  <2>5. CASE Delete(c, i)
    <3>1. OnItem(i) = {} /\ client'[c].pc = "unlink" /\ client'[c].id = i
      BY <1>1, <2>5 DEF Delete, OneHandler
    <3> QED
      BY <1>3, <2>1, <2>2, <3>1 DEF HandlerInv
  <2>6. CASE Pause(c, i)
    <3>0. client' = client \/ Then(c, "write", i, [rows[i] EXCEPT !.state = "paused"])
      BY <2>6 DEF Pause
    <3>1. client' = client \/ (client'[c].pc = "write" /\ client'[c].it.state = "paused")
      BY <1>1, <2>3, <3>0
    <3>2. client' = client => HandlerInv(c)'
      BY <1>0, <2>1 DEF HandlerInv, OnItem, Alive
    <3> QED
      BY <1>3, <2>1, <3>1, <3>2 DEF HandlerInv
  <2>7. CASE Cancel(c, i)
    <3>1. CASE Then(c, "write", i, rows[i]) /\ rows[i].state = "completed"
      <4>1. client'[c].pc = "write" /\ client'[c].id = i /\ client'[c].it = rows[i]
        BY <1>1, <3>1
      <4> QED
        BY <1>3, <2>1, <3>1, <4>1 DEF HandlerInv
    <3>2. CASE Then(c, "write", i, [rows[i] EXCEPT !.state = "cancelled"])
      <4>1. client'[c].pc = "write" /\ client'[c].it.state = "cancelled"
        BY <1>1, <2>3, <3>2
      <4> QED
        BY <1>3, <2>1, <4>1 DEF HandlerInv
    <3> QED
      BY <2>7, <3>1, <3>2 DEF Cancel
  <2> QED
    BY <1>4, <2>4, <2>5, <2>6, <2>7
<1>5. CASE MarkWaiting(c) \/ Write(c)
  <2> DEFINE i == client[c].id
             r == client[c].it
  <2>1. /\ rows' = [rows EXCEPT ![i] = r] /\ rows'[i] = r /\ r # NoRow
        /\ UNCHANGED <<thr, handle>> /\ client[c].pc \in {"wait", "write"}
    BY <1>0, <1>5, NoRowLemma DEF MarkWaiting, Write, Save, events
  <2>2. r.state # "downloading"
    BY <1>0, <2>1 DEF HandlerInv
  <2>3. Completed(r) => rows[i] = r
    BY <1>0, <2>1 DEF HandlerInv, Completed
  <2>4. \A j \in Items : OnItem(j)' = OnItem(j)
    BY <2>1 DEF OnItem, Alive
  <2>5. HandlerInv(c)'
    <3>1. CASE MarkWaiting(c)
      <4>1. client'[c].pc = "spawn" /\ client'[c].id = i /\ client'[c].it = r /\ client[c].pc = "wait"
        BY <1>1, <3>1 DEF MarkWaiting
      <4> QED
        BY <1>0, <2>1, <2>4, <4>1 DEF HandlerInv
    <3>2. CASE Write(c)
      BY <1>2, <3>2 DEF Write
    <3> QED
      BY <1>5, <3>1, <3>2
  <2>6. \A j \in Items : /\ Downloading(rows'[j]) => Downloading(rows[j])
                         /\ Completed(rows'[j]) => Completed(rows[j])
    BY <1>0, <2>1, <2>2, <2>3 DEF Downloading
  <2> QED
    BY <1>0, <2>1, <2>4, <2>5, <2>6 DEF SoloInv, PlaceInv, EventsReachThread, Alive
<1>6. CASE Spawn(c)
  <2> DEFINE i == client[c].id
  <2>1. PICK t \in Threads :
          /\ thr[t].pc = "absent"
          /\ thr' = [thr EXCEPT ![t].pc = "load", ![t].id = i]
          /\ handle' = [handle EXCEPT ![i] = t]
    BY <1>6 DEF Spawn
  <2>2. /\ thr'[t].pc = "load" /\ thr'[t].id = i /\ handle'[i] = t
        /\ \A u \in Threads \ {t} : thr'[u] = thr[u] /\ (Alive(u)' <=> Alive(u))
        /\ \A j \in Items \ {i} : handle'[j] = handle[j]
        /\ ~Alive(t)
    BY <1>0, <2>1 DEF Thread, Alive
  <2>3. UNCHANGED rows /\ client' = [client EXCEPT ![c] = Idle]
    BY <1>6 DEF Spawn
  <2>4. OnItem(i) = {} /\ rows[i].state = "waiting"
    BY <1>0, <1>6 DEF Spawn, HandlerInv
  <2>5. \A u \in Threads : Alive(u) => thr[u].id # i
    BY <2>4 DEF OnItem
  <2>6. EventsReachThread'
    BY <1>0, <2>2, <2>5 DEF SoloInv, PlaceInv, EventsReachThread
  <2>7. ASSUME NEW j \in Items, Completed(rows'[j]) PROVE OnItem(j)' = {}
    <3>1. j # i /\ OnItem(j) = {}
      BY <2>3, <2>4, <2>7 DEF Completed, SoloInv, PlaceInv
    <3> QED
      BY <2>2, <3>1 DEF OnItem
  <2> QED
    BY <1>0, <1>2, <2>2, <2>3, <2>6, <2>7 DEF SoloInv, PlaceInv
<1>7. CASE SpawnRefused(c)
  BY <1>2, <1>3, <1>7 DEF SpawnRefused, events
<1>8. CASE DeleteFiles(c)
  <2>1. /\ client'[c].pc = "remove" /\ client'[c].id = client[c].id /\ client[c].pc = "unlink"
        /\ UNCHANGED <<thr, handle, rows>>
    BY <1>1, <1>8 DEF DeleteFiles, events
  <2>2. HandlerInv(c)'
    BY <1>0, <2>1 DEF HandlerInv, OnItem, Alive
  <2> QED
    BY <1>3, <2>1, <2>2
<1>9. CASE DeleteRow(c)
  <2>1. /\ rows' = [rows EXCEPT ![client[c].id] = NoRow] /\ UNCHANGED <<thr, handle>>
        /\ client' = [client EXCEPT ![c] = Idle]
    BY <1>9 DEF DeleteRow, events
  <2>2. \A j \in Items : /\ Downloading(rows'[j]) => Downloading(rows[j])
                         /\ Completed(rows'[j]) => Completed(rows[j])
    BY <1>0, <2>1 DEF Downloading, Completed
  <2>3. \A j \in Items : OnItem(j)' = OnItem(j)
    BY <2>1 DEF OnItem, Alive
  <2> QED
    BY <1>0, <1>2, <2>1, <2>2, <2>3 DEF SoloInv, PlaceInv, EventsReachThread, Alive
<1> QED
  BY <1>4, <1>5, <1>6, <1>7, <1>8, <1>9 DEF ClientStep

LEMMA SoloAdd ==
    ASSUME TypeInv, SoloInv, NEW i \in Items, AddResult(i)
    PROVE  SoloInv'
<1>1. PICK known \in BOOLEAN : rows' = [rows EXCEPT ![i] = [FreshRow(i) EXCEPT !.sized = known]]
  BY DEF AddResult, Save
<1>2. [FreshRow(i) EXCEPT !.sized = known].state \in {"waiting", "manual-action-required"}
  BY DEF FreshRow
<1>3. /\ rows \in [Items -> Row \cup {NoRow}] /\ \A u \in Threads : thr[u].id \in Items
      /\ UNCHANGED <<thr, handle, client>> /\ i \notin added
  BY ThreadLemma DEF TypeInv, TypeOK, AddResult, events
<1>4. \A j \in Items : /\ Downloading(rows'[j]) => Downloading(rows[j])
                       /\ Completed(rows'[j]) => Completed(rows[j])
  BY <1>1, <1>2, <1>3 DEF Downloading, Completed
<1>5. \A j \in Items : OnItem(j)' = OnItem(j)
  BY <1>3 DEF OnItem, Alive
<1>6. ASSUME NEW c \in Clients PROVE HandlerInv(c)'
  <2>1. client[c].id \in Items /\ (client[c].pc # "idle" => client[c].id # i) /\ HandlerInv(c)
    BY <1>3 DEF TypeInv, TypeOK, ClientState, SoloInv, PlaceInv
  <2> QED
    BY <1>1, <1>3, <1>5, <2>1 DEF HandlerInv
<1> QED
  BY <1>3, <1>4, <1>5, <1>6 DEF SoloInv, PlaceInv, EventsReachThread, Alive

\* A state of a helper that was just started.
LEMMA SoloFresh ==
    ASSUME \A t \in Threads : thr[t] = NoLocals, \A c \in Clients : client[c] = Idle
    PROVE  SoloInv
<1>1. \A t \in Threads : thr[t].pc = "absent"
  BY DEF NoLocals
<1>2. \A c \in Clients : client[c].pc = "idle"
  BY DEF Idle
<1> QED
  BY <1>1, <1>2 DEF SoloInv, PlaceInv, EventsReachThread, Alive, OnItem, HandlerInv

LEMMA SoloNext ==
    ASSUME OneHandler, TypeInv, SoloInv, [Next]_vars
    PROVE  SoloInv'
<1>1. CASE UNCHANGED vars
  BY <1>1 DEF vars, past, events, SoloInv, PlaceInv, EventsReachThread, Alive, OnItem, HandlerInv
<1>2. CASE Restart
  <2>1. (\A t \in Threads : thr'[t] = NoLocals) /\ (\A c \in Clients : client'[c] = Idle)
    BY <1>2 DEF Restart
  <2>2. \A t \in Threads : thr'[t].pc = "absent"
    BY <2>1 DEF NoLocals
  <2>3. \A c \in Clients : client'[c].pc = "idle"
    BY <2>1 DEF Idle
  <2> QED
    BY <2>2, <2>3 DEF SoloInv, PlaceInv, EventsReachThread, Alive, OnItem, HandlerInv
<1> QED
  BY <1>1, <1>2, SoloThread, SoloClient, SoloAdd DEF Next

LEMMA SoloInit == Init => SoloInv
<1> QED
  BY SoloFresh DEF Init

LEMMA SoloInvariance == ASSUME OneHandler PROVE Spec => [](TypeInv /\ SoloInv)
<1>1. TypeInv /\ SoloInv /\ [Next]_vars => SoloInv'
  BY SoloNext
<1> QED
  BY <1>1, SoloInit, TypeInvariance, PTL DEF Spec

\* One handler that starts an item only between its threads never has two threads
\* on it: a start finds none, and none comes while it is between writing the row
\* and the new thread.
THEOREM OneHandlerOneThread ==
    ASSUME OneHandler
    PROVE  Spec => []OneThread
<1>1. SoloInv => OneThread
  BY DEF SoloInv, EventsReachThread, OneThread
<1> QED
  BY <1>1, SoloInvariance, PTL

----------------------------------------------------------------------------
(***************************************************************************)
(* The files, when no two items share a name: the file names of an item,    *)
(* with all that renaming makes of them, are its own.                       *)
(***************************************************************************)
Own == CHOOSE own \in [Items -> SUBSET Paths] : IsFamily(own)

OwnOrNone(i) == Own[i] \cup {NoPath}

\* Nobody else unlinks the .part file between the look at its size and the open.
MeasuredStays ==
    \A t \in Threads :
        thr[t].pc \in {"request", "open"} /\ thr[t].existing > 0 /\ thr'[t] = thr[t]
            => Exists(files', Part(t))

\* What an item's row says and what its files hold.
NamesInv(i) == rows[i] # NoRow => rows[i].name \in OwnOrNone(i)

BodyInv(i) ==
    UrlOf[i] # NoUrl => \A p \in Own[i] :
        /\ Exists(files, PartOf(p)) => IsPrefixOf(files[PartOf(p)], Whole(UrlOf[i]))
        /\ UrlOf[i] \in Sized => files[FinalOf(p)] \in {NoFile, Whole(UrlOf[i])}

\* What a thread knows of its files: the size it asked to continue from is the
\* size of the part, the bytes it counted are the bytes written, and a part is
\* renamed only when it is the whole file.  A delete may take the file away from
\* under its descriptor; then nothing of that name comes back while it reads on.
WorkInv(t) ==
    LET x == thr[t]
        u == Url(t)
    IN  /\ x.pc \notin {"absent", "ended", "load"} => x.it.name \in OwnOrNone(x.id)
        /\ x.pc \in Busy => x.target \in Own[x.id]
        /\ x.pc \in {"request", "open"} => x.existing = SizeOrZero(files, Part(t))
        /\ x.pc = "open" => x.it.bytes = x.existing
        /\ x.pc \in {"check", "read"} =>
              \/ fd[t] = Part(t) /\ SizeIs(files, Part(t), x.it.bytes)
              \/ fd[t] = Detached /\ ~Exists(files, Part(t))
        /\ x.pc \notin {"check", "read"} => fd[t] = Detached
        /\ x.pc \in {"open", "check", "read"} /\ u \in Sized => x.it.sized
        /\ x.pc = "replace" /\ u \in Sized /\ Exists(files, Part(t)) => Len(files[Part(t)]) >= Size

CopyInv(c) == client[c].pc # "idle" => client[c].it.name \in OwnOrNone(client[c].id)

FilesInv ==
    /\ \A i \in Items : NamesInv(i) /\ BodyInv(i)
    /\ \A t \in Threads : WorkInv(t)
    /\ \A c \in Clients : CopyInv(c)

LEMMA FamilyLemma ==
    ASSUME OwnNames
    PROVE  /\ \A i \in Items : Own[i] \subseteq Paths /\ OwnOrNone(i) \subseteq PathValues
           /\ \A i, j \in Items : i # j => Own[i] \cap Own[j] = {}
           /\ \A i \in Items : UrlOf[i] # NoUrl => NameOf[UrlOf[i]] \in Own[i]
           /\ \A i \in Items : \A p \in Own[i] :
                 \A k \in DOMAIN Renames[p] : Renames[p][k] \in Own[i]
           /\ \A i \in Items : UrlOf[i] # NoUrl => NamesOf(UrlOf[i]) \subseteq Own[i]
<1>1. Own \in [Items -> SUBSET Paths] /\ IsFamily(Own)
  BY DEF OwnNames, Own
<1>2. \A i \in Items : Own[i] \subseteq Paths /\ OwnOrNone(i) \subseteq PathValues
  BY <1>1 DEF OwnOrNone, PathValues
<1>3. \A i \in Items : UrlOf[i] # NoUrl => NamesOf(UrlOf[i]) \subseteq Own[i]
  BY <1>1 DEF NamesOf, IsFamily
<1> QED
  BY <1>1, <1>2, <1>3 DEF IsFamily

LEMMA WholeLemma ==
    ASSUME NEW u
    PROVE  Len(Whole(u)) = Size /\ \A k \in 1 .. Size : Whole(u)[k] = <<u, k>>
<1> QED
  BY QueueManagerAssumption DEF Whole

LEMMA PrefixLemma ==
    ASSUME NEW u \in Urls, NEW s \in Seq(Chunks)
    PROVE  /\ IsPrefixOf(<<>>, Whole(u))
           /\ IsPrefixOf(s, Whole(u)) /\ Len(s) < Size
                 => IsPrefixOf(Append(s, <<u, Len(s) + 1>>), Whole(u))
           /\ IsPrefixOf(s, Whole(u)) /\ Len(s) >= Size => s = Whole(u)
<1>1. Size \in Nat /\ Len(s) \in Nat /\ s \in [1 .. Len(s) -> Chunks]
  BY QueueManagerAssumption, LenProperties
<1>2. IsPrefixOf(<<>>, Whole(u))
  BY <1>1, WholeLemma DEF IsPrefixOf
<1>3. ASSUME IsPrefixOf(s, Whole(u)), Len(s) < Size
      PROVE  IsPrefixOf(Append(s, <<u, Len(s) + 1>>), Whole(u))
  <2> DEFINE n == Append(s, <<u, Len(s) + 1>>)
  <2>1. <<u, Len(s) + 1>> \in Chunks
    BY <1>1, <1>3 DEF Chunks
  <2>2. n \in Seq(Chunks) /\ Len(n) = Len(s) + 1 /\ DOMAIN n = 1 .. Len(s) + 1
    BY <2>1, AppendProperties, LenProperties
  <2>3. \A k \in 1 .. Len(s) + 1 : n[k] = <<u, k>>
    <3>1. n[Len(s) + 1] = <<u, Len(s) + 1>> /\ \A k \in 1 .. Len(s) : n[k] = s[k]
      BY <2>1, AppendProperties
    <3>2. \A k \in 1 .. Len(s) : s[k] = <<u, k>>
      BY <1>1, <1>3, WholeLemma DEF IsPrefixOf
    <3> QED
      BY <1>1, <3>1, <3>2
  <2> HIDE DEF n
  <2> QED
    BY <1>1, <1>3, <2>2, <2>3, WholeLemma DEF IsPrefixOf, n
<1>4. ASSUME IsPrefixOf(s, Whole(u)), Len(s) >= Size
      PROVE  s = Whole(u)
  <2>0. Len(s) <= Size /\ \A k \in DOMAIN s : s[k] = Whole(u)[k]
    BY <1>4, WholeLemma DEF IsPrefixOf
  <2>1. Len(s) = Size /\ \A k \in 1 .. Size : s[k] = <<u, k>>
    <3>0. Size \in Nat /\ Len(s) \in Nat
      BY <1>1
    <3>1. Len(s) = Size
      BY <1>4, <2>0, <3>0
    <3> QED
      BY <1>1, <2>0, <3>1, WholeLemma
  <2>2. s = [k \in 1 .. Size |-> <<u, k>>]
    BY <1>1, <2>1
  <2> QED
    BY <2>2 DEF Whole
<1> QED
  BY <1>2, <1>3, <1>4

\* A step that leaves an item's files alone.
SameFiles(i) ==
    \A p \in Own[i] : /\ files'[PartOf(p)] = files[PartOf(p)]
                       /\ files'[FinalOf(p)] = files[FinalOf(p)]

LEMMA BodyFrame ==
    ASSUME NEW i \in Items, BodyInv(i), SameFiles(i)
    PROVE  BodyInv(i)'
<1> QED
  BY DEF BodyInv, SameFiles, Exists

LEMMA WantedLemma ==
    ASSUME OwnNames, TypeInv, NEW t \in Threads, Url(t) # NoUrl, thr[t].it.name \in OwnOrNone(thr[t].id)
    PROVE  Wanted(t) \in Own[thr[t].id]
<1> QED
  BY ThreadLemma, FamilyLemma DEF Wanted, OwnOrNone, Url

LEMMA WorkFrame ==
    ASSUME OwnNames, TypeInv, NEW t \in Threads, WorkInv(t), SameFiles(thr[t].id),
           thr'[t] = thr[t], fd'[t] = fd[t]
    PROVE  WorkInv(t)'
<1>1. Url(t)' = Url(t) /\ Part(t)' = Part(t)
  BY DEF Url, Part
<1>2. CASE thr[t].pc \in Busy
  <2>1. thr[t].target \in Own[thr[t].id]
    BY <1>2 DEF WorkInv
  <2>2. files'[Part(t)] = files[Part(t)]
    BY <2>1 DEF SameFiles, Part
  <2>3. /\ SizeOrZero(files', Part(t)) = SizeOrZero(files, Part(t))
        /\ Exists(files', Part(t)) = Exists(files, Part(t))
        /\ \A n : SizeIs(files', Part(t), n) = SizeIs(files, Part(t), n)
    BY <2>2 DEF SizeOrZero, SizeIs, Exists
  <2> QED
    BY <1>1, <2>2, <2>3 DEF WorkInv
<1>3. CASE thr[t].pc \notin Busy
  BY <1>1, <1>3 DEF WorkInv, Busy
<1> QED
  BY <1>2, <1>3

\* A thread's step leaves the files of the other items alone, and the descriptors
\* of the other threads.
LEMMA OthersFiles ==
    ASSUME OwnNames, TypeInv, OneThread, FilesInv, NEW t \in Threads, ThreadStep(t)
    PROVE  /\ \A j \in Items \ {thr[t].id} : SameFiles(j)
           /\ \A u \in Threads \ {t} : fd'[u] = fd[u]
           /\ thr[t].pc \notin Busy => files' = files /\ fd' = fd
<1> DEFINE i == thr[t].id
<1>0. /\ i \in Items /\ Alive(t) /\ WorkInv(t) /\ Detached \notin FileNames
      /\ Part(t) \in FileNames /\ FinalOf(thr[t].target) \in FileNames
  BY ThreadLemma, RowsStep, ContentAssumption DEF FilesInv
<1>1. CASE thr[t].pc \notin Busy
  <2>1. files' = files /\ fd' = fd
    BY <1>1 DEF Busy, ThreadStep, Load, Prepare, PrepareFail, RequestFail, TakePart, CompleteTaken,
                Respond, NoSpace, Open, Check, Chunk, EndOfBody, ReadFail, Replace, ReplaceFail,
                Record, Caught, Fail, Sleep, Cleanup
  <2> QED
    BY <2>1 DEF SameFiles
<1>2. CASE thr[t].pc \in Busy
  <2>1. thr[t].target \in Own[i] /\ fd[t] \in {Part(t), Detached} /\ thr[t].target \in PathValues
    BY <1>0, <1>2, ThreadLemma DEF WorkInv
  <2>2. \A n \in FileNames \ {Part(t), FinalOf(thr[t].target)} : files'[n] = files[n]
    BY <1>0, <2>1, FilesStep
  <2>3. ASSUME NEW j \in Items \ {i}, NEW p \in Own[j]
        PROVE  /\ files'[PartOf(p)] = files[PartOf(p)] /\ files'[FinalOf(p)] = files[FinalOf(p)]
    <3>1. p \in PathValues /\ p # thr[t].target
      BY <1>0, <2>1, <2>3, FamilyLemma DEF PathValues
    <3>2. /\ PartOf(p) \in FileNames \ {Part(t), FinalOf(thr[t].target)}
          /\ FinalOf(p) \in FileNames \ {Part(t), FinalOf(thr[t].target)}
      BY <2>1, <3>1, NamesLemma DEF Part
    <3> QED
      BY <2>2, <3>2
  <2>4. ASSUME NEW u \in Threads \ {t} PROVE fd'[u] = fd[u]
    <3>1. fd[u] \notin {Part(t), FinalOf(thr[t].target)}
      <4>1. CASE fd[u] = Detached
        BY <1>0, <4>1
      <4>2. CASE fd[u] # Detached
        <5>1. /\ thr[u].pc \in {"check", "read"} /\ fd[u] = Part(u) /\ thr[u].target \in Own[thr[u].id]
              /\ thr[u].id \in Items /\ thr[u].target \in PathValues
          BY <4>2, ThreadLemma DEF FilesInv, WorkInv, Busy
        <5>2. thr[u].id # i
          BY <1>0, <2>4, <5>1 DEF OneThread, Alive
        <5>3. thr[u].target # thr[t].target
          BY <1>0, <2>1, <5>1, <5>2, FamilyLemma
        <5> QED
          BY <2>1, <5>1, <5>3, NamesLemma DEF Part
      <4> QED
        BY <4>1, <4>2
    <3> QED
      BY <2>4, <3>1, FilesStep
  <2> QED
    BY <1>2, <2>3, <2>4 DEF SameFiles
<1> QED
  BY <1>1, <1>2

\* What the steps that touch files do to the two names of the thread.
LEMMA FileEffects ==
    ASSUME TypeInv, NEW t \in Threads, WorkInv(t)
    PROVE  /\ TakePart(t) \/ Replace(t) =>
                 /\ Exists(files, Part(t))
                 /\ files'[FinalOf(thr[t].target)] = files[Part(t)] /\ files'[Part(t)] = NoFile
                 /\ \A n \in FileNames \ {Part(t), FinalOf(thr[t].target)} : files'[n] = files[n]
                 /\ fd'[t] = Detached
           /\ Respond(t) \/ NoSpace(t) =>
                 /\ IF Discards(t) THEN files'[Part(t)] = NoFile ELSE files'[Part(t)] = files[Part(t)]
                 /\ \A n \in FileNames \ {Part(t)} : files'[n] = files[n]
                 /\ fd'[t] = Detached
           /\ Open(t) =>
                 /\ thr[t].existing > 0 /\ Exists(files, Part(t)) => files'[Part(t)] = files[Part(t)]
                 /\ ~(thr[t].existing > 0 /\ Exists(files, Part(t))) => files'[Part(t)] = <<>>
                 /\ \A n \in FileNames \ {Part(t)} : files'[n] = files[n]
                 /\ fd'[t] = Part(t)
           /\ Chunk(t) /\ fd[t] = Detached => files' = files /\ ~Exists(files, Part(t)) /\ fd' = fd
           /\ Chunk(t) /\ fd[t] # Detached =>
                 /\ files[Part(t)] \in Seq(Chunks) /\ Len(files[Part(t)]) = thr[t].it.bytes
                 /\ files'[Part(t)] = Append(files[Part(t)], <<Url(t), thr[t].it.bytes + 1>>)
                 /\ \A n \in FileNames \ {Part(t)} : files'[n] = files[n]
                 /\ fd' = fd /\ fd[t] = Part(t) /\ Exists(files, Part(t))
<1> DEFINE part  == Part(t)
           final == FinalOf(thr[t].target)
<1>0. /\ StoreInv(Threads, Chunks, fd, files) /\ NoFile \notin Seq(Chunks) /\ Hole \in Chunks
      /\ part \in FileNames /\ final \in FileNames /\ part # final /\ Detached \notin FileNames
      /\ thr[t].existing \in Nat /\ fd \in [Threads -> FileNames \cup {Detached}]
      /\ files \in [FileNames -> Seq(Chunks) \cup {NoFile}]
  BY ThreadLemma, ContentAssumption DEF TypeInv, TypeOK, Chunks, Contents
<1>1. ASSUME TakePart(t) \/ Replace(t)
      PROVE  /\ Exists(files, part) /\ files'[final] = files[part] /\ files'[part] = NoFile
             /\ \A n \in FileNames \ {part, final} : files'[n] = files[n]
             /\ fd'[t] = Detached
  <2>1. /\ Exists(files, part) /\ files' = Renamed(files, part, final)
        /\ fd' = AfterRename(fd, part, final)
    BY <1>1 DEF TakePart, Replace
  <2>2. fd[t] = Detached
    BY <1>1 DEF TakePart, Replace, WorkInv
  <2> QED
    BY <1>0, <2>1, <2>2, RenameLemma
<1>2. ASSUME Respond(t) \/ NoSpace(t)
      PROVE  /\ IF Discards(t) THEN files'[part] = NoFile ELSE files'[part] = files[part]
             /\ \A n \in FileNames \ {part} : files'[n] = files[n]
             /\ fd'[t] = Detached
  <2>1. fd[t] = Detached
    BY <1>2 DEF Respond, NoSpace, WorkInv
  <2>2. CASE Discards(t)
    <3>1. files' = Unlinked(files, part) /\ fd' = AfterUnlink(fd, part)
      BY <1>2, <2>2 DEF Respond, NoSpace, Discarding
    <3> QED
      BY <1>0, <2>1, <2>2, <3>1, UnlinkLemma
  <2>3. CASE ~Discards(t)
    BY <1>2, <2>1, <2>3 DEF Respond, NoSpace, Discarding
  <2> QED
    BY <2>2, <2>3
<1>3. ASSUME Open(t)
      PROVE  /\ thr[t].existing > 0 /\ Exists(files, part) => files'[part] = files[part]
             /\ ~(thr[t].existing > 0 /\ Exists(files, part)) => files'[part] = <<>>
             /\ \A n \in FileNames \ {part} : files'[n] = files[n]
             /\ fd'[t] = part
  <2>1. /\ files' = [files EXCEPT ![part] = IF thr[t].existing > 0 /\ Exists(files, part)
                                             THEN files[part] ELSE <<>>]
        /\ fd' = [fd EXCEPT ![t] = part]
    BY <1>3 DEF Open, Opened
  <2> HIDE DEF part
  <2> QED
    BY <1>0, <2>1
<1>4. ASSUME Chunk(t), fd[t] # Detached
      PROVE  /\ files[part] \in Seq(Chunks) /\ Len(files[part]) = thr[t].it.bytes
             /\ files'[part] = Append(files[part], <<Url(t), thr[t].it.bytes + 1>>)
             /\ \A n \in FileNames \ {part} : files'[n] = files[n]
             /\ fd' = fd /\ fd[t] = part /\ Exists(files, part)
  <2> DEFINE n     == thr[t].it.bytes
             chunk == <<Url(t), n + 1>>
             content == files[part]
             at0   == IF thr[t].existing > 0 THEN Len(content) ELSE n
  <2>1. n \in Nat /\ n < Size /\ Size \in Nat
    BY <1>4, ThreadLemma, QueueManagerAssumption DEF Chunk, Row
  <2>2. Url(t) \in Urls /\ (Url(t) \notin Ranged => thr[t].existing = 0)
    BY <1>4, ThreadLemma DEF Chunk, LocalInv, Busy, Url
  <2>3. Sent(t, n) = n + 1 /\ chunk \in Chunks
    BY <2>1, <2>2 DEF Sent, Chunks
  <2>4. /\ fd[t] = part /\ part # Detached /\ content # NoFile /\ content \in Seq(Chunks)
        /\ Len(content) = n
    BY <1>0, <1>4 DEF Chunk, WorkInv, SizeIs, Exists
  <2>5. at0 = Len(content) /\ at0 \in Nat
    BY <2>1, <2>4
  <2>6. files' = [files EXCEPT ![part] = WriteAt(content, at0, chunk)] /\ fd' = fd
    BY <1>0, <1>4, <2>3, <2>4 DEF Chunk, Written
  <2>7. WriteAt(content, at0, chunk) = Append(content, chunk)
    <3>1. Hole \in Chunks /\ content \in Seq(Chunks) /\ chunk \in Chunks /\ at0 \in Nat /\ at0 = Len(content)
      BY <1>0, <2>3, <2>4, <2>5
    <3> HIDE DEF content, chunk, at0
    <3> QED
      BY <3>1, WriteAtLemma
  <2> QED
    BY <1>0, <2>4, <2>6, <2>7 DEF Exists
<1>5. ASSUME Chunk(t), fd[t] = Detached
      PROVE  files' = files /\ ~Exists(files, part) /\ fd' = fd
  <2>1. thr[t].pc = "read" /\ part # Detached
    BY <1>0, <1>5 DEF Chunk
  <2> QED
    BY <1>5, <2>1 DEF Chunk, Written, WorkInv
<1> QED
  BY <1>1, <1>2, <1>3, <1>4, <1>5

\* A thread at work: its URL, the names it may use and its two files.
LEMMA BusyLemma ==
    ASSUME OwnNames, TypeInv, FilesInv, NEW t \in Threads, thr[t].pc \in Busy
    PROVE  /\ Url(t) = UrlOf[thr[t].id] /\ Url(t) # NoUrl /\ Url(t) \in Urls /\ thr[t].id \in Items
           /\ thr[t].target \in Own[thr[t].id] /\ Wanted(t) \in Own[thr[t].id]
           /\ thr[t].target \in PathValues /\ Wanted(t) \in PathValues
           /\ thr[t].target # NoPath
           /\ thr[t].it.name \in OwnOrNone(thr[t].id)
           /\ fd[t] \in {Part(t), Detached}
           /\ files[Part(t)] \in Seq(Chunks) \cup {NoFile}
           /\ FinalOf(Wanted(t)) \in FileNames \ {Part(t)}
           /\ Part(t) \in FileNames /\ FinalOf(thr[t].target) \in FileNames \ {Part(t)}
           /\ Exists(files, Part(t)) => IsPrefixOf(files[Part(t)], Whole(Url(t)))
<1>1. /\ Url(t) = UrlOf[thr[t].id] /\ Url(t) # NoUrl /\ Url(t) \in Urls /\ thr[t].id \in Items
  BY ThreadLemma DEF LocalInv, Url
<1>2. /\ thr[t].target \in Own[thr[t].id] /\ thr[t].it.name \in OwnOrNone(thr[t].id)
      /\ fd[t] \in {Part(t), Detached}
  BY DEF FilesInv, WorkInv, Busy
<1>3. Wanted(t) \in Own[thr[t].id]
  BY <1>1, <1>2, WantedLemma
<1>4. /\ thr[t].target \in PathValues /\ Wanted(t) \in PathValues /\ thr[t].target # NoPath
  BY <1>1, <1>2, <1>3, FamilyLemma, NoPathAssumption DEF PathValues
<1>5. /\ Part(t) \in FileNames /\ FinalOf(thr[t].target) \in FileNames \ {Part(t)}
      /\ FinalOf(Wanted(t)) \in FileNames \ {Part(t)}
  BY <1>4, NamesLemma DEF Part
<1>6. files[Part(t)] \in Seq(Chunks) \cup {NoFile}
  BY <1>5 DEF TypeInv, StoreInv
<1>7. Exists(files, Part(t)) => IsPrefixOf(files[Part(t)], Whole(Url(t)))
  BY <1>1, <1>2 DEF FilesInv, BodyInv, Part
<1> QED
  BY <1>1, <1>2, <1>3, <1>4, <1>5, <1>6, <1>7

\* What a thread does to its item's files: a part stays a beginning of the body,
\* and becomes a final file only when it is all of it.
LEMMA BodyOwn ==
    ASSUME OwnNames, TypeInv, OneThread, FilesInv, NEW t \in Threads, ThreadStep(t),
           NEW i \in Items, thr[t].id = i
    PROVE  BodyInv(i)'
<1> DEFINE part  == Part(t)
           final == FinalOf(thr[t].target)
           u     == Url(t)
<1>0. i \in Items /\ BodyInv(i) /\ WorkInv(t)
  BY ThreadLemma DEF FilesInv
<1>1. CASE thr[t].pc \notin Busy
  <2>1. SameFiles(i)
    BY <1>1, OthersFiles DEF SameFiles
  <2> QED
    BY <1>0, <2>1, BodyFrame
<1>2. CASE thr[t].pc \in Busy
  <2>1. /\ u = UrlOf[i] /\ u # NoUrl /\ u \in Urls /\ thr[t].target \in Own[i]
        /\ thr[t].target \in PathValues /\ fd[t] \in {part, Detached}
        /\ files[part] \in Seq(Chunks) \cup {NoFile}
        /\ part \in FileNames /\ final \in FileNames \ {part}
        /\ Exists(files, part) => IsPrefixOf(files[part], Whole(u))
    BY <1>2, BusyLemma
  <2>2. ASSUME NEW p \in Own[i], p # thr[t].target
        PROVE  files'[PartOf(p)] = files[PartOf(p)] /\ files'[FinalOf(p)] = files[FinalOf(p)]
    <3>1. p \in PathValues
      BY <1>0, <2>2, FamilyLemma DEF PathValues
    <3>2. /\ PartOf(p) \in FileNames \ {part, final} /\ FinalOf(p) \in FileNames \ {part, final}
      BY <2>1, <2>2, <3>1, NamesLemma DEF Part
    <3> QED
      BY <2>1, <3>2, FilesStep, ContentAssumption
  <2>3. u \in Sized => files[final] \in {NoFile, Whole(u)}
    BY <1>0, <2>1 DEF BodyInv
  <2>4. /\ Exists(files', part) => IsPrefixOf(files'[part], Whole(u))
        /\ u \in Sized => files'[final] \in {NoFile, Whole(u)}
    <3>1. CASE TakePart(t) \/ Replace(t)
      <4>1. Exists(files, part) /\ files'[final] = files[part] /\ files'[part] = NoFile
        BY <1>0, <3>1, FileEffects
      <4>2. ASSUME u \in Sized PROVE SizeOrZero(files, part) >= Size
        BY <1>0, <3>1, <4>1, <4>2 DEF TakePart, Replace, PastEnd, WorkInv, SizeOrZero
      <4>3. ASSUME u \in Sized PROVE files[part] = Whole(u)
        <5>1. Len(files[part]) >= Size /\ files[part] \in Seq(Chunks)
          BY <2>1, <4>1, <4>2, <4>3 DEF SizeOrZero, Exists
        <5> QED
          BY <2>1, <4>1, <5>1, PrefixLemma
      <4> QED
        BY <4>1, <4>3 DEF Exists
    <3>2. CASE Respond(t) \/ NoSpace(t)
      <4>1. (files'[part] = NoFile \/ files'[part] = files[part]) /\ files'[final] = files[final]
        BY <1>0, <2>1, <3>2, FileEffects
      <4> QED
        BY <2>1, <2>3, <4>1 DEF Exists
    <3>3. CASE Open(t)
      <4>1. (files'[part] = <<>> \/ (Exists(files, part) /\ files'[part] = files[part]))
            /\ files'[final] = files[final]
        BY <1>0, <2>1, <3>3, FileEffects
      <4>2. IsPrefixOf(<<>>, Whole(u))
        BY WholeLemma, QueueManagerAssumption DEF IsPrefixOf
      <4> QED
        BY <2>1, <2>3, <4>1, <4>2 DEF Exists
    <3>4. CASE Chunk(t) /\ fd[t] # Detached
      <4> DEFINE s == files[part]
      <4>1. /\ s \in Seq(Chunks) /\ Len(s) = thr[t].it.bytes
            /\ files'[part] = Append(s, <<u, Len(s) + 1>>)
            /\ files'[final] = files[final]
        BY <1>0, <2>1, <3>4, FileEffects
      <4>2. thr[t].it.bytes < Size /\ Exists(files, part)
        BY <1>0, <3>4, FileEffects DEF Chunk
      <4> HIDE DEF s
      <4>3. IsPrefixOf(Append(s, <<u, Len(s) + 1>>), Whole(u))
        <5>1. IsPrefixOf(s, Whole(u))
          BY <2>1, <4>2 DEF s
        <5> QED
          BY <2>1, <4>1, <4>2, <5>1, PrefixLemma
      <4> QED
        BY <2>3, <4>1, <4>3
    <3>5. CASE /\ ~(TakePart(t) \/ Replace(t) \/ Respond(t) \/ NoSpace(t) \/ Open(t))
               /\ Chunk(t) => fd[t] = Detached
      <4>1. files' = files
        BY <1>0, <3>5, FileEffects DEF ThreadStep, Load, Prepare, PrepareFail, RequestFail, CompleteTaken, Check,
                    EndOfBody, ReadFail, ReplaceFail, Record, Caught, Fail, Sleep, Cleanup
      <4> QED
        BY <2>1, <2>3, <4>1
    <3> QED
      BY <3>1, <3>2, <3>3, <3>4, <3>5
  <2>5. ASSUME NEW p \in Own[i]
        PROVE  /\ Exists(files', PartOf(p)) => IsPrefixOf(files'[PartOf(p)], Whole(u))
               /\ u \in Sized => files'[FinalOf(p)] \in {NoFile, Whole(u)}
    <3>1. CASE p = thr[t].target
      BY <2>4, <3>1 DEF Part
    <3>2. CASE p # thr[t].target
      BY <1>0, <2>1, <2>2, <3>2 DEF BodyInv, Exists
    <3> QED
      BY <3>1, <3>2
  <2> QED
    BY <2>1, <2>5 DEF BodyInv
<1> QED
  BY <1>1, <1>2

\* What _target_path chooses is a name of the item, and another one than it was
\* asked for only when a file of that name is there.
LEMMA ChoiceLemma ==
    ASSUME OwnNames, NEW i \in Items, NEW w \in Own[i], NEW mode \in Modes, NEW p \in Targets(w, mode)
    PROVE  p \in Own[i] /\ (p = w \/ Exists(files, FinalOf(w)))
<1>1. CASE mode \in {"overwrite", "skip"}
  BY <1>1 DEF Targets
<1>2. CASE mode = "auto-rename"
  <2> DEFINE names == Renames[w]
  <2>0. w \in Paths /\ names \in Seq(Paths) /\ names # <<>> /\ names[1] = w
    BY FamilyLemma, QueueManagerAssumption
  <2>1. p \in FirstFree(w)
    BY <1>2 DEF Targets
  <2>2. PICK k \in DOMAIN names :
          /\ p = names[k]
          /\ \A m \in {n \in DOMAIN names : ~Exists(files, FinalOf(names[n]))} : k <= m
    BY <2>1 DEF FirstFree
  <2>3. DOMAIN names = 1 .. Len(names) /\ Len(names) \in Nat /\ Len(names) >= 1
    BY <2>0, LenProperties, EmptySeq
  <2>4. k = 1 \/ Exists(files, FinalOf(names[1]))
    BY <2>2, <2>3
  <2> QED
    BY <2>0, <2>2, <2>4, FamilyLemma
<1> QED
  BY <1>1, <1>2, QueueManagerAssumption

\* What a thread knows of its files after its own step.
LEMMA WorkOwn ==
    ASSUME OwnNames, TypeInv, OneThread, FilesInv, NEW t \in Threads, ThreadStep(t)
    PROVE  WorkInv(t)'
<1> DEFINE i     == thr[t].id
           part  == Part(t)
           final == FinalOf(thr[t].target)
           u     == Url(t)
           x     == thr'[t]
<1>0. /\ thr \in [Threads -> Thread] /\ thr[t] \in Thread /\ i \in Items /\ thr[t].it \in Row
      /\ fd \in [Threads -> FileNames \cup {Detached}] /\ Alive(t)
      /\ WorkInv(t) /\ NamesInv(i)
      /\ LocalInv(thr[t]) /\ thr[t].existing \in Nat
  BY ThreadLemma, RowsStep DEF FilesInv, TypeInv, TypeOK
<1>1. ASSUME x.pc \in {"prepare", "caught", "fail", "sleep", "cleanup"}, x.id = i,
             x.it.name \in OwnOrNone(i), fd'[t] = Detached
      PROVE  WorkInv(t)'
  BY <1>1 DEF WorkInv, Busy
<1>2. ASSUME Ended(t), fd'[t] = Detached
      PROVE  WorkInv(t)'
  <2>1. x.pc = "ended"
    BY <1>0, <1>2 DEF Ended, NoLocals
  <2> QED
    BY <1>2, <2>1 DEF WorkInv, Busy
<1>3. ASSUME Raise(t), fd'[t] = Detached, thr[t].pc # "load"
      PROVE  WorkInv(t)'
  <2>1. x.pc = "caught" /\ x.id = i /\ x.it = thr[t].it
    BY <1>0, <1>3 DEF Raise, Goto, Thread
  <2>2. thr[t].it.name \in OwnOrNone(i)
    BY <1>0, <1>3 DEF WorkInv, Alive
  <2> QED
    BY <1>1, <1>3, <2>1, <2>2
\* A step from one busy place to another keeps the target and the name.
<1>4. ASSUME x.pc \in Busy, x.id = i, x.target = thr[t].target, x.it.name = thr[t].it.name,
             thr[t].pc \in Busy
      PROVE  /\ x.it.name \in OwnOrNone(x.id) /\ x.target \in Own[x.id]
             /\ Url(t)' = u /\ Part(t)' = part
  <2>1. Url(t)' = u /\ Part(t)' = part
    BY <1>4 DEF Url, Part
  <2> QED
    BY <1>4, <2>1, BusyLemma
<1>5. CASE Load(t) \/ Caught(t)
  <2>1. fd'[t] = Detached
    BY <1>0, <1>5 DEF Load, Caught, WorkInv
  <2>2. CASE Ended(t)
    BY <1>2, <2>1, <2>2
  <2>3. CASE /\ rows[i] # NoRow
             /\ \/ thr' = [thr EXCEPT ![t].pc = "prepare", ![t].it = rows[i]]
                \/ thr' = [thr EXCEPT ![t].pc = "fail", ![t].it = rows[i]]
    <3>1. x.pc \in {"prepare", "fail"} /\ x.id = i /\ x.it = rows[i]
      BY <1>0, <2>3 DEF Thread
    <3> QED
      BY <1>0, <1>1, <2>1, <2>3, <3>1 DEF NamesInv
  <2> QED
    BY <1>5, <2>2, <2>3 DEF Load, Caught
<1>6. CASE Fail(t) \/ Sleep(t)
  <2>1. fd'[t] = Detached /\ thr[t].it.name \in OwnOrNone(i)
    BY <1>0, <1>6 DEF Fail, Sleep, WorkInv
  <2>2. /\ x.pc \in {"prepare", "sleep", "cleanup"} /\ x.id = i
        /\ x.it = thr[t].it \/ x.it = [thr[t].it EXCEPT !.state = "failed"]
    BY <1>0, <1>6 DEF Fail, Sleep, Thread
  <2>3. x.it.name = thr[t].it.name
    BY <1>0, <2>2 DEF Row
  <2> QED
    BY <1>1, <2>1, <2>2, <2>3
<1>7. CASE Cleanup(t)
  BY <1>0, <1>2, <1>7 DEF Cleanup, WorkInv
<1>8. CASE Prepare(t)
  <2>1. fd'[t] = Detached /\ thr[t].it.name \in OwnOrNone(i) /\ u # NoUrl /\ files' = files
    BY <1>0, <1>8 DEF Prepare, WorkInv
  <2>2. PICK mode \in Modes : \E p \in Targets(Wanted(t), mode) :
          thr' = [thr EXCEPT ![t].pc = "request", ![t].target = p,
                             ![t].existing = SizeOrZero(files, PartOf(p))]
    BY <1>8 DEF Prepare
  <2>3. PICK p \in Targets(Wanted(t), mode) :
          thr' = [thr EXCEPT ![t].pc = "request", ![t].target = p,
                             ![t].existing = SizeOrZero(files, PartOf(p))]
    BY <2>2
  <2>4. Wanted(t) \in Own[i]
    BY <2>1, WantedLemma
  <2>5. p \in Own[i]
    BY <1>0, <2>1, <2>3, <2>4, ChoiceLemma
  <2>6. /\ x.pc = "request" /\ x.id = i /\ x.it = thr[t].it /\ x.target = p
        /\ x.existing = SizeOrZero(files, PartOf(p))
    BY <1>0, <2>3 DEF Thread
  <2>7. Part(t)' = PartOf(p)
    BY <2>6 DEF Part
  <2> QED
    BY <2>1, <2>5, <2>6, <2>7 DEF WorkInv, Busy
<1>9. CASE PrepareFail(t) \/ RequestFail(t) \/ ReplaceFail(t)
  <2>1. Raise(t) /\ fd'[t] = Detached /\ thr[t].pc # "load"
    BY <1>0, <1>9 DEF PrepareFail, RequestFail, ReplaceFail, WorkInv
  <2> QED
    BY <1>3, <2>1
<1>10. CASE NoSpace(t)
  <2>1. Raise(t) /\ fd'[t] = Detached /\ thr[t].pc # "load"
    BY <1>0, <1>10, FileEffects DEF NoSpace
  <2> QED
    BY <1>3, <2>1
<1>11. CASE ReadFail(t)
  <2>1. Raise(t) /\ fd'[t] = Detached /\ thr[t].pc # "load"
    BY <1>0, <1>11 DEF ReadFail, Closed
  <2> QED
    BY <1>3, <2>1
<1>12. CASE TakePart(t) \/ Replace(t)
  <2>1. /\ Exists(files, part) /\ files'[final] = files[part] /\ files'[part] = NoFile
        /\ \A n \in FileNames \ {part, final} : files'[n] = files[n]
        /\ fd'[t] = Detached
    BY <1>0, <1>12, FileEffects
  <2>2. /\ x.pc \in {"complete", "record"} /\ x.id = i /\ x.target = thr[t].target
        /\ x.it = thr[t].it /\ thr[t].pc \in Busy
    BY <1>0, <1>12 DEF TakePart, Replace, Goto, Thread, Busy
  <2>3. x.it.name \in OwnOrNone(x.id) /\ x.target \in Own[x.id]
    BY <1>4, <2>2 DEF Busy
  <2> QED
    BY <2>1, <2>2, <2>3 DEF WorkInv, Busy
<1>13. CASE CompleteTaken(t)
  <2>1. (Raise(t) \/ Ended(t)) /\ fd'[t] = Detached /\ thr[t].pc # "load"
    BY <1>0, <1>13 DEF CompleteTaken, WorkInv
  <2> QED
    BY <1>2, <1>3, <2>1
<1>14. CASE Respond(t)
  <2> DEFINE it == [thr[t].it EXCEPT !.state = "downloading", !.bytes = Kept(t),
                                     !.sized = thr[t].it.sized \/ Url(t) \in Sized]
  <2>1. /\ IF Discards(t) THEN files'[part] = NoFile ELSE files'[part] = files[part]
        /\ \A n \in FileNames \ {part} : files'[n] = files[n]
        /\ fd'[t] = Detached
    BY <1>0, <1>14, FileEffects
  <2>2. /\ x.pc = "open" /\ x.id = i /\ x.target = thr[t].target /\ x.it = it
        /\ x.existing = Kept(t) /\ thr[t].pc \in Busy
        /\ thr[t].existing = SizeOrZero(files, part)
    BY <1>0, <1>14 DEF Respond, Thread, Busy, WorkInv
  <2>3. it.name = thr[t].it.name /\ it.bytes = Kept(t) /\ (u \in Sized => it.sized)
    BY <1>0 DEF Row
  <2> HIDE DEF it
  <2>5. /\ x.it.name \in OwnOrNone(x.id) /\ x.target \in Own[x.id]
        /\ Url(t)' = u /\ Part(t)' = part
    BY <1>4, <2>2, <2>3 DEF Busy
  <2>6. SizeOrZero(files', part) = Kept(t)
    <3>1. CASE Discards(t)
      BY <2>1, <3>1 DEF SizeOrZero, Exists, Discards, Kept
    <3>2. CASE ~Discards(t)
      <4>1. Kept(t) = thr[t].existing
        BY <1>0, <3>2 DEF Discards, Kept
      <4> QED
        BY <2>1, <2>2, <3>2, <4>1 DEF SizeOrZero, Exists
    <3> QED
      BY <3>1, <3>2
  <2> QED
    BY <2>1, <2>2, <2>3, <2>5, <2>6 DEF WorkInv, Busy
<1>15. CASE Open(t)
  <2>1. /\ thr[t].existing > 0 /\ Exists(files, part) => files'[part] = files[part]
        /\ ~(thr[t].existing > 0 /\ Exists(files, part)) => files'[part] = <<>>
        /\ \A n \in FileNames \ {part} : files'[n] = files[n]
        /\ fd'[t] = part
    BY <1>0, <1>15, FileEffects
  <2>2. /\ x.pc = "check" /\ x.id = i /\ x.target = thr[t].target /\ x.it = thr[t].it
        /\ thr[t].pc = "open"
    BY <1>0, <1>15 DEF Open, Goto, Thread
  <2>3. /\ thr[t].pc \in Busy /\ thr[t].existing = SizeOrZero(files, part)
        /\ thr[t].it.bytes = thr[t].existing /\ (u \in Sized => thr[t].it.sized)
    BY <1>0, <2>2 DEF Busy, WorkInv
  <2>5. /\ x.it.name \in OwnOrNone(x.id) /\ x.target \in Own[x.id]
        /\ Url(t)' = u /\ Part(t)' = part
    BY <1>4, <2>2, <2>3 DEF Busy
  <2>6. SizeIs(files', part, thr[t].it.bytes)
    <3>1. CASE thr[t].existing > 0 /\ Exists(files, part)
      BY <2>1, <2>3, <3>1 DEF SizeIs, SizeOrZero, Exists
    <3>2. CASE ~(thr[t].existing > 0 /\ Exists(files, part))
      <4>1. thr[t].existing = 0
        BY <1>0, <2>3, <3>2 DEF SizeOrZero
      <4>2. <<>> \in Seq(Chunks) /\ Len(<<>>) = 0
        OBVIOUS
      <4>3. <<>> # NoFile
        BY <4>2, ContentAssumption, Zenon
      <4> QED
        BY <2>1, <2>3, <3>2, <4>1, <4>2, <4>3 DEF SizeIs, Exists
    <3> QED
      BY <3>1, <3>2
  <2> QED
    BY <2>1, <2>2, <2>3, <2>5, <2>6 DEF WorkInv, Busy
<1>16. CASE Check(t)
  <2>1. CASE Goto(t, "read") /\ UNCHANGED fd
    <3>1. /\ x.pc = "read" /\ x.id = i /\ x.target = thr[t].target /\ x.it = thr[t].it
          /\ thr[t].pc = "check" /\ files' = files /\ fd'[t] = fd[t]
      BY <1>0, <1>16, <2>1 DEF Check, Goto, Thread
    <3>2. thr[t].pc \in Busy
      BY <3>1 DEF Busy
    <3>3. /\ x.it.name \in OwnOrNone(x.id) /\ x.target \in Own[x.id]
            /\ Url(t)' = u /\ Part(t)' = part
      BY <1>4, <3>1, <3>2 DEF Busy
    <3> QED
      BY <1>0, <3>1, <3>3 DEF WorkInv, Busy
  <2>2. CASE Ended(t) /\ Closed(t)
    BY <1>0, <1>2, <2>2 DEF Closed
  <2> QED
    BY <1>16, <2>1, <2>2 DEF Check, Settle
<1>17. CASE Chunk(t)
  <2> DEFINE n  == thr[t].it.bytes
             it == [thr[t].it EXCEPT !.bytes = n + 1]
  <2>1. /\ x.pc = "check" /\ x.id = i /\ x.target = thr[t].target /\ x.it = it
        /\ thr[t].pc = "read" /\ n < Size
    BY <1>0, <1>17 DEF Chunk, Thread
  <2>2. it.name = thr[t].it.name /\ it.bytes = n + 1 /\ it.sized = thr[t].it.sized /\ n \in Nat
    BY <1>0 DEF Row
  <2> HIDE DEF it
  <2>3. thr[t].pc \in Busy
    BY <2>1 DEF Busy
  <2>4. /\ x.it.name \in OwnOrNone(x.id) /\ x.target \in Own[x.id]
        /\ Url(t)' = u /\ Part(t)' = part
    BY <1>4, <2>1, <2>2, <2>3 DEF Busy
  <2>5. \/ fd'[t] = part /\ SizeIs(files', part, n + 1)
        \/ fd'[t] = Detached /\ ~Exists(files', part)
    <3>1. CASE fd[t] = Detached
      BY <1>0, <1>17, <3>1, FileEffects
    <3>2. CASE fd[t] # Detached
      <4> DEFINE s == files[part]
                 chunk == <<u, n + 1>>
      <4>1. /\ s \in Seq(Chunks) /\ Len(s) = n /\ files'[part] = Append(s, chunk)
            /\ fd'[t] = part
        BY <1>0, <1>17, <3>2, FileEffects
      <4>2. chunk \in Chunks
        BY <2>1, <2>2, <2>3, BusyLemma, QueueManagerAssumption DEF Chunks
      <4> HIDE DEF s, chunk, n
      <4>3. Append(s, chunk) \in Seq(Chunks) /\ Len(Append(s, chunk)) = n + 1
        BY <4>1, <4>2, AppendProperties
      <4> QED
        BY <4>1, <4>3, ContentAssumption DEF SizeIs, Exists
    <3> QED
      BY <3>1, <3>2
  <2> QED
    BY <1>0, <2>1, <2>2, <2>4, <2>5 DEF WorkInv, Busy
<1>18. CASE EndOfBody(t)
  <2>1. fd'[t] = Detached /\ thr[t].pc = "read" /\ files' = files
    BY <1>0, <1>18 DEF EndOfBody, Closed
  <2>2. CASE thr[t].it.sized /\ thr[t].it.bytes < Size
    BY <1>3, <1>18, <2>1, <2>2 DEF EndOfBody, Raise
  <2>3. CASE ~(thr[t].it.sized /\ thr[t].it.bytes < Size)
    <3>1. /\ x.pc = "replace" /\ x.id = i /\ x.target = thr[t].target /\ x.it = thr[t].it
      BY <1>0, <1>18, <2>3 DEF EndOfBody, Goto, Thread
    <3>2. thr[t].pc \in Busy
      BY <2>1 DEF Busy
    <3>3. /\ x.it.name \in OwnOrNone(x.id) /\ x.target \in Own[x.id]
            /\ Url(t)' = u /\ Part(t)' = part
      BY <1>4, <2>1, <3>1, <3>2 DEF Busy
    <3>4. u \in Sized /\ Exists(files', part) => Len(files'[part]) >= Size
      <4>1. thr[t].it.bytes \in Nat /\ Size \in Nat
        BY <1>0, QueueManagerAssumption DEF Row
      <4> QED
        BY <1>0, <2>1, <2>3, <4>1 DEF WorkInv, SizeIs
    <3> QED
      BY <2>1, <3>1, <3>3, <3>4 DEF WorkInv, Busy
  <2> QED
    BY <2>2, <2>3
<1>19. CASE Record(t)
  BY <1>0, <1>2, <1>19 DEF Record, WorkInv
<1> QED
  BY <1>5, <1>6, <1>7, <1>8, <1>9, <1>10, <1>11, <1>12, <1>13, <1>14, <1>15, <1>16, <1>17, <1>18,
     <1>19 DEF ThreadStep

\* What a thread writes to its row: a name of its own.
LEMMA NamesOwn ==
    ASSUME OwnNames, TypeInv, FilesInv, NEW t \in Threads, ThreadStep(t),
           NEW i \in Items, thr[t].id = i
    PROVE  NamesInv(i)'
<1>0. /\ thr[t].it \in Row /\ rows \in [Items -> Row \cup {NoRow}]
      /\ WorkInv(t) /\ NamesInv(i)
  BY ThreadLemma DEF FilesInv, TypeInv, TypeOK
<1>1. ASSUME rows' = rows PROVE NamesInv(i)'
  BY <1>0, <1>1 DEF NamesInv
<1>2. ASSUME NEW r, rows' = [rows EXCEPT ![i] = r], r.name \in OwnOrNone(i)
      PROVE  NamesInv(i)'
  BY <1>0, <1>2 DEF NamesInv
<1>3. CASE Fail(t)
  <2> DEFINE r == [thr[t].it EXCEPT !.state = "failed"]
  <2>1. rows' = [rows EXCEPT ![i] = r] /\ thr[t].it.name \in OwnOrNone(i)
    BY <1>0, <1>3 DEF Fail, Save, WorkInv
  <2>2. r.name = thr[t].it.name
    BY <1>0 DEF Row
  <2> QED
    BY <1>2, <2>1, <2>2
<1>4. CASE Respond(t)
  <2> DEFINE r == [thr[t].it EXCEPT !.state = "downloading", !.bytes = Kept(t),
                                    !.sized = thr[t].it.sized \/ Url(t) \in Sized]
  <2>1. rows' = [rows EXCEPT ![i] = r] /\ thr[t].it.name \in OwnOrNone(i)
    BY <1>0, <1>4 DEF Respond, Save, WorkInv
  <2>2. r.name = thr[t].it.name
    BY <1>0 DEF Row
  <2> QED
    BY <1>2, <2>1, <2>2
<1>5. CASE Check(t)
  <2>1. ASSUME NEW st, rows' = [rows EXCEPT ![i] = [thr[t].it EXCEPT !.state = st]]
        PROVE  NamesInv(i)'
    <3>1. [thr[t].it EXCEPT !.state = st].name = thr[t].it.name
      BY <1>0 DEF Row
    <3>2. thr[t].it.name \in OwnOrNone(i)
      BY <1>0, <1>5 DEF Check, WorkInv
    <3> QED
      BY <1>2, <2>1, <3>1, <3>2
  <2> QED
    BY <1>1, <1>5, <2>1 DEF Check, Settle, Save
<1>6. CASE Chunk(t)
  <2> DEFINE r == [thr[t].it EXCEPT !.bytes = thr[t].it.bytes + 1]
  <2>1. (rows' = rows \/ rows' = [rows EXCEPT ![i] = r]) /\ thr[t].it.name \in OwnOrNone(i)
    BY <1>0, <1>6 DEF Chunk, Save, WorkInv
  <2>2. r.name = thr[t].it.name
    BY <1>0 DEF Row
  <2> QED
    BY <1>1, <1>2, <2>1, <2>2
<1>7. CASE CompleteTaken(t)
  <2> DEFINE r == [thr[t].it EXCEPT !.state = "completed",
                                    !.bytes = SizeOrZero(files, FinalOf(thr[t].target))]
  <2>1. (rows' = rows \/ rows' = [rows EXCEPT ![i] = r]) /\ thr[t].it.name \in OwnOrNone(i)
    BY <1>0, <1>7 DEF CompleteTaken, Save, WorkInv
  <2>2. r.name = thr[t].it.name
    BY <1>0 DEF Row
  <2> QED
    BY <1>1, <1>2, <2>1, <2>2
<1>8. CASE Record(t)
  <2> DEFINE r == [thr[t].it EXCEPT !.state = "completed", !.name = thr[t].target]
  <2>1. rows' = [rows EXCEPT ![i] = r] /\ thr[t].target \in Own[i]
    BY <1>0, <1>8 DEF Record, Save, WorkInv, Busy
  <2>2. r.name = thr[t].target
    BY <1>0 DEF Row
  <2> QED
    BY <1>2, <2>1, <2>2 DEF OwnOrNone
<1>9. CASE ~(Fail(t) \/ Respond(t) \/ Check(t) \/ Chunk(t) \/ CompleteTaken(t) \/ Record(t))
  <2>1. rows' = rows
    BY <1>9 DEF ThreadStep, Load, Prepare, PrepareFail, RequestFail, TakePart, NoSpace, Open,
                EndOfBody, ReadFail, Replace, ReplaceFail, Caught, Sleep, Cleanup
  <2> QED
    BY <1>1, <2>1
<1> QED
  BY <1>3, <1>4, <1>5, <1>6, <1>7, <1>8, <1>9

\* What one thread does leaves the rows, the files and the locals of the others.
LEMMA ThreadFrame ==
    ASSUME OwnNames, TypeInv, OneThread, FilesInv, NEW t \in Threads, ThreadStep(t)
    PROVE  /\ thr[t].id \in Items /\ Alive(t) /\ UNCHANGED <<erased, client>>
           /\ \A j \in Items \ {thr[t].id} : rows'[j] = rows[j] /\ SameFiles(j)
           /\ \A u \in Threads \ {t} : thr'[u] = thr[u] /\ fd'[u] = fd[u]
           /\ \A u \in Threads \ {t} : Alive(u) => thr[u].id \in Items \ {thr[t].id}
<1>0. /\ thr[t].id \in Items /\ Alive(t) /\ UNCHANGED <<erased, client>>
      /\ thr \in [Threads -> Thread] /\ rows \in [Items -> Row \cup {NoRow}]
  BY ThreadLemma, RowsStep DEF TypeInv, TypeOK, past
<1>1. \A j \in Items \ {thr[t].id} : rows'[j] = rows[j]
  BY <1>0, RowsStep
<1>2. \A u \in Threads \ {t} : thr'[u] = thr[u]
  BY <1>0, LocalsStep
<1>3. \A u \in Threads \ {t} : Alive(u) => thr[u].id \in Items \ {thr[t].id}
  BY <1>0, ThreadLemma DEF OneThread
<1> QED
  BY <1>0, <1>1, <1>2, <1>3, OthersFiles

LEMMA FilesThread ==
    ASSUME OwnNames, TypeInv, OneThread, FilesInv, NEW t \in Threads, ThreadStep(t)
    PROVE  FilesInv'
<1>1. ASSUME NEW j \in Items PROVE NamesInv(j)' /\ BodyInv(j)'
  <2>1. CASE j = thr[t].id
    BY <2>1, NamesOwn, BodyOwn
  <2>2. CASE j # thr[t].id
    <3>1. rows'[j] = rows[j] /\ SameFiles(j)
      BY <2>2, ThreadFrame
    <3>2. NamesInv(j) /\ BodyInv(j)
      BY DEF FilesInv
    <3> QED
      BY <3>1, <3>2, BodyFrame DEF NamesInv
  <2> QED
    BY <2>1, <2>2
<1>2. ASSUME NEW u \in Threads PROVE WorkInv(u)'
  <2>1. CASE u = t
    BY <2>1, WorkOwn
  <2>2. CASE u # t /\ Alive(u)
    <3>1. /\ SameFiles(thr[u].id) /\ thr'[u] = thr[u] /\ fd'[u] = fd[u] /\ WorkInv(u)
      BY <2>2, ThreadFrame DEF FilesInv
    <3> QED
      BY <3>1, WorkFrame
  <2>3. CASE u # t /\ ~Alive(u)
    BY <2>3, ThreadFrame DEF FilesInv, WorkInv, Alive, Busy
  <2> QED
    BY <2>1, <2>2, <2>3
<1>3. \A c \in Clients : CopyInv(c)'
  BY ThreadFrame DEF FilesInv, CopyInv
<1> QED
  BY <1>1, <1>2, <1>3 DEF FilesInv

\* What the unlinks of a delete do.
LEMMA DeleteEffects ==
    ASSUME OwnNames, TypeInv, FilesInv, NEW c \in Clients, DeleteFiles(c)
    PROVE  LET p == client[c].it.name
           IN  /\ p \in OwnOrNone(client[c].id) /\ p \in PathValues /\ client[c].id \in Items
               /\ \A n \in FileNames \ {PartOf(p), FinalOf(p)} : files'[n] = files[n]
               /\ \A n \in FileNames : files'[n] \in {files[n], NoFile}
               /\ \A u \in Threads :
                     /\ fd[u] \notin {PartOf(p), FinalOf(p)} => fd'[u] = fd[u]
                     /\ fd[u] = PartOf(p) => \/ fd'[u] = Detached /\ files'[PartOf(p)] = NoFile
                                             \/ fd'[u] = fd[u] /\ files' = files
               /\ \A j \in Items \ {client[c].id} : SameFiles(j)
<1> DEFINE i == client[c].id
           p == client[c].it.name
<1>0. /\ client[c].it \in Row /\ i \in Items /\ client[c].pc = "unlink"
      /\ fd \in [Threads -> FileNames \cup {Detached}] /\ files \in [FileNames -> Contents]
  BY DEF TypeInv, TypeOK, ClientState, DeleteFiles
<1>1. p \in OwnOrNone(i) /\ p \in PathValues
  BY <1>0, FamilyLemma DEF FilesInv, CopyInv
<1> HIDE DEF p
<1>2. /\ \A n \in FileNames \ {PartOf(p), FinalOf(p)} : files'[n] = files[n]
      /\ \A n \in FileNames : files'[n] \in {files[n], NoFile}
      /\ \A u \in Threads :
            /\ fd[u] \notin {PartOf(p), FinalOf(p)} => fd'[u] = fd[u]
            /\ fd[u] = PartOf(p) => \/ fd'[u] = Detached /\ files'[PartOf(p)] = NoFile
                                    \/ fd'[u] = fd[u] /\ files' = files
  <2>1. CASE p = NoPath
    BY <2>1 DEF DeleteFiles, p
  <2>2. CASE p # NoPath
    <3>1. /\ files' = Unlinked(Unlinked(files, FinalOf(p)), PartOf(p))
          /\ fd' = AfterUnlink(AfterUnlink(fd, FinalOf(p)), PartOf(p))
      BY <2>2 DEF DeleteFiles, p
    <3>2. PartOf(p) \in FileNames /\ FinalOf(p) \in FileNames /\ PartOf(p) # FinalOf(p)
      BY <1>1, NamesLemma
    <3> QED
      BY <1>0, <3>1, <3>2 DEF Unlinked, AfterUnlink
  <2> QED
    BY <2>1, <2>2
<1>3. ASSUME NEW j \in Items \ {i}, NEW q \in Own[j]
      PROVE  files'[PartOf(q)] = files[PartOf(q)] /\ files'[FinalOf(q)] = files[FinalOf(q)]
  <2>1. q \in PathValues /\ q # p
    BY <1>0, <1>1, <1>3, FamilyLemma, NoPathAssumption DEF PathValues, OwnOrNone
  <2>2. /\ PartOf(q) \in FileNames \ {PartOf(p), FinalOf(p)}
        /\ FinalOf(q) \in FileNames \ {PartOf(p), FinalOf(p)}
    BY <1>1, <2>1, NamesLemma
  <2> QED
    BY <1>2, <2>2
<1>4. \A j \in Items \ {i} : SameFiles(j)
  BY <1>3 DEF SameFiles
<1> QED
  BY <1>0, <1>1, <1>2, <1>4 DEF p

\* What a thread knows of its files after a delete: the bytes it counted are the
\* bytes written, or its file has no name any more.
LEMMA DeleteKeepsWork ==
    ASSUME OwnNames, TypeInv, MeasuredStays, FilesInv, NEW c \in Clients, DeleteFiles(c),
           NEW t \in Threads
    PROVE  WorkInv(t)'
<1> DEFINE p == client[c].it.name
<1>0. WorkInv(t) /\ thr'[t] = thr[t] /\ Detached \notin FileNames /\ thr[t] \in Thread
      /\ Url(t)' = Url(t) /\ Part(t)' = Part(t) /\ thr[t].existing \in Nat
  BY ThreadLemma, ContentAssumption DEF FilesInv, DeleteFiles, Url, Part
<1>1. /\ p \in PathValues
      /\ \A n \in FileNames \ {PartOf(p), FinalOf(p)} : files'[n] = files[n]
      /\ \A n \in FileNames : files'[n] \in {files[n], NoFile}
      /\ fd[t] \notin {PartOf(p), FinalOf(p)} => fd'[t] = fd[t]
      /\ fd[t] = PartOf(p) => \/ fd'[t] = Detached /\ files'[PartOf(p)] = NoFile
                              \/ fd'[t] = fd[t] /\ files' = files
  BY DeleteEffects
<1>2. PartOf(p) \in FileNames /\ FinalOf(p) \in FileNames
  BY <1>1, NamesLemma
<1> HIDE DEF p
<1>3. fd[t] = Detached => fd'[t] = Detached
  BY <1>0, <1>1, <1>2
<1>4. CASE thr[t].pc \in {"check", "read"}
  <2>1. thr[t].pc \in Busy
    BY <1>4 DEF Busy
  <2>2. /\ Part(t) \in FileNames /\ \A q \in PathValues : Part(t) # FinalOf(q)
    BY <1>0, <2>1, BusyLemma, NamesLemma DEF Part
  <2>3. \/ fd'[t] = Part(t) /\ SizeIs(files', Part(t), thr[t].it.bytes)
        \/ fd'[t] = Detached /\ ~Exists(files', Part(t))
    <3>1. CASE fd[t] = Detached
      BY <1>0, <1>1, <1>3, <1>4, <2>2, <3>1 DEF WorkInv, Exists
    <3>2. CASE fd[t] # Detached
      <4>1. fd[t] = Part(t) /\ SizeIs(files, Part(t), thr[t].it.bytes)
        BY <1>0, <1>4, <3>2 DEF WorkInv
      <4>2. CASE Part(t) = PartOf(p)
        BY <1>1, <4>1, <4>2 DEF SizeIs, Exists
      <4>3. CASE Part(t) # PartOf(p)
        BY <1>1, <2>2, <4>1, <4>3 DEF SizeIs, Exists
      <4> QED
        BY <4>2, <4>3
    <3> QED
      BY <3>1, <3>2
  <2> QED
    BY <1>0, <1>4, <2>3 DEF WorkInv, Busy
<1>5. CASE thr[t].pc \in {"request", "open"}
  <2>1. thr[t].pc \in Busy
    BY <1>5 DEF Busy
  <2>2. Part(t) \in FileNames
    BY <2>1, BusyLemma
  <2>3. thr[t].existing = SizeOrZero(files, Part(t))
    BY <1>0, <1>5 DEF WorkInv
  <2>4. thr[t].existing = SizeOrZero(files', Part(t))
    <3>1. CASE thr[t].existing > 0
      <4>1. Exists(files', Part(t))
        BY <1>0, <1>5, <3>1 DEF MeasuredStays
      <4> QED
        BY <1>1, <2>2, <2>3, <4>1 DEF SizeOrZero, Exists
    <3>2. CASE thr[t].existing = 0
      BY <1>1, <2>2, <2>3, <3>2 DEF SizeOrZero, Exists
    <3> QED
      BY <1>0, <3>1, <3>2
  <2> QED
    BY <1>0, <1>3, <1>5, <2>4 DEF WorkInv, Busy
<1>6. CASE thr[t].pc = "replace"
  <2>1. thr[t].pc \in Busy
    BY <1>6 DEF Busy
  <2>2. Part(t) \in FileNames
    BY <2>1, BusyLemma
  <2> QED
    BY <1>0, <1>1, <1>3, <1>6, <2>2 DEF WorkInv, Busy, Exists
<1>7. CASE thr[t].pc \notin {"check", "read", "request", "open", "replace"}
  BY <1>0, <1>3, <1>7 DEF WorkInv, Busy
<1> QED
  BY <1>4, <1>5, <1>6, <1>7

LEMMA FilesClient ==
    ASSUME OwnNames, TypeInv, MeasuredStays, FilesInv, NEW c \in Clients, ClientStep(c)
    PROVE  FilesInv'
<1>0. /\ client \in [Clients -> ClientState] /\ client[c].id \in Items /\ client[c].it \in Row
      /\ rows \in [Items -> Row \cup {NoRow}] /\ Idle.pc = "idle"
      /\ thr \in [Threads -> Thread] /\ \A u \in Threads : WorkInv(u)
      /\ \A d \in Clients : CopyInv(d)
      /\ \A i \in Items : NamesInv(i) /\ BodyInv(i)
  BY DEF TypeInv, TypeOK, FilesInv, ClientState, Idle
<1>1. ASSUME NEW where, NEW i, NEW r, Then(c, where, i, r), r.name \in OwnOrNone(i)
      PROVE  \A d \in Clients : CopyInv(d)'
  BY <1>0, <1>1 DEF Then, CopyInv
<1>2. ASSUME client' = [client EXCEPT ![c] = Idle] PROVE \A d \in Clients : CopyInv(d)'
  BY <1>0, <1>2 DEF CopyInv
<1>3. ASSUME UNCHANGED <<thr, fd, files>> PROVE \A u \in Threads : WorkInv(u)'
  BY <1>0, <1>3 DEF WorkInv, Url, Part
<1>4. ASSUME UNCHANGED <<files, rows>>
      PROVE  \A i \in Items : NamesInv(i)' /\ BodyInv(i)'
  BY <1>0, <1>4 DEF NamesInv, BodyInv
<1>5. ASSUME NEW i \in Items, Start(c, i) \/ Pause(c, i) \/ Cancel(c, i) \/ Delete(c, i)
      PROVE  FilesInv'
  <2>1. UNCHANGED <<thr, fd, files, rows>> /\ rows[i] \in Row /\ rows[i].name \in OwnOrNone(i)
    BY <1>0, <1>5 DEF Start, Pause, Cancel, Delete, NamesInv
  <2>2. \A st : [rows[i] EXCEPT !.state = st].name = rows[i].name
    BY <2>1 DEF Row
  <2>3. \/ client' = client
        \/ \E where : Then(c, where, i, rows[i])
        \/ \E where, st : Then(c, where, i, [rows[i] EXCEPT !.state = st])
    BY <1>5 DEF Start, Pause, Cancel, Delete
  <2>4. \A d \in Clients : CopyInv(d)'
    <3>1. CASE client' = client
      BY <1>0, <3>1 DEF CopyInv
    <3>2. CASE \E where : Then(c, where, i, rows[i])
      BY <1>1, <2>1, <3>2
    <3>3. CASE \E where, st : Then(c, where, i, [rows[i] EXCEPT !.state = st])
      <4>1. PICK where, st : Then(c, where, i, [rows[i] EXCEPT !.state = st])
        BY <3>3
      <4> QED
        BY <1>1, <2>1, <2>2, <4>1
    <3> QED
      BY <2>3, <3>1, <3>2, <3>3
  <2> QED
    BY <1>3, <1>4, <2>1, <2>4 DEF FilesInv
<1>6. CASE MarkWaiting(c) \/ Write(c)
  <2> DEFINE i == client[c].id
             r == client[c].it
  <2>1. /\ rows' = [rows EXCEPT ![i] = r] /\ UNCHANGED <<thr, fd, files>>
        /\ r.name \in OwnOrNone(i)
    BY <1>0, <1>6 DEF MarkWaiting, Write, Save, CopyInv
  <2>2. \A d \in Clients : CopyInv(d)'
    BY <1>1, <1>2, <1>6, <2>1 DEF MarkWaiting, Write
  <2>3. \A j \in Items : NamesInv(j)' /\ BodyInv(j)'
    BY <1>0, <2>1 DEF NamesInv, BodyInv
  <2> QED
    BY <1>3, <2>1, <2>2, <2>3 DEF FilesInv
<1>7. CASE Spawn(c)
  <2>1. PICK t \in Threads :
          /\ thr[t].pc = "absent"
          /\ thr' = [thr EXCEPT ![t].pc = "load", ![t].id = client[c].id]
    BY <1>7 DEF Spawn
  <2>2. /\ thr'[t].pc = "load" /\ \A u \in Threads \ {t} : thr'[u] = thr[u]
        /\ UNCHANGED <<rows, fd, files>> /\ client' = [client EXCEPT ![c] = Idle]
    BY <1>0, <1>7, <2>1 DEF Spawn, Thread
  <2>3. ASSUME NEW u \in Threads PROVE WorkInv(u)'
    <3>1. CASE u = t
      BY <1>0, <2>1, <2>2, <3>1 DEF WorkInv, Busy
    <3>2. CASE u # t
      BY <1>0, <2>2, <3>2 DEF WorkInv, Url, Part
    <3> QED
      BY <3>1, <3>2
  <2> QED
    BY <1>2, <1>4, <2>2, <2>3 DEF FilesInv
<1>8. CASE SpawnRefused(c)
  BY <1>2, <1>3, <1>4, <1>8 DEF SpawnRefused, FilesInv
<1>9. CASE DeleteFiles(c)
  <2>1. /\ client[c].it.name \in OwnOrNone(client[c].id) /\ client[c].id \in Items
        /\ \A n \in FileNames : files'[n] \in {files[n], NoFile}
    BY <1>9, DeleteEffects
  <2>2. ASSUME NEW j \in Items PROVE NamesInv(j)' /\ BodyInv(j)'
    <3>1. NamesInv(j)'
      BY <1>0, <1>9 DEF DeleteFiles, NamesInv
    <3>2. \A q \in Own[j] : /\ files'[PartOf(q)] \in {files[PartOf(q)], NoFile}
                             /\ files'[FinalOf(q)] \in {files[FinalOf(q)], NoFile}
      BY <2>1, FamilyLemma, NamesLemma DEF PathValues
    <3>3. BodyInv(j)'
      BY <1>0, <3>2 DEF BodyInv, Exists
    <3> QED
      BY <3>1, <3>3
  <2>3. \A d \in Clients : CopyInv(d)'
    BY <1>1, <1>9, <2>1 DEF DeleteFiles
  <2> QED
    BY <1>9, <2>2, <2>3, DeleteKeepsWork DEF FilesInv
<1>10. CASE DeleteRow(c)
  <2>1. /\ rows' = [rows EXCEPT ![client[c].id] = NoRow]
        /\ client' = [client EXCEPT ![c] = Idle] /\ UNCHANGED <<thr, fd, files>>
    BY <1>10 DEF DeleteRow
  <2>2. \A j \in Items : NamesInv(j)' /\ BodyInv(j)'
    BY <1>0, <2>1 DEF NamesInv, BodyInv
  <2> QED
    BY <1>2, <1>3, <2>1, <2>2 DEF FilesInv
<1> QED
  BY <1>5, <1>6, <1>7, <1>8, <1>9, <1>10 DEF ClientStep

LEMMA FilesAdd ==
    ASSUME OwnNames, TypeInv, FilesInv, NEW i \in Items, AddResult(i)
    PROVE  FilesInv'
<1>1. PICK known \in BOOLEAN : rows' = [rows EXCEPT ![i] = [FreshRow(i) EXCEPT !.sized = known]]
  BY DEF AddResult, Save
<1> DEFINE r == [FreshRow(i) EXCEPT !.sized = known]
<1>2. r.name \in OwnOrNone(i)
  BY FamilyLemma, QueueManagerAssumption DEF FreshRow, OwnOrNone
<1>3. UNCHANGED <<thr, fd, client, files>> /\ rows \in [Items -> Row \cup {NoRow}]
  BY DEF AddResult, TypeInv, TypeOK
<1> HIDE DEF r
<1>4. rows' = [rows EXCEPT ![i] = r]
  BY <1>1 DEF r
<1>5. \A j \in Items : NamesInv(j)' /\ BodyInv(j)'
  BY <1>2, <1>3, <1>4 DEF FilesInv, NamesInv, BodyInv
<1>6. (\A t \in Threads : WorkInv(t)') /\ (\A c \in Clients : CopyInv(c)')
  BY <1>3 DEF FilesInv, WorkInv, Url, Part, CopyInv
<1> QED
  BY <1>5, <1>6 DEF FilesInv

LEMMA FilesRestart == TypeInv /\ FilesInv /\ Restart => FilesInv'
<1> SUFFICES ASSUME TypeInv, FilesInv, Restart PROVE FilesInv'
  OBVIOUS
<1>1. UNCHANGED <<rows, files>>
  BY DEF Restart
<1>2. \A t \in Threads : thr'[t].pc = "absent" /\ fd'[t] = Detached
  BY DEF Restart, NoLocals
<1>3. \A c \in Clients : client'[c].pc = "idle"
  BY DEF Restart, Idle
<1>4. \A i \in Items : NamesInv(i)' /\ BodyInv(i)'
  BY <1>1 DEF FilesInv, NamesInv, BodyInv
<1> QED
  BY <1>2, <1>3, <1>4 DEF FilesInv, WorkInv, Busy, CopyInv

LEMMA FilesInit == OwnNames /\ Init => FilesInv
<1> SUFFICES ASSUME OwnNames, Init PROVE FilesInv
  OBVIOUS
<1>1. \A t \in Threads : thr[t].pc = "absent" /\ fd[t] = Detached
  BY DEF Init, NoLocals
<1>2. \A c \in Clients : client[c].pc = "idle"
  BY DEF Init, Idle
<1>3. ASSUME NEW i \in Items PROVE NamesInv(i) /\ BodyInv(i)
  <2>1. rows[i] = NoRow
    BY DEF Init
  <2>2. \A p \in Own[i] : files[PartOf(p)] = NoFile /\ files[FinalOf(p)] = NoFile
    BY FamilyLemma, NamesLemma DEF Init, PathValues
  <2> QED
    BY <2>1, <2>2 DEF NamesInv, BodyInv, Exists
<1> QED
  BY <1>1, <1>2, <1>3 DEF FilesInv, WorkInv, Busy, CopyInv

LEMMA FilesNext ==
    ASSUME OwnNames, TypeInv, OneThread, FilesInv, [Next]_vars, [MeasuredStays]_vars
    PROVE  FilesInv'
<1>1. CASE UNCHANGED vars
  BY <1>1 DEF vars, past, events, FilesInv, NamesInv, BodyInv, WorkInv, Url, Part, CopyInv
<1>2. CASE MeasuredStays /\ \E c \in Clients : ClientStep(c)
  BY <1>2, FilesClient
<1> QED
  BY <1>1, <1>2, FilesThread, FilesAdd, FilesRestart DEF Next

LEMMA FilesInvariance ==
    ASSUME OwnNames
    PROVE  Spec /\ []OneThread /\ [][MeasuredStays]_vars => [](TypeInv /\ FilesInv)
<1>1. TypeInv /\ OneThread /\ FilesInv /\ [Next]_vars /\ [MeasuredStays]_vars => FilesInv'
  BY FilesNext
<1>2. Init => FilesInv
  BY FilesInit
<1> QED
  BY <1>1, <1>2, TypeInvariance, PTL DEF Spec

\* A .part file is the beginning of the body, whatever was paused, cancelled,
\* failed, restarted or deleted, before or meanwhile and by any number of handlers:
\* a Range request from its length goes on where it ends.  It supposes one thread
\* at a time of each item (two tear the file, run pc_start_twice) and that a delete
\* does not come between the look at the part's size and the open.
THEOREM PartsArePrefixes ==
    ASSUME OwnNames
    PROVE  Spec /\ []OneThread /\ [][MeasuredStays]_vars => []PartIsPrefix
<1>1. FilesInv => PartIsPrefix
  BY FamilyLemma DEF FilesInv, BodyInv, PartIsPrefix
<1> QED
  BY <1>1, FilesInvariance, PTL

\* A final file of a URL whose server told the length is the whole body, under the
\* same suppositions: also when the part file was deleted under the thread, whose
\* count then meets no file to rename.
THEOREM FinalsAreWhole ==
    ASSUME OwnNames
    PROVE  Spec /\ []OneThread /\ [][MeasuredStays]_vars => []FinalIsWhole
<1>1. FilesInv => FinalIsWhole
  BY FamilyLemma, QueueManagerAssumption DEF FilesInv, BodyInv, FinalIsWhole
<1> QED
  BY <1>1, FilesInvariance, PTL

----------------------------------------------------------------------------
(***************************************************************************)
(* Completed rows.  Here the one handler is needed: with two, one of them   *)
(* may write back a completed row it read before the other deleted it.      *)
(***************************************************************************)
DoneInv(i) ==
    Completed(rows[i]) /\ UrlOf[i] \in Sized /\ i \notin erased
        => files[FinalOf(ShownName(i))] = Whole(UrlOf[i])

\* The name a thread's row shows is that of a file which is there, or the target;
\* and the target is whole once the part was renamed.
ShownInv(t) ==
    LET x == thr[t]
    IN  /\ x.pc \in Busy => x.target = Wanted(t) \/ Exists(files, FinalOf(Wanted(t)))
        /\ x.pc \in {"complete", "record"} /\ Url(t) \in Sized
              => files[FinalOf(x.target)] = Whole(Url(t))

CompletedInv == (\A i \in Items : DoneInv(i)) /\ (\A t \in Threads : ShownInv(t))

LEMMA SoloLemma == SoloInv => OneThread
<1> QED
  BY DEF SoloInv, EventsReachThread, OneThread

LEMMA DoneFrame ==
    ASSUME OwnNames, NEW i \in Items, NamesInv(i), DoneInv(i), SameFiles(i), rows'[i] = rows[i],
           i \in erased => i \in erased'
    PROVE  DoneInv(i)'
<1> SUFFICES ASSUME Completed(rows[i]), UrlOf[i] \in Sized, i \notin erased
             PROVE  files'[FinalOf(ShownName(i))] = Whole(UrlOf[i])
  BY DEF DoneInv, ShownName, Completed
<1>1. ShownName(i) \in Own[i]
  BY FamilyLemma, QueueManagerAssumption DEF ShownName, NamesInv, OwnOrNone, Completed
<1> QED
  BY <1>1 DEF SameFiles, DoneInv

LEMMA ShownFrame ==
    ASSUME OwnNames, TypeInv, FilesInv, NEW t \in Threads, ShownInv(t), SameFiles(thr[t].id),
           thr'[t] = thr[t]
    PROVE  ShownInv(t)'
<1>1. Url(t)' = Url(t) /\ Wanted(t)' = Wanted(t)
  BY DEF Url, Wanted
<1>2. CASE thr[t].pc \in Busy
  <2>1. thr[t].target \in Own[thr[t].id] /\ Wanted(t) \in Own[thr[t].id]
    BY <1>2, BusyLemma
  <2>2. /\ files'[FinalOf(thr[t].target)] = files[FinalOf(thr[t].target)]
        /\ files'[FinalOf(Wanted(t))] = files[FinalOf(Wanted(t))]
    BY <2>1 DEF SameFiles
  <2> QED
    BY <1>1, <2>2 DEF ShownInv, Exists
<1>3. CASE thr[t].pc \notin Busy
  BY <1>1, <1>3 DEF ShownInv, Busy
<1> QED
  BY <1>2, <1>3

\* What a thread knows of the name it shows after its own step.
LEMMA ShownOwn ==
    ASSUME OwnNames, TypeInv, OneThread, FilesInv, NEW t \in Threads, ShownInv(t), ThreadStep(t)
    PROVE  ShownInv(t)'
<1>i. PICK i \in Items : thr[t].id = i
  BY ThreadLemma
<1> DEFINE part  == Part(t)
           final == FinalOf(thr[t].target)
           x     == thr'[t]
<1>0. /\ thr \in [Threads -> Thread] /\ thr[t] \in Thread /\ thr[t].it \in Row /\ thr[t].id = i
      /\ WorkInv(t) /\ BodyInv(i)' /\ thr[t].existing \in Nat
  BY <1>i, ThreadLemma, BodyOwn DEF FilesInv, TypeInv, TypeOK
<1>1. CASE Prepare(t)
  <2>1. thr[t].it.name \in OwnOrNone(i) /\ Url(t) # NoUrl /\ files' = files
    BY <1>0, <1>1 DEF Prepare, WorkInv
  <2>2. PICK mode \in Modes : \E p \in Targets(Wanted(t), mode) :
          thr' = [thr EXCEPT ![t].pc = "request", ![t].target = p,
                             ![t].existing = SizeOrZero(files, PartOf(p))]
    BY <1>1 DEF Prepare
  <2>3. PICK p \in Targets(Wanted(t), mode) :
          thr' = [thr EXCEPT ![t].pc = "request", ![t].target = p,
                             ![t].existing = SizeOrZero(files, PartOf(p))]
    BY <2>2
  <2>4. Wanted(t) \in Own[i]
    BY <1>0, <2>1, WantedLemma
  <2>5. p = Wanted(t) \/ Exists(files, FinalOf(Wanted(t)))
    BY <1>0, <2>4, ChoiceLemma
  <2>6. x.pc = "request" /\ x.id = i /\ x.it = thr[t].it /\ x.target = p
    BY <1>0, <2>3 DEF Thread
  <2>7. Wanted(t)' = Wanted(t)
    BY <1>0, <2>6 DEF Wanted, Url
  <2> QED
    BY <2>1, <2>5, <2>6, <2>7 DEF ShownInv
\* From one busy place to another the target and the name stay.
<1>2. CASE TakePart(t) \/ Replace(t)
  <2>1. /\ Exists(files, part) /\ files'[final] = files[part]
        /\ \A n \in FileNames \ {part, final} : files'[n] = files[n]
    BY <1>0, <1>2, FileEffects
  <2>2. /\ x.pc \in {"complete", "record"} /\ x.id = i /\ x.target = thr[t].target
        /\ x.it = thr[t].it /\ thr[t].pc \in Busy
    BY <1>0, <1>2 DEF TakePart, Replace, Goto, Thread, Busy
  <2>3. Url(t)' = Url(t) /\ Wanted(t)' = Wanted(t)
    BY <1>0, <2>2 DEF Url, Wanted
  <2>4. /\ Url(t) = UrlOf[i] /\ Url(t) # NoUrl /\ thr[t].target \in Own[i]
        /\ FinalOf(Wanted(t)) \in FileNames \ {part}
        /\ thr[t].target = Wanted(t) \/ Exists(files, FinalOf(Wanted(t)))
    BY <1>0, <2>2, BusyLemma DEF ShownInv
  <2>5. thr[t].target = Wanted(t) \/ Exists(files', FinalOf(Wanted(t)))
    BY <2>1, <2>4 DEF Exists
  <2>6. Url(t) \in Sized => files'[final] = Whole(Url(t))
    BY <1>0, <2>1, <2>4 DEF BodyInv, Exists
  <2> QED
    BY <2>2, <2>3, <2>5, <2>6 DEF ShownInv
<1>3. CASE Respond(t) \/ Open(t) \/ Check(t) \/ Chunk(t) \/ EndOfBody(t)
  <2>1. CASE x.pc \in Busy
    <3>1. /\ x.pc \in {"open", "check", "read", "replace"} /\ x.id = i /\ x.target = thr[t].target
          /\ x.it.name = thr[t].it.name /\ thr[t].pc \in Busy
      <4>1. CASE Respond(t)
        <5> DEFINE it == [thr[t].it EXCEPT !.state = "downloading", !.bytes = Kept(t),
                                           !.sized = thr[t].it.sized \/ Url(t) \in Sized]
        <5>1. /\ x.pc = "open" /\ x.id = i /\ x.target = thr[t].target /\ x.it = it
              /\ thr[t].pc \in Busy
          BY <1>0, <4>1 DEF Respond, Thread, Busy
        <5>2. it.name = thr[t].it.name
          BY <1>0 DEF Row
        <5> QED
          BY <5>1, <5>2
      <4>2. CASE Open(t) \/ EndOfBody(t)
        BY <1>0, <2>1, <4>2 DEF Open, EndOfBody, Goto, Thread, Busy
      <4>3. CASE Check(t)
        <5>1. ~Ended(t)
          BY <1>0, <2>1 DEF Ended, NoLocals, Busy
        <5> QED
          BY <1>0, <4>3, <5>1 DEF Check, Settle, Goto, Thread, Busy
      <4>4. CASE Chunk(t)
        <5> DEFINE it == [thr[t].it EXCEPT !.bytes = thr[t].it.bytes + 1]
        <5>1. /\ x.pc = "check" /\ x.id = i /\ x.target = thr[t].target /\ x.it = it
              /\ thr[t].pc \in Busy
          BY <1>0, <4>4 DEF Chunk, Thread, Busy
        <5>2. it.name = thr[t].it.name
          BY <1>0 DEF Row
        <5> QED
          BY <5>1, <5>2
      <4> QED
        BY <1>3, <4>1, <4>2, <4>3, <4>4
    <3>2. Wanted(t)' = Wanted(t)
      BY <1>0, <3>1 DEF Wanted, Url
    <3>3. /\ FinalOf(Wanted(t)) \in FileNames \ {part}
          /\ thr[t].target = Wanted(t) \/ Exists(files, FinalOf(Wanted(t)))
      BY <3>1, BusyLemma DEF ShownInv
    <3>4. \A n \in FileNames \ {part} : files'[n] = files[n]
      <4>1. CASE Check(t) \/ EndOfBody(t)
        BY <4>1 DEF Check, EndOfBody
      <4> QED
        BY <1>0, <1>3, <4>1, FileEffects
    <3> QED
      BY <3>1, <3>2, <3>3, <3>4 DEF ShownInv, Exists
  <2>2. CASE x.pc \notin Busy
    BY <2>2 DEF ShownInv, Busy
  <2> QED
    BY <2>1, <2>2
<1>4. CASE ~(\/ Prepare(t) \/ TakePart(t) \/ Replace(t) \/ Respond(t) \/ Open(t) \/ Check(t)
             \/ Chunk(t) \/ EndOfBody(t))
  <2>1. x.pc \notin Busy
    <3>1. Ended(t) => x.pc = "ended"
      BY <1>0 DEF Ended, NoLocals
    <3>2. Raise(t) => x.pc = "caught"
      BY <1>0 DEF Raise, Goto, Thread
    <3>3. CASE \/ PrepareFail(t) \/ RequestFail(t) \/ CompleteTaken(t) \/ NoSpace(t) \/ ReadFail(t)
               \/ ReplaceFail(t) \/ Record(t) \/ Cleanup(t)
      BY <3>1, <3>2, <3>3 DEF PrepareFail, RequestFail, CompleteTaken, NoSpace, ReadFail, ReplaceFail,
                              Record, Cleanup, Busy
    <3>4. CASE Load(t) \/ Caught(t) \/ Fail(t) \/ Sleep(t)
      BY <1>0, <3>1, <3>4 DEF Load, Caught, Fail, Sleep, Thread, Busy
    <3> QED
      BY <1>4, <3>3, <3>4 DEF ThreadStep
  <2> QED
    BY <2>1 DEF ShownInv, Busy
<1> QED
  BY <1>1, <1>2, <1>3, <1>4

\* A thread writes completed only when the file its row shows is whole.
LEMMA DoneOwn ==
    ASSUME OwnNames, TypeInv, SoloInv, FilesInv, NEW t \in Threads, ShownInv(t), ThreadStep(t),
           NEW i \in Items, thr[t].id = i
    PROVE  DoneInv(i)'
<1>0. /\ thr[t].it \in Row /\ rows \in [Items -> Row \cup {NoRow}] /\ Alive(t)
      /\ WorkInv(t) /\ NamesInv(i) /\ BodyInv(i) /\ erased' = erased
      /\ ~Completed(rows[i])
  BY ThreadLemma, RowsStep DEF FilesInv, TypeInv, TypeOK, past, SoloInv, OnItem
<1>1. ASSUME rows' = rows PROVE DoneInv(i)'
  BY <1>0, <1>1 DEF DoneInv
<1>2. ASSUME NEW r, rows' = [rows EXCEPT ![i] = r], r.state # "completed"
      PROVE  DoneInv(i)'
  BY <1>0, <1>2 DEF DoneInv, Completed
<1>3. CASE Fail(t)
  <2> DEFINE r == [thr[t].it EXCEPT !.state = "failed"]
  <2>1. rows' = [rows EXCEPT ![i] = r] /\ thr[t].it.name \in OwnOrNone(i)
    BY <1>0, <1>3 DEF Fail, Save, WorkInv
  <2>2. r.name = thr[t].it.name /\ r.state = "failed"
    BY <1>0 DEF Row
  <2> QED
    BY <1>2, <2>1, <2>2
<1>4. CASE Respond(t)
  <2> DEFINE r == [thr[t].it EXCEPT !.state = "downloading", !.bytes = Kept(t),
                                    !.sized = thr[t].it.sized \/ Url(t) \in Sized]
  <2>1. rows' = [rows EXCEPT ![i] = r] /\ thr[t].it.name \in OwnOrNone(i)
    BY <1>0, <1>4 DEF Respond, Save, WorkInv
  <2>2. r.name = thr[t].it.name /\ r.state = "downloading"
    BY <1>0 DEF Row
  <2> QED
    BY <1>2, <2>1, <2>2
<1>5. CASE Check(t)
  <2>1. ASSUME NEW st \in {"cancelled", "paused"}, rows' = [rows EXCEPT ![i] = [thr[t].it EXCEPT !.state = st]]
        PROVE  DoneInv(i)'
    <3> DEFINE r == [thr[t].it EXCEPT !.state = st]
    <3>1. r.name = thr[t].it.name /\ r.state = st
      BY <1>0 DEF Row
    <3>2. thr[t].it.name \in OwnOrNone(i)
      BY <1>0, <1>5 DEF Check, WorkInv
    <3> QED
      BY <1>2, <2>1, <3>1, <3>2
  <2> QED
    BY <1>1, <1>5, <2>1 DEF Check, Settle, Save
<1>6. CASE Chunk(t)
  <2> DEFINE r == [thr[t].it EXCEPT !.bytes = thr[t].it.bytes + 1]
  <2>1. (rows' = rows \/ rows' = [rows EXCEPT ![i] = r]) /\ thr[t].it.name \in OwnOrNone(i)
    BY <1>0, <1>6 DEF Chunk, Save, WorkInv
  <2>2. r.name = thr[t].it.name /\ r.state = "downloading"
    BY <1>0, <1>6 DEF Row, Chunk, SoloInv, PlaceInv
  <2> QED
    BY <1>1, <1>2, <2>1, <2>2
<1>7. CASE CompleteTaken(t)
  <2> DEFINE r == [thr[t].it EXCEPT !.state = "completed",
                                    !.bytes = SizeOrZero(files, FinalOf(thr[t].target))]
  <2>1. /\ rows' = rows \/ rows' = [rows EXCEPT ![i] = r]
        /\ thr[t].pc \in Busy /\ files' = files
        /\ Url(t) \in Sized => files[FinalOf(thr[t].target)] = Whole(Url(t))
    BY <1>0, <1>7 DEF CompleteTaken, Save, ShownInv, Busy
  <2>2. r.name = thr[t].it.name
    BY <1>0 DEF Row
  <2> HIDE DEF r
  <2>3. ASSUME rows' = [rows EXCEPT ![i] = r] PROVE DoneInv(i)'
    <3>1. rows'[i] = r
      BY <1>0, <2>3
    <3>2. ShownName(i)' = Wanted(t) /\ Url(t) = UrlOf[i]
      BY <2>2, <3>1 DEF ShownName, Wanted, Url
    <3>3. UrlOf[i] \in Sized => files[FinalOf(Wanted(t))] = Whole(UrlOf[i])
      <4>1. CASE thr[t].target = Wanted(t)
        BY <2>1, <3>2, <4>1
      <4>2. CASE thr[t].target # Wanted(t)
        <5>1. Exists(files, FinalOf(Wanted(t))) /\ Wanted(t) \in Own[i] /\ Url(t) # NoUrl
          BY <2>1, <4>2, BusyLemma DEF ShownInv
        <5> QED
          BY <1>0, <3>2, <5>1 DEF BodyInv, Exists
      <4> QED
        BY <4>1, <4>2
    <3>4. thr[t].it.name \in OwnOrNone(i)
      BY <2>1, BusyLemma
    <3> QED
      BY <2>1, <2>2, <3>1, <3>2, <3>3, <3>4 DEF DoneInv
  <2> QED
    BY <1>1, <2>1, <2>3
<1>8. CASE Record(t)
  <2> DEFINE r == [thr[t].it EXCEPT !.state = "completed", !.name = thr[t].target]
  <2>1. /\ rows' = [rows EXCEPT ![i] = r] /\ thr[t].pc \in Busy /\ files' = files
        /\ Url(t) \in Sized => files[FinalOf(thr[t].target)] = Whole(Url(t))
    BY <1>0, <1>8 DEF Record, Save, ShownInv, Busy
  <2>2. rows'[i] = r /\ r.name = thr[t].target
    BY <1>0, <2>1 DEF Row
  <2>3. thr[t].target \in Own[i] /\ thr[t].target # NoPath /\ Url(t) = UrlOf[i]
    BY <2>1, BusyLemma
  <2>4. ShownName(i)' = thr[t].target
    BY <2>2, <2>3 DEF ShownName
  <2> QED
    BY <2>1, <2>2, <2>3, <2>4 DEF DoneInv, OwnOrNone
<1>9. CASE ~(Fail(t) \/ Respond(t) \/ Check(t) \/ Chunk(t) \/ CompleteTaken(t) \/ Record(t))
  <2>1. rows' = rows
    BY <1>9 DEF ThreadStep, Load, Prepare, PrepareFail, RequestFail, TakePart, NoSpace, Open,
                EndOfBody, ReadFail, Replace, ReplaceFail, Caught, Sleep, Cleanup
  <2> QED
    BY <1>1, <2>1
<1> QED
  BY <1>3, <1>4, <1>5, <1>6, <1>7, <1>8, <1>9

LEMMA CompletedThread ==
    ASSUME OwnNames, TypeInv, SoloInv, FilesInv, CompletedInv, NEW t \in Threads, ThreadStep(t)
    PROVE  CompletedInv'
<1>0. OneThread
  BY SoloLemma
<1>1. ASSUME NEW j \in Items PROVE DoneInv(j)'
  <2>1. CASE j = thr[t].id
    BY <2>1, DoneOwn DEF CompletedInv
  <2>2. CASE j # thr[t].id
    BY <1>0, <2>2, ThreadFrame, DoneFrame DEF FilesInv, CompletedInv
  <2> QED
    BY <2>1, <2>2
<1>2. ASSUME NEW u \in Threads PROVE ShownInv(u)'
  <2>1. CASE u = t
    BY <1>0, <2>1, ShownOwn DEF CompletedInv
  <2>2. CASE u # t /\ Alive(u)
    <3>1. SameFiles(thr[u].id) /\ thr'[u] = thr[u] /\ ShownInv(u)
      BY <1>0, <2>2, ThreadFrame DEF CompletedInv
    <3> QED
      BY <3>1, ShownFrame
  <2>3. CASE u # t /\ ~Alive(u)
    BY <1>0, <2>3, ThreadFrame DEF ShownInv, Alive, Busy
  <2> QED
    BY <2>1, <2>2, <2>3
<1> QED
  BY <1>1, <1>2 DEF CompletedInv

LEMMA CompletedClient ==
    ASSUME OwnNames, TypeInv, SoloInv, FilesInv, CompletedInv, NEW c \in Clients, ClientStep(c)
    PROVE  CompletedInv'
<1>0. /\ client[c].id \in Items /\ HandlerInv(c) /\ rows \in [Items -> Row \cup {NoRow}]
      /\ thr \in [Threads -> Thread]
      /\ \A i \in Items : NamesInv(i) /\ DoneInv(i)
      /\ \A t \in Threads : ShownInv(t)
  BY DEF TypeInv, TypeOK, SoloInv, FilesInv, CompletedInv, ClientState
<1>1. ASSUME UNCHANGED <<thr, files>> PROVE \A t \in Threads : ShownInv(t)'
  BY <1>0, <1>1 DEF ShownInv, Url, Wanted
<1>2. ASSUME UNCHANGED <<rows, erased, files>> PROVE \A i \in Items : DoneInv(i)'
  BY <1>0, <1>2 DEF DoneInv, ShownName
<1>3. CASE \/ \E i \in Items : Start(c, i) \/ Pause(c, i) \/ Cancel(c, i) \/ Delete(c, i)
           \/ SpawnRefused(c)
  <2>1. UNCHANGED <<rows, erased, thr, files>>
    BY <1>3 DEF Start, Pause, Cancel, Delete, SpawnRefused, past
  <2> QED
    BY <1>1, <1>2, <2>1 DEF CompletedInv
<1>4. CASE MarkWaiting(c) \/ Write(c)
  <2> DEFINE i == client[c].id
             r == client[c].it
  <2>1. /\ rows' = [rows EXCEPT ![i] = r] /\ UNCHANGED <<thr, files, erased>>
        /\ client[c].pc \in {"wait", "write"}
    BY <1>4 DEF MarkWaiting, Write, Save, past
  <2>2. Completed(r) => rows[i] = r
    BY <1>0, <2>1 DEF HandlerInv, Completed
  <2>3. ASSUME NEW j \in Items PROVE DoneInv(j)'
    <3>1. CASE rows'[j] = rows[j]
      BY <1>0, <2>1, <3>1 DEF DoneInv, ShownName
    <3>2. CASE rows'[j] # rows[j]
      <4>1. rows'[j] = r /\ ~Completed(r)
        BY <1>0, <2>1, <2>2, <3>2
      <4> QED
        BY <4>1 DEF DoneInv
    <3> QED
      BY <3>1, <3>2
  <2> QED
    BY <1>1, <2>1, <2>3 DEF CompletedInv
<1>5. CASE Spawn(c)
  <2>1. PICK t \in Threads :
          /\ thr[t].pc = "absent"
          /\ thr' = [thr EXCEPT ![t].pc = "load", ![t].id = client[c].id]
    BY <1>5 DEF Spawn
  <2>2. /\ thr'[t].pc = "load" /\ \A u \in Threads \ {t} : thr'[u] = thr[u]
        /\ UNCHANGED <<rows, erased, files>>
    BY <1>0, <1>5, <2>1 DEF Spawn, past, Thread
  <2>3. ASSUME NEW u \in Threads PROVE ShownInv(u)'
    <3>1. CASE u = t
      BY <2>2, <3>1 DEF ShownInv, Busy
    <3>2. CASE u # t
      BY <1>0, <2>2, <3>2 DEF ShownInv, Url, Wanted
    <3> QED
      BY <3>1, <3>2
  <2> QED
    BY <1>2, <2>2, <2>3 DEF CompletedInv
<1>6. CASE DeleteFiles(c)
  <2> DEFINE i == client[c].id
  <2>1. /\ OnItem(i) = {} /\ erased' = erased \cup {i} /\ UNCHANGED <<rows, thr>>
        /\ \A j \in Items \ {i} : SameFiles(j)
    BY <1>0, <1>6, DeleteEffects DEF DeleteFiles, HandlerInv
  <2>2. ASSUME NEW j \in Items PROVE DoneInv(j)'
    <3>1. CASE j = i
      BY <2>1, <3>1 DEF DoneInv
    <3>2. CASE j # i
      BY <1>0, <2>1, <3>2, DoneFrame
    <3> QED
      BY <3>1, <3>2
  <2>3. ASSUME NEW t \in Threads PROVE ShownInv(t)'
    <3>1. CASE Alive(t)
      <4>1. SameFiles(thr[t].id) /\ thr'[t] = thr[t]
        BY <2>1, <3>1, ThreadLemma DEF OnItem
      <4> QED
        BY <1>0, <4>1, ShownFrame
    <3>2. CASE ~Alive(t)
      BY <2>1, <3>2 DEF ShownInv, Alive, Busy
    <3> QED
      BY <3>1, <3>2
  <2> QED
    BY <2>2, <2>3 DEF CompletedInv
<1>7. CASE DeleteRow(c)
  <2> DEFINE i == client[c].id
  <2>1. /\ rows' = [rows EXCEPT ![i] = NoRow] /\ erased' = erased \ {i}
        /\ UNCHANGED <<thr, files>>
    BY <1>7 DEF DeleteRow
  <2>2. ASSUME NEW j \in Items PROVE DoneInv(j)'
    <3>1. CASE j = i
      BY <1>0, <2>1, <3>1 DEF DoneInv, Completed
    <3>2. CASE j # i
      BY <1>0, <2>1, <3>2 DEF DoneInv, ShownName
    <3> QED
      BY <3>1, <3>2
  <2> QED
    BY <1>1, <2>1, <2>2 DEF CompletedInv
<1> QED
  BY <1>3, <1>4, <1>5, <1>6, <1>7 DEF ClientStep

LEMMA CompletedAdd ==
    ASSUME TypeInv, CompletedInv, NEW i \in Items, AddResult(i)
    PROVE  CompletedInv'
<1>1. PICK known \in BOOLEAN : rows' = [rows EXCEPT ![i] = [FreshRow(i) EXCEPT !.sized = known]]
  BY DEF AddResult, Save
<1> DEFINE r == [FreshRow(i) EXCEPT !.sized = known]
<1>2. ~Completed(r)
  BY DEF FreshRow, Completed
<1>3. UNCHANGED <<erased, thr, files>> /\ rows \in [Items -> Row \cup {NoRow}]
  BY DEF AddResult, TypeInv, TypeOK
<1> HIDE DEF r
<1>4. rows' = [rows EXCEPT ![i] = r]
  BY <1>1 DEF r
<1>5. ASSUME NEW j \in Items PROVE DoneInv(j)'
  <2>1. CASE j = i
    BY <1>2, <1>3, <1>4, <2>1 DEF DoneInv
  <2>2. CASE j # i
    BY <1>3, <1>4, <2>2 DEF CompletedInv, DoneInv, ShownName
  <2> QED
    BY <2>1, <2>2
<1>6. \A t \in Threads : ShownInv(t)'
  BY <1>3 DEF CompletedInv, ShownInv, Url, Wanted
<1> QED
  BY <1>5, <1>6 DEF CompletedInv

LEMMA CompletedRestart == CompletedInv /\ Restart => CompletedInv'
<1> SUFFICES ASSUME CompletedInv, Restart PROVE CompletedInv'
  OBVIOUS
<1>1. UNCHANGED <<rows, erased, files>> /\ \A t \in Threads : thr'[t].pc = "absent"
  BY DEF Restart, past, NoLocals
<1> QED
  BY <1>1 DEF CompletedInv, DoneInv, ShownName, ShownInv, Busy

LEMMA CompletedNext ==
    ASSUME OwnNames, TypeInv, SoloInv, FilesInv, CompletedInv, [Next]_vars
    PROVE  CompletedInv'
<1>1. CASE UNCHANGED vars
  BY <1>1 DEF vars, past, CompletedInv, DoneInv, ShownName, ShownInv, Url, Wanted
<1> QED
  BY <1>1, CompletedThread, CompletedClient, CompletedAdd, CompletedRestart DEF Next

LEMMA CompletedInit == Init => CompletedInv
<1> QED
  BY DEF Init, NoLocals, CompletedInv, DoneInv, Completed, ShownInv, Busy

\* The one handler deletes nothing under a thread.
LEMMA SoloMeasured ==
    ASSUME OwnNames, TypeInv, SoloInv, FilesInv, [Next]_vars
    PROVE  [MeasuredStays]_vars
<1>0. OneThread
  BY SoloLemma
<1> SUFFICES ASSUME Next, NEW t \in Threads, thr[t].pc \in {"request", "open"},
                    thr[t].existing > 0, thr'[t] = thr[t]
             PROVE  Exists(files', Part(t))
  BY DEF MeasuredStays
<1>1. /\ Alive(t) /\ thr[t].id \in Items /\ thr[t].target \in Own[thr[t].id]
      /\ Exists(files, Part(t)) /\ thr \in [Threads -> Thread]
  BY ThreadLemma DEF FilesInv, WorkInv, SizeOrZero, Busy, Alive, TypeInv, TypeOK
<1>2. SameFiles(thr[t].id) \/ files' = files
  <2>1. ASSUME NEW u \in Threads, ThreadStep(u) PROVE SameFiles(thr[t].id)
    <3>1. u # t
      <4>1. SUFFICES ASSUME ThreadStep(t) PROVE FALSE
        BY <2>1
      <4>2. \/ RequestFail(t) \/ TakePart(t) \/ Respond(t) \/ NoSpace(t) \/ Open(t) \/ ReadFail(t)
        BY <4>1 DEF ThreadStep, Load, Prepare, PrepareFail, CompleteTaken, Check, Chunk, EndOfBody,
                    Replace, ReplaceFail, Record, Caught, Fail, Sleep, Cleanup
      <4> QED
        BY <1>1, <4>2 DEF RequestFail, TakePart, Respond, NoSpace, Open, ReadFail, Raise, Goto, Thread
    <3> QED
      BY <1>0, <1>1, <2>1, <3>1, ThreadFrame
  <2>2. ASSUME NEW c \in Clients, ClientStep(c) PROVE SameFiles(thr[t].id) \/ files' = files
    <3>1. CASE DeleteFiles(c)
      <4>1. thr[t].id # client[c].id
        BY <1>1, <3>1 DEF DeleteFiles, SoloInv, HandlerInv, OnItem
      <4> QED
        BY <1>1, <3>1, <4>1, DeleteEffects
    <3>2. CASE ~DeleteFiles(c)
      BY <2>2, <3>2 DEF ClientStep, Start, Pause, Cancel, Delete, MarkWaiting, Spawn, SpawnRefused,
                        Write, DeleteRow
    <3> QED
      BY <3>1, <3>2
  <2>3. ASSUME NEW i \in Items, AddResult(i) PROVE files' = files
    BY <2>3 DEF AddResult
  <2>4. ASSUME Restart PROVE files' = files
    BY <2>4 DEF Restart
  <2> QED
    BY <2>1, <2>2, <2>3, <2>4 DEF Next
<1> QED
  BY <1>1, <1>2 DEF SameFiles, Part, Exists

LEMMA SoloFiles == ASSUME OneHandler, OwnNames PROVE Spec => [](TypeInv /\ SoloInv /\ FilesInv)
<1>1. TypeInv /\ SoloInv /\ FilesInv /\ [Next]_vars => FilesInv'
  BY SoloLemma, SoloMeasured, FilesNext
<1>2. Init => FilesInv
  BY FilesInit
<1> QED
  BY <1>1, <1>2, SoloInvariance, PTL DEF Spec

\* What PartsArePrefixes and FinalsAreWhole suppose of the steps holds with one
\* handler that deletes an item only between its threads (OneHandlerOneThread is the
\* other half): under OneHandler and OwnNames they hold of every behaviour.
THEOREM OneHandlerMeasures ==
    ASSUME OneHandler, OwnNames
    PROVE  Spec => [][MeasuredStays]_vars
<1>1. TypeInv /\ SoloInv /\ FilesInv /\ [Next]_vars => [MeasuredStays]_vars
  BY SoloMeasured
<1> QED
  BY <1>1, SoloFiles, PTL DEF Spec

\* A completed row shows a file that is there and whole, the renamed one included.
\* It supposes one handler, which starts and deletes an item between its threads:
\* what the theorems before it suppose of the steps follows from that.
THEOREM CompletedAreWhole ==
    ASSUME OneHandler, OwnNames
    PROVE  Spec => []CompletedIsWhole
<1>1. TypeInv /\ SoloInv /\ FilesInv /\ CompletedInv /\ [Next]_vars => CompletedInv'
  BY CompletedNext
<1>2. CompletedInv => CompletedIsWhole
  BY DEF CompletedInv, DoneInv, Completed, CompletedIsWhole
<1> QED
  BY <1>1, <1>2, CompletedInit, SoloFiles, PTL DEF Spec

----------------------------------------------------------------------------
(***************************************************************************)
(* Progress: the steps a download thread still has to take.  An attempt    *)
(* goes through the loop at most once per chunk that is left.              *)
(***************************************************************************)
Place(p) == CASE p = "cleanup"                -> 1
              [] p = "sleep"                  -> 2
              [] p = "fail"                   -> 3
              [] p = "caught"                 -> 4
              [] p \in {"record", "complete"} -> 5
              [] p = "replace"                -> 6
              [] p = "read"                   -> 7
              [] p = "check"                  -> 8
              [] p = "open"                   -> 9
              [] p = "request"                -> 10
              [] p = "prepare"                -> 11
              [] p = "load"                   -> 12
              [] OTHER                        -> 0

\* Before the server answered the whole body may be left.
Left(x) ==
    IF x.pc \in {"load", "prepare", "request"} THEN Size
    ELSE IF x.pc \in {"open", "check", "read"} /\ x.it.bytes < Size THEN Size - x.it.bytes
    ELSE 0

\* The attempts after this one, of at most 2 * Size + 11 steps each.
Again(x) == IF x.pc \in {"absent", "ended", "cleanup"} THEN 0 ELSE Retries - 1 - x.attempt

StepsOf(x) == Again(x) * (2 * Size + 10) + 2 * Left(x) + Place(x.pc)

StepsLeft(t) == StepsOf(thr[t])

LEMMA StepsLemma ==
    ASSUME NEW x \in Thread, LocalInv(x)
    PROVE  /\ Again(x) \in 0 .. 2 /\ Left(x) \in 0 .. Size /\ Place(x.pc) \in 0 .. 12
           /\ Again(x) * (2 * Size + 10) \in 0 .. 4 * Size + 20
           /\ StepsOf(x) \in 0 .. 6 * Size + 32
<1>1. x.attempt \in 0 .. Retries /\ x.it.bytes \in Nat /\ Size \in Nat /\ x.pc \in ThreadPc
  BY QueueManagerAssumption DEF Thread, Row
<1>2. Again(x) \in 0 .. 2
  BY <1>1 DEF Again, LocalInv, Retries
<1>3. Left(x) \in 0 .. Size
  BY <1>1 DEF Left
<1>4. Place(x.pc) \in 0 .. 12
  BY <1>1 DEF Place, ThreadPc
<1>5. Again(x) * (2 * Size + 10) \in 0 .. 4 * Size + 20
  <2>1. CASE Again(x) = 0
    BY <1>1, <2>1
  <2>2. CASE Again(x) = 1
    BY <1>1, <2>2
  <2>3. CASE Again(x) = 2
    BY <1>1, <2>3
  <2> QED
    BY <1>2, <2>1, <2>2, <2>3
<1>6. StepsOf(x) \in 0 .. 6 * Size + 32
  BY <1>1, <1>3, <1>4, <1>5 DEF StepsOf
<1> QED
  BY <1>2, <1>3, <1>4, <1>5, <1>6

\* A step of a thread brings it nearer its end: to a later place of the attempt, on
\* by a chunk, or to the next of the attempts that are left.
LEMMA StepsStep ==
    ASSUME TypeInv, NEW t \in Threads, ThreadStep(t)
    PROVE  StepsLeft(t)' < StepsLeft(t)
<1> DEFINE x == thr[t]
           y == thr'[t]
<1>0. /\ thr \in [Threads -> Thread] /\ x \in Thread /\ LocalInv(x) /\ Alive(t)
      /\ x.attempt \in 0 .. Retries /\ x.it \in Row /\ x.it.bytes \in Nat /\ Size \in Nat \ {0}
      /\ x.existing \in Nat
  BY ThreadLemma, RowsStep, QueueManagerAssumption DEF TypeInv, TypeOK, Row
<1>1. y \in Thread /\ LocalInv(y)
  <2>1. PICK z \in Thread : thr' = [thr EXCEPT ![t] = z] /\ LocalInv(z)
    BY LocalsStep
  <2> QED
    BY <1>0, <2>1
<1>2. SUFFICES StepsOf(y) < StepsOf(x)
  BY DEF StepsLeft
<1>3. ASSUME y.attempt = x.attempt, y.pc \notin {"absent", "ended", "cleanup"}, x.pc # "cleanup",
             2 * Left(y) + Place(y.pc) < 2 * Left(x) + Place(x.pc)
      PROVE  StepsOf(y) < StepsOf(x)
  <2>1. Again(y) = Again(x)
    BY <1>0, <1>3 DEF Again, Alive
  <2> DEFINE a == Again(x) * (2 * Size + 10)
  <2>2. a \in Nat /\ Left(x) \in Nat /\ Left(y) \in Nat /\ Place(x.pc) \in Nat /\ Place(y.pc) \in Nat
    BY <1>0, <1>1, StepsLemma
  <2>3. StepsOf(x) = a + 2 * Left(x) + Place(x.pc) /\ StepsOf(y) = a + 2 * Left(y) + Place(y.pc)
    BY <2>1 DEF StepsOf
  <2> HIDE DEF a
  <2> QED
    BY <1>3, <2>2, <2>3
<1>4. ASSUME y.pc = "ended" PROVE StepsOf(y) < StepsOf(x)
  <2>1. Again(y) = 0 /\ Left(y) = 0 /\ Place(y.pc) = 0
    BY <1>4 DEF Again, Left, Place
  <2>2. Place(x.pc) >= 1
    BY <1>0 DEF Place, Alive, Thread, ThreadPc
  <2>3. StepsOf(x) \in Nat /\ StepsOf(x) >= 1
    <3> DEFINE a == Again(x) * (2 * Size + 10)
    <3>1. a \in Nat /\ Left(x) \in Nat /\ Place(x.pc) \in Nat
      BY <1>0, StepsLemma
    <3> HIDE DEF a
    <3>2. StepsOf(x) = a + 2 * Left(x) + Place(x.pc)
      BY DEF a, StepsOf
    <3> QED
      BY <2>2, <3>1, <3>2
  <2>4. StepsOf(y) = 0
    BY <1>0, <2>1 DEF StepsOf
  <2> QED
    BY <2>3, <2>4
<1>5. ASSUME Ended(t) PROVE y.pc = "ended"
  BY <1>0, <1>5 DEF Ended, NoLocals
<1>6. ASSUME NEW where, Goto(t, where)
      PROVE  y.pc = where /\ y.it = x.it /\ y.attempt = x.attempt
  BY <1>0, <1>6 DEF Goto, Thread
<1>7. CASE Load(t) \/ Caught(t)
  <2>1. CASE Ended(t)
    BY <1>4, <1>5, <2>1
  <2>2. CASE thr' = [thr EXCEPT ![t].pc = "prepare", ![t].it = rows[x.id]] /\ x.pc = "load"
    <3>1. y.pc = "prepare" /\ y.attempt = x.attempt
      BY <1>0, <2>2 DEF Thread
    <3> QED
      BY <1>0, <1>3, <2>2, <3>1 DEF Left, Place
  <2>3. CASE thr' = [thr EXCEPT ![t].pc = "fail", ![t].it = rows[x.id]] /\ x.pc = "caught"
    <3>1. y.pc = "fail" /\ y.attempt = x.attempt
      BY <1>0, <2>3 DEF Thread
    <3> QED
      BY <1>0, <1>3, <2>3, <3>1 DEF Left, Place
  <2> QED
    BY <1>7, <2>1, <2>2, <2>3 DEF Load, Caught
<1>8. CASE Fail(t)
  <2>1. x.pc = "fail" /\ y.pc = "sleep" /\ y.attempt = x.attempt
    BY <1>0, <1>8 DEF Fail, Thread
  <2> QED
    BY <1>0, <1>3, <2>1 DEF Left, Place
<1>9. CASE Sleep(t)
  <2> DEFINE n == x.attempt + 1
  <2>1. /\ x.pc = "sleep" /\ x.attempt \in 0 .. 2 /\ y.attempt = n
        /\ y.pc = IF n < Retries THEN "prepare" ELSE "cleanup"
    BY <1>0, <1>9 DEF Sleep, Thread, LocalInv, Retries
  <2>2. /\ Left(x) = 0 /\ Place(x.pc) = 2 /\ Again(x) = 2 - x.attempt
    BY <2>1 DEF Left, Place, Again, Retries
  <2>3. CASE x.attempt = 2
    <3>1. y.pc = "cleanup"
      BY <2>1, <2>3 DEF Retries
    <3>2. Again(y) = 0 /\ Left(y) = 0 /\ Place(y.pc) = 1
      BY <3>1 DEF Again, Left, Place
    <3> QED
      BY <1>0, <2>2, <2>3, <3>2 DEF StepsOf
  <2>4. CASE x.attempt \in {0, 1}
    <3>1. y.pc = "prepare"
      BY <2>1, <2>4 DEF Retries
    <3>2. Again(y) = 1 - x.attempt /\ Left(y) = Size /\ Place(y.pc) = 11
      BY <2>1, <2>4, <3>1 DEF Again, Left, Place, Retries
    <3>3. CASE x.attempt = 0
      BY <1>0, <2>2, <3>2, <3>3 DEF StepsOf
    <3>4. CASE x.attempt = 1
      BY <1>0, <2>2, <3>2, <3>4 DEF StepsOf
    <3> QED
      BY <2>4, <3>3, <3>4
  <2> QED
    BY <2>1, <2>3, <2>4
<1>10. CASE Cleanup(t)
  BY <1>4, <1>5, <1>10 DEF Cleanup
<1>11. CASE Prepare(t)
  <2>1. x.pc = "prepare" /\ y.pc = "request" /\ y.attempt = x.attempt
    BY <1>0, <1>11 DEF Prepare, Thread
  <2> QED
    BY <1>0, <1>3, <2>1 DEF Left, Place
<1>12. CASE PrepareFail(t) \/ RequestFail(t) \/ NoSpace(t) \/ ReadFail(t) \/ ReplaceFail(t)
  <2>1. /\ x.pc \in {"prepare", "request", "open", "read", "replace"} /\ y.pc = "caught"
        /\ y.attempt = x.attempt
    BY <1>6, <1>12 DEF PrepareFail, RequestFail, NoSpace, ReadFail, ReplaceFail, Raise
  <2>2. Left(x) \in Nat /\ Left(y) = 0 /\ Place(y.pc) = 4 /\ Place(x.pc) > 4 /\ Place(x.pc) \in Nat
    BY <1>0, <2>1 DEF Left, Place
  <2> QED
    BY <1>3, <2>1, <2>2
<1>13. CASE TakePart(t) \/ Replace(t)
  <2>1. /\ \/ x.pc = "request" /\ y.pc = "complete"
           \/ x.pc = "replace" /\ y.pc = "record"
        /\ y.attempt = x.attempt
    BY <1>6, <1>13 DEF TakePart, Replace
  <2>2. Left(x) \in Nat /\ Left(y) = 0 /\ Place(y.pc) = 5 /\ Place(x.pc) > 5 /\ Place(x.pc) \in Nat
    BY <1>0, <2>1 DEF Left, Place
  <2> QED
    BY <1>3, <2>1, <2>2
<1>14. CASE CompleteTaken(t)
  <2>1. CASE Ended(t)
    BY <1>4, <1>5, <2>1
  <2>2. CASE Raise(t)
    <3>1. x.pc = "complete" /\ y.pc = "caught" /\ y.attempt = x.attempt
      BY <1>6, <1>14, <2>2 DEF CompleteTaken, Raise
    <3> QED
      BY <1>0, <1>3, <3>1 DEF Left, Place
  <2> QED
    BY <1>14, <2>1, <2>2 DEF CompleteTaken
<1>15. CASE Respond(t)
  <2>1. x.pc = "request" /\ y.pc = "open" /\ y.attempt = x.attempt
    BY <1>0, <1>15 DEF Respond, Thread
  <2>2. Left(x) = Size /\ Left(y) \in 0 .. Size /\ Place(x.pc) = 10 /\ Place(y.pc) = 9
    BY <1>1, <2>1, StepsLemma DEF Left, Place
  <2> QED
    BY <1>0, <1>3, <2>1, <2>2
<1>16. CASE Open(t)
  <2>1. x.pc = "open" /\ y.pc = "check" /\ y.it = x.it /\ y.attempt = x.attempt
    BY <1>6, <1>16 DEF Open
  <2> QED
    BY <1>0, <1>3, <2>1 DEF Left, Place
<1>17. CASE Check(t)
  <2>1. CASE Ended(t)
    BY <1>4, <1>5, <2>1
  <2>2. CASE Goto(t, "read")
    <3>1. x.pc = "check" /\ y.pc = "read" /\ y.it = x.it /\ y.attempt = x.attempt
      BY <1>6, <1>17, <2>2 DEF Check
    <3> QED
      BY <1>0, <1>3, <3>1 DEF Left, Place
  <2> QED
    BY <1>17, <2>1, <2>2 DEF Check, Settle
<1>18. CASE Chunk(t)
  <2> DEFINE it == [x.it EXCEPT !.bytes = x.it.bytes + 1]
  <2>1. /\ x.pc = "read" /\ x.it.bytes < Size /\ y.pc = "check" /\ y.it = it
        /\ y.attempt = x.attempt
    BY <1>0, <1>18 DEF Chunk, Thread
  <2>2. it.bytes = x.it.bytes + 1
    BY <1>0 DEF Row
  <2>3. y.it.bytes = x.it.bytes + 1
    BY <2>1, <2>2
  <2>4. Left(x) = Size - x.it.bytes /\ Left(y) = Size - x.it.bytes - 1
    BY <1>0, <2>1, <2>3 DEF Left
  <2>5. Place(x.pc) = 7 /\ Place(y.pc) = 8
    BY <2>1 DEF Place
  <2> QED
    BY <1>0, <1>3, <2>1, <2>4, <2>5
<1>19. CASE EndOfBody(t)
  <2>1. x.pc = "read" /\ y.pc \in {"caught", "replace"} /\ y.attempt = x.attempt
    BY <1>6, <1>19 DEF EndOfBody
  <2>2. Left(x) \in Nat /\ Left(y) = 0 /\ Place(x.pc) = 7 /\ Place(y.pc) \in {4, 6}
    BY <1>0, <2>1 DEF Left, Place
  <2> QED
    BY <1>3, <2>1, <2>2
<1>20. CASE Record(t)
  BY <1>4, <1>5, <1>20 DEF Record
<1> QED
  BY <1>7, <1>8, <1>9, <1>10, <1>11, <1>12, <1>13, <1>14, <1>15, <1>16, <1>17, <1>18, <1>19,
     <1>20 DEF ThreadStep

LEMMA StepsKept ==
    ASSUME TypeInv, [Next]_vars, NEW t \in Threads, Alive(t), ~ThreadStep(t)
    PROVE  StepsLeft(t)' <= StepsLeft(t)
<1>0. /\ thr[t] \in Thread /\ LocalInv(thr[t]) /\ thr \in [Threads -> Thread]
      /\ StepsOf(thr[t]) \in Nat
  BY ThreadLemma, StepsLemma, QueueManagerAssumption DEF TypeInv, TypeOK
<1>1. ASSUME thr'[t] = thr[t] PROVE StepsLeft(t)' <= StepsLeft(t)
  BY <1>0, <1>1 DEF StepsLeft
<1>2. ASSUME NEW u \in Threads, ThreadStep(u) PROVE thr'[t] = thr[t]
  BY <1>0, <1>2, LocalsStep
<1>3. ASSUME NEW c \in Clients, ClientStep(c) PROVE thr'[t] = thr[t]
  <2>1. CASE Spawn(c)
    BY <1>0, <2>1 DEF Spawn, Alive
  <2>2. CASE ~Spawn(c)
    BY <1>3, <2>2 DEF ClientStep, Start, Pause, Cancel, Delete, MarkWaiting, SpawnRefused, Write,
                      DeleteFiles, DeleteRow
  <2> QED
    BY <2>1, <2>2
<1>4. CASE Restart
  <2>1. thr'[t].pc = "absent"
    BY <1>4 DEF Restart, NoLocals
  <2>2. StepsOf(thr'[t]) = 0
    BY <2>1, QueueManagerAssumption DEF StepsOf, Again, Left, Place
  <2> QED
    BY <1>0, <2>2 DEF StepsLeft
<1>5. ASSUME NEW i \in Items, AddResult(i) PROVE thr'[t] = thr[t]
  BY <1>5 DEF AddResult
<1>6. CASE UNCHANGED vars
  BY <1>1, <1>6 DEF vars
<1> QED
  BY <1>1, <1>2, <1>3, <1>4, <1>5, <1>6 DEF Next

\* A download thread is through after at most 6 * Size + 32 steps of its own,
\* whatever the server and the files do to its attempts, and whatever handlers and
\* other threads, of its own item too, do meanwhile: each of its steps brings it
\* nearer, no other step takes it back.  (That it keeps taking steps is the fairness
\* of FairSpec.)
THEOREM ThreadsReturn ==
    Spec => /\ [](\A t \in Threads : StepsLeft(t) \in 0 .. 6 * Size + 32)
            /\ [][\A t \in Threads :
                     /\ ThreadStep(t) => StepsLeft(t)' < StepsLeft(t)
                     /\ Alive(t) /\ ~ThreadStep(t) => StepsLeft(t)' <= StepsLeft(t)]_vars
<1>1. TypeInv => \A t \in Threads : StepsLeft(t) \in 0 .. 6 * Size + 32
  BY ThreadLemma, StepsLemma DEF StepsLeft
<1>2. TypeInv /\ [Next]_vars
      => [\A t \in Threads :
             /\ ThreadStep(t) => StepsLeft(t)' < StepsLeft(t)
             /\ Alive(t) /\ ~ThreadStep(t) => StepsLeft(t)' <= StepsLeft(t)]_vars
  BY StepsStep, StepsKept
<1> QED
  BY <1>1, <1>2, TypeInvariance, PTL DEF Spec
==============================================================================
