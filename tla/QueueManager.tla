----------------------------- MODULE QueueManager -----------------------------
(***************************************************************************)
(* The queue of the PC build (src/ps5_downloader/core): QueueManager, whose *)
(* methods run in the HTTP server's handler threads, one DownloadEngine     *)
(* thread per start, and the sqlite table through which alone they see each *)
(* other's progress.  Every update_download writes the whole row from the   *)
(* caller's own copy of the item.                                           *)
(*                                                                         *)
(* An action is one call of the storage or of the file system with the     *)
(* local computation around it.  A chunk is one read of 128 KiB.  Out of   *)
(* the model: speed, eta, error texts, created_at, changes of directories. *)
(***************************************************************************)
EXTENDS FileStore, FiniteSets

CONSTANTS Items,         \* download ids
          UrlOf,         \* the resolved URL of each item, or NoUrl
          NoUrl,         \* resolved_url is None
          NameOf,        \* filename_from_url
          Named,         \* items whose plugin gave a filename (NameOf of the URL)
          Renames,       \* a name, then "stem (1).ext", "stem (2).ext", ...
          Modes,         \* the values conflict_behavior takes
          Sized,         \* URLs whose server sends Content-Length
          Ranged,        \* URLs whose server answers Range requests with 206
          Size,          \* chunks in the body of every URL
          MaxConcurrent, \* settings.max_concurrent_downloads
          Threads,       \* identities for the threads ever started: bounds the starts
          Clients,       \* concurrent HTTP handler threads
          SoloUsers,     \* clients start or delete an item only between its threads
          Workloads      \* bound: the items added, the kinds and number of requests
                         \* and of failed connections, opens, reads and renames

Ops  == {"start", "pause", "cancel", "delete", "restart"}
Workload == [items : SUBSET Items, menu : SUBSET Ops, ops : Nat, faults : Nat]

Urls == {UrlOf[i] : i \in Items} \ {NoUrl}

ASSUME QueueManagerAssumption ==
    /\ Items # {}
    /\ \A i \in Items \cap Named : UrlOf[i] # NoUrl
    /\ NoUrl \notin Sized
    /\ \A u \in Urls : NameOf[u] \in Paths
    /\ \A p \in Paths : Renames[p] \in Seq(Paths) /\ Renames[p] # <<>> /\ Renames[p][1] = p
    /\ Modes \subseteq {"auto-rename", "overwrite", "skip"}
    /\ Size \in Nat \ {0}
    /\ MaxConcurrent \in Nat \ {0}
    /\ SoloUsers \in BOOLEAN
    /\ Workloads \subseteq Workload

VARIABLES rows,    \* the table downloads
          added,   \* ids handed out so far
          erased,  \* history: items whose files delete removed, but not yet their row
          handle,  \* the thread whose events are in _stops and _pauses
          stops,   \* the stop event of each thread
          pauses,  \* the pause event of each thread
          thr,     \* each thread's locals in _run and download
          fd,      \* the .part file each thread has open
          client,  \* each handler thread's locals in a QueueManager method
          files,   \* temp_dir (.part files) and download_dir (final files)
          budget   \* what is left of the workload

events == <<handle, stops, pauses>>
past   == <<added, erased>>
vars   == <<rows, past, events, thr, fd, client, files, budget>>

(***************************************************************************)
(* Types                                                                   *)
(***************************************************************************)
States == {"waiting", "downloading", "paused", "completed", "failed",
           "manual-action-required", "cancelled"}

NoRow == [state |-> "none"]
Row   == [state : States, name : PathValues, bytes : Nat, sized : BOOLEAN]
FreshRow(i) == [state |-> IF UrlOf[i] = NoUrl THEN "manual-action-required" ELSE "waiting",
                name  |-> IF i \in Named THEN NameOf[UrlOf[i]] ELSE NoPath,
                bytes |-> 0,
                sized |-> FALSE]
AnyItem == CHOOSE i \in Items : TRUE

NoThread == "none"
Retries  == 3

ThreadPc == {"absent", "load", "prepare", "request", "complete", "open", "check",
             "read", "replace", "record", "caught", "fail", "sleep", "cleanup",
             "ended"}
Thread == [pc : ThreadPc, id : Items, it : Row, target : PathValues,
           existing : Nat, attempt : 0 .. Retries]
NoLocals == [pc |-> "absent", id |-> AnyItem, it |-> FreshRow(AnyItem),
             target |-> NoPath, existing |-> 0, attempt |-> 0]

ClientState == [pc : {"idle", "wait", "spawn", "write", "unlink", "remove"},
                id : Items, it : Row]
Idle == [pc |-> "idle", id |-> AnyItem, it |-> FreshRow(AnyItem)]

Chunks   == (Urls \X (1 .. Size)) \cup {Hole}
Contents == Seq(Chunks) \cup {NoFile}

ASSUME ContentAssumption == NoFile \notin Seq(Chunks) /\ Detached \notin FileNames

TypeOK ==
    /\ rows \in [Items -> Row \cup {NoRow}]
    /\ added \subseteq Items
    /\ erased \subseteq added
    /\ handle \in [Items -> Threads \cup {NoThread}]
    /\ stops \in [Threads -> BOOLEAN]
    /\ pauses \in [Threads -> BOOLEAN]
    /\ thr \in [Threads -> Thread]
    /\ fd \in [Threads -> FileNames \cup {Detached}]
    /\ client \in [Clients -> ClientState]
    /\ files \in [FileNames -> Contents]
    /\ budget \in Workload

Init ==
    /\ rows = [i \in Items |-> NoRow]
    /\ added = {}
    /\ erased = {}
    /\ handle = [i \in Items |-> NoThread]
    /\ stops = [t \in Threads |-> FALSE]
    /\ pauses = [t \in Threads |-> FALSE]
    /\ thr = [t \in Threads |-> NoLocals]
    /\ fd = [t \in Threads |-> Detached]
    /\ client = [c \in Clients |-> Idle]
    /\ files = [n \in FileNames |-> NoFile]
    /\ budget \in Workloads

Spend(b) == /\ budget[b] > 0
            /\ budget' = [budget EXCEPT ![b] = @ - 1]

Alive(t)  == thr[t].pc \notin {"absent", "ended"}
OnItem(i) == {t \in Threads : Alive(t) /\ thr[t].id = i}

\* update_download: insert or replace, from the writer's copy.
Save(i, row) == rows' = [rows EXCEPT ![i] = row]

Goto(t, where) == thr' = [thr EXCEPT ![t].pc = where]
Raise(t)       == Goto(t, "caught")
Closed(t)      == fd' = [fd EXCEPT ![t] = Detached]
Ended(t)       == thr' = [thr EXCEPT ![t] = [NoLocals EXCEPT !.pc = "ended"]]

Url(t)  == UrlOf[thr[t].id]
Part(t) == PartOf(thr[t].target)

(***************************************************************************)
(* _run                                                                    *)
(***************************************************************************)
\* _require outside the try block: for a deleted item the thread dies.
Load(t) ==
    LET i == thr[t].id
    IN  /\ thr[t].pc = "load"
        /\ IF rows[i] = NoRow THEN Ended(t)
           ELSE thr' = [thr EXCEPT ![t].pc = "prepare", ![t].it = rows[i]]
        /\ UNCHANGED <<rows, past, events, fd, client, files, budget>>

\* The except clause looks at the row again, in case a client settled it.
Caught(t) ==
    LET i == thr[t].id
    IN  /\ thr[t].pc = "caught"
        /\ IF rows[i] = NoRow \/ rows[i].state \in {"paused", "cancelled"} THEN Ended(t)
           ELSE thr' = [thr EXCEPT ![t].pc = "fail", ![t].it = rows[i]]
        /\ UNCHANGED <<rows, past, events, fd, client, files, budget>>

Fail(t) ==
    LET failed == [thr[t].it EXCEPT !.state = "failed"]
    IN  /\ thr[t].pc = "fail"
        /\ Save(thr[t].id, failed)
        /\ thr' = [thr EXCEPT ![t].pc = "sleep", ![t].it = failed]
        /\ UNCHANGED <<past, events, fd, client, files, budget>>

\* Mutants: one attempt too many; the loop never counts.
SleepOnceMore(t) ==
    LET n == thr[t].attempt + 1
    IN  /\ thr[t].pc = "sleep"
        /\ thr' = [thr EXCEPT ![t].attempt = n,
                              ![t].pc = IF n <= Retries THEN "prepare" ELSE "cleanup"]
        /\ UNCHANGED <<rows, past, events, fd, client, files, budget>>

SleepForever(t) ==
    /\ thr[t].pc = "sleep"
    /\ Goto(t, "prepare")
    /\ UNCHANGED <<rows, past, events, fd, client, files, budget>>

Sleep(t) ==
    LET n == thr[t].attempt + 1
    IN  /\ thr[t].pc = "sleep"
        /\ thr' = [thr EXCEPT ![t].attempt = n,
                              ![t].pc = IF n < Retries THEN "prepare" ELSE "cleanup"]
        /\ UNCHANGED <<rows, past, events, fd, client, files, budget>>

\* Only a thread that used up its retries forgets the events of its item, be
\* they its own or those of a thread started since; return leaves them.
Cleanup(t) ==
    /\ thr[t].pc = "cleanup"
    /\ handle' = [handle EXCEPT ![thr[t].id] = NoThread]
    /\ Ended(t)
    /\ UNCHANGED <<rows, past, stops, pauses, fd, client, files, budget>>

(***************************************************************************)
(* DownloadEngine.download                                                 *)
(***************************************************************************)
FirstFree(p) ==
    LET free == {k \in DOMAIN Renames[p] : ~Exists(files, FinalOf(Renames[p][k]))}
    IN  {Renames[p][k] : k \in {j \in free : \A m \in free : j <= m}}

\* _target_path
Targets(p, mode) ==
    CASE mode = "overwrite"   -> {p}
      [] mode = "skip"        -> IF Exists(files, FinalOf(p)) THEN {} ELSE {p}
      [] mode = "auto-rename" -> FirstFree(p)

Wanted(t) == IF thr[t].it.name = NoPath THEN NameOf[Url(t)] ELSE thr[t].it.name

Prepare(t) ==
    /\ thr[t].pc = "prepare"
    /\ Url(t) # NoUrl
    /\ \E mode \in Modes : \E p \in Targets(Wanted(t), mode) :
          thr' = [thr EXCEPT ![t].pc = "request", ![t].target = p,
                             ![t].existing = SizeOrZero(files, PartOf(p))]
    /\ UNCHANGED <<rows, past, events, fd, client, files, budget>>

\* No resolved URL, or the target exists and is to be skipped.
PrepareFail(t) ==
    /\ thr[t].pc = "prepare"
    /\ \/ Url(t) = NoUrl
       \/ Url(t) # NoUrl /\ "skip" \in Modes /\ Targets(Wanted(t), "skip") = {}
    /\ Raise(t)
    /\ UNCHANGED <<rows, past, events, fd, client, files, budget>>

PastEnd(t) == thr[t].existing >= Size /\ Url(t) \in Ranged   \* 416

RequestFail(t) ==
    /\ thr[t].pc = "request"
    /\ \/ Spend("faults")
       \/ PastEnd(t) /\ ~Exists(files, Part(t)) /\ UNCHANGED budget
    /\ Raise(t)
    /\ UNCHANGED <<rows, past, events, fd, client, files>>

\* Mutant: any HTTP error ends like 416 does.
TakePartOnError(t) ==
    /\ thr[t].pc = "request"
    /\ Exists(files, Part(t))
    /\ files' = Renamed(files, Part(t), FinalOf(thr[t].target))
    /\ fd' = AfterRename(fd, Part(t), FinalOf(thr[t].target))
    /\ Goto(t, "complete")
    /\ UNCHANGED <<rows, past, events, client, budget>>

\* 416: what is there is taken for the whole file.
TakePart(t) ==
    /\ thr[t].pc = "request"
    /\ PastEnd(t)
    /\ Exists(files, Part(t))
    /\ files' = Renamed(files, Part(t), FinalOf(thr[t].target))
    /\ fd' = AfterRename(fd, Part(t), FinalOf(thr[t].target))
    /\ Goto(t, "complete")
    /\ UNCHANGED <<rows, past, events, client, budget>>

\* Here the item keeps the file name it had.
CompleteTaken(t) ==
    LET final == FinalOf(thr[t].target)
        done  == [thr[t].it EXCEPT !.state = "completed", !.bytes = SizeOrZero(files, final)]
    IN  /\ thr[t].pc = "complete"
        /\ IF Exists(files, final)
           THEN Save(thr[t].id, done) /\ Ended(t)
           ELSE Raise(t) /\ UNCHANGED rows
        /\ UNCHANGED <<past, events, fd, client, files, budget>>

\* 206 continues the .part file; 200 throws it away and starts over.
Kept(t) == IF Url(t) \in Ranged THEN thr[t].existing ELSE 0

Discards(t) == thr[t].existing > 0 /\ Url(t) \notin Ranged

Discarding(t) ==
    /\ files' = IF Discards(t) THEN Unlinked(files, Part(t)) ELSE files
    /\ fd' = IF Discards(t) THEN AfterUnlink(fd, Part(t)) ELSE fd

\* Mutant: a refused range leaves existing as it was.
RespondAppending(t) ==
    LET started == [thr[t].it EXCEPT !.state = "downloading", !.bytes = thr[t].existing,
                                     !.sized = @ \/ Url(t) \in Sized]
    IN  /\ thr[t].pc = "request"
        /\ ~PastEnd(t)
        /\ Save(thr[t].id, started)
        /\ thr' = [thr EXCEPT ![t].pc = "open", ![t].it = started]
        /\ UNCHANGED <<past, events, fd, client, files, budget>>

Respond(t) ==
    LET started == [thr[t].it EXCEPT !.state = "downloading", !.bytes = Kept(t),
                                     !.sized = @ \/ Url(t) \in Sized]
    IN  /\ thr[t].pc = "request"
        /\ ~PastEnd(t)
        /\ Discarding(t)
        /\ Save(thr[t].id, started)
        /\ thr' = [thr EXCEPT ![t].pc = "open", ![t].it = started, ![t].existing = Kept(t)]
        /\ UNCHANGED <<past, events, client, budget>>

NoSpace(t) ==
    /\ thr[t].pc = "request"
    /\ ~PastEnd(t)
    /\ Spend("faults")
    /\ Discarding(t)
    /\ Raise(t)
    /\ UNCHANGED <<rows, past, events, client>>

\* "ab" or "wb"
Open(t) ==
    /\ thr[t].pc = "open"
    /\ files' = Opened(files, Part(t), thr[t].existing > 0)
    /\ fd' = [fd EXCEPT ![t] = Part(t)]
    /\ Goto(t, "check")
    /\ UNCHANGED <<rows, past, events, client, budget>>

Settle(t, state) ==
    /\ Save(thr[t].id, [thr[t].it EXCEPT !.state = state])
    /\ Closed(t)
    /\ Ended(t)

\* Mutant: a paused download returns without saving the item.
CheckSilent(t) ==
    /\ thr[t].pc = "check"
    /\ \/ stops[t] /\ Settle(t, "cancelled")
       \/ ~stops[t] /\ pauses[t] /\ Closed(t) /\ Ended(t) /\ UNCHANGED rows
       \/ ~stops[t] /\ ~pauses[t] /\ Goto(t, "read") /\ UNCHANGED <<rows, fd>>
    /\ UNCHANGED <<past, events, client, files, budget>>

\* The events are polled before every read; a stop wins.
Check(t) ==
    /\ thr[t].pc = "check"
    /\ \/ stops[t] /\ Settle(t, "cancelled")
       \/ ~stops[t] /\ pauses[t] /\ Settle(t, "paused")
       \/ ~stops[t] /\ ~pauses[t] /\ Goto(t, "read") /\ UNCHANGED <<rows, fd>>
    /\ UNCHANGED <<past, events, client, files, budget>>

\* The number of the chunk a server sends after n: 206 goes on where the Range
\* request said, 200 began at the beginning.
Sent(t, n) == IF Url(t) \in Ranged THEN n + 1 ELSE n + 1 - thr[t].existing

\* The row follows the transfer at most every half second.
Chunk(t) ==
    LET n    == thr[t].it.bytes
        more == [thr[t].it EXCEPT !.bytes = n + 1]
    IN  /\ thr[t].pc = "read"
        /\ n < Size
        /\ files' = Written(files, fd[t], thr[t].existing > 0, n, <<Url(t), Sent(t, n)>>)
        /\ thr' = [thr EXCEPT ![t].pc = "check", ![t].it = more]
        /\ Save(thr[t].id, more) \/ UNCHANGED rows
        /\ UNCHANGED <<past, events, fd, client, budget>>

\* Mutant: the byte count is not compared.
EndOfBodyUncounted(t) ==
    /\ thr[t].pc = "read"
    /\ \/ thr[t].it.bytes >= Size /\ UNCHANGED budget
       \/ thr[t].it.bytes < Size /\ Spend("faults")
    /\ Goto(t, "replace")
    /\ Closed(t)
    /\ UNCHANGED <<rows, past, events, client, files>>

\* The server closes, after the whole body or early.
EndOfBody(t) ==
    LET short == thr[t].it.sized /\ thr[t].it.bytes < Size
    IN  /\ thr[t].pc = "read"
        /\ \/ thr[t].it.bytes >= Size /\ UNCHANGED budget
           \/ thr[t].it.bytes < Size /\ Spend("faults")
        /\ Goto(t, IF short THEN "caught" ELSE "replace")
        /\ Closed(t)
        /\ UNCHANGED <<rows, past, events, client, files>>

ReadFail(t) ==
    /\ thr[t].pc \in {"open", "read"}
    /\ Spend("faults")
    /\ Raise(t)
    /\ Closed(t)
    /\ UNCHANGED <<rows, past, events, client, files>>

Replace(t) ==
    /\ thr[t].pc = "replace"
    /\ Exists(files, Part(t))
    /\ files' = Renamed(files, Part(t), FinalOf(thr[t].target))
    /\ fd' = AfterRename(fd, Part(t), FinalOf(thr[t].target))
    /\ Goto(t, "record")
    /\ UNCHANGED <<rows, past, events, client, budget>>

\* The part file is gone, or temp_dir and download_dir are on two file systems.
ReplaceFail(t) ==
    /\ thr[t].pc = "replace"
    /\ \/ Spend("faults")
       \/ ~Exists(files, Part(t)) /\ UNCHANGED budget
    /\ Raise(t)
    /\ UNCHANGED <<rows, past, events, fd, client, files>>

Record(t) ==
    /\ thr[t].pc = "record"
    /\ Save(thr[t].id, [thr[t].it EXCEPT !.state = "completed", !.name = thr[t].target])
    /\ Ended(t)
    /\ UNCHANGED <<past, events, fd, client, files, budget>>

ThreadStep(t) ==
    \/ Load(t) \/ Prepare(t) \/ PrepareFail(t) \/ RequestFail(t) \/ TakePart(t)
    \/ CompleteTaken(t) \/ Respond(t) \/ NoSpace(t) \/ Open(t) \/ Check(t)
    \/ Chunk(t) \/ EndOfBody(t) \/ ReadFail(t) \/ Replace(t) \/ ReplaceFail(t)
    \/ Record(t) \/ Caught(t) \/ Fail(t) \/ Sleep(t) \/ Cleanup(t)

(***************************************************************************)
(* Handler threads                                                         *)
(***************************************************************************)
Request(c, op) ==
    /\ client[c].pc = "idle"
    /\ op \in budget.menu
    /\ Spend("ops")

Then(c, where, i, row) ==
    client' = [client EXCEPT ![c] = [pc |-> where, id |-> i, it |-> row]]

\* add_result; an id is a fresh uuid, the plugin may know the size.
AddResult(i) ==
    /\ i \in budget.items \ added
    /\ \E known \in BOOLEAN : Save(i, [FreshRow(i) EXCEPT !.sized = known])
    /\ added' = added \cup {i}
    /\ UNCHANGED <<erased, events, thr, fd, client, files, budget>>

\* start and resume: the row is read, written and only then are the running
\* downloads counted, from the rows.
Start(c, i) ==
    /\ Request(c, "start")
    /\ rows[i] # NoRow /\ rows[i].state # "downloading"
    /\ SoloUsers => OnItem(i) = {}
    /\ Then(c, "wait", i, [rows[i] EXCEPT !.state = "waiting"])
    /\ UNCHANGED <<rows, past, events, thr, fd, files>>

MarkWaiting(c) ==
    /\ client[c].pc = "wait"
    /\ Save(client[c].id, client[c].it)
    /\ Then(c, "spawn", client[c].id, client[c].it)
    /\ UNCHANGED <<past, events, thr, fd, files, budget>>

RunningRows == {i \in Items : rows[i] # NoRow /\ rows[i].state = "downloading"}

\* Mutant: the new thread's events are not put into the dicts.
SpawnUnregistered(c) ==
    /\ client[c].pc = "spawn"
    /\ Cardinality(RunningRows) < MaxConcurrent
    /\ \E t \in Threads :
          /\ thr[t].pc = "absent"
          /\ thr' = [thr EXCEPT ![t].pc = "load", ![t].id = client[c].id]
    /\ client' = [client EXCEPT ![c] = Idle]
    /\ UNCHANGED <<rows, past, events, fd, files, budget>>

Spawn(c) ==
    /\ client[c].pc = "spawn"
    /\ Cardinality(RunningRows) < MaxConcurrent
    /\ \E t \in Threads :
          /\ thr[t].pc = "absent"
          /\ thr' = [thr EXCEPT ![t].pc = "load", ![t].id = client[c].id]
          /\ handle' = [handle EXCEPT ![client[c].id] = t]
    /\ client' = [client EXCEPT ![c] = Idle]
    /\ UNCHANGED <<rows, past, stops, pauses, fd, files, budget>>

\* The item stays waiting; nothing starts it later but another request.
SpawnRefused(c) ==
    /\ client[c].pc = "spawn"
    /\ Cardinality(RunningRows) >= MaxConcurrent
    /\ client' = [client EXCEPT ![c] = Idle]
    /\ UNCHANGED <<rows, past, events, thr, fd, files, budget>>

\* With events in the dict, even those of a thread that returned long ago,
\* pause only sets the event; otherwise the row is written.
Pause(c, i) ==
    /\ Request(c, "pause")
    /\ rows[i] # NoRow
    /\ IF handle[i] # NoThread
       THEN /\ pauses' = [pauses EXCEPT ![handle[i]] = TRUE]
            /\ UNCHANGED client
       ELSE /\ Then(c, "write", i, [rows[i] EXCEPT !.state = "paused"])
            /\ UNCHANGED pauses
    /\ UNCHANGED <<rows, past, handle, stops, thr, fd, files>>

SetStop(i) ==
    stops' = IF handle[i] = NoThread THEN stops ELSE [stops EXCEPT ![handle[i]] = TRUE]

\* A completed item is written back as it is, with a message.
Cancel(c, i) ==
    /\ Request(c, "cancel")
    /\ rows[i] # NoRow
    /\ \/ /\ rows[i].state = "completed"
          /\ Then(c, "write", i, rows[i])
          /\ UNCHANGED stops
       \/ /\ rows[i].state # "completed"
          /\ Then(c, "write", i, [rows[i] EXCEPT !.state = "cancelled"])
          /\ SetStop(i)
    /\ UNCHANGED <<rows, past, handle, pauses, thr, fd, files>>

Write(c) ==
    /\ client[c].pc = "write"
    /\ Save(client[c].id, client[c].it)
    /\ client' = [client EXCEPT ![c] = Idle]
    /\ UNCHANGED <<past, events, thr, fd, files, budget>>

Delete(c, i) ==
    /\ Request(c, "delete")
    /\ rows[i] # NoRow
    /\ SoloUsers => OnItem(i) = {}
    /\ Then(c, "unlink", i, rows[i])
    /\ SetStop(i)
    /\ UNCHANGED <<rows, past, handle, pauses, thr, fd, files>>

\* _delete_files_for_item: only a named item has files.
DeleteFiles(c) ==
    LET p == client[c].it.name
    IN  /\ client[c].pc = "unlink"
        /\ files' = IF p = NoPath THEN files
                    ELSE Unlinked(Unlinked(files, FinalOf(p)), PartOf(p))
        /\ fd' = IF p = NoPath THEN fd
                 ELSE AfterUnlink(AfterUnlink(fd, FinalOf(p)), PartOf(p))
        /\ Then(c, "remove", client[c].id, client[c].it)
        /\ erased' = erased \cup {client[c].id}
        /\ UNCHANGED <<rows, added, events, thr, budget>>

DeleteRow(c) ==
    /\ client[c].pc = "remove"
    /\ rows' = [rows EXCEPT ![client[c].id] = NoRow]
    /\ client' = [client EXCEPT ![c] = Idle]
    /\ erased' = erased \ {client[c].id}
    /\ UNCHANGED <<added, events, thr, fd, files, budget>>

ClientStep(c) ==
    \/ \E i \in Items : Start(c, i) \/ Pause(c, i) \/ Cancel(c, i) \/ Delete(c, i)
    \/ MarkWaiting(c) \/ Spawn(c) \/ SpawnRefused(c) \/ Write(c)
    \/ DeleteFiles(c) \/ DeleteRow(c)

(***************************************************************************)
(* The helper dies at any point and is started again: the table and the    *)
(* files are what is left.                                                 *)
(***************************************************************************)
Restart ==
    /\ "restart" \in budget.menu
    /\ Spend("ops")
    /\ handle' = [i \in Items |-> NoThread]
    /\ stops' = [t \in Threads |-> FALSE]
    /\ pauses' = [t \in Threads |-> FALSE]
    /\ thr' = [t \in Threads |-> NoLocals]
    /\ fd' = [t \in Threads |-> Detached]
    /\ client' = [c \in Clients |-> Idle]
    /\ UNCHANGED <<rows, past, files>>

Next ==
    \/ \E t \in Threads : ThreadStep(t)
    \/ \E i \in Items : AddResult(i)
    \/ \E c \in Clients : ClientStep(c)
    \/ Restart

Spec == Init /\ [][Next]_vars

\* Download threads keep running and a handler finishes what it began; users
\* promise nothing.
Fairness ==
    /\ \A t \in Threads : WF_vars(ThreadStep(t))
    /\ \A c \in Clients :
          WF_vars(MarkWaiting(c) \/ Spawn(c) \/ SpawnRefused(c) \/ Write(c)
                  \/ DeleteFiles(c) \/ DeleteRow(c))

FairSpec == Spec /\ Fairness
------------------------------------------------------------------------------
(***************************************************************************)
(* What theorems ask for of the constants.  One handler thread, that starts *)
(* or deletes an item only between its threads; and no name that two items  *)
(* share, be it one auto-rename makes of theirs.                            *)
(***************************************************************************)
OneHandler == SoloUsers /\ \A c, d \in Clients : c = d

IsFamily(own) ==
    /\ \A i, j \in Items : i # j => own[i] \cap own[j] = {}
    /\ \A i \in Items : UrlOf[i] # NoUrl => NameOf[UrlOf[i]] \in own[i]
    /\ \A i \in Items : \A p \in own[i] :
          \A k \in DOMAIN Renames[p] : Renames[p][k] \in own[i]

OwnNames == \E own \in [Items -> SUBSET Paths] : IsFamily(own)
------------------------------------------------------------------------------
(***************************************************************************)
(* Properties                                                              *)
(***************************************************************************)
Whole(u) == [k \in 1 .. Size |-> <<u, k>>]

IsPrefixOf(s, t) == Len(s) <= Len(t) /\ \A k \in DOMAIN s : s[k] = t[k]

\* The names an item may end up under.
NamesOf(u) == {NameOf[u]} \cup {Renames[NameOf[u]][k] : k \in DOMAIN Renames[NameOf[u]]}

\* A file under a final name is complete if the server said how long it is, over
\* pauses, retries, lost connections and restarts of the helper: part files are
\* renamed after the byte count was compared, or after a 416.
FinalIsWhole ==
    \A i \in Items : UrlOf[i] \in Sized =>
        \A p \in NamesOf(UrlOf[i]) : files[FinalOf(p)] \in {NoFile, Whole(UrlOf[i])}

\* A completed item names a file that is there and whole, also when the download
\* was renamed around an existing file, unless delete removed the file and the
\* helper died before it removed the row.
ShownName(i) == IF rows[i].name = NoPath THEN NameOf[UrlOf[i]] ELSE rows[i].name

CompletedIsWhole ==
    \A i \in Items :
        /\ rows[i] # NoRow
        /\ rows[i].state = "completed"
        /\ UrlOf[i] \in Sized
        /\ i \notin erased
        => files[FinalOf(ShownName(i))] = Whole(UrlOf[i])

\* What a .part file holds is the beginning of the file, so that a Range request
\* from its length continues it: a refused range or a retry never mixes two
\* attempts.
PartIsPrefix ==
    \A i \in Items : UrlOf[i] # NoUrl =>
        \A p \in NamesOf(UrlOf[i]) :
            Exists(files, PartOf(p)) => IsPrefixOf(files[PartOf(p)], Whole(UrlOf[i]))

\* Pause and cancel reach a thread that is at work: its events are the ones the
\* dicts hold for its item, also after earlier threads of the item ran and
\* cleaned up.
EventsReachThread ==
    \A t \in Threads : Alive(t) => handle[thr[t].id] = t

\* A thread comes to an end: retries are counted, whatever the server does.
ThreadsEnd == \A t \in Threads : Alive(t) ~> ~Alive(t)

\* A row that says downloading while its thread is at work says something else
\* once the thread is gone: every way out of download and of _run that leaves
\* the thread ended also settles the row (unless the helper is restarted).
EndSettlesRow ==
    [][\A t \in Threads :
          Alive(t) /\ thr'[t].pc = "ended"
            => rows'[thr[t].id] = NoRow \/ rows'[thr[t].id].state # "downloading"]_vars
==============================================================================
