----------------------------- MODULE NativeQueue -----------------------------
(***************************************************************************)
(* The download queue of the native PS5 daemon (src/ps5_payload/main.c):   *)
(* the fixed table g_downloads behind g_downloads_lock, the background     *)
(* worker thread that resolves, probes and downloads one item at a time,   *)
(* and the HTTP handler threads that add, pause, cancel, resume and delete *)
(* items while the worker holds a bare pointer into the table.             *)
(*                                                                         *)
(* Each action is a critical section or a system call of one thread, with  *)
(* the local computation around it.  Large files are fetched by the        *)
(* segmented transfer, here in the few steps that AtomicTransfer allows    *)
(* it (SegmentedTransfer shows that it takes no others).                   *)
(* Out of the model: the safety cap (compiled as 0, "disabled"), URLs that *)
(* extract_urls never lets through, bytes/error/http_status of an item,    *)
(* a change of download_dir while items are queued.                        *)
(***************************************************************************)
EXTENDS FileStore, FiniteSets

CONSTANTS Urls,          \* links a client may post
          NoUrl,         \* an empty URL field
          DefaultFile,   \* the path sanitize_filename("") leads to
          NameOf,        \* the path a URL downloads to
          Sized,         \* URLs whose server sends Content-Length
          Ranged,        \* URLs whose server sends Accept-Ranges: bytes
          Large,         \* URLs with at least SEGMENTED_MIN_BYTES
          Size,          \* chunks in the body of every URL
          MaxDownloads,  \* MAX_DOWNLOADS
          Workers,       \* identities for the worker threads ever created
          Clients,       \* concurrent HTTP handler threads
          Ops,           \* requests clients make besides POST /api/links
          MaxPosts,      \* bound: accepted posts in a behaviour
          MaxOps,        \* bound: requests in Ops in a behaviour
          MaxFaults      \* bound: failed pthread_create, connect, read, rename

ASSUME NativeQueueAssumption ==
    /\ NoUrl \notin Urls
    /\ DefaultFile \in Paths
    /\ NameOf \in [Urls -> Paths]
    /\ Sized \subseteq Urls
    /\ Ranged \subseteq Urls
    /\ Large \subseteq Urls
    /\ Size \in Nat \ {0}
    /\ MaxDownloads \in Nat \ {0}
    /\ MaxPosts \in Nat
    /\ MaxOps \in Nat
    /\ MaxFaults \in Nat

VARIABLES slots,    \* g_downloads: the table, stale entries past the end included
          count,    \* g_download_count
          nextId,   \* g_next_id
          started,  \* g_worker_started
          shutdown, \* g_shutdown
          pc,       \* where each worker thread is
          at,       \* the slot each worker's download_item_t pointer points to
          xfer,     \* each worker's locals in run_download and http_get_to_file
          fd,       \* the .part file each worker has open
          client,   \* where each HTTP handler thread is
          files,    \* the download directory
          budget    \* what is left of MaxPosts, MaxOps and MaxFaults

table   == <<slots, count, nextId>>
threads == <<pc, at, xfer>>
vars    == <<slots, count, nextId, started, shutdown, pc, at, xfer, fd, client,
             files, budget>>

(***************************************************************************)
(* Types                                                                   *)
(***************************************************************************)
States == {"", "waiting", "resolving", "downloading", "paused", "completed",
           "failed", "manual-action-required", "cancelled"}
Active == {"resolving", "downloading"}

UrlValues == Urls \cup {NoUrl}
SlotIndex == 1 .. MaxDownloads
Chunks    == (UrlValues \X (1 .. Size)) \cup {Hole}

ASSUME NoFileAssumption == NoFile \notin Seq(Chunks)

Item == [id : Nat, url : UrlValues, resolved : UrlValues, path : PathValues,
         state : States]
EmptyItem == [id |-> 0, url |-> NoUrl, resolved |-> NoUrl, path |-> NoPath,
              state |-> ""]

WorkerPc == {"absent", "scan", "picked", "resolve", "probe", "prepare",
             "connect", "prefix", "check", "read", "rename", "finish",
             "allocate", "segcheck", "segments", "segrename", "stopped"}

Xfer == [url    : UrlValues,    \* the URL resolved, then the one fetched
         probed : UrlValues,    \* the URL whose headers are in meta
         path   : PathValues,   \* the path part_path was built from
         total  : 0 .. Size,    \* chunks accounted for, the resumed ones included
         append : BOOLEAN,      \* the file was opened with O_APPEND
         rc     : {"ok", "stopped", "error"}]
NoXfer == [url |-> NoUrl, probed |-> NoUrl, path |-> NoPath, total |-> 0,
           append |-> FALSE, rc |-> "error"]

Contents == Seq(Chunks) \cup {NoFile}

ClientStates == [pc : {"idle", "starting"}, path : PathValues]
                    \cup [pc : {"unlinking"}, path : Paths]
Idle == [pc |-> "idle", path |-> NoPath]

Live == 1 .. count
Ids  == {slots[i].id : i \in Live}

TypeOK ==
    /\ slots \in [SlotIndex -> Item]
    /\ count \in 0 .. MaxDownloads
    /\ nextId \in Nat \ {0}
    /\ started \in BOOLEAN
    /\ shutdown \in BOOLEAN
    /\ pc \in [Workers -> WorkerPc]
    /\ at \in [Workers -> SlotIndex]
    /\ xfer \in [Workers -> Xfer]
    /\ fd \in [Workers -> FileNames \cup {Detached}]
    /\ client \in [Clients -> ClientStates]
    /\ files \in [FileNames -> Contents]
    /\ budget \in [{"posts", "ops", "faults"} -> Nat]

Init ==
    /\ slots = [i \in SlotIndex |-> EmptyItem]
    /\ count = 0
    /\ nextId = 1
    /\ started = FALSE
    /\ shutdown = FALSE
    /\ pc = [w \in Workers |-> "absent"]
    /\ at = [w \in Workers |-> 1]
    /\ xfer = [w \in Workers |-> NoXfer]
    /\ fd = [w \in Workers |-> Detached]
    /\ client = [c \in Clients |-> Idle]
    /\ files = [n \in FileNames |-> NoFile]
    /\ budget = [posts |-> MaxPosts, ops |-> MaxOps, faults |-> MaxFaults]

Spend(b) == /\ budget[b] > 0
            /\ budget' = [budget EXCEPT ![b] = @ - 1]

(***************************************************************************)
(* The worker thread: download_worker_main and run_download                *)
(***************************************************************************)
Waiting == {i \in Live : slots[i].state = "waiting"}

\* Mutant: the thread ends as soon as nothing waits.
ScanOrExit(w) ==
    /\ pc[w] = "scan"
    /\ \/ /\ shutdown \/ Waiting = {}
          /\ pc' = [pc EXCEPT ![w] = "stopped"]
          /\ UNCHANGED at
       \/ /\ ~shutdown
          /\ \E i \in Waiting :
                /\ \A j \in Waiting : i <= j
                /\ at' = [at EXCEPT ![w] = i]
          /\ pc' = [pc EXCEPT ![w] = "picked"]
    /\ UNCHANGED <<table, started, shutdown, xfer, fd, client, files, budget>>

\* The first waiting entry is picked under the lock, but nothing marks it taken.
Scan(w) ==
    /\ pc[w] = "scan"
    /\ \/ /\ shutdown
          /\ pc' = [pc EXCEPT ![w] = "stopped"]
          /\ UNCHANGED at
       \/ /\ ~shutdown
          /\ \E i \in Waiting :
                /\ \A j \in Waiting : i <= j
                /\ at' = [at EXCEPT ![w] = i]
          /\ pc' = [pc EXCEPT ![w] = "picked"]
    /\ UNCHANGED <<table, started, shutdown, xfer, fd, client, files, budget>>

SetState(w, state) == slots' = [slots EXCEPT ![at[w]].state = state]

MarkResolving(w) ==
    /\ pc[w] = "picked"
    /\ SetState(w, "resolving")
    /\ xfer' = [xfer EXCEPT ![w] = [NoXfer EXCEPT !.url = slots[at[w]].url]]
    /\ pc' = [pc EXCEPT ![w] = "resolve"]
    /\ UNCHANGED <<count, nextId, started, shutdown, at, fd, client, files, budget>>

\* The helper answers for the URL it was asked about; without a helper the URL
\* is copied from wherever the item pointer points by then.  The probe starts
\* from the field just written.
ResolveOk(w) ==
    /\ pc[w] = "resolve"
    /\ \E u \in {xfer[w].url, slots[at[w]].url} :
          /\ slots' = [slots EXCEPT ![at[w]].resolved = u]
          /\ xfer' = [xfer EXCEPT ![w].probed = u]
    /\ pc' = [pc EXCEPT ![w] = "probe"]
    /\ UNCHANGED <<count, nextId, started, shutdown, at, fd, client, files, budget>>

\* No helper, no direct URL, a page that needs the user, an HTTPS-only answer.
ResolveFail(w) ==
    /\ pc[w] = "resolve"
    /\ Spend("faults")
    /\ SetState(w, "manual-action-required")
    /\ pc' = [pc EXCEPT ![w] = "scan"]
    /\ UNCHANGED <<count, nextId, started, shutdown, at, xfer, fd, client, files>>

ProbeFail(w) ==
    /\ pc[w] = "probe"
    /\ Spend("faults")
    /\ \E state \in {"failed", "manual-action-required"} : SetState(w, state)
    /\ pc' = [pc EXCEPT ![w] = "scan"]
    /\ UNCHANGED <<count, nextId, started, shutdown, at, xfer, fd, client, files>>

\* The file name comes from the probed server's Content-Disposition when it
\* sends one, otherwise from the resolved_url the pointer leads to now.
PathFor(u) == IF u = NoUrl THEN DefaultFile ELSE NameOf[u]

ProbeOk(w) ==
    /\ pc[w] = "probe"
    /\ \E u \in {xfer[w].probed, slots[at[w]].resolved} :
          slots' = [slots EXCEPT ![at[w]].path  = PathFor(u),
                                 ![at[w]].state = "downloading"]
    /\ pc' = [pc EXCEPT ![w] = "prepare"]
    /\ UNCHANGED <<count, nextId, started, shutdown, at, xfer, fd, client, files, budget>>

(***************************************************************************)
(* http_get_to_file                                                        *)
(***************************************************************************)
Expects(w) == xfer[w].probed \in Sized     \* expected_total >= 0

\* Mutant: the range support of the server is read the wrong way round.
KeepsPartInverted(w, part) ==
    /\ SizeOrZero(files, part) > 0
    /\ Expects(w) => SizeOrZero(files, part) <= Size
    /\ xfer[w].probed \notin Ranged

\* A resumable prefix of the .part file: anything longer than the expected
\* total, or that the server cannot continue, is thrown away.
KeepsPart(w, part) ==
    /\ SizeOrZero(files, part) > 0
    /\ Expects(w) => SizeOrZero(files, part) <= Size
    /\ xfer[w].probed \in Ranged

\* The file is fetched by four connections, unless something of it is there.
Segmented(w) == xfer[w].probed \in Ranged \cap Sized \cap Large

Prepare(w) ==
    LET item  == slots[at[w]]
        part  == PartOf(item.path)
        keep  == KeepsPart(w, part)
        drop  == SizeOrZero(files, part) > 0 /\ ~keep
        start == IF keep THEN SizeOrZero(files, part) ELSE 0
    IN  /\ pc[w] = "prepare"
        /\ \/ /\ item.resolved = NoUrl
              /\ xfer' = [xfer EXCEPT ![w].rc = "error"]
              /\ pc' = [pc EXCEPT ![w] = "finish"]
              /\ UNCHANGED <<files, fd>>
           \/ /\ item.resolved # NoUrl
              /\ Expects(w) /\ SizeIs(files, FinalOf(item.path), Size)
              /\ xfer' = [xfer EXCEPT ![w].rc = "ok"]
              /\ pc' = [pc EXCEPT ![w] = "finish"]
              /\ UNCHANGED <<files, fd>>
           \/ /\ item.resolved # NoUrl
              /\ ~(Expects(w) /\ SizeIs(files, FinalOf(item.path), Size))
              /\ files' = IF drop THEN Unlinked(files, part) ELSE files
              /\ fd' = IF drop THEN AfterUnlink(fd, part) ELSE fd
              \* a part longer than the body gets the same answer as a full one
              /\ xfer' = [xfer EXCEPT ![w].url    = item.resolved,
                                      ![w].path   = item.path,
                                      ![w].total  = IF start < Size THEN start ELSE Size,
                                      ![w].append = start > 0]
              /\ pc' = [pc EXCEPT ![w] = IF start = 0 /\ Segmented(w) THEN "allocate"
                                         ELSE "connect"]
        /\ UNCHANGED <<table, started, shutdown, at, client, budget>>

\* Mutant: a Range past the end of the file is not noticed.
RefusedUnranged(w) == xfer[w].total > 0 /\ xfer[w].url \notin Ranged

\* The request is refused, or one of the calls up to the open fails.  A Range
\* request at or past the end, or to a server without ranges, is always refused.
Refused(w) == xfer[w].total > 0 /\ (xfer[w].total = Size \/ xfer[w].url \notin Ranged)

ConnectFail(w) ==
    /\ pc[w] = "connect"
    /\ \/ Spend("faults")
       \/ Refused(w) /\ UNCHANGED budget
    /\ xfer' = [xfer EXCEPT ![w].rc = "error"]
    /\ pc' = [pc EXCEPT ![w] = "finish"]
    /\ UNCHANGED <<table, started, shutdown, at, fd, client, files>>

\* Mutant: O_TRUNC is in the flags when a .part file is resumed, too.
OpenPartTruncating(w) ==
    LET part == PartOf(xfer[w].path)
    IN  /\ pc[w] = "connect"
        /\ ~Refused(w)
        /\ files' = Opened(files, part, FALSE)
        /\ fd' = [fd EXCEPT ![w] = part]
        /\ \E next \in {"prefix", "check"} : pc' = [pc EXCEPT ![w] = next]
        /\ UNCHANGED <<table, started, shutdown, at, xfer, client, budget>>

\* By now the .part file may have grown, gone or been replaced since Prepare
\* looked at it.  The first read of headers may already bring body bytes.
OpenPart(w) ==
    LET part == PartOf(xfer[w].path)
    IN  /\ pc[w] = "connect"
        /\ ~Refused(w)
        /\ files' = Opened(files, part, xfer[w].append)
        /\ fd' = [fd EXCEPT ![w] = part]
        /\ \E next \in {"prefix", "check"} : pc' = [pc EXCEPT ![w] = next]
        /\ UNCHANGED <<table, started, shutdown, at, xfer, client, budget>>

Receive(w) ==
    /\ xfer[w].total < Size
    /\ files' = Written(files, fd[w], xfer[w].append, xfer[w].total,
                        <<xfer[w].url, xfer[w].total + 1>>)
    /\ xfer' = [xfer EXCEPT ![w].total = @ + 1]
    /\ pc' = [pc EXCEPT ![w] = "check"]
    /\ UNCHANGED <<table, started, shutdown, at, fd, client, budget>>

Prefix(w)    == pc[w] = "prefix" /\ Receive(w)
ReadChunk(w) == pc[w] = "read" /\ Receive(w)

\* Mutant: a cancelled transfer leaves its .part file.
CheckStopKeeping(w) ==
    /\ pc[w] = "check"
    /\ \/ /\ slots[at[w]].state \in {"cancelled", "paused"}
          /\ fd' = [fd EXCEPT ![w] = Detached]
          /\ xfer' = [xfer EXCEPT ![w].rc = "stopped"]
          /\ pc' = [pc EXCEPT ![w] = "finish"]
       \/ /\ slots[at[w]].state \notin {"cancelled", "paused"}
          /\ pc' = [pc EXCEPT ![w] = "read"]
          /\ UNCHANGED <<fd, xfer>>
    /\ UNCHANGED <<table, started, shutdown, at, client, files, budget>>

\* item_stop_requested, at the head of every turn of the loop.
CheckStop(w) ==
    LET state == slots[at[w]].state
        part  == PartOf(xfer[w].path)
    IN  /\ pc[w] = "check"
        /\ \/ /\ state = "cancelled"
              /\ files' = Unlinked(files, part)
              /\ fd' = [AfterUnlink(fd, part) EXCEPT ![w] = Detached]
              /\ xfer' = [xfer EXCEPT ![w].rc = "stopped"]
              /\ pc' = [pc EXCEPT ![w] = "finish"]
           \/ /\ state = "paused"
              /\ fd' = [fd EXCEPT ![w] = Detached]
              /\ xfer' = [xfer EXCEPT ![w].rc = "stopped"]
              /\ pc' = [pc EXCEPT ![w] = "finish"]
              /\ UNCHANGED files
           \/ /\ state \notin {"cancelled", "paused"}
              /\ pc' = [pc EXCEPT ![w] = "read"]
              /\ UNCHANGED <<files, fd, xfer>>
        /\ UNCHANGED <<table, started, shutdown, at, client, budget>>

\* The server closes, after the whole body or early; the byte count decides.
EndOfBody(w) ==
    LET complete == Expects(w) => xfer[w].total = Size
    IN  /\ pc[w] = "read"
        /\ \/ xfer[w].total = Size /\ UNCHANGED budget
           \/ xfer[w].total < Size /\ Spend("faults")
        /\ fd' = [fd EXCEPT ![w] = Detached]
        /\ xfer' = [xfer EXCEPT ![w].rc = "error"]
        /\ pc' = [pc EXCEPT ![w] = IF complete THEN "rename" ELSE "finish"]
        /\ UNCHANGED <<table, started, shutdown, at, client, files>>

\* A read or a write fails in the middle of the body.
TransferError(w) ==
    /\ pc[w] = "read"
    /\ Spend("faults")
    /\ fd' = [fd EXCEPT ![w] = Detached]
    /\ xfer' = [xfer EXCEPT ![w].rc = "error"]
    /\ pc' = [pc EXCEPT ![w] = "finish"]
    /\ UNCHANGED <<table, started, shutdown, at, client, files>>

\* The .part name was built at the start; the target is the path the item
\* pointer leads to now.
RenamePart(w) ==
    LET part == PartOf(xfer[w].path)
        path == slots[at[w]].path
    IN  /\ pc[w] = "rename"
        /\ Exists(files, part)
        /\ path # NoPath
        /\ files' = Renamed(files, part, FinalOf(path))
        /\ fd' = AfterRename(fd, part, FinalOf(path))
        /\ xfer' = [xfer EXCEPT ![w].rc = "ok"]
        /\ pc' = [pc EXCEPT ![w] = "finish"]
        /\ UNCHANGED <<table, started, shutdown, at, client, budget>>

RenameFail(w) ==
    /\ pc[w] = "rename"
    /\ \/ Spend("faults")
       \/ /\ ~Exists(files, PartOf(xfer[w].path)) \/ slots[at[w]].path = NoPath
          /\ UNCHANGED budget
    /\ pc' = [pc EXCEPT ![w] = "finish"]
    /\ UNCHANGED <<table, started, shutdown, at, xfer, fd, client, files>>

(***************************************************************************)
(* http_get_segmented_to_file                                              *)
(***************************************************************************)
Allocated == [i \in 1 .. Size |-> Hole]

\* The .part file is replaced by one of the full size without content.
Allocate(w) ==
    LET part == PartOf(xfer[w].path)
    IN  /\ pc[w] = "allocate"
        /\ files' = [files EXCEPT ![part] = Allocated]
        /\ fd' = [AfterUnlink(fd, part) EXCEPT ![w] = part]
        /\ pc' = [pc EXCEPT ![w] = "segcheck"]
        /\ UNCHANGED <<table, started, shutdown, at, xfer, client, budget>>

\* What the first thread to see a stop request makes of the transfer: pauses
\* and cancels alike remove the file.
SegmentStop(w) ==
    LET part == PartOf(xfer[w].path)
    IN  /\ pc[w] = "segcheck"
        /\ xfer[w].url \in Ranged
        /\ \/ /\ slots[at[w]].state \in {"cancelled", "paused"}
              /\ files' = Unlinked(files, part)
              /\ fd' = [AfterUnlink(fd, part) EXCEPT ![w] = Detached]
              /\ xfer' = [xfer EXCEPT ![w].rc = "stopped"]
              /\ pc' = [pc EXCEPT ![w] = "finish"]
           \/ /\ slots[at[w]].state \notin {"cancelled", "paused"}
              /\ pc' = [pc EXCEPT ![w] = "segments"]
              /\ UNCHANGED <<files, fd, xfer>>
        /\ UNCHANGED <<table, started, shutdown, at, client, budget>>

\* The last range is complete.
SegmentsEnd(w) ==
    /\ pc[w] = "segments"
    /\ files' = IF fd[w] = Detached THEN files
                ELSE [files EXCEPT ![fd[w]] = [i \in 1 .. Size |-> <<xfer[w].url, i>>]]
    /\ fd' = [fd EXCEPT ![w] = Detached]
    /\ pc' = [pc EXCEPT ![w] = "segrename"]
    /\ UNCHANGED <<table, started, shutdown, at, xfer, client, budget>>

\* A call fails, or the server does not answer 206; after that, or a failed
\* rename, the file is removed and fetched again by a single stream.
SegmentsFail(w) ==
    LET part == PartOf(xfer[w].path)
    IN  /\ \/ pc[w] \in {"allocate", "segcheck", "segments", "segrename"} /\ Spend("faults")
           \/ /\ pc[w] = "segcheck" /\ xfer[w].url \notin Ranged
              /\ UNCHANGED budget
           \/ /\ pc[w] = "segrename"
              /\ ~Exists(files, part) \/ slots[at[w]].path = NoPath
              /\ UNCHANGED budget
        /\ files' = Unlinked(files, part)
        /\ fd' = [AfterUnlink(fd, part) EXCEPT ![w] = Detached]
        /\ pc' = [pc EXCEPT ![w] = "connect"]
        /\ UNCHANGED <<table, started, shutdown, at, xfer, client>>

SegmentsRename(w) ==
    LET part == PartOf(xfer[w].path)
        path == slots[at[w]].path
    IN  /\ pc[w] = "segrename"
        /\ Exists(files, part)
        /\ path # NoPath
        /\ files' = Renamed(files, part, FinalOf(path))
        /\ fd' = AfterRename(fd, part, FinalOf(path))
        /\ xfer' = [xfer EXCEPT ![w].rc = "ok"]
        /\ pc' = [pc EXCEPT ![w] = "finish"]
        /\ UNCHANGED <<table, started, shutdown, at, client, budget>>

\* Mutants: an error path without set_item_error; a stop taken for a success.
OutcomeSilent(rc, state)    == IF rc = "ok" THEN "completed" ELSE state
OutcomeStopIsDone(rc, state) == IF rc = "error" THEN "failed" ELSE "completed"

\* The last critical section of run_download: success overwrites whatever state
\* a client set meanwhile, an error does too, a stop leaves it alone.
Outcome(rc, state) ==
    CASE rc = "ok"      -> "completed"
      [] rc = "stopped" -> state
      [] rc = "error"   -> "failed"

Finish(w) ==
    /\ pc[w] = "finish"
    /\ SetState(w, Outcome(xfer[w].rc, slots[at[w]].state))
    /\ xfer' = [xfer EXCEPT ![w] = NoXfer]
    /\ pc' = [pc EXCEPT ![w] = "scan"]
    /\ UNCHANGED <<count, nextId, started, shutdown, at, fd, client, files, budget>>

WorkerStep(w) ==
    \/ Scan(w) \/ MarkResolving(w) \/ ResolveOk(w) \/ ResolveFail(w)
    \/ ProbeOk(w) \/ ProbeFail(w) \/ Prepare(w) \/ ConnectFail(w)
    \/ OpenPart(w) \/ Prefix(w) \/ ReadChunk(w) \/ CheckStop(w)
    \/ EndOfBody(w) \/ TransferError(w) \/ RenamePart(w) \/ RenameFail(w)
    \/ Allocate(w) \/ SegmentStop(w) \/ SegmentsEnd(w) \/ SegmentsFail(w)
    \/ SegmentsRename(w) \/ Finish(w)

(***************************************************************************)
(* POST /api/links: new_download, then start_worker outside the lock       *)
(***************************************************************************)
\* Mutants: the table may hold one entry too many; ids are places in the table.
PostOverfull(c) ==
    /\ client[c].pc = "idle"
    /\ count <= MaxDownloads
    /\ Spend("posts")
    /\ \E u \in Urls :
          slots' = [slots EXCEPT ![count + 1] =
                      [EmptyItem EXCEPT !.id = nextId, !.url = u, !.state = "waiting"]]
    /\ count' = count + 1
    /\ nextId' = nextId + 1
    /\ client' = IF started THEN client ELSE [client EXCEPT ![c].pc = "starting"]
    /\ UNCHANGED <<started, shutdown, threads, fd, files>>

PostNumbered(c) ==
    /\ client[c].pc = "idle"
    /\ count < MaxDownloads
    /\ Spend("posts")
    /\ \E u \in Urls :
          slots' = [slots EXCEPT ![count + 1] =
                      [EmptyItem EXCEPT !.id = count + 1, !.url = u, !.state = "waiting"]]
    /\ count' = count + 1
    /\ nextId' = nextId + 1
    /\ client' = IF started THEN client ELSE [client EXCEPT ![c].pc = "starting"]
    /\ UNCHANGED <<started, shutdown, threads, fd, files>>

Post(c) ==
    /\ client[c].pc = "idle"
    /\ count < MaxDownloads           \* otherwise 503 and nothing changes
    /\ Spend("posts")
    /\ \E u \in Urls :
          slots' = [slots EXCEPT ![count + 1] =
                      [EmptyItem EXCEPT !.id = nextId, !.url = u, !.state = "waiting"]]
    /\ count' = count + 1
    /\ nextId' = nextId + 1
    /\ client' = IF started THEN client ELSE [client EXCEPT ![c].pc = "starting"]
    /\ UNCHANGED <<started, shutdown, threads, fd, files>>

\* Mutant: g_worker_started is never set.
StartWorkerUnnoted(c) ==
    /\ client[c].pc = "starting"
    /\ \E w \in Workers :
          /\ pc[w] = "absent"
          /\ pc' = [pc EXCEPT ![w] = "scan"]
    /\ client' = [client EXCEPT ![c] = Idle]
    /\ UNCHANGED <<table, started, shutdown, at, xfer, fd, files, budget>>

\* start_worker: a thread is created and g_worker_started set, with no lock and
\* no second look at it.
StartWorker(c) ==
    /\ client[c].pc = "starting"
    /\ \E w \in Workers :
          /\ pc[w] = "absent"
          /\ pc' = [pc EXCEPT ![w] = "scan"]
    /\ started' = TRUE
    /\ client' = [client EXCEPT ![c] = Idle]
    /\ UNCHANGED <<table, shutdown, at, xfer, fd, files, budget>>

\* pthread_create fails: logged, and the item waits for the next POST.
StartFail(c) ==
    /\ client[c].pc = "starting"
    /\ Spend("faults")
    /\ client' = [client EXCEPT ![c] = Idle]
    /\ UNCHANGED <<table, started, shutdown, threads, fd, files>>

(***************************************************************************)
(* POST /api/downloads/<id>/<action> and DELETE: handle_download_action    *)
(***************************************************************************)
Request(c, op) ==
    /\ client[c].pc = "idle"
    /\ op \in Ops
    /\ Spend("ops")

Pause(c) ==
    /\ Request(c, "pause")
    /\ \E i \in Live :
          /\ slots[i].state \in {"waiting"} \cup Active
          /\ slots' = [slots EXCEPT ![i].state = "paused"]
    /\ UNCHANGED <<count, nextId, started, shutdown, threads, fd, client, files>>

Resumable == States \ (Active \cup {"completed"})

Resume(c) ==
    /\ Request(c, "resume")
    /\ \E i \in Live :
          /\ slots[i].state \in Resumable
          /\ slots' = [slots EXCEPT ![i].state = "waiting"]
    /\ UNCHANGED <<count, nextId, started, shutdown, threads, fd, client, files>>

\* Cancel unlinks the .part file inside the critical section.
Cancel(c) ==
    /\ Request(c, "cancel")
    /\ \E i \in Live :
          LET part == PartOf(slots[i].path)
          IN  /\ slots[i].state # "completed"
              /\ slots' = [slots EXCEPT ![i].state = "cancelled"]
              /\ files' = IF slots[i].path = NoPath THEN files ELSE Unlinked(files, part)
              /\ fd' = IF slots[i].path = NoPath THEN fd ELSE AfterUnlink(fd, part)
    /\ UNCHANGED <<count, nextId, started, shutdown, threads, client>>

\* The handler thread still has files to remove after it released the lock.
ThenUnlink(c, path) ==
    client' = IF path = NoPath THEN client
              ELSE [client EXCEPT ![c] = [pc |-> "unlinking", path |-> path]]

\* DELETE of an item a worker is on only asks it to stop.
DeleteActive(c) ==
    /\ Request(c, "delete")
    /\ \E i \in Live :
          /\ slots[i].state \in Active
          /\ slots' = [slots EXCEPT ![i].state = "cancelled"]
          /\ ThenUnlink(c, slots[i].path)
    /\ UNCHANGED <<count, nextId, started, shutdown, threads, fd, files>>

\* Any other item leaves the table: the entries after it move down one place.
ShiftedOut(i) ==
    [j \in SlotIndex |-> IF j \in i .. count - 1 THEN slots[j + 1] ELSE slots[j]]

DeleteInactive(c) ==
    /\ Request(c, "delete")
    /\ \E i \in Live :
          /\ slots[i].state \notin Active
          /\ slots' = ShiftedOut(i)
          /\ ThenUnlink(c, slots[i].path)
    /\ count' = count - 1
    /\ UNCHANGED <<nextId, started, shutdown, threads, fd, files>>

\* unlink_download_path for the .part and the final file, lock released.
DeleteUnlink(c) ==
    LET p == client[c].path
    IN  /\ client[c].pc = "unlinking"
        /\ files' = Unlinked(Unlinked(files, PartOf(p)), FinalOf(p))
        /\ fd' = AfterUnlink(AfterUnlink(fd, PartOf(p)), FinalOf(p))
        /\ client' = [client EXCEPT ![c] = Idle]
        /\ UNCHANGED <<table, started, shutdown, threads, budget>>

\* POST /api/shutdown and /api/prepare-reload.
Shutdown(c) ==
    /\ Request(c, "shutdown")
    /\ ~shutdown
    /\ shutdown' = TRUE
    /\ UNCHANGED <<table, started, threads, fd, client, files>>

ClientStep(c) ==
    \/ Post(c) \/ StartWorker(c) \/ StartFail(c) \/ Pause(c) \/ Resume(c)
    \/ Cancel(c) \/ DeleteActive(c) \/ DeleteInactive(c) \/ DeleteUnlink(c)
    \/ Shutdown(c)

(***************************************************************************)
(* The process dies at any point and the payload is sent again: the table  *)
(* is gone, the download directory stays.                                  *)
(***************************************************************************)
Restart ==
    /\ "restart" \in Ops
    /\ Spend("ops")
    /\ slots' = [i \in SlotIndex |-> EmptyItem]
    /\ count' = 0
    /\ nextId' = 1
    /\ started' = FALSE
    /\ shutdown' = FALSE
    /\ pc' = [w \in Workers |-> "absent"]
    /\ at' = [w \in Workers |-> 1]
    /\ xfer' = [w \in Workers |-> NoXfer]
    /\ fd' = [w \in Workers |-> Detached]
    /\ client' = [c \in Clients |-> Idle]
    /\ UNCHANGED files

Next ==
    \/ \E w \in Workers : WorkerStep(w)
    \/ \E c \in Clients : ClientStep(c)
    \/ Restart

Spec == Init /\ [][Next]_vars

\* Threads keep running: a worker takes its next step, a handler that decided
\* to start a worker gets to do it.  Users promise nothing.
Fairness ==
    /\ \A w \in Workers : WF_vars(WorkerStep(w))
    /\ \A c \in Clients : WF_vars(StartWorker(c)) /\ WF_vars(DeleteUnlink(c))

FairSpec == Spec /\ Fairness
------------------------------------------------------------------------------
(***************************************************************************)
(* Properties                                                              *)
(***************************************************************************)
Running(w) == pc[w] \notin {"absent", "stopped"}
Holding(w) == pc[w] \notin {"absent", "stopped", "scan"}
Held       == {at[w] : w \in {v \in Workers : Holding(v)}}

Whole(u) == [i \in 1 .. Size |-> <<u, i>>]

IsPrefixOf(s, t) == Len(s) <= Len(t) /\ \A i \in DOMAIN s : s[i] = t[i]

\* There is one background worker: new_download looks at g_worker_started under
\* the lock and start_worker sets it later without it.
SingleWorker == \A v, w \in Workers : Running(v) /\ Running(w) => v = w

\* Ids grow along the table and are never handed out twice, however entries are
\* appended and shifted: an id in a request names at most one item.
IdsAscending ==
    /\ \A i \in Live : slots[i].id < nextId
    /\ \A i, j \in Live : i < j => slots[i].id < slots[j].id

\* An item shown as resolving or downloading is one a worker is on: pausing,
\* resuming or a dying worker never leave it so for good (it could not be
\* started again: resume refuses these states).
ActiveHasWorker == \A i \in Live : slots[i].state \in Active => i \in Held

\* A file under its final name is complete, if the server said how long it is:
\* .part files are renamed only when the byte count matches Content-Length.
\* (For URLs with a file name of their own.)
FinalIsWhole ==
    \A u \in Sized : files[FinalOf(NameOf[u])] \in {NoFile, Whole(u)}

\* An item shown as completed has its whole file under its final name.
CompletedIsWhole ==
    \A i \in Live : slots[i].state = "completed" /\ slots[i].url \in Sized
                        => files[FinalOf(slots[i].path)] = Whole(slots[i].url)

\* What a .part file holds is the beginning of the file, through pauses, lost
\* connections and restarts of the daemon: resuming at its length is right.  The
\* exception, one that four connections were filling, has the full length, so that
\* no resume gets a byte to append (main.c:1013, 1188).
PartIsPrefix ==
    \A u \in Urls :
        LET part == PartOf(NameOf[u])
        IN  Exists(files, part) => \/ IsPrefixOf(files[part], Whole(u))
                                   \/ u \in Large /\ Len(files[part]) = Size

\* Progress on a server with ranges is never thrown away by a pause, a fault or
\* a restart: the .part file only grows until it becomes the final file.  (Of a
\* large file, what a single stream has received of it.)
ProgressKept ==
    [][\A u \in Ranged :
          LET part == PartOf(NameOf[u])
          IN  Exists(files, part) /\ (u \in Large => Len(files[part]) \in 1 .. Size - 1) =>
                \/ Exists(files, part)' /\ IsPrefixOf(files[part], files[part]')
                \/ files[FinalOf(NameOf[u])]' = files[part]]_vars

\* Once no worker is on a cancelled item its .part file is gone (unless another
\* item downloads to the same path), so that a later start begins from nothing.
CancelledLeavesNoPart ==
    \A i \in Live :
        /\ slots[i].state = "cancelled"
        /\ slots[i].path # NoPath
        /\ i \notin Held
        /\ \A j \in Live \ {i} : NameOf[slots[j].url] # slots[i].path
        => ~Exists(files, PartOf(slots[i].path))

InState(id, states) == \E i \in Live : slots[i].id = id /\ slots[i].state \in states

\* Once there is a worker, a waiting item is taken up by it, or leaves that
\* state otherwise, unless the daemon is shutting down.
WaitingIsServed ==
    \A id \in 1 .. MaxPosts :
        InState(id, {"waiting"}) /\ started
            ~> (~InState(id, {"waiting"}) \/ shutdown)

\* A download that started comes to an end that the user is shown.
DownloadsSettle ==
    \A id \in 1 .. MaxPosts : InState(id, Active) ~> ~InState(id, Active)
==============================================================================
