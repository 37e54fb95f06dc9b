# PS5 downloader: TLA+ specifications, model checking and proofs

This directory specifies the parts of the PS5 downloader that decide something:
the native daemon that runs on the console (`src/ps5_payload/main.c`), the queue,
link resolver, helper server and settings of the PC build
(`src/ps5_downloader/core/`, `plugins/`, `server/`), the desktop control panel and
the payload sender. It holds TLA+ modules translated from the code, TLC
configurations that check them on small instances, and TLAPS proofs of what
matters most for all values of the constants.

Paths below are relative to the repository root; `main.c` stands for
`src/ps5_payload/main.c` and `downloader.py` for
`src/ps5_downloader/core/downloader.py`.

## 1. The system

### 1.1 Parts and how they interact

| part | code | state it keeps | operations | talks to |
|---|---|---|---|---|
| native queue | `main.c` 65-87, 1417-1768 | `g_downloads[16]`, `g_download_count`, `g_next_id`, `g_worker_started`, `g_shutdown`, one lock | post, pause, resume/start/retry, cancel, delete, shutdown; the worker loop | transfers, the file system, HTTP handler threads |
| native single-stream transfer | `main.c` 794-816, 1096-1325 | `.part` file, byte counts | resume with Range, receive, poll for a stop, rename | queue item (through a bare pointer), file system, server |
| native segmented transfer | `main.c` 818-1094 | sized `.part` file, `segmented_shared_t` | allocate, four threads, join, publish or abandon | the same |
| native resolver client | `main.c` 1320-1415 | none (queries the helper) | `resolve_with_helper`, `resolve_url` | helper's `/api/resolve-native` |
| native HTTP server, life cycle | `main.c` 1900-2103 | PID file, listening socket, `g_shutdown` | accept, one detached thread per request, replace an older instance | all handlers |
| native settings | `main.c` `load_config`, `save_config`, `handle_put_settings` | `g_download_dir`, `g_resolver_url` | load, save, put | the worker reads `g_download_dir` |
| native listing, logs, diagnostics | `main.c` `json_downloads`, `send_log_file` | none | format | queue table |
| PC queue | `downloader.py` 121-240 | `_threads`, `_stops`, `_pauses` | `add_result`, `start`/`resume`, `pause`, `cancel`, `delete`, `_run`, `_cleanup` | engine, storage, HTTP handlers |
| PC engine | `downloader.py` 25-119 | the locals of one download, `.part` files in `temp_dir` | `download`, `_target_path` | storage, file system, server |
| PC storage | `core/storage.py` | sqlite table of whole rows | insert-or-replace, get, list, delete, log | queue, engine |
| PC resolver and plugins | `core/resolver.py`, `plugins/` | `seen`, result list per call | recursive expansion of links | network |
| helper server | `server/api.py` | `native_direct_cache` | resolve-native (retries, cache, preflight), relay, queue API | resolver, queue, native daemon |
| PC settings | `core/settings.py` | `settings.json`, written by way of `settings.json.tmp` and a rename | load, validate, save | everything on the PC |
| desktop panel | `desktop/app.py`, `desktop/client.py` | snapshot shown, timers, background threads and their callbacks, helper process | refresh, actions in threads, start and stop the helper | daemon and helper over HTTP |
| payload sender | `payload_sender.py`, `desktop/payload.py` | none | shut down the old daemon, wait, send the ELF | daemon, ELF loader |
| web UI, CLI, scripts, diagnostic payload | `server/static`, `cli/`, `scripts/`, `diag_status.c` | none of their own | thin calls | the parts above |

A link goes: user → `POST /api/links` (or the PC's `/api/links`) → a table entry
`waiting` → a worker resolves it, probes the server, receives into a `.part`
file → rename to the final name → `completed`. In the meantime any number of
handler threads change the entry's state, remove files or remove the entry.
The worker learns of it only by looking at the entry's `state` between reads.

### 1.2 What is hard, and what makes each part correct

* **Native queue.** The worker keeps a `download_item_t *` into a table that
  handlers compact under it; it writes four states into the item without
  looking; `start_worker` runs outside the lock. Correct: at most one worker,
  ids name one item, an active item has somebody working on it, waiting items are
  served, downloads settle.
* **Transfers.** The `.part` file is measured, and only after a connection and a
  request opened in append mode; a cancel unlinks it in between; the process may
  die anywhere. Correct: `.part` files are prefixes, progress on a resumable
  server is kept, what gets the final name is whole, a cancel leaves nothing.
* **Segmented transfer.** Four threads, three shared codes, two locks, a client
  that unlinks the file. Correct: published is whole, a whole file is accepted,
  the coordinator never waits for a thread that will not end; the caller sees an atomic transfer.
* **PC queue.** The rows are the only shared state between handler and download
  threads, and every writer writes the whole row from its own copy; stop and
  pause events are dictionary entries that outlive their threads. Correct:
  events reach the thread at work, threads end and settle their row, files are
  whole.
* **Resolver.** Recursion over links with a depth, a shared `seen` set and a
  shared limit, over servers that redirect and list each other as they like.
  Correct: it asks for no URL twice and for none that is too far from a pasted
  link, and drops nothing while the limit is not reached. (What leads round in a
  circle it does drop: 3.1.)
* **Helper.** Handler threads share a cache with an expiry, the `App` object and
  the settings file; a preflight vouches for what the relay does later. Correct:
  answers are recent and belong to the text, the relay answers as the preflight
  concluded, saved settings survive and everybody works with the same ones.
* **Life cycle.** A new ELF has to replace a running daemon that may be busy or
  slow. Correct: one daemon owns the port and the directory.
* **Desktop.** Snapshots loaded by threads in several requests and applied in the
  order the threads end; a helper process that may be somebody else's. Correct:
  the pending timer is the one that is known, no helper left behind, the screen catches up with the console.

`PROJECT.json` lists every hazard at its line with the properties that cover it,
or says why none does yet.

## 2. The modules

| module | models | kind |
|---|---|---|
| `FileStore` | the part of POSIX that both downloaders rely on: named files, `unlink` and `rename` under open descriptors, `O_APPEND`/`O_TRUNC` opens, holes | external environment, operators only |
| `FileStoreProofs` | lemmas on the operators of `FileStore`, for the proofs of both queues | proofs |
| `NativeQueue` | queue table, worker, handlers and the transfers of the daemon, the segmented one in the steps of `AtomicTransfer` | state machine |
| `MCNativeQueue` | its instances for TLC | |
| `NativeQueueProofs` | theorems on `NativeQueue` | proofs |
| `AtomicTransfer` | what `run_download` relies on when it calls a transfer | abstract specification |
| `SegmentedTransfer` | the four-connection transfer | state machine, refines `AtomicTransfer` |
| `SegmentedTransferProofs` | theorems on `SegmentedTransfer` | proofs |
| `QueueManager` | `QueueManager`, `DownloadEngine` and `Storage` of the PC build | state machine |
| `MCQueueManager` | its instances for TLC | |
| `QueueManagerProofs` | theorems on `QueueManager` | proofs |
| `LinkResolver` | one call of `resolve_text`: scan, expansion, registry, plugins | state machine |
| `MCLinkResolver` | its instance for TLC | |
| `LinkResolverProofs` | theorems on `LinkResolver` | proofs |
| `SettingsStore` | `core/settings.py`: load, validate, write and rename; extends `FileStore` | actions of one update, per thread |
| `HelperServer` | `server/api.py`: resolve-native, the relay, PUT of settings, the end and the start of the process; extends `SettingsStore` | state machine |
| `MCHelperServer` | its instance for TLC | |
| `HelperServerProofs` | theorems on `HelperServer` and `SettingsStore` | proofs |
| `DesktopPanel` | the control panel: Tk thread, `run_bg` threads, timers, the helper it owns | state machine |
| `MCDesktopPanel` | its instance for TLC | |
| `DesktopPanelProofs` | theorems on `DesktopPanel` | proofs |
| `DaemonLifecycle` | `main()` of the daemon with PID file, socket and accept loop, and the payload senders that replace it | state machine |
| `MCDaemonLifecycle` | its instance for TLC | |
| `DaemonLifecycleProofs` | theorems on `DaemonLifecycle` | proofs |

### 2.1 `NativeQueue` and the code

`slots` is `g_downloads` with the stale entries past `count`; `at[w]` is the
worker's pointer, and stays what it is when `DeleteInactive` shifts the table,
so every later access of the worker goes to whichever entry sits there.
`xfer[w]` holds the locals that the code keeps *outside* the item: the URL it
asked about, the URL whose headers are in `meta`, the path the `.part` name was
built from, the byte count, the open mode, the return code. Everything the code
reads through the pointer, the model reads through `slots[at[w]]` at the step at
which the code does.

A worker step is a critical section or a system call with the local
computation around it:

| actions | code |
|---|---|
| `Scan`, `MarkResolving` | `download_worker_main`, start of `run_download` (two critical sections: nothing marks the picked entry) |
| `ResolveOk/Fail`, `ProbeOk/Fail` | `resolve_url`, `http_probe`, and what `run_download` writes after them |
| `Prepare` | look at the final file, look at the `.part` file, drop it or resume it |
| `ConnectFail`, `OpenPart` | connection, Range request, status check, open |
| `Prefix`, `ReadChunk`, `CheckStop`, `EndOfBody`, `TransferError` | the receive loop |
| `Allocate`, `SegmentStop`, `SegmentsEnd`, `SegmentsRename`, `SegmentsFail` | `http_get_segmented_to_file` for a large file of which nothing is there, and the fall back to one stream |
| `RenamePart/Fail`, `Finish` | rename, last critical section of `run_download` |
| `Post`, `StartWorker`, `StartFail` | `new_download`, then `start_worker` without the lock |
| `Pause`, `Resume`, `Cancel`, `DeleteActive`, `DeleteInactive`, `DeleteUnlink`, `Shutdown` | `handle_download_action` and the shutdown request; `DELETE` removes files after it released the lock |
| `Restart` | the process dies at any point, the ELF is sent again: the table is gone, the files stay |

Abstracted: a chunk of the model is any number of bytes received by one read; a
chunk is tagged with its URL and number, so that a file with a wrong beginning,
a hole or parts of two files differs from the whole one. `bytes`, error texts
and `http_status` are left out, because the queue never decides by them. The
safety cap is compiled as 0, which means disabled, and is left out.

A link in `Large` has at least `SEGMENTED_MIN_BYTES`. Its segmented transfer
takes the few steps that matter to the queue: the `.part` file gets its full size
(`Allocated`, all holes), a stop is seen and the file goes, or the last range is
complete and the file gets its name. These are the steps of `AtomicTransfer`,
and `SegmentedTransfer` shows that the four threads together take no others. A
crash between them leaves a `.part` file that looks complete, which the next
attempt finds.

A name that several servers give to their files is possible in the model
(`NameOf` is any function), but the properties on files are stated for links with
names of their own: sharing is in the list of hazards.

### 2.2 `SegmentedTransfer` and the code

`pc`, `created`, `rc` are the locals of `http_get_segmented_to_file`; `total`,
`nextUpdate`, `failed`, `stop` the fields of `segmented_shared_t`; `seg[i]` a
thread with its offset. The two critical sections of `segmented_should_stop`
(item's lock, then the shared lock) are two actions, and so are the two of
`segmented_add_bytes` (shared lock, then the update of the item), because a
slower thread can run in between. `written` is the set of bytes of the sized
file that were written, so a published file with a hole is visible. Clients
pause, resume and cancel the item at any point; a cancel unlinks the `.part`
file under the threads.

`AtomicTransfer` says what the caller relies on: one return; "ok" only with a
whole final file (or one of the expected size that was there before, which the
code takes for the file); otherwise the final name as it was and no `.part` file.
`ImplementsAtomic` is its specification under the mapping `AbstractFinal`,
`AbstractOutcome`.

### 2.3 `QueueManager` and the code

`rows` is the sqlite table; `handle[i]` is the thread whose events are in
`_stops[i]` and `_pauses[i]`, and is *not* reset when `_run` returns through
line 225, as in the code. `thr[t].it` is the thread's own copy of the item, and
every `Save` writes a whole row from a copy. A handler method is cut at each
call of the storage or the file system: `start` is `Start`, `MarkWaiting`,
`Spawn`/`SpawnRefused`; `cancel` is `Cancel`, `Write`; `delete` is `Delete`,
`DeleteFiles`, `DeleteRow`. A thread is cut the same way, from `Load` over
`Prepare` (target path, existing size), the request (`Respond`, `TakePart` for
416, `RequestFail`, `NoSpace`), the loop (`Check`, `Chunk`, `EndOfBody`,
`ReadFail`), the rename (`Replace`, `ReplaceFail`, `Record`) to the retry loop
(`Caught`, `Fail`, `Sleep`, `Cleanup`). Whether a chunk also saves the row is a
choice, since it depends on the time since the last update. The conflict mode
is a choice at each attempt from `Modes`, as the setting can change.

`SoloUsers` is an assumption about users, not about the code: they start or
delete an item only when no thread of it is alive. Without it the code lets two
threads write one part file; the run `pc_start_twice` shows that with
`SoloUsers = FALSE`, and the run `pc_queue` shows what holds with it.

### 2.4 `DaemonLifecycle` and the code

`pc[i]` is where `main()` of a process is, from `write_pid_file` over
`create_server` and the accept loop to the end; `shutdown[i]` its `g_shutdown`,
`listener` the process bound to each port, `pidfile` the PID written last.
`conn` holds the connections: in the backlog (`queued`), in a handler thread
(`accepted`), after `g_shutdown = 1` (`noted`), `answered` or `reset`. `Check` is
the head of `for (; !g_shutdown;)`, which the loop reaches once per accepted
connection: `accept` is not interrupted by the flag, so a daemon that was told
to end waits for one more connection, and answers it.

`sender[s]` holds the locals of `send_payload` (and of the desktop's
`send_payload_file`, which does the same): the port it deals with, the request it
waits for, the polls answered so far. One request is `Connect` followed by
`Answered` or `Late`, or `Refused`; `Continue` is what the sender does with the
result. Time is abstracted: eight seconds of `wait_for_daemon_down` have room for
at least `MinPolls` answered polls, after which the sender may give up at any
one; the twelve seconds of `wait_for_daemon_up` last until no process is still on
its way to its socket (`Starting`); a time-out of a request is a choice bounded by
`MaxMissed`, and the request stays in the backlog or in its thread.

`SendsOnQuiet` is stated while nothing was missed (`NothingMissed`) and checked
for one sender: a slow answer, or a second sender
at the same time, does put one daemon on top of another, and the documentation
promises nothing for these cases. `AnsweredIsObeyed` and `ShutdownEnds` are not
restricted.

### 2.5 `LinkResolver` and the code

A call of `resolve_text` is one thread without shared state, so one call is
modelled. `phase` is `scan` (`parse_text`, with its preferred and other links),
`expand`, `done`, or `raised` when an exception leaves the call, which loses all
results: a plugin's (`Raise`), or that of a second normalization. `normalize_url`
drops the brackets of an IPv6 host and rejects what it has made of it, so `Norm` is
any function: `_expand_url` normalizes what `seen` is to hold (`Remembers`), and
`resolve_url` normalizes that again, outside the `try` (`ResolveRaise`; `ScanRaise`
is the same of `is_noise_url`). The recursion of `_expand_url` and `_expand_result` is a list
of tasks, `todo`, the next one first: a frame has nothing left to do when its
callee returns except to look at the limit (`Full`), and every task looks at it
first. `call` has the link as it is in `seen`, the URL the registry is resolving, and
the plugins still to ask in the order of their `Priority` and the result if none gives a final one.

`Answers(p, u)` are the results plugin `p` can return for `u`; which of them it
returns, and where redirects lead, is a choice at every request, so the graph of
links has any shape, and cycles, and may change during the call. Two details of
the code that a reader may not expect are kept: `GitHub` matches by domain alone,
so any page there is a direct file, and `Direct` takes a URL that looks like a
file for one even if the server refuses it. A page's children found at depth 1
are listed unfollowed (`ListChild`), once for each page that has them. `answer` is
history: what the registry returned for each link in `seen`.

A link that was seen is skipped, also when what leads to it is that link itself,
in another spelling, or a circle of redirects and pages. `NothingDropped` says
what holds all the same: every link a result leads to is listed or has an answer
of its own, and any set of links closed under "leads to" of which nothing is shown
contains a circle, the one exception (see 3.1). `WithinDepth` speaks of the
answers alone, not of the depth the code carries along: there are levels for the
answered links, 0 to `MaxDepth`, such that each is pasted or one (a redirect) or
two (a page) below one that leads to it. With the limit on a page's children and
`OneEntryPerLink` it bounds the links that are asked for, so that a call ends when
its requests do.

### 2.6 `SettingsStore` and the code

`disk` holds `settings.json` and `settings.json.tmp` as `FileStore` files, `fd`
each thread's open file, `put` each thread's update. `Merge` is `load`, the field
that was sent, `_validate`; then `OpenTmp` truncates, `WriteTmp` writes the text
(one chunk, since Python's buffer reaches the file when it is closed) or
`WriteFail` leaves it empty, `ReplaceTmp` renames, `ReplaceFail` finds the name
gone because another thread renamed it. An empty or torn file is `Unreadable`,
for which `load` raises and the helper does not start.

### 2.7 `HelperServer` and the code

`req[h]` is what handler thread `h` is doing. `Resolve`, `Sleep`, `Cache`, `Vet`,
`ReplyNative` are `resolve_native_links`: up to `Retries` attempts while a hoster
is challenged, the cache, one preflight per HTTPS URL. `AskRelay`, `ConnectHead`,
`ConnectGet`, `Fallback`, `Copy` are `handle_relay` with the range request that
stands in for a refused HEAD. `AskPut`, `Save` (a step of `SettingsStore`),
`Publish`, `SetQueue`, `SetEngine` are the PUT and its three assignments. Each
has its failures. `Exit` is a crash or a shutdown at any point: handler threads
are daemons and die with the process; `Start` reads the settings.

`Site[u]` says how the file server of a URL behaves: whether it answers HEAD,
whether it serves ranges and tells the total, whether it says its length. What
the resolver returns is any few of the URLs a text leads to. The clock ticks in
the cache's unit; it stands still while an answer is being looked up or vetted,
which takes seconds.

Four variables are history: `given` (when the resolver last gave a URL for a
text), `vetted` (URLs whose preflight succeeded), `kept` (the values a field may
have after the PUTs so far) and `clashed` (two updates overlapped). A server that
tells no total (`bytes 0-0/*`) is exempt from the length in `RelayKeepsPromise`:
the code then announces the one byte it asked for. Overlapping updates share the
temporary file, may lose one another's field and may leave a file that cannot be
read; no document speaks of two clients, so `SavedIsKept` and the second half of
`SettingsAgree` are stated until that happens.

### 2.8 `DesktopPanel` and the code

The Tk thread's handlers are the actions of the first part: `Timer` and
the buttons. `timers` are the timers Tk has pending, that of `__init__` (`First`) among
them, and `known` is `_refresh_after_id`: a timer that fires leaves `timers`, and
`known` goes on naming it until `refresh_all` cancels it, which then does nothing.
`Refresh(pending)` is what `refresh_all` does but for its thread, when `pending` are
the timers left: `check_helper`, cancel the known one, set and note another if the
box is checked. `on_close` cancels the known one only, and `OneTimer` says that it is
all there is. A new timer takes any of `Handles` that is not pending, since Tk's own
ids never come back. `jobs` are the threads
of `run_bg` with what was captured at the click; a snapshot is loaded in several
requests (`LoadSettings`, `LoadDownloads`, `LoadLogs`), between which the console
may change. `ready` is Tk's event queue: callbacks run in the order in which
threads end (`ApplySnapshot`, `AfterCall`, `AfterFailure`).

`child`, `handle`, `other` are the helpers: those the panel started, the one
`FetcherProcess` holds, and somebody else's on the port; in a frozen build
(`frozen`) the helper is a thread of the panel. Items are pairs of the console's
boot and an id, since a console that restarts numbers from 1 again. Of the item
actions only delete is there (the others change no more of what is shown), of
the settings only the download path.

## 3. The runs

Every bound is a constant of the module (`MaxPosts`, `MaxOps`, `MaxFaults`, the
size of the body, the numbers of threads) and is set in the `.cfg`.
`CHECK_DEADLOCK FALSE` is set because users may stop asking and bounds run out.

| run | instance | properties |
|---|---|---|
| `native_pause` | four servers (sized and ranged, sized only, ranged only, large), 2 chunks, 2 places, two posts, three requests of pause, resume and restart, two faults | `ActiveHasWorker`, `FinalIsWhole`, `CompletedIsWhole`, `PartIsPrefix`, `ProgressKept` |
| `native_serve` | two servers, one large, two posts, three requests of pause, cancel, resume, shutdown, one fault, fairness | `SingleWorker`, `CancelledLeavesNoPart`, `WaitingIsServed`, `DownloadsSettle` |
| `native_delete` | two clients, two servers, one large, three posts into two places, three requests of delete and pause | `TypeOK`, `IdsAscending` |
| `segmented_publish` | five blocks (so the last range takes a remainder), reads of one or two blocks, every failure, every client | `TypeOK`, `PublishedIsWhole`, `WholeIsAccepted`, `NeverStuck`, `ImplementsAtomic` |
| `pc_queue` | a ranged item, an unranged one whose name the server sends, one without URL; all conflict modes; five workloads of two or three starts, pauses, cancels, deletes and restarts with a fault; one download at a time; fairness | `TypeOK`, `FinalIsWhole`, `CompletedIsWhole`, `PartIsPrefix`, `EventsReachThread`, `ThreadsEnd`, `EndSettlesRow` |
| `lifecycle_replace` | up to two old daemons on the two known ports, one new process, one sender, two connections at a time, one request of another client, one late answer, one fault, fairness | `TypeOK`, `AnsweredIsObeyed`, `SendsOnQuiet`, `ShutdownEnds` |
| `resolver_text` | eight links (two spellings of one, a page, a hoster's, a proxied one, noise, one with a bracketed IPv6 host and the invalid one it is normalized to), texts of up to four, the code's depth of 3, at most three results and two children | `TypeOK`, `NothingDropped`, `OneEntryPerLink`, `WithinDepth` |
| `helper_requests` | two handlers, file servers of five kinds, files of two chunks, a cache of two ticks, five workloads of requests with a fault or a death | `TypeOK`, `AnswerIsRecent`, `RelayKeepsPromise`, `SavedIsKept`, `SettingsAgree` |
| `desktop_panel` | two threads, two helpers, two ids; workloads of three clicks, of a click with a change, a failure and a restart of the console, of four operations on helpers; fairness | `TypeOK`, `OneTimer`, `ClosedLeavesNoHelper`, `PanelCatchesUp` |

Why the bounds are enough. A body of two chunks tells apart nothing, a proper
beginning and the whole, and a wrong offset shows as a wrong chunk. Two places
and three posts fill the table, shift it and reuse a place. Three requests allow
pause-resume-pause and cancel-resume-cancel on one item or a request on one item
between two on another; two faults allow a connection lost in an attempt and in
the one that resumes it. In the segmented transfer the number of threads is the
code's own, and five blocks are the least that exercise the remainder of the
division and a read of more than one block in a range. In the PC queue two
threads per behaviour allow one attempt to follow another on an item; each
attempt has the code's own three retries. In the life cycle an iteration of the
wait takes at most two seconds to connect, two to read and half a second of
sleep, so eight seconds have room for two; two connections at a time are the
sender's and one that comes in between. In the resolver three results are few
enough for the limit to cut into a page's two children, depth 3 is the code's own,
and the links that can be resolved are enough for chains longer than that. In the helper three requests on two handlers let one thread's answer expire
between another's lookup and store, and three updates put a second and a third
into every step of the first. In the panel two threads are the least for
snapshots out of order; the workloads bound users, not timers: a checked box
refreshes for ever.

The behaviours each property needs do occur: every one of them is broken by a
small change of the code it is about (the operators marked "Mutant" beside the
definitions: a dropped guard, an off-by-one, a missing reset), listed in
`PROJECT.json`.

### 3.1 Runs that end in a violation

Each checks one sentence of the documentation, or what it implies, against the
code; the counterexample is the finding.

| run | what happens |
|---|---|
| `native_two_posts` | `new_download` sees under the lock that there is no worker, and `start_worker` sets the flag later without it: two first posts at a time start two workers ("one background worker") |
| `native_cancel_resume` | an item is resumed after its connection was lost; the worker measures the `.part` file; a cancel unlinks it before the open with `O_CREAT \| O_APPEND`; the rest of the body goes to a new file, at the wrong offset, and a later resume brings the count to Content-Length: a torn file gets the final name |
| `pc_start_twice` | two starts before the first thread's request is answered: two threads on one part file; one truncates what the other then renames |

Three more disagreements are visible in the model without a run. A delete of
another item shifts the table under the worker (`DeleteInactive`), whose outcome
then goes to the wrong entry and leaves an item `downloading` for ever, which
`resume` refuses; `ActiveHasWorker` therefore belongs to the run without deletes, and
its theorem supposes that none shifts the worker's item (`PointersHold`). A pause during a segmented transfer removes the `.part` file
(`SegmentStop`, `Abandon` of `SegmentedTransfer`), where the documentation says
"Pause keeps a `.part` file for resume"; `ProgressKept` asks for what a single
stream has received. A pasted link that redirects to another spelling of itself, or
links that redirect in a circle, meet themselves in `seen` and leave no entry at all,
where the documentation has every link "shown as completed/failed/manual-action-required
instead of hiding errors in logs"; without its exception for circles (`HasCircle`)
`NothingDropped` is violated in ten steps.

### 3.2 Fairness

Safety runs assume none. `FairSpec` of `NativeQueue` assumes that a worker
thread that can take a step takes one (its system calls have time-outs:
`SO_RCVTIMEO` and `SO_SNDTIMEO` are set on every socket), that a handler which
decided to start a worker gets there, and that one with files to remove gets
there. `FairSpec` of `QueueManager` assumes the same of download threads
(`urlopen` has a time-out) and of handlers in the middle of a method. `FairSpec`
of `DaemonLifecycle` assumes it of `main()`, of handler threads and of a sender in
the middle of its work; time-outs, new sends and other clients are not
assumed. `FairSpec` of `DesktopPanel` says that
due timers and waiting callbacks run, that each thread's request is answered or
times out, and that helpers finish starting and stopping; `PanelCatchesUp` is
stated for a box that stays checked. `LinkResolver` and `HelperServer` need none. Nothing is
assumed of users, of restarts or of faults: a download need not be tried again,
but every download that started has to come to an end.

## 4. The proofs

All proofs hold for every size of the table, any sets of workers, clients,
handlers, threads and links, any body size and every bound. The assumptions on
the constants say that names, sets and numbers are what the comments call them:
`NativeQueueAssumption`, `SegmentedAssumption`, `QueueManagerAssumption`,
`LinksAssumption`, `LimitsAssumption`, `SettingsAssumption`, `HelperAssumption`
(with a cache time above zero), `PanelAssumption`, `LifecycleAssumption`, and that
model values are not data: `NoPathAssumption`, `NoFileAssumption`,
`ContentAssumption`, `DetachedAssumption` (none is a path, a sequence, a file
name). TLC evaluates them in the runs. Where a theorem needs more, because the
code does not keep the property otherwise, it says so, under a name of its own, and
each of these names is explained below with what goes wrong without it. There are
two kinds. Some are on the constants, in the theorem's `ASSUME`: one client, no
deletes, names that do not meet. Others are on the behaviour, as conjuncts beside
`Spec`: `[]SingleWorker`, `[][PointersHold]_vars`, `[][MeasuredStays]_vars` for the
native queue, `[]OneThread` and `[][MeasuredStays]_vars` for the PC queue. They name
the races themselves, instead of ruling out every request that could take part in
one, and so leave any number of clients, cancels and deletes; each is itself a
theorem under constants that exclude the race.

**`FileStoreProofs`**

The invariant `StoreInv` says that files are sequences of chunks or absent and
that an open descriptor leads to a file that exists. One lemma per operation
(`UnlinkLemma`, `OpenLemma`, `RenameLemma`, `WriteLemma`, `CloseLemma`) shows that
it keeps `StoreInv`, and says what it does to the file it names and that it leaves
the other files and the other threads' descriptors alone. `WriteAtLemma` is the
one about holes: a write at the end of a file appends, and nothing else does.

**`NativeQueueProofs`**

* `TypeCorrect`: `Spec => []TypeOK`. `TypeOK` is not inductive by itself: a write
  goes to the file a descriptor names, so the invariant `TypeInv` adds `StoreInv`.
  Besides types, it says that `count` never passes the table and that the worker's
  pointer always leads into it.
* `AscendingIds`: `Spec => []IdsAscending`. Workers and most requests keep ids,
  count and the counter (`IdsKept`); `Post` appends the largest; `DeleteInactive`
  shifts, which keeps an ascending sequence ascending.
* `OneClientOneWorker`: if there is one handler thread at a time (`OneClient`),
  there is never a second worker. The invariant `WorkerInv` says that before
  `started` there is no running worker, and that a handler is in `start_worker`
  only then. It shows that the race of `native_two_posts` is the only way to get a
  second one.
* The theorems below are for any number of handlers. What they suppose of a behaviour
  is `SingleWorker`; `PointersHold`: no DELETE moves the item under a worker's pointer;
  and `MeasuredStays`: nobody unlinks the `.part` file between `Prepare`, which measures
  it, and the open. The code keeps none of the three: `native_two_posts` shows the
  first broken, a DELETE of an earlier entry shifts the table under the worker, and
  `native_cancel_resume` shows the third. With one client, or without the requests in
  question, they hold: `OneClientOneWorker`, the lemma `NoDeleteKeepsPointers`, and
  `NoCancelKeepsMeasured`.
* `ActiveItemsHaveWorker`: with one worker and `PointersHold`, every item shown as
  resolving or downloading has the worker on it. `ActiveInv` follows the state of the
  item from one place in the code to the next. Deletes of the worker's own item and
  of entries behind it are covered.
* `CancelLeavesNothing`: `[]CancelledLeavesNoPart` under the same two, and either
  `NoDelete` or, at all times, a file name per item of the table (`NamesApart`). The
  invariant `Places` says that the copies the worker made (URL asked, URL whose
  headers it holds, path of the `.part` file) belong to the item its pointer leads
  to, and that its descriptor is that of this `.part` file; `CancelInv` follows a
  cancelled item until the worker is through with it (`Abandoned`). Cancelling,
  resuming and cancelling again at any point is covered, and so is a DELETE that takes
  the place of the cancel.
* `PartsArePrefixes`, `FinalsAreWhole`, `ProgressGoesOnRequest`: with `NamesDiffer` (two
  links never have one file name), one worker, `PointersHold` and `MeasuredStays`, through
  any number of pauses, cancels, deletes, resumes, shutdowns, restarts and failures.
  `FilesInv` ties the number of bytes the worker has counted to what is in the file at
  each place of the code (`TransferOk`: what `Prepare` measured is still there at the
  open, what was appended fits what is there, the rename comes after the count has
  reached Content-Length), or says that the file lost its name under the descriptor:
  then the rename at the end finds nothing. The sized file of a segmented transfer is
  the exception: it may have its full length without its bytes (`Allocated`), and the
  proof shows that nothing is ever appended to it and that it is never renamed as it
  is. `ProgressGoesOnRequest` is an action property: received bytes are given up only by
  a cancel, by the unlink of a DELETE, or by the worker that finds its item cancelled.
* `CompletedAreWhole` also needs `NoDelete`: DELETE unlinks the final file after it
  released the lock, when the table may hold a new item for the same link.
* `ProgressIsKept`, under `NoDelete` and `NoCancel`, is `ProgressKept` itself: no step
  throws away what was received.
* `WorkersReturn`, without any hypothesis: a worker that picked an item is back at the
  queue after at most `3 * Size + 14` steps of its own. `StepsLeft` counts them from its
  place in the code and the chunks that are left; its own steps decrease it and
  nobody else's increases it. With the fairness of section 3.2, under which a worker
  keeps taking steps, this is what `DownloadsSettle` rests on.

**`SegmentedTransferProofs`**

* `TypeCorrect`: for every file size of at least four, every read size.
* `PublishedWhole`: `Spec => []PublishedIsWhole`. The strengthening says what each
  thread has written (its range up to its offset), that a thread which ended
  without marking a failure or a stop is past its range's end, and that the four
  ranges cover the file, with the remainder of the division in the last.
* `WholeAccepted`: `Spec => []WholeIsAccepted`: the test of the total after the joins
  never refuses a file that all four threads wrote completely. `CountInv` says that
  `total`, which is counted under the shared lock, is the sum of what the four
  threads have added so far, and that each has added what it wrote except for the
  read it is at.
* `Implementation`: `Spec => Atomic!Spec`. Initial states map to initial states;
  every step maps to `Work`, `AlreadyThere`, `Publish`, `GiveUp` or a stutter;
  `Publish` needs the invariant of `PublishedWhole`.
* `OwnStepsAreProgress`: every step of the coordinator and of a segment thread decreases
  `Rank`, which starts at no more than `6 * Total + 44`, and no client changes it: the
  function returns within that many steps, for every schedule.
* `NobodyWaitsInVain`: the coordinator joins only threads that are done or in the middle
  of their program. Together the two say what `NeverStuck` is about without `ENABLED`.

**`QueueManagerProofs`**, for any items, names, servers, threads and workloads

* `TypeCorrect`: `Spec => []TypeOK`. The strengthening (`LocalInv`) says that attempts
  stay within `Retries`, that a thread past `Prepare` has a URL, and that one whose
  server ignores ranges starts at the beginning.
* `ReachedByEvents` (`[]EventsReachThread`) and `SettledAtEnd` (`EndSettlesRow`), for any
  number of handlers, as long as an item has one thread at a time (`OneThread`;
  `pc_start_twice` shows two). `RunInv` says where a thread's row may say `downloading`
  and that no handler is about to write that state, however old its copy is
  (`DraftInv`): every method sets another state on the copy it took, and the one row
  it writes back as it read it is a completed one.
* `PartsArePrefixes`, `FinalsAreWhole`: with `OneThread`, `OwnNames` (each item has a family
  of names that is its own and closed under auto-rename) and `MeasuredStays` (no delete
  between the look at the part's size and the open), for any number of handlers that
  pause, cancel and delete while threads run. `FilesInv` says what the files of an
  item's names hold (`BodyInv`), that rows and copies name only names of the family
  (`NamesInv`, `CopyInv`), and that a thread's byte count is the size of its part file,
  unless that was deleted under its descriptor, and that only a whole part is renamed
  (`WorkInv`). Covered are retries after every failure, a 416 that takes the part as it
  is, restarts of the helper at any point and a change of the conflict mode between
  two attempts. Without `OwnNames` two items with one file name write one part file,
  or one replaces the other's final file.
* `OneHandlerOneThread`, `OneHandlerMeasures`: with one handler whose user starts or
  deletes an item only between its threads (`OneHandler`), both suppositions hold.
  `SoloInv` says of a handler in the middle of a method which of its copies may be
  stale: the row a `start` read is still the row when the thread is spawned.
* `CompletedAreWhole` needs `OneHandler` and `OwnNames`. With two handlers, a cancel may
  read a completed row, another handler delete item and file, and the cancel write
  the row back. `CompletedInv` says that a completed row's file is there (`DoneInv`),
  and that the name a thread will leave in the row is its target's or that of a file
  that is there (`ShownInv`).
* `ThreadsReturn`, without any hypothesis: a download thread ends after at most
  `6 * Size + 32` steps of its own, over all its attempts, whatever the server and
  other threads do. It is what `ThreadsEnd` rests on, with the fairness of section 3.2.

**`DaemonLifecycleProofs`**, for any instances, ports, senders and sockets

* `TypeCorrect`: `Spec => []TypeOK`; a sender's socket is a connection of its own, of the
  kind it waits for (`Waits`).
* `AnswerObeyed`: `Spec => []AnsweredIsObeyed`, if the wait has room for two polls
  (`MinPolls > 1`). `HeardInv` counts: a daemon that answered has set its flag, so it
  comes back to `accept()` at most once more, and the poll that it accepts there is the
  last one. With one poll the sender could give up before the accept loop looks at the
  flag. The code's eight seconds are more than one iteration of at most two seconds to
  connect, two to read and half a second of sleep.
* `SentOnQuiet`: `Spec => SendsOnQuiet`, for one sender (`OneSender`). `QuietInv` says,
  while nothing was missed, that the ports the sender has passed are silent
  (`SweepInv`), that the process it launched is the only one on its way to a socket
  (`LaunchInv`), and that a connection is reset only by a daemon that no longer listens
  (`ResetInv`). Two senders at the same time do put one daemon on top of another.
* `ShutdownIsFinal`: nothing resets `g_shutdown`, and once it is set `main()` has at most
  six steps left from its loop (`MainLeft`): each of its own is one of them, and no
  handler, sender or other instance adds any. So it accepts one more connection at most.

**`LinkResolverProofs`**, for any links, any answers of the servers and any limits

* `TypeCorrect`: tasks stay within the depth, and there are never more than
  `MaxResults` results, although children are appended in another place than
  results.
* `NoneDropped`: `Spec => []NothingDropped`, for any `Norm`. The invariant follows each pasted link
  and each URL a result leads to: it is still a task, or it was seen, or the limit
  was reached; and every URL that was seen is the one being resolved or has an
  answer that is listed or was expanded. Lemmas on sequences say which elements
  `Append`, `Tail` and concatenation leave in `todo`.
  A set of links closed under "leads to" without a circle has one that leads to no
  answered link, and what that one leads to can only be listed.
* `AskedOnce`: `Spec => []OneEntryPerLink`, because a link is resolved only when its
  normal form enters `seen`, under which its answer is kept: entries map one to one to
  members of `seen`. Two URLs may lead to one file, and a child too deep to follow is
  listed for each of its pages: the theorem leaves these out.
* `AskedWithinDepth`: `Spec => []WithinDepth`. The invariant (`Leveled`) says of the
  call at work and of every task that they are as far from a pasted link as the depth
  they have left allows. That the levels are the answers' own, and that what a result
  leads to gets as much less as its type costs, is what each step keeps.

**`HelperServerProofs`**

* `TypeCorrect`, with `StoreInv`: an open file has content, also when its name was
  renamed under the writer.
* `PromiseKept`: `Spec => []RelayKeepsPromise`. The invariant ties each request's
  status and length to its place (`Sound`), and says that a vetted URL is one that
  `Preflight` accepts.
* `AnswersRecent`: `Spec => []AnswerIsRecent`. `CacheInv` says that a cached URL was
  given for that text no earlier than its time stamp, `Answered` the same of what a
  handler is about to store or reply.
* `SavedKept`: `Spec => []SavedIsKept`. While no updates overlapped there is one
  writer (`OneWriter`), whose place says what both files hold; a failed or dying
  writer leaves `settings.json` alone.
* `SettingsMeet`: `Spec => []SettingsAgree`. Each assignment reads `app.settings`
  again, so the last handler to end assigns what is shown (`AgreeInv`).

**`DesktopPanelProofs`**

* `TypeCorrect`: `Spec => []TypeOK`, action by action for the Tk thread, the `run_bg`
  threads and the helpers.
* `OneTimerPending`: `Spec => []OneTimer`. What is pending after the known timer was
  cancelled is at most the first one, whichever of button, callback or timer called
  `refresh_all`; so the timer that is set is again the only one.
* `NoHelperLeft`: `Spec => []ClosedLeavesNoHelper`. The invariant says that at most
  one helper is bound to the port, that only the one `FetcherProcess` holds (in a
  frozen build: or one still starting) can be alive, and that closing ends it.

**Only model-checked.** Liveness (`WaitingIsServed`, `DownloadsSettle`,
`ThreadsEnd`, `ShutdownEnds`, `PanelCatchesUp`) and `NeverStuck`,
which uses `ENABLED`, are beyond the prover. For `DownloadsSettle`, `ThreadsEnd`,
`ShutdownEnds` and `NeverStuck` the part that needs neither is proved, as variants that
every step of the program decreases and no other step increases. That a thread or a
handler is scheduled again, and that a connection reaches a `main()` that waits in
`accept()`, stays with TLC. Every other property of the passing
runs is the statement of a theorem. Before they were proved, the inductive invariants
of both queues were checked by TLC, those with suppositions on the behaviour on
instances with two handlers that race.

## 5. What is not modelled

* What hosters' pages look like: a plugin of `LinkResolver` returns one of the
  results its code can return, or raises.
* URL and header parsing, JSON formatting, logs, speeds and ETAs, the native HTTP
  client, the native resolver's case analysis on schemes, the check for private
  addresses, the offset arithmetic of `json_downloads`, the static buffer of
  `handle_post_links` (both in the list of hazards).
* Native settings: `load_config`, `save_config`, and a change of `download_dir` while
  items are queued (`g_download_dir` is read without a lock while a handler writes
  it). Nothing in the repository says what a download in progress should do.
* A server that sends no length and breaks off: nothing in the program can tell,
  and `FinalIsWhole` is stated for servers that send one.
* A server that changes the file between two attempts.
* `POST /api/links` of the helper, which is a call of `resolve_text` followed by
  `add_result`, static files and the log listing; the item actions of the helper are
  those of `QueueManager`.
* The panel's item actions other than delete, settings other than the path, dialogs,
  progress and logs.
* The sender's `--force` and `--no-shutdown`, with which a user asks for a second
  daemon, and the logs it collects; ports other than the sender's own and the two
  known ones.
* Windows: files and ports are those of POSIX. On the Windows build that is released
  too, an open file cannot be unlinked or replaced, and `HTTPServer` sets
  `SO_REUSEADDR`, with which a second helper can bind a port that is taken; what
  `QueueManager`, `SettingsStore` and the first part of `ClosedLeavesNoHelper` say
  is not shown for it.
* The command line, the diagnostic payload, the web page, build scripts: no state of
  their own.

## 6. Plan

What is left, in order of importance.

1. **Shared names** in both queues, and deletes and starts of the PC queue while a
   thread is at work (a deleted row that comes back), once it is decided what should
   hold.
2. **Weaker hypotheses** for the completed rows: deletes in the native queue of links
   that are not posted again, several handlers of the PC queue of which none writes a
   completed row back.
3. **Request bodies and the listing** of the native server: the static buffer, the
   offset arithmetic.
4. **Two senders and slow answers** in `DaemonLifecycle`, and the queue of the process
   that is replaced.

## 7. Running

    tlc -config NativeQueue_pause.cfg MCNativeQueue
    tlc -config SegmentedTransfer_publish.cfg SegmentedTransfer
    tlc -config QueueManager_queue.cfg MCQueueManager
    tlc -config DaemonLifecycle_replace.cfg MCDaemonLifecycle
    tlc -config LinkResolver_text.cfg MCLinkResolver
    tlc -config HelperServer_requests.cfg MCHelperServer
    tlc -config DesktopPanel_panel.cfg MCDesktopPanel
    tlapm FileStoreProofs.tla
    tlapm NativeQueueProofs.tla
    tlapm SegmentedTransferProofs.tla
    tlapm QueueManagerProofs.tla
    tlapm DaemonLifecycleProofs.tla
    tlapm LinkResolverProofs.tla
    tlapm HelperServerProofs.tla
    tlapm DesktopPanelProofs.tla

Every run takes between seconds and three minutes with two workers;
`NativeQueueProofs` takes about seven minutes from nothing, `QueueManagerProofs` and
`HelperServerProofs` three to four, the other proofs less.
