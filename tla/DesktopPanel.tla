----------------------------- MODULE DesktopPanel -----------------------------
(***************************************************************************)
(* The desktop control panel (desktop/app.py, desktop/client.py): one Tk    *)
(* thread runs buttons, timers and callbacks; every request to the console  *)
(* runs in a thread of its own (run_bg), which puts its callback on the Tk  *)
(* event queue when it is done, in whatever order the threads get there.    *)
(* FetcherProcess owns a helper on port 2635, a child process or, in the    *)
(* frozen build, a thread; somebody else's helper may hold the port.        *)
(*                                                                         *)
(* An item is the boot of the console that numbered it and its id.  Of the *)
(* settings only the download path is kept; log texts, progress, dialogs    *)
(* and the layout are out of the model.                                     *)
(***************************************************************************)
EXTENDS Naturals, Sequences, FiniteSets

CONSTANTS Dirs,       \* download paths
          Jobs,       \* threads of run_bg at work at a time: bounds them
          Handles,    \* what Tk calls timers: one not in use stands for a new one
          Children,   \* helper processes or threads ever started: bounds the starts
          MaxId,      \* bound: items a console numbers
          Workloads   \* bound: what users, other clients and failures do

None  == "none"
First == "first"     \* the timer of __init__, whose id nobody keeps
Kinds == {"clicks", "changes", "faults", "boots", "helper"}
Ids   == 1 .. MaxId

ASSUME PanelAssumption ==
    /\ Dirs # {} /\ MaxId \in Nat \ {0}
    /\ None \notin Children
    /\ Handles # {} /\ {None, First} \cap Handles = {}
    /\ Workloads \subseteq [Kinds -> Nat]

VARIABLES con,      \* the console: boot, ids in its queue, the next id, its path
          entry,    \* the text in the Download path entry
          shown,    \* the items in the tree, which rows_by_iid keeps by id
          label,    \* helper_status: what the last check_helper saw
          timers,   \* the timers that are pending
          known,    \* _refresh_after_id, which a timer that fired leaves as it is
          auto,     \* the Auto refresh box is checked
          jobs,     \* the threads of run_bg, until their callback has run
          ready,    \* the Tk event queue: the jobs whose callback waits, in order
          frozen,   \* the panel runs from a frozen build
          child,    \* each helper the panel started
          handle,   \* FetcherProcess.process or .thread
          other,    \* somebody else's helper: on port 2635 or not
          closed,   \* the window is closed
          budget    \* what is left of the workload

screen == <<entry, shown, label>>
clock  == <<timers, known, auto>>
work   == <<jobs, ready>>
helper == <<child, handle, other>>
vars   == <<con, screen, clock, work, frozen, helper, closed, budget>>

Items  == Nat \X Ids
AnyDir == CHOOSE d \in Dirs : TRUE

\* A thread: its request, what was captured at the click, what it has read.
Job == [op : {"none", "load", "act", "save", "add", "send"},
        at : {"none", "settings", "downloads", "logs", "post", "done"},
        dir : Dirs, id : Ids, rows : SUBSET Items, ok : BOOLEAN]
Call(op, d, i) == [op |-> op, at |-> "post", dir |-> d, id |-> i, rows |-> {}, ok |-> TRUE]
Load  == [Call("load", AnyDir, 1) EXCEPT !.at = "settings"]
NoJob == [Call("none", AnyDir, 1) EXCEPT !.at = "none"]

Init ==
    /\ con = [boot |-> 1, ids |-> {}, next |-> 1, dir |-> AnyDir]
    /\ entry \in Dirs
    /\ shown = {}
    /\ label = "stopped"
    /\ timers = {First} /\ known = None
    /\ auto = TRUE
    /\ jobs = [j \in Jobs |-> NoJob]
    /\ ready = <<>>
    /\ frozen \in BOOLEAN
    /\ child = [c \in Children |-> "absent"]
    /\ handle = None
    /\ other \in {"absent", "serving"}
    /\ closed = FALSE
    /\ budget \in Workloads

Spend(b) == budget[b] > 0 /\ budget' = [budget EXCEPT ![b] = @ - 1]

\* GET /api/downloads
Rows == {con.boot} \X con.ids

----------------------------------------------------------------------------
(***************************************************************************)
(* FetcherProcess: who is on the port, and whose it is                     *)
(***************************************************************************)
On(state) == {c \in Children : child[c] = state}
Bound(s)  == s \in {"serving", "stopping"}
Taken     == Bound(other) \/ \E c \in Children : Bound(child[c])

\* is_owned_running
Owned == handle # None /\ child[handle] \in {"starting", "serving", "stopping"}

\* check_helper: one that is stopping may still answer.  Whoever answers is
\* called ours while our own runs.
Whose == IF Owned THEN "owned" ELSE "external"
Seen  == (IF On("serving") # {} \/ other = "serving" THEN {Whose}
          ELSE IF Taken THEN {Whose, "stopped"} ELSE {"stopped"})

\* POST /api/shutdown to the port, whoever holds it.
Posted == [c \in Children |-> IF child[c] = "serving" THEN "stopping" ELSE child[c]]

\* stop: a thread is posted to and joined, which ends it unless it is still
\* starting; a process is terminated.
Ended ==
    IF ~Owned THEN Posted
    ELSE [Posted EXCEPT ![handle] = IF frozen /\ @ = "starting" THEN @ ELSE "dead"]

----------------------------------------------------------------------------
(***************************************************************************)
(* The Tk thread                                                           *)
(***************************************************************************)
\* run_bg
Free(j)  == jobs[j] = NoJob
Run(job) == \E j \in Jobs : Free(j) /\ jobs' = [jobs EXCEPT ![j] = job]
Check    == label' \in Seen

SetTimer(left) ==
    /\ known' = CHOOSE h \in Handles : h \notin left
    /\ timers' = left \cup {known'}

\* Mutants: the pending timer is not cancelled; no other is set.
RefreshUncancelled(pending) ==
    /\ Check
    /\ \/ auto /\ SetTimer(pending)
       \/ ~auto /\ timers' = pending /\ known' = None

RefreshOnce(pending) ==
    /\ Check
    /\ timers' = pending \ {known} /\ known' = None

\* refresh_all, but for the thread it starts: the timer it knows, if that is still
\* pending, is cancelled and, with the box checked, another set.
Refresh(pending) ==
    LET left == pending \ {known}
    IN  /\ Check
        /\ \/ auto /\ SetTimer(left)
           \/ ~auto /\ timers' = left /\ known' = None

TkIdle == ~closed

Timer ==
    /\ TkIdle
    /\ \E h \in timers : Refresh(timers \ {h})
    /\ Run(Load)
    /\ UNCHANGED <<con, entry, shown, auto, ready, frozen, helper, closed, budget>>

ClickRefresh ==
    /\ TkIdle /\ Spend("clicks")
    /\ Refresh(timers) /\ Run(Load)
    /\ UNCHANGED <<con, entry, shown, auto, ready, frozen, helper, closed>>

\* The box only sets its variable: a pending timer still fires, and checking it
\* again sets none.
ToggleAuto ==
    /\ TkIdle /\ Spend("clicks")
    /\ auto' = ~auto
    /\ UNCHANGED <<con, screen, timers, known, work, frozen, helper, closed>>

Type(d) ==
    /\ TkIdle /\ Spend("clicks")
    /\ entry' = d
    /\ UNCHANGED <<con, shown, label, clock, work, frozen, helper, closed>>

\* Buttons that start a thread: what it sends is read at the click.
Click(job, typed) ==
    /\ TkIdle /\ Spend("clicks")
    /\ entry' = typed
    /\ Run(job)
    /\ UNCHANGED <<con, shown, label, clock, ready, frozen, helper, closed>>

SaveSettings      == Click(Call("save", entry, 1), entry)
SetDownloadDir(d) == Click(Call("save", d, 1), d)
AddLinks          == Click(Call("add", AnyDir, 1), entry)
SendElf           == Click(Call("send", AnyDir, 1), entry)
\* item_action("delete"): the row selected in the tree gives its id.
DeleteItem(i)     == i \in {s[2] : s \in shown} /\ Click(Call("act", AnyDir, i), entry)

----------------------------------------------------------------------------
(***************************************************************************)
(* The threads of run_bg and the console                                   *)
(***************************************************************************)
At(j, state) == jobs[j].at = state

\* Mutant: on_ok and on_error are both queued.
DoneTwice(j, job) ==
    /\ jobs' = [jobs EXCEPT ![j] = [job EXCEPT !.at = "done"]]
    /\ ready' = ready \o <<j, j>>

\* func returned or raised: its callback goes on the event queue.
Done(j, job) ==
    /\ jobs' = [jobs EXCEPT ![j] = [job EXCEPT !.at = "done"]]
    /\ ready' = Append(ready, j)

Fail(j) ==
    /\ ~Free(j) /\ ~At(j, "done")
    /\ Spend("faults")
    /\ Done(j, [jobs[j] EXCEPT !.ok = FALSE])
    /\ UNCHANGED <<con, screen, clock, frozen, helper, closed>>

\* _load_snapshot: settings, downloads and logs, a request each.
LoadSettings(j) ==
    /\ At(j, "settings")
    /\ jobs' = [jobs EXCEPT ![j].dir = con.dir, ![j].at = "downloads"]
    /\ UNCHANGED <<con, screen, clock, ready, frozen, helper, closed, budget>>

LoadDownloads(j) ==
    /\ At(j, "downloads")
    /\ jobs' = [jobs EXCEPT ![j].rows = Rows, ![j].at = "logs"]
    /\ UNCHANGED <<con, screen, clock, ready, frozen, helper, closed, budget>>

LoadLogs(j) ==
    /\ At(j, "logs")
    /\ Done(j, jobs[j])
    /\ UNCHANGED <<con, screen, clock, frozen, helper, closed, budget>>

NewItem == [con EXCEPT !.ids = @ \cup {con.next}, !.next = @ + 1]
Without(i) == [con EXCEPT !.ids = @ \ {i}]
\* A daemon that starts numbers from 1 again.
Rebooted == [con EXCEPT !.boot = @ + 1, !.ids = {}, !.next = 1]

\* A request that changes the console; one for an item it has not is refused.
PostAdd(j) ==
    /\ At(j, "post") /\ jobs[j].op = "add"
    /\ con.next \in Ids
    /\ con' = NewItem
    /\ Done(j, jobs[j])
    /\ UNCHANGED <<screen, clock, frozen, helper, closed, budget>>

PostDelete(j) ==
    /\ At(j, "post") /\ jobs[j].op = "act"
    /\ con' = Without(jobs[j].id)
    /\ Done(j, [jobs[j] EXCEPT !.ok = jobs[j].id \in con.ids])
    /\ UNCHANGED <<screen, clock, frozen, helper, closed, budget>>

PutSettings(j) ==
    /\ At(j, "post") /\ jobs[j].op = "save"
    /\ con' = [con EXCEPT !.dir = jobs[j].dir]
    /\ Done(j, jobs[j])
    /\ UNCHANGED <<screen, clock, frozen, helper, closed, budget>>

SendPayload(j) ==
    /\ At(j, "post") /\ jobs[j].op = "send"
    /\ con' = Rebooted
    /\ Done(j, jobs[j])
    /\ UNCHANGED <<screen, clock, frozen, helper, closed, budget>>

\* Other clients, and a console that restarts.
OthersAdd ==
    /\ Spend("changes") /\ con.next \in Ids
    /\ con' = NewItem
    /\ UNCHANGED <<screen, clock, work, frozen, helper, closed>>

OthersDelete(i) ==
    /\ Spend("changes") /\ i \in con.ids
    /\ con' = Without(i)
    /\ UNCHANGED <<screen, clock, work, frozen, helper, closed>>

ConsoleRestarts ==
    /\ Spend("boots")
    /\ con' = Rebooted
    /\ UNCHANGED <<screen, clock, work, frozen, helper, closed>>

----------------------------------------------------------------------------
(***************************************************************************)
(* Callbacks                                                               *)
(***************************************************************************)
Next1  == Head(ready)
Result == jobs[Next1]
Deliver ==
    /\ TkIdle /\ ready # <<>>
    /\ ready' = Tail(ready)

\* _apply_snapshot, whatever was loaded or typed since.
ApplySnapshot ==
    /\ Deliver /\ Result.op = "load" /\ Result.ok
    /\ entry' = Result.dir
    /\ shown' = Result.rows
    /\ jobs' = [jobs EXCEPT ![Next1] = NoJob]
    /\ UNCHANGED <<con, label, clock, frozen, helper, closed, budget>>

\* after_add_links, after_action, after_save_settings, after_send_elf: the thread
\* of refresh_all takes the place of the one that ended.
AfterCall ==
    /\ Deliver /\ Result.op # "load" /\ Result.ok
    /\ Refresh(timers)
    /\ jobs' = [jobs EXCEPT ![Next1] = Load]
    /\ UNCHANGED <<con, entry, shown, auto, frozen, helper, closed, budget>>

\* "PS5 offline", or a message box: the screen stays as it was.
AfterFailure ==
    /\ Deliver /\ ~Result.ok
    /\ jobs' = [jobs EXCEPT ![Next1] = NoJob]
    /\ UNCHANGED <<con, screen, clock, frozen, helper, closed, budget>>

----------------------------------------------------------------------------
(***************************************************************************)
(* The helper                                                              *)
(***************************************************************************)
\* How far a helper started 0.4 s ago has come.
Young == {"starting", IF Taken THEN "dead" ELSE "serving"}

\* Mutant: start does not ask whether its own helper runs.
StartAgain(c) ==
    /\ child[c] = "absent"
    /\ \E s \in Young : child' = [child EXCEPT ![c] = s]
    /\ handle' = c

\* start, for a panel without a running helper: the new one becomes its own.
Start(c) ==
    /\ ~Owned
    /\ child[c] = "absent"
    /\ \E s \in Young : child' = [child EXCEPT ![c] = s]
    /\ handle' = c

StartFetcher ==
    /\ TkIdle /\ Spend("helper")
    /\ \E c \in Children : Start(c)
    /\ UNCHANGED other
    /\ label' \in Seen'
    /\ UNCHANGED <<con, entry, shown, clock, work, frozen, closed>>

\* A second click finds its helper running and only looks.
StartRunning ==
    /\ TkIdle /\ Spend("helper") /\ Owned
    /\ Check
    /\ UNCHANGED <<con, entry, shown, clock, work, frozen, helper, closed>>

\* A helper binds the port or, when it is taken, dies.
Bind(c) ==
    /\ child[c] = "starting"
    /\ child' = [child EXCEPT ![c] = IF Taken THEN "dead" ELSE "serving"]
    /\ UNCHANGED <<con, screen, clock, work, frozen, handle, other, closed, budget>>

\* One that was posted to leaves serve_forever.
Quit(c) ==
    /\ child[c] = "stopping"
    /\ child' = [child EXCEPT ![c] = "dead"]
    /\ UNCHANGED <<con, screen, clock, work, frozen, handle, other, closed, budget>>

OtherQuits ==
    /\ other = "stopping"
    /\ other' = "absent"
    /\ UNCHANGED <<con, screen, clock, work, frozen, child, handle, closed, budget>>

OtherStarts ==
    /\ ~Taken /\ Spend("helper")
    /\ other' = "serving"
    /\ UNCHANGED <<con, screen, clock, work, frozen, child, handle, closed>>

\* stop_fetcher: a shutdown posted to the port, then stop.
StopFetcher ==
    /\ TkIdle /\ Spend("helper")
    /\ child' = Ended /\ handle' = None
    /\ other' = IF other = "serving" THEN "stopping" ELSE other
    /\ label' \in Seen'
    /\ UNCHANGED <<con, entry, shown, clock, work, frozen, closed>>

\* on_close: stop, which posts only for a thread; the panel's threads die with it.
Close ==
    /\ TkIdle /\ Spend("helper")
    /\ closed' = TRUE
    /\ timers' = timers \ {known} /\ known' = None
    /\ jobs' = [j \in Jobs |-> NoJob] /\ ready' = <<>>
    /\ IF frozen
       THEN /\ other' = IF handle # None /\ other = "serving" THEN "stopping" ELSE other
            /\ child' = [c \in Children |-> "dead"]
       ELSE /\ child' = [c \in Children |-> IF Owned /\ c = handle THEN "dead" ELSE child[c]]
            /\ UNCHANGED other
    /\ handle' = None
    /\ UNCHANGED <<con, screen, auto, frozen>>

----------------------------------------------------------------------------
Clicks ==
    \/ ClickRefresh \/ ToggleAuto \/ SaveSettings \/ AddLinks \/ SendElf
    \/ \E d \in Dirs : Type(d) \/ SetDownloadDir(d)
    \/ \E i \in Ids : DeleteItem(i)

ThreadStep(j) ==
    \/ LoadSettings(j) \/ LoadDownloads(j) \/ LoadLogs(j)
    \/ PostAdd(j) \/ PostDelete(j) \/ PutSettings(j) \/ SendPayload(j)

Callback == ApplySnapshot \/ AfterCall \/ AfterFailure

HelperStep == (\E c \in Children : Bind(c) \/ Quit(c)) \/ OtherQuits

Environment ==
    \/ OthersAdd \/ (\E i \in Ids : OthersDelete(i)) \/ ConsoleRestarts \/ OtherStarts
    \/ \E j \in Jobs : Fail(j)

Next ==
    \/ Timer \/ Callback
    \/ Clicks
    \/ StartFetcher \/ StartRunning \/ StopFetcher \/ Close
    \/ \E j \in Jobs : ThreadStep(j)
    \/ HelperStep
    \/ Environment

Spec == Init /\ [][Next]_vars

\* Tk runs due timers and waiting callbacks, threads and helpers go on, and a
\* request is answered or times out; clicks and the rest may never come.
FairSpec ==
    /\ Spec
    /\ WF_vars(Timer) /\ WF_vars(Callback)
    /\ \A j \in Jobs : WF_vars(ThreadStep(j))
    /\ WF_vars(HelperStep)

----------------------------------------------------------------------------
(***************************************************************************)
(* Properties                                                              *)
(***************************************************************************)
\* The shape of the panel's state; a callback waits for each finished thread,
\* once (run_bg).
TypeOK ==
    /\ con.boot \in Nat /\ con.ids \subseteq Ids /\ con.next \in Nat /\ con.dir \in Dirs
    /\ entry \in Dirs /\ shown \subseteq Items
    /\ label \in {"stopped", "owned", "external"}
    /\ timers \subseteq Handles \cup {First} /\ known \in Handles \cup {None} /\ auto \in BOOLEAN
    /\ jobs \in [Jobs -> Job]
    /\ \A j \in Jobs : Cardinality({n \in DOMAIN ready : ready[n] = j}) = IF At(j, "done") THEN 1 ELSE 0
    /\ child \in [Children -> {"absent", "starting", "serving", "stopping", "dead"}]
    /\ handle \in Children \cup {None}
    /\ other \in {"absent", "serving", "stopping"}
    /\ frozen \in BOOLEAN /\ closed \in BOOLEAN

\* However clicks, callbacks and timers interleave, with the box checked or not, the
\* only timer pending, but for the one of __init__, is the one that is known: no
\* refresh_all leaves one behind that none can cancel any more and that goes on to
\* set others, and closing the window leaves none (desktop/app.py:345, 428).
OneTimer == timers \ {First} \subseteq {known}

\* One helper at most is on port 2635, and a panel that was closed leaves none it
\* started, serving or about to: whatever was started, stopped, died or was
\* somebody else's before, FetcherProcess holds the only one that can run.
ClosedLeavesNoHelper ==
    /\ Cardinality(On("serving") \cup On("stopping")) + (IF Bound(other) THEN 1 ELSE 0) <= 1
    /\ closed => \A c \in Children : child[c] \in {"absent", "dead"}

\* Whose helper is on the port.
Truth == IF handle # None /\ child[handle] = "serving" THEN "owned"
         ELSE IF Taken THEN "external" ELSE "stopped"

\* With Auto refresh left on, an open panel comes to show the console's queue and
\* path and the state of the port and stays with them once they stay: after
\* snapshots that failed or came out of order, clicks, restarts of the console
\* and helpers that came and went (refresh_all, _apply_snapshot, check_helper).
PanelCatchesUp ==
    []auto => <>[](closed \/ (shown = Rows /\ entry = con.dir /\ label = Truth))
==============================================================================
