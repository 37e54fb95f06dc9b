-------------------------- MODULE DesktopPanelProofs --------------------------
(***************************************************************************)
(* Theorems about the control panel's timers and helpers, for any number   *)
(* of threads, helpers, items and clicks.                                  *)
(***************************************************************************)
EXTENDS DesktopPanel, FiniteSetTheorems, TLAPS

----------------------------------------------------------------------------
(***************************************************************************)
(* Timers                                                                  *)
(***************************************************************************)
\* What Tk has pending is what refresh_all knows of: the next call cancels it.
TimerInv ==
    /\ timers \subseteq Handles \cup {First}
    /\ known \in Handles \cup {None}
    /\ OneTimer

\* Every action leaves the timers alone, goes through Refresh, or is Close.
LEMMA TimerSteps ==
    ASSUME [Next]_vars
    PROVE  \/ UNCHANGED <<timers, known>>
           \/ \E pending \in SUBSET timers : Refresh(pending)
           \/ Close
<1>1. CASE UNCHANGED vars
  BY <1>1 DEF vars, clock
<1>2. CASE Timer \/ ClickRefresh \/ AfterCall
  BY <1>2 DEF Timer, ClickRefresh, AfterCall
<1>3. CASE ToggleAuto \/ ApplySnapshot \/ AfterFailure
  BY <1>3 DEF ToggleAuto, ApplySnapshot, AfterFailure, clock
<1>4. CASE \/ SaveSettings \/ AddLinks \/ SendElf
           \/ \E d \in Dirs : Type(d) \/ SetDownloadDir(d)
           \/ \E i \in Ids : DeleteItem(i)
  BY <1>4 DEF SaveSettings, AddLinks, SendElf, Type, SetDownloadDir, DeleteItem, Click, clock
<1>5. CASE StartFetcher \/ StartRunning \/ StopFetcher \/ HelperStep \/ OtherStarts
  BY <1>5 DEF StartFetcher, StartRunning, StopFetcher, HelperStep, Bind, Quit, OtherQuits,
              OtherStarts, clock
<1>6. CASE \E j \in Jobs : ThreadStep(j) \/ Fail(j)
  BY <1>6 DEF ThreadStep, Fail, LoadSettings, LoadDownloads, LoadLogs, PostAdd, PostDelete,
              PutSettings, SendPayload, clock
<1>7. CASE OthersAdd \/ (\E i \in Ids : OthersDelete(i)) \/ ConsoleRestarts
  BY <1>7 DEF OthersAdd, OthersDelete, ConsoleRestarts, clock
<1>8. CASE Close
  BY <1>8
<1> QED
  BY <1>1, <1>2, <1>3, <1>4, <1>5, <1>6, <1>7, <1>8 DEF Next, Callback, Clicks, Environment

\* With the known timer cancelled none but the first is left, and so there is an
\* id for a new one.
LEMMA RefreshTimers ==
    ASSUME TimerInv, NEW pending \in SUBSET timers, Refresh(pending)
    PROVE  TimerInv'
<1> DEFINE left == pending \ {known}
<1>1. left \subseteq {First}
  BY DEF TimerInv, OneTimer
<1>2. CASE SetTimer(left)
  <2>1. \E h \in Handles : h \notin left
    BY <1>1, PanelAssumption
  <2>2. known' \in Handles
    BY <1>2, <2>1 DEF SetTimer
  <2>3. timers' = left \cup {known'}
    BY <1>2 DEF SetTimer
  <2> QED
    BY <1>1, <2>2, <2>3 DEF TimerInv, OneTimer
<1>3. CASE timers' = left /\ known' = None
  BY <1>1, <1>3 DEF TimerInv, OneTimer
<1> QED
  BY <1>2, <1>3 DEF Refresh

LEMMA TimerStep ==
    ASSUME TimerInv, [Next]_vars
    PROVE  TimerInv'
<1>1. CASE UNCHANGED <<timers, known>>
  BY <1>1 DEF TimerInv, OneTimer
<1>2. CASE \E pending \in SUBSET timers : Refresh(pending)
  BY <1>2, RefreshTimers
<1>3. CASE Close
  BY <1>3 DEF Close, TimerInv, OneTimer
<1> QED
  BY <1>1, <1>2, <1>3, TimerSteps

LEMMA TimerInvariance == Spec => []TimerInv
<1>1. Init => TimerInv
  BY DEF Init, TimerInv, OneTimer
<1> QED
  BY <1>1, TimerStep, PTL DEF Spec

\* Whatever clicks, timers and callbacks call refresh_all, in whatever order and
\* with the box checked or not: the timer it set last is the one it cancels, and
\* there is no other of its own.
THEOREM OneTimerPending == Spec => []OneTimer
<1>1. TimerInv => OneTimer
  BY DEF TimerInv
<1> QED
  BY <1>1, TimerInvariance, PTL

----------------------------------------------------------------------------
(***************************************************************************)
(* Helpers                                                                 *)
(***************************************************************************)
States     == {"absent", "starting", "serving", "stopping", "dead"}
Running(c) == child[c] \in {"starting", "serving", "stopping"}

HelperTypes ==
    /\ child \in [Children -> States]
    /\ handle \in Children \cup {None}
    /\ frozen \in BOOLEAN

\* One of all helpers is on the port at most.
OneOnPort ==
    /\ \A c, d \in Children : Bound(child[c]) /\ Bound(child[d]) => c = d
    /\ Bound(other) => \A c \in Children : ~Bound(child[c])

\* A panel that runs helpers as processes knows the only one that can run.
HandleIsIt == ~frozen => \A c \in Children : Running(c) => c = handle

\* A closed panel has none left.
NoneLeft == closed => \A c \in Children : child[c] \in {"absent", "dead"}

HelperInv == HelperTypes /\ OneOnPort /\ HandleIsIt /\ NoneLeft

LEMMA HelperSteps ==
    ASSUME [Next]_vars
    PROVE  \/ UNCHANGED <<child, handle, other, frozen, closed>>
           \/ StartFetcher \/ StopFetcher \/ Close \/ OtherStarts \/ OtherQuits
           \/ \E c \in Children : Bind(c) \/ Quit(c)
<1>1. CASE UNCHANGED vars
  BY <1>1 DEF vars, helper
<1>2. CASE Timer \/ ClickRefresh \/ AfterCall
  BY <1>2 DEF Timer, ClickRefresh, AfterCall, helper
<1>3. CASE ToggleAuto \/ ApplySnapshot \/ AfterFailure
  BY <1>3 DEF ToggleAuto, ApplySnapshot, AfterFailure, helper
<1>4. CASE \/ SaveSettings \/ AddLinks \/ SendElf
           \/ \E d \in Dirs : Type(d) \/ SetDownloadDir(d)
           \/ \E i \in Ids : DeleteItem(i)
  BY <1>4 DEF SaveSettings, AddLinks, SendElf, Type, SetDownloadDir, DeleteItem, Click, helper
<1>5. CASE StartRunning
  BY <1>5 DEF StartRunning, helper
<1>6. CASE \E j \in Jobs : ThreadStep(j) \/ Fail(j)
  BY <1>6 DEF ThreadStep, Fail, LoadSettings, LoadDownloads, LoadLogs, PostAdd, PostDelete,
              PutSettings, SendPayload, helper
<1>7. CASE OthersAdd \/ (\E i \in Ids : OthersDelete(i)) \/ ConsoleRestarts
  BY <1>7 DEF OthersAdd, OthersDelete, ConsoleRestarts, helper
<1>8. CASE StartFetcher \/ StopFetcher \/ Close \/ HelperStep \/ OtherStarts
  BY <1>8 DEF HelperStep
<1> QED
  BY <1>1, <1>2, <1>3, <1>4, <1>5, <1>6, <1>7, <1>8 DEF Next, Callback, Clicks, Environment

\* A panel starts a helper only when it has none running, and one that comes to
\* serve at once found the port free.
LEMMA StartKeeps ==
    ASSUME HelperInv, StartFetcher PROVE HelperInv'
<1>1. PICK c \in Children : Start(c)
  BY DEF StartFetcher
<1>2. PICK s \in Young : child' = [child EXCEPT ![c] = s]
  BY <1>1 DEF Start
<1>3. ~closed /\ UNCHANGED <<other, frozen, closed>> /\ handle' = c
  BY <1>1 DEF StartFetcher, Start, TkIdle
<1>4. s \in {"starting", "dead", "serving"} /\ (s = "serving" => ~Taken)
  BY DEF Young
<1>5. HelperTypes'
  BY <1>2, <1>3, <1>4 DEF HelperInv, HelperTypes, States
<1>6. OneOnPort'
  BY <1>2, <1>3, <1>4 DEF HelperInv, HelperTypes, OneOnPort, Bound, Taken
<1>7. ~frozen => \A d \in Children : ~Running(d)
  BY <1>1, PanelAssumption DEF HelperInv, HelperTypes, HandleIsIt, Running, Start, Owned
<1>8. HandleIsIt'
  BY <1>2, <1>3, <1>7 DEF HelperInv, HelperTypes, HandleIsIt, Running
<1> QED
  BY <1>3, <1>5, <1>6, <1>8 DEF HelperInv, NoneLeft

\* What stop leaves behind is not running, unless it is a thread that had not
\* begun to serve.
LEMMA StopKeeps ==
    ASSUME HelperInv, StopFetcher PROVE HelperInv'
<1> DEFINE Post(c) == IF child[c] = "serving" THEN "stopping" ELSE child[c]
<1>1. /\ child' = Ended /\ handle' = None
      /\ other' = IF other = "serving" THEN "stopping" ELSE other
      /\ UNCHANGED <<frozen, closed>>
  BY DEF StopFetcher
<1>2. HelperTypes /\ OneOnPort /\ HandleIsIt /\ NoneLeft
  BY DEF HelperInv
<1>3. \A c \in Children :
        child'[c] = IF Owned /\ c = handle
                    THEN IF frozen /\ child[c] = "starting" THEN Post(c) ELSE "dead"
                    ELSE Post(c)
  BY <1>1, <1>2 DEF Ended, Posted, HelperTypes, States, Owned
<1>4. child' \in [Children -> States]
  BY <1>1, <1>2 DEF Ended, Posted, HelperTypes, States, Owned
<1>5. OneOnPort'
  BY <1>1, <1>2, <1>3 DEF OneOnPort, Bound
<1>6. HandleIsIt'
  BY <1>1, <1>2, <1>3, PanelAssumption DEF HandleIsIt, Running, Owned, HelperTypes, States
<1>7. NoneLeft'
  BY <1>1, <1>2, <1>3 DEF NoneLeft
<1> QED
  BY <1>1, <1>2, <1>4, <1>5, <1>6, <1>7 DEF HelperInv, HelperTypes

LEMMA CloseKeeps ==
    ASSUME HelperInv, Close PROVE HelperInv'
<1>1. HelperTypes /\ OneOnPort /\ HandleIsIt
  BY DEF HelperInv
<1>2. /\ handle' = None /\ frozen' = frozen
      /\ other' \in {other, "stopping"} /\ (other' = "stopping" => Bound(other))
      /\ child' = [c \in Children |->
                     IF frozen \/ (Owned /\ c = handle) THEN "dead" ELSE child[c]]
  BY DEF Close, Bound
<1>3. \A c \in Children : child'[c] \in {"absent", "dead"}
  BY <1>1, <1>2, PanelAssumption DEF HelperTypes, HandleIsIt, Running, Owned, States
<1>4. child' \in [Children -> States]
  BY <1>2, <1>3 DEF States
<1> QED
  BY <1>1, <1>2, <1>3, <1>4 DEF HelperInv, HelperTypes, OneOnPort, HandleIsIt, NoneLeft, Bound, Running

\* Helpers that bind, quit or appear keep the port to one of them.
LEMMA PortKeeps ==
    ASSUME HelperInv,
           OtherStarts \/ OtherQuits \/ \E c \in Children : Bind(c) \/ Quit(c)
    PROVE  HelperInv'
<1> USE DEF HelperInv, HelperTypes, OneOnPort, HandleIsIt, NoneLeft, Bound, Taken, Running,
            States, helper
<1>1. CASE OtherStarts
  BY <1>1 DEF OtherStarts
<1>2. CASE OtherQuits
  BY <1>2 DEF OtherQuits
<1>3. ASSUME NEW c \in Children, Bind(c) PROVE HelperInv'
  BY <1>3 DEF Bind
<1>4. ASSUME NEW c \in Children, Quit(c) PROVE HelperInv'
  BY <1>4 DEF Quit
<1> QED
  BY <1>1, <1>2, <1>3, <1>4

LEMMA HelperInvariance == Spec => []HelperInv
<1>1. Init => HelperInv
  BY DEF Init, HelperInv, HelperTypes, OneOnPort, HandleIsIt, NoneLeft, Bound, Running, States
<1>2. HelperInv /\ [Next]_vars => HelperInv'
  <2> SUFFICES ASSUME HelperInv, [Next]_vars PROVE HelperInv'
    OBVIOUS
  <2>1. CASE UNCHANGED <<child, handle, other, frozen, closed>>
    BY <2>1 DEF HelperInv, HelperTypes, OneOnPort, HandleIsIt, NoneLeft, Bound, Running
  <2> QED
    BY <2>1, HelperSteps, StartKeeps, StopKeeps, CloseKeeps, PortKeeps
<1> QED
  BY <1>1, <1>2, PTL DEF Spec

\* Never two of the helpers that were started, stopped, died or were somebody
\* else's are on port 2635, and none of the panel's own outlives it.
THEOREM NoHelperLeft == Spec => []ClosedLeavesNoHelper
<1>1. HelperInv => ClosedLeavesNoHelper
  <2> SUFFICES ASSUME HelperInv PROVE ClosedLeavesNoHelper
    OBVIOUS
  <2> DEFINE bound == On("serving") \cup On("stopping")
  <2>1. CASE bound = {}
    <3>1. Cardinality(bound) = 0
      BY <2>1, FS_EmptySet
    <3> QED
      BY <3>1 DEF ClosedLeavesNoHelper, HelperInv, NoneLeft
  <2>2. CASE bound # {}
    <3>1. PICK c \in Children : c \in bound
      BY <2>2 DEF On
    <3>2. bound = {c}
      BY <3>1 DEF On, HelperInv, OneOnPort, Bound
    <3>3. Cardinality(bound) = 1
      BY <3>2, FS_Singleton
    <3>4. ~Bound(other)
      BY <3>1 DEF On, HelperInv, OneOnPort, Bound
    <3> QED
      BY <3>3, <3>4 DEF ClosedLeavesNoHelper, HelperInv, NoneLeft
  <2> QED
    BY <2>1, <2>2
<1> QED
  BY <1>1, HelperInvariance, PTL

----------------------------------------------------------------------------
(***************************************************************************)
(* Types, and the event queue: the threads that are done are the ones whose *)
(* callback waits, once each.                                              *)
(***************************************************************************)
Console == [boot : Nat, ids : SUBSET Ids, next : Nat, dir : Dirs]

ScreenTypes ==
    /\ con \in Console
    /\ entry \in Dirs /\ shown \subseteq Items
    /\ label \in {"stopped", "owned", "external"}
    /\ auto \in BOOLEAN
    /\ jobs \in [Jobs -> Job]
    /\ other \in {"absent", "serving", "stopping"}
    /\ closed \in BOOLEAN

QueueInv ==
    /\ ready \in Seq(Jobs)
    /\ \A j \in Jobs : At(j, "done") <=> \E n \in 1 .. Len(ready) : ready[n] = j
    /\ \A m, n \in 1 .. Len(ready) : ready[m] = ready[n] => m = n

LEMMA JobTypes ==
    /\ AnyDir \in Dirs
    /\ Load \in Job /\ Load.at = "settings"
    /\ NoJob \in Job /\ NoJob.at = "none"
    /\ \A op \in {"act", "save", "add", "send"}, d \in Dirs, i \in Ids :
          Call(op, d, i) \in Job /\ Call(op, d, i).at = "post"
<1>1. AnyDir \in Dirs
  BY PanelAssumption DEF AnyDir
<1>2. 1 \in Ids
  BY PanelAssumption DEF Ids
<1> QED
  BY <1>1, <1>2 DEF Load, NoJob, Call, Job

\* What a step can do to threads and to the event queue.
Unseen(job) == job \in Job /\ job.at # "done"

JobsChange ==
    \/ UNCHANGED <<jobs, ready>>
    \/ /\ ready' = ready
       /\ \E j \in Jobs, job \in Job :
             ~At(j, "done") /\ Unseen(job) /\ jobs' = [jobs EXCEPT ![j] = job]
    \/ \E j \in Jobs, job \in Job : ~At(j, "done") /\ Done(j, job)
    \/ /\ ready # <<>> /\ ready' = Tail(ready)
       /\ \E job \in Job : Unseen(job) /\ jobs' = [jobs EXCEPT ![Next1] = job]
    \/ jobs' = [j \in Jobs |-> NoJob] /\ ready' = <<>>

LEMMA RunLemma ==
    ASSUME NEW job \in Job, job.at # "done", Run(job), ready' = ready
    PROVE  JobsChange
<1>1. PICK j \in Jobs : Free(j) /\ jobs' = [jobs EXCEPT ![j] = job]
  BY DEF Run
<1>2. ~At(j, "done")
  BY <1>1, JobTypes DEF Free, At
<1> QED
  BY <1>1, <1>2 DEF JobsChange, Unseen

LEMMA ClickJobs ==
    ASSUME ScreenTypes, Clicks
    PROVE  JobsChange
<1>1. CASE ClickRefresh
  BY <1>1, RunLemma, JobTypes DEF ClickRefresh
<1>2. CASE ToggleAuto \/ \E d \in Dirs : Type(d)
  BY <1>2 DEF ToggleAuto, Type, work, JobsChange
<1>3. CASE SaveSettings \/ AddLinks \/ SendElf \/ \E d \in Dirs : SetDownloadDir(d)
  <2>1. PICK op \in {"save", "add", "send"}, d \in Dirs : Run(Call(op, d, 1)) /\ ready' = ready
    BY <1>3, JobTypes DEF SaveSettings, AddLinks, SendElf, SetDownloadDir, Click, ScreenTypes
  <2>2. 1 \in Ids
    BY PanelAssumption DEF Ids
  <2> QED
    BY <2>1, <2>2, RunLemma, JobTypes
<1>4. CASE \E i \in Ids : DeleteItem(i)
  <2>1. PICK i \in Ids : Run(Call("act", AnyDir, i)) /\ ready' = ready
    BY <1>4 DEF DeleteItem, Click
  <2> QED
    BY <2>1, RunLemma, JobTypes
<1> QED
  BY <1>1, <1>2, <1>3, <1>4 DEF Clicks

LEMMA ThreadJobs ==
    ASSUME ScreenTypes, NEW j \in Jobs, ThreadStep(j) \/ Fail(j)
    PROVE  JobsChange
<1>0. jobs[j] \in Job /\ con \in Console
  BY DEF ScreenTypes
<1>1. CASE LoadSettings(j)
  <2> DEFINE job == [jobs[j] EXCEPT !.dir = con.dir, !.at = "downloads"]
  <2>1. jobs' = [jobs EXCEPT ![j] = job] /\ ~At(j, "done") /\ ready' = ready
    BY <1>0, <1>1 DEF LoadSettings, At, Job, ScreenTypes
  <2>2. Unseen(job)
    BY <1>0 DEF Unseen, Job, Console
  <2> QED
    BY <2>1, <2>2 DEF JobsChange, Unseen
<1>2. CASE LoadDownloads(j)
  <2> DEFINE job == [jobs[j] EXCEPT !.rows = Rows, !.at = "logs"]
  <2>1. jobs' = [jobs EXCEPT ![j] = job] /\ ~At(j, "done") /\ ready' = ready
    BY <1>0, <1>2 DEF LoadDownloads, At, Job, ScreenTypes
  <2>2. Rows \in SUBSET Items
    BY <1>0 DEF Rows, Items, Console
  <2>3. Unseen(job)
    BY <1>0, <2>2 DEF Unseen, Job
  <2> QED
    BY <2>1, <2>3 DEF JobsChange, Unseen
<1>3. CASE LoadLogs(j) \/ PostAdd(j) \/ PutSettings(j) \/ SendPayload(j)
  <2>1. Done(j, jobs[j]) /\ ~At(j, "done")
    BY <1>3 DEF LoadLogs, PostAdd, PutSettings, SendPayload, At
  <2> QED
    BY <1>0, <2>1 DEF JobsChange
<1>4. CASE PostDelete(j) \/ Fail(j)
  <2>1. ~At(j, "done")
    BY <1>4 DEF PostDelete, Fail, At
  <2>2. \A b \in BOOLEAN : [jobs[j] EXCEPT !.ok = b] \in Job
    BY <1>0 DEF Job
  <2>3. \E b \in BOOLEAN : Done(j, [jobs[j] EXCEPT !.ok = b])
    <3>1. CASE PostDelete(j)
      <4> DEFINE b == jobs[j].id \in con.ids
      <4>1. Done(j, [jobs[j] EXCEPT !.ok = b])
        BY <3>1 DEF PostDelete
      <4>2. b \in BOOLEAN
        OBVIOUS
      <4> HIDE DEF b
      <4> QED
        BY <4>1, <4>2
    <3>2. CASE Fail(j)
      BY <3>2 DEF Fail
    <3> QED
      BY <1>4, <3>1, <3>2
  <2> QED
    BY <2>1, <2>2, <2>3 DEF JobsChange
<1> QED
  BY <1>1, <1>2, <1>3, <1>4 DEF ThreadStep

LEMMA NextJobs ==
    ASSUME ScreenTypes, [Next]_vars
    PROVE  JobsChange
<1>1. CASE Timer
  BY <1>1, RunLemma, JobTypes DEF Timer
<1>2. CASE Callback
  BY <1>2, JobTypes DEF Callback, ApplySnapshot, AfterCall, AfterFailure, Deliver, JobsChange, Unseen
<1>3. CASE Clicks
  BY <1>3, ClickJobs
<1>4. CASE Close
  BY <1>4 DEF Close, JobsChange
<1>5. CASE \E j \in Jobs : ThreadStep(j) \/ Fail(j)
  BY <1>5, ThreadJobs
<1>6. CASE \/ StartFetcher \/ StartRunning \/ StopFetcher \/ HelperStep \/ OthersAdd
           \/ (\E i \in Ids : OthersDelete(i)) \/ ConsoleRestarts \/ OtherStarts
           \/ UNCHANGED vars
  BY <1>6 DEF StartFetcher, StartRunning, StopFetcher, HelperStep, Bind, Quit, OtherQuits,
              OthersAdd, OthersDelete, ConsoleRestarts, OtherStarts, vars, work, JobsChange
<1> QED
  BY <1>1, <1>2, <1>3, <1>4, <1>5, <1>6 DEF Next, Environment

LEMMA QueueKept ==
    ASSUME ScreenTypes, QueueInv, JobsChange
    PROVE  jobs' \in [Jobs -> Job] /\ QueueInv'
<1>0. jobs \in [Jobs -> Job] /\ ready \in Seq(Jobs)
  BY DEF ScreenTypes, QueueInv
<1>1. CASE UNCHANGED <<jobs, ready>>
  BY <1>0, <1>1 DEF QueueInv, At
<1>2. ASSUME NEW j \in Jobs, NEW job \in Job, ready' = ready,
             ~At(j, "done"), Unseen(job), jobs' = [jobs EXCEPT ![j] = job]
      PROVE  jobs' \in [Jobs -> Job] /\ QueueInv'
  BY <1>0, <1>2 DEF QueueInv, At, Unseen
<1>3. ASSUME NEW j \in Jobs, NEW job \in Job, ~At(j, "done"), Done(j, job)
      PROVE  jobs' \in [Jobs -> Job] /\ QueueInv'
  <2>1. jobs' = [jobs EXCEPT ![j] = [job EXCEPT !.at = "done"]] /\ ready' = Append(ready, j)
    BY <1>3 DEF Done
  <2>2. [job EXCEPT !.at = "done"] \in Job /\ [job EXCEPT !.at = "done"].at = "done"
    BY DEF Job
  <2>3. \A n \in 1 .. Len(ready) : ready[n] # j
    BY <1>0, <1>3 DEF QueueInv
  <2>4. /\ Len(ready') = Len(ready) + 1 /\ ready'[Len(ready) + 1] = j
        /\ \A n \in 1 .. Len(ready) : ready'[n] = ready[n]
        /\ ready' \in Seq(Jobs)
    BY <1>0, <2>1
  <2>5. \A i \in Jobs : At(i, "done")' <=> (i = j \/ At(i, "done"))
    BY <1>0, <2>1, <2>2 DEF At
  <2>6. \A i \in Jobs : (\E n \in 1 .. Len(ready') : ready'[n] = i)
                           <=> (i = j \/ \E n \in 1 .. Len(ready) : ready[n] = i)
    BY <1>0, <2>4
  <2>7. \A m, n \in 1 .. Len(ready') : ready'[m] = ready'[n] => m = n
    BY <1>0, <2>3, <2>4 DEF QueueInv
  <2> QED
    BY <1>0, <2>1, <2>2, <2>4, <2>5, <2>6, <2>7 DEF QueueInv
<1>4. ASSUME ready # <<>>, ready' = Tail(ready), NEW job \in Job, Unseen(job),
             jobs' = [jobs EXCEPT ![Next1] = job]
      PROVE  jobs' \in [Jobs -> Job] /\ QueueInv'
  <2>1. /\ Next1 = ready[1] /\ Next1 \in Jobs
        /\ Len(ready') = Len(ready) - 1 /\ ready' \in Seq(Jobs) /\ Len(ready) \in Nat \ {0}
        /\ \A n \in 1 .. Len(ready) - 1 : ready'[n] = ready[n + 1]
    BY <1>0, <1>4 DEF Next1
  <2>2. \A i \in Jobs : At(i, "done")' <=> (i # Next1 /\ At(i, "done"))
    BY <1>0, <1>4, <2>1 DEF At, Unseen
  <2>3. \A m, n \in 1 .. Len(ready) : ready[m] = ready[n] => m = n
    BY DEF QueueInv
  <2>4. ASSUME NEW i \in Jobs
        PROVE  (\E n \in 1 .. Len(ready') : ready'[n] = i)
                  <=> (i # Next1 /\ \E n \in 1 .. Len(ready) : ready[n] = i)
    <3>1. ASSUME NEW n \in 1 .. Len(ready'), ready'[n] = i
          PROVE  i # Next1 /\ \E m \in 1 .. Len(ready) : ready[m] = i
      <4>1. n + 1 \in 1 .. Len(ready) /\ 1 \in 1 .. Len(ready) /\ ready[n + 1] = i /\ n + 1 # 1
        BY <2>1, <3>1
      <4> QED
        BY <2>1, <2>3, <4>1
    <3>2. ASSUME i # Next1, NEW n \in 1 .. Len(ready), ready[n] = i
          PROVE  \E m \in 1 .. Len(ready') : ready'[m] = i
      <4>1. n # 1 /\ n - 1 \in 1 .. Len(ready')
        BY <2>1, <3>2
      <4>2. ready'[n - 1] = ready[(n - 1) + 1] /\ (n - 1) + 1 = n
        BY <2>1, <4>1
      <4> QED
        BY <3>2, <4>1, <4>2
    <3> QED
      BY <3>1, <3>2
  <2>5. \A m, n \in 1 .. Len(ready') : ready'[m] = ready'[n] => m = n
    <3> TAKE m, n \in 1 .. Len(ready')
    <3>1. /\ m \in Int /\ n \in Int
          /\ m + 1 \in 1 .. Len(ready) /\ n + 1 \in 1 .. Len(ready)
      BY <2>1
    <3>2. ready'[m] = ready[m + 1] /\ ready'[n] = ready[n + 1]
      BY <2>1
    <3>3. ready[m + 1] = ready[n + 1] => m + 1 = n + 1
      BY <2>3, <3>1
    <3> QED
      BY <3>1, <3>2, <3>3
  <2>6. \A i \in Jobs : At(i, "done") <=> \E n \in 1 .. Len(ready) : ready[n] = i
    BY DEF QueueInv
  <2> QED
    BY <1>0, <1>4, <2>1, <2>2, <2>4, <2>5, <2>6 DEF QueueInv
<1>5. CASE jobs' = [j \in Jobs |-> NoJob] /\ ready' = <<>>
  BY <1>5, JobTypes DEF QueueInv, At
<1> QED
  BY <1>1, <1>2, <1>3, <1>4, <1>5 DEF JobsChange

\* The rest of the panel's state.
LEMMA LabelTypes ==
    /\ Seen \subseteq {"stopped", "owned", "external"}
    /\ Seen' \subseteq {"stopped", "owned", "external"}
<1> QED
  BY DEF Seen, Whose

LEMMA ConsoleTypes ==
    ASSUME con \in Console
    PROVE  /\ con.next \in Ids => NewItem \in Console
           /\ \A i \in Ids : Without(i) \in Console
           /\ Rebooted \in Console
           /\ \A d \in Dirs : [con EXCEPT !.dir = d] \in Console
<1>1. con.next \in Ids => NewItem \in Console
  <2>1. ASSUME NEW s \in SUBSET Ids, NEW n \in Nat
        PROVE  [con EXCEPT !.ids = s, !.next = n] \in Console
    BY DEF Console
  <2>2. con.next \in Ids => con.ids \cup {con.next} \in SUBSET Ids /\ con.next + 1 \in Nat
    BY DEF Console, Ids
  <2> QED
    BY <2>1, <2>2 DEF NewItem
<1>2. \A i \in Ids : Without(i) \in Console
  BY DEF Console, Without
<1>3. Rebooted \in Console
  <2>1. ASSUME NEW b \in Nat, NEW s \in SUBSET Ids, NEW n \in Nat
        PROVE  [con EXCEPT !.boot = b, !.ids = s, !.next = n] \in Console
    BY DEF Console
  <2>2. con.boot + 1 \in Nat /\ {} \in SUBSET Ids /\ 1 \in Nat
    BY DEF Console
  <2> QED
    BY <2>1, <2>2 DEF Rebooted
<1>4. \A d \in Dirs : [con EXCEPT !.dir = d] \in Console
  BY DEF Console
<1> QED
  BY <1>1, <1>2, <1>3, <1>4

LEMMA ScreenKept ==
    ASSUME ScreenTypes, QueueInv, [Next]_vars, jobs' \in [Jobs -> Job]
    PROVE  ScreenTypes'
<1>0. \A j \in Jobs : jobs[j].dir \in Dirs /\ jobs[j].id \in Ids /\ jobs[j].rows \subseteq Items
  BY DEF ScreenTypes, Job
<1> USE DEF ScreenTypes
<1>1. CASE Timer \/ ClickRefresh \/ AfterCall
  <2>1. label' \in {"stopped", "owned", "external"}
    BY <1>1, LabelTypes DEF Timer, ClickRefresh, AfterCall, Refresh, Check
  <2>2. UNCHANGED <<con, entry, shown, auto, helper, closed>>
    BY <1>1 DEF Timer, ClickRefresh, AfterCall
  <2> QED
    BY <2>1, <2>2 DEF helper
<1>2. CASE ApplySnapshot
  <2>1. Next1 \in Jobs
    BY <1>2 DEF ApplySnapshot, Deliver, Next1, QueueInv
  <2> QED
    BY <1>0, <1>2, <2>1 DEF ApplySnapshot, Result, clock, helper
<1>3. CASE ToggleAuto \/ AfterFailure
  BY <1>3 DEF ToggleAuto, AfterFailure, screen, clock, helper
<1>4. CASE \/ SaveSettings \/ AddLinks \/ SendElf
           \/ \E d \in Dirs : Type(d) \/ SetDownloadDir(d)
           \/ \E i \in Ids : DeleteItem(i)
  BY <1>4 DEF SaveSettings, AddLinks, SendElf, Type, SetDownloadDir, DeleteItem, Click, clock, helper
<1>5. CASE StartFetcher \/ StartRunning \/ StopFetcher \/ Close
  <2>1. label' \in {"stopped", "owned", "external"}
    BY <1>5, LabelTypes DEF StartFetcher, StartRunning, StopFetcher, Close, Check, screen
  <2>2. other' \in {"absent", "serving", "stopping"}
    BY <1>5 DEF StartFetcher, StartRunning, StopFetcher, Close, helper
  <2>3. auto' = auto /\ closed' \in BOOLEAN
    <3>1. CASE Close
      BY <3>1 DEF Close
    <3>2. CASE StartFetcher \/ StartRunning \/ StopFetcher
      BY <3>2 DEF StartFetcher, StartRunning, StopFetcher, clock
    <3> QED
      BY <1>5, <3>1, <3>2
  <2>4. UNCHANGED <<con, entry, shown>>
    BY <1>5 DEF StartFetcher, StartRunning, StopFetcher, Close, screen
  <2> QED
    BY <2>1, <2>2, <2>3, <2>4
<1>6. CASE HelperStep \/ OtherStarts
  BY <1>6 DEF HelperStep, Bind, Quit, OtherQuits, OtherStarts, screen, clock
<1>7. CASE \E j \in Jobs : LoadSettings(j) \/ LoadDownloads(j) \/ LoadLogs(j) \/ Fail(j)
  BY <1>7 DEF LoadSettings, LoadDownloads, LoadLogs, Fail, screen, clock, helper
<1>8. CASE \E j \in Jobs : PostAdd(j) \/ PostDelete(j) \/ PutSettings(j) \/ SendPayload(j)
  BY <1>0, <1>8, ConsoleTypes DEF PostAdd, PostDelete, PutSettings, SendPayload, screen, clock, helper
<1>9. CASE OthersAdd \/ (\E i \in Ids : OthersDelete(i)) \/ ConsoleRestarts
  BY <1>9, ConsoleTypes DEF OthersAdd, OthersDelete, ConsoleRestarts, screen, clock, helper
<1>10. CASE UNCHANGED vars
  BY <1>10 DEF vars, screen, clock, helper
<1> QED
  BY <1>1, <1>2, <1>3, <1>4, <1>5, <1>6, <1>7, <1>8, <1>9, <1>10
     DEF Next, Callback, Clicks, Environment, ThreadStep

LEMMA TypesInit == Init => ScreenTypes /\ QueueInv
<1> SUFFICES ASSUME Init PROVE ScreenTypes /\ QueueInv
  OBVIOUS
<1>1. con \in Console
  BY JobTypes DEF Init, Console
<1>2. ScreenTypes
  BY <1>1, JobTypes DEF Init, ScreenTypes
<1>3. ready = <<>> /\ \A j \in Jobs : ~At(j, "done")
  BY JobTypes DEF Init, At
<1>4. QueueInv
  BY <1>3 DEF QueueInv
<1> QED
  BY <1>2, <1>4

LEMMA TypesFollow == ScreenTypes /\ QueueInv /\ HelperInv /\ TimerInv => TypeOK
<1> SUFFICES ASSUME ScreenTypes, QueueInv, HelperInv, TimerInv PROVE TypeOK
  OBVIOUS
<1>1. ASSUME NEW j \in Jobs
      PROVE  Cardinality({n \in DOMAIN ready : ready[n] = j}) = IF At(j, "done") THEN 1 ELSE 0
  <2> DEFINE waits == {n \in DOMAIN ready : ready[n] = j}
  <2>0. DOMAIN ready = 1 .. Len(ready)
    BY DEF QueueInv
  <2>1. CASE At(j, "done")
    <3>1. PICK n \in 1 .. Len(ready) : ready[n] = j
      BY <2>1 DEF QueueInv
    <3>2. waits = {n}
      BY <2>0, <3>1 DEF QueueInv
    <3> QED
      BY <2>1, <3>2, FS_Singleton
  <2>2. CASE ~At(j, "done")
    <3>1. waits = {}
      BY <2>0, <2>2 DEF QueueInv
    <3> QED
      BY <2>2, <3>1, FS_EmptySet
  <2> QED
    BY <2>1, <2>2
<1>2. /\ con.boot \in Nat /\ con.ids \subseteq Ids /\ con.next \in Nat /\ con.dir \in Dirs
  BY DEF ScreenTypes, Console
<1> QED
  BY <1>1, <1>2 DEF TypeOK, ScreenTypes, HelperInv, HelperTypes, TimerInv, States

\* Every part of the panel keeps its type, and each thread that ended has exactly
\* one callback on the event queue: none is lost or run twice.
THEOREM TypeCorrect == Spec => []TypeOK
<1>1. ScreenTypes /\ QueueInv /\ [Next]_vars => ScreenTypes' /\ QueueInv'
  BY NextJobs, QueueKept, ScreenKept
<1> QED
  BY <1>1, TypesInit, HelperInvariance, TimerInvariance, TypesFollow, PTL DEF Spec
==============================================================================
