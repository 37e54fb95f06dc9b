---------------------------- MODULE DaemonLifecycle ----------------------------
(***************************************************************************)
(* Replacing a running native daemon: main() of src/ps5_payload/main.c     *)
(* with its PID file, listening socket and accept loop, whose handlers run *)
(* in threads of their own, and the payload senders (payload_sender.py,    *)
(* desktop/payload.py), which ask every known port for a daemon, shut it   *)
(* down, wait until it no longer answers, and send the new ELF.            *)
(*                                                                         *)
(* What the other handlers do is in NativeQueue.  The sender's options     *)
(* --force and --no-shutdown, by which a user asks for a second daemon,    *)
(* and the logs it collects are left out.                                  *)
(***************************************************************************)
EXTENDS Naturals, Sequences, FiniteSets

CONSTANTS Old,        \* processes that may be running at first
          New,        \* processes launched later: bounds the launches
          PortOf,     \* the HTTP port each was compiled for
          Checked,    \* http_port and KNOWN_HTTP_PORTS, without repetition
          Senders,    \* payload senders: a command line, a desktop panel
          None,       \* no instance, no sender
          MinPolls,   \* polls of wait_for_daemon_down that fit in its eight seconds
          MaxOpen,    \* bound: connections at a time
          MaxSends,   \* bound: sends in a behaviour
          MaxVisits,  \* bound: requests of other clients
          MaxMissed,  \* bound: requests answered too late or not at all
          MaxFaults   \* bound: accept fails, the process dies, the loader refuses

Instances == Old \cup New
Ports     == {Checked[k] : k \in DOMAIN Checked}

ASSUME LifecycleAssumption ==
    /\ Checked \in Seq(Ports) /\ Checked # <<>>
    /\ PortOf \in [Instances -> Ports]
    /\ None \notin Instances \cup Senders
    /\ MinPolls \in Nat \ {0}
    /\ {MaxOpen, MaxSends, MaxVisits, MaxMissed, MaxFaults} \subseteq Nat

VARIABLES pc,       \* where main() of each instance is
          shutdown, \* g_shutdown of each instance
          listener, \* the instance bound to each port
          pidfile,  \* the instance named in the PID file
          conn,     \* connections, by number
          sender,   \* the locals of each sender
          budget    \* what is left of the bounds

vars == <<pc, shutdown, listener, pidfile, conn, sender, budget>>

(***************************************************************************)
(* Types                                                                   *)
(***************************************************************************)
Kinds   == {"status", "shutdown"}
NoConn  == [st |-> "none"]
Conn    == [st : {"queued", "accepted", "noted", "answered", "reset"},
            to : Instances, kind : Kinds, owner : Senders \cup {None}]
Sockets == 1 .. MaxOpen

SenderPc == {"idle", "probe", "shutdown", "poll", "send", "up", "aborted"}
Sender   == [pc    : SenderPc,
             port  : DOMAIN Checked,           \* the port it deals with
             sock  : 0 .. MaxOpen,             \* the connection it waits on
             polls : 0 .. MinPolls,            \* answered polls
             heard : Instances \cup {None}]    \* who answered the shutdown request
Fresh == [pc |-> "probe", port |-> 1, sock |-> 0, polls |-> 0, heard |-> None]

InstancePc == {"absent", "start", "bind", "check", "accept", "close", "unlink",
               "exit", "stopped", "failed"}

TypeOK ==
    /\ pc \in [Instances -> InstancePc]
    /\ shutdown \in [Instances -> BOOLEAN]
    /\ listener \in [Ports -> Instances \cup {None}]
    /\ pidfile \in Instances \cup {None}
    /\ conn \in [Sockets -> Conn \cup {NoConn}]
    /\ sender \in [Senders -> Sender]
    /\ budget \in [{"sends", "visits", "missed", "faults"} -> Nat]

\* At most one daemon on a port is running; the last one wrote the PID file.
Init ==
    /\ \E running \in SUBSET Old :
          /\ \A i, j \in running : PortOf[i] = PortOf[j] => i = j
          /\ pc = [i \in Instances |-> IF i \in running THEN "check" ELSE "absent"]
          /\ \E f \in [Ports -> running \cup {None}] :
                /\ \A p \in Ports : IF f[p] = None
                                    THEN \A i \in running : PortOf[i] # p
                                    ELSE PortOf[f[p]] = p
                /\ listener = f
          /\ IF running = {} THEN pidfile = None ELSE pidfile \in running
    /\ shutdown = [i \in Instances |-> FALSE]
    /\ conn = [k \in Sockets |-> NoConn]
    /\ sender = [s \in Senders |-> [Fresh EXCEPT !.pc = "idle"]]
    /\ budget = [sends |-> MaxSends, visits |-> MaxVisits, missed |-> MaxMissed,
                 faults |-> MaxFaults]

Spend(b) == /\ budget[b] > 0
            /\ budget' = [budget EXCEPT ![b] = @ - 1]

(***************************************************************************)
(* Connections                                                             *)
(***************************************************************************)
\* A new connection waits in the backlog of the listening socket.
Dial(p, kind, owner) ==
    /\ listener[p] # None
    /\ \E k \in Sockets :
          /\ conn[k] = NoConn
          /\ \A j \in Sockets : conn[j] = NoConn => k <= j
          /\ conn' = [conn EXCEPT ![k] = [st |-> "queued", to |-> listener[p],
                                          kind |-> kind, owner |-> owner]]

\* Nobody reads what a client that went away is sent.
Delivered(c, st) == IF c.owner = None THEN NoConn ELSE [c EXCEPT !.st = st]

\* The connections of i in one of these states are reset by the system.
Hangup(i, states) ==
    [k \in Sockets |-> IF conn[k].st \in states /\ conn[k].to = i
                       THEN Delivered(conn[k], "reset") ELSE conn[k]]

(***************************************************************************)
(* main()                                                                  *)
(***************************************************************************)
\* The PID file is written before anything is known about the port.
WritePid(i) ==
    /\ pc[i] = "start"
    /\ pidfile' = i
    /\ pc' = [pc EXCEPT ![i] = "bind"]
    /\ UNCHANGED <<shutdown, listener, conn, sender, budget>>

Bind(i) ==
    /\ pc[i] = "bind"
    /\ listener[PortOf[i]] = None
    /\ listener' = [listener EXCEPT ![PortOf[i]] = i]
    /\ pc' = [pc EXCEPT ![i] = "check"]
    /\ UNCHANGED <<shutdown, pidfile, conn, sender, budget>>

\* EXIT_FAILURE, and the PID file stays.
BindFail(i) ==
    /\ pc[i] = "bind"
    /\ listener[PortOf[i]] # None
    /\ pc' = [pc EXCEPT ![i] = "failed"]
    /\ UNCHANGED <<shutdown, listener, pidfile, conn, sender, budget>>

\* Mutant: the loop runs for ever.
CheckForever(i) ==
    /\ pc[i] = "check"
    /\ pc' = [pc EXCEPT ![i] = "accept"]
    /\ UNCHANGED <<shutdown, listener, pidfile, conn, sender, budget>>

\* The head of the loop is reached once per accepted connection.
Check(i) ==
    /\ pc[i] = "check"
    /\ pc' = [pc EXCEPT ![i] = IF shutdown[i] THEN "close" ELSE "accept"]
    /\ UNCHANGED <<shutdown, listener, pidfile, conn, sender, budget>>

\* The connection gets a thread, or is closed if there is none to be had.
Accept(i) ==
    /\ pc[i] = "accept"
    /\ \E k \in Sockets :
          /\ conn[k].st = "queued" /\ conn[k].to = i
          /\ \/ /\ conn' = [conn EXCEPT ![k].st = "accepted"]
                /\ UNCHANGED budget
             \/ /\ conn' = [conn EXCEPT ![k] = Delivered(@, "reset")]
                /\ Spend("missed")
    /\ pc' = [pc EXCEPT ![i] = "check"]
    /\ UNCHANGED <<shutdown, listener, pidfile, sender>>

AcceptFail(i) ==
    /\ pc[i] = "accept"
    /\ Spend("faults")
    /\ pc' = [pc EXCEPT ![i] = "close"]
    /\ UNCHANGED <<shutdown, listener, pidfile, conn, sender>>

Close(i) ==
    /\ pc[i] = "close"
    /\ listener' = [listener EXCEPT ![PortOf[i]] = None]
    /\ conn' = Hangup(i, {"queued"})
    /\ shutdown' = [shutdown EXCEPT ![i] = TRUE]
    /\ pc' = [pc EXCEPT ![i] = "unlink"]
    /\ UNCHANGED <<pidfile, sender, budget>>

\* unlink(PID_PATH), whoever is named in it by now.
RemovePid(i) ==
    /\ pc[i] = "unlink"
    /\ pidfile' = None
    /\ pc' = [pc EXCEPT ![i] = "exit"]
    /\ UNCHANGED <<shutdown, listener, conn, sender, budget>>

\* main returns: handler threads end wherever they are.
Exit(i) ==
    /\ pc[i] = "exit"
    /\ conn' = Hangup(i, {"accepted", "noted"})
    /\ pc' = [pc EXCEPT ![i] = "stopped"]
    /\ UNCHANGED <<shutdown, listener, pidfile, sender, budget>>

\* The process dies: rest mode, a crash, a kill.
Die(i) ==
    /\ pc[i] \in {"bind", "check", "accept"}
    /\ Spend("faults")
    /\ listener' = [p \in Ports |-> IF listener[p] = i THEN None ELSE listener[p]]
    /\ conn' = Hangup(i, {"queued", "accepted", "noted"})
    /\ pc' = [pc EXCEPT ![i] = "stopped"]
    /\ UNCHANGED <<shutdown, pidfile, sender>>

(***************************************************************************)
(* handle_client, in a thread                                              *)
(***************************************************************************)
\* Mutant: the request is answered and nothing else.
NoteSilent(k) ==
    /\ conn[k].st = "accepted" /\ conn[k].kind = "shutdown"
    /\ conn' = [conn EXCEPT ![k].st = "noted"]
    /\ UNCHANGED <<pc, shutdown, listener, pidfile, sender, budget>>

\* POST /api/shutdown and /api/prepare-reload set g_shutdown, then answer.
Note(k) ==
    /\ conn[k].st = "accepted" /\ conn[k].kind = "shutdown"
    /\ shutdown' = [shutdown EXCEPT ![conn[k].to] = TRUE]
    /\ conn' = [conn EXCEPT ![k].st = "noted"]
    /\ UNCHANGED <<pc, listener, pidfile, sender, budget>>

Reply(k) ==
    /\ \/ conn[k].st = "noted"
       \/ conn[k].st = "accepted" /\ conn[k].kind = "status"
    /\ conn' = [conn EXCEPT ![k] = Delivered(@, "answered")]
    /\ UNCHANGED <<pc, shutdown, listener, pidfile, sender, budget>>

Daemon == \/ \E i \in Instances : \/ WritePid(i) \/ Bind(i) \/ BindFail(i) \/ Check(i)
                                  \/ Accept(i) \/ Close(i) \/ RemovePid(i) \/ Exit(i)
          \/ \E k \in Sockets : Note(k) \/ Reply(k)

(***************************************************************************)
(* A payload sender                                                        *)
(***************************************************************************)
Port(s) == Checked[sender[s].port]
KindOf(s) == IF sender[s].pc = "shutdown" THEN "shutdown" ELSE "status"
Asking(s) == sender[s].pc \in {"probe", "shutdown", "poll", "up"}

\* Mutants: only the first port is looked at; there is a port after the last.
NextPortOnly(s) == [Fresh EXCEPT !.pc = "send"]
NextPortPast(s) == [Fresh EXCEPT !.port = sender[s].port + 1]

\* On to the next known port; after the last one the ELF is sent.
NextPort(s) == IF sender[s].port < Len(Checked)
               THEN [Fresh EXCEPT !.port = sender[s].port + 1]
               ELSE [Fresh EXCEPT !.pc = "send"]

\* The twelve seconds of wait_for_daemon_up are enough for main() to come to its
\* socket.
Starting == {i \in Instances : pc[i] \in {"start", "bind"}}

At(s, where) == [sender[s] EXCEPT !.pc = where, !.sock = 0]

\* What the sender does next, given that its request was answered (by i) or not
\* (None).  wait_for_daemon_down takes the first unanswered poll for a daemon
\* that is gone and gives up when its time is over; wait_for_daemon_up takes the
\* first answered one.
Continue(s, i) ==
    CASE sender[s].pc = "probe"    -> {IF i = None THEN NextPort(s) ELSE At(s, "shutdown")}
      [] sender[s].pc = "shutdown" -> {[At(s, "poll") EXCEPT !.heard = i]}
      [] sender[s].pc = "poll"     ->
            IF i = None THEN {NextPort(s)}
            ELSE LET n == sender[s].polls + 1
                 IN  (IF n < MinPolls THEN {} ELSE {At(s, "aborted")})
                     \cup {[At(s, "poll") EXCEPT !.polls = IF n < MinPolls THEN n ELSE @]}
      [] sender[s].pc = "up"       ->
            IF i = None THEN {At(s, "up")} \cup (IF Starting = {} THEN {At(s, "idle")} ELSE {})
            ELSE {At(s, "idle")}

Begin(s) ==
    /\ sender[s].pc \in {"idle", "aborted"}
    /\ Spend("sends")
    /\ sender' = [sender EXCEPT ![s] = Fresh]
    /\ UNCHANGED <<pc, shutdown, listener, pidfile, conn>>

Connect(s) ==
    /\ Asking(s) /\ sender[s].sock = 0
    /\ Dial(Port(s), KindOf(s), s)
    /\ \E k \in Sockets : /\ conn'[k] # conn[k]
                          /\ sender' = [sender EXCEPT ![s].sock = k]
    /\ UNCHANGED <<pc, shutdown, listener, pidfile, budget>>

Refused(s) ==
    /\ Asking(s) /\ sender[s].sock = 0
    /\ listener[Port(s)] = None
    /\ \E next \in Continue(s, None) : sender' = [sender EXCEPT ![s] = next]
    /\ UNCHANGED <<pc, shutdown, listener, pidfile, conn, budget>>

Answered(s) ==
    LET k == sender[s].sock
    IN  /\ k # 0
        /\ conn[k].st \in {"answered", "reset"}
        /\ \E next \in Continue(s, IF conn[k].st = "reset" THEN None ELSE conn[k].to) :
              sender' = [sender EXCEPT ![s] = next]
        /\ conn' = [conn EXCEPT ![k] = NoConn]
        /\ UNCHANGED <<pc, shutdown, listener, pidfile, budget>>

\* The time-out of two or three seconds; the request stays where it is.
Late(s) ==
    LET k == sender[s].sock
    IN  /\ k # 0
        /\ conn[k].st \in {"queued", "accepted", "noted"}
        /\ Spend("missed")
        /\ \E next \in Continue(s, None) : sender' = [sender EXCEPT ![s] = next]
        /\ conn' = [conn EXCEPT ![k].owner = None]
        /\ UNCHANGED <<pc, shutdown, listener, pidfile>>

\* The loader starts a process for the ELF.
Launch(s) ==
    /\ sender[s].pc = "send"
    /\ \E i \in New :
          /\ pc[i] = "absent"
          /\ pc' = [pc EXCEPT ![i] = "start"]
    /\ sender' = [sender EXCEPT ![s] = [Fresh EXCEPT !.pc = "up"]]
    /\ UNCHANGED <<shutdown, listener, pidfile, conn, budget>>

LoaderFail(s) ==
    /\ sender[s].pc = "send"
    /\ Spend("faults")
    /\ sender' = [sender EXCEPT ![s] = At(s, "idle")]
    /\ UNCHANGED <<pc, shutdown, listener, pidfile, conn>>

SenderStep(s) == Connect(s) \/ Refused(s) \/ Answered(s)

\* A browser, a control panel: a request whose answer does not matter here.
Visit ==
    /\ Spend("visits")
    /\ \E p \in Ports, kind \in Kinds : Dial(p, kind, None)
    /\ UNCHANGED <<pc, shutdown, listener, pidfile, sender>>

Next ==
    \/ Daemon
    \/ \E i \in Instances : AcceptFail(i) \/ Die(i)
    \/ \E s \in Senders : \/ SenderStep(s) \/ Begin(s) \/ Late(s) \/ Launch(s)
                          \/ LoaderFail(s)
    \/ Visit

Spec == Init /\ [][Next]_vars

\* Threads keep running, and a sender goes on with what it began; that users
\* begin, visit or wait for a time-out is nobody's promise.
Fairness ==
    /\ \A i \in Instances :
          WF_vars(\/ WritePid(i) \/ Bind(i) \/ BindFail(i) \/ Check(i) \/ Accept(i)
                  \/ Close(i) \/ RemovePid(i) \/ Exit(i))
    /\ \A k \in Sockets : WF_vars(Note(k) \/ Reply(k))
    /\ \A s \in Senders : WF_vars(SenderStep(s))

FairSpec == Spec /\ Fairness
------------------------------------------------------------------------------
(***************************************************************************)
(* Properties                                                              *)
(***************************************************************************)
NothingMissed == budget["missed"] = MaxMissed

\* As long as no answer is late and one sender is at work, an ELF is sent only
\* when no daemon listens on any known port: the accept loop, which leaves only
\* after one more connection, and the wait loop fit together.
SendsOnQuiet ==
    [][\A i \in Instances :
          pc[i] = "absent" /\ pc'[i] = "start" /\ NothingMissed
            => \A p \in Ports : listener[p] = None]_vars

\* A daemon that answered the shutdown request answers fewer polls than fit in
\* the wait: the sender never gives up on one that will end.
AnsweredIsObeyed ==
    \A s \in Senders : sender[s].pc = "aborted" /\ sender[s].heard # None
                          => sender[s].heard # listener[Port(s)]

\* The polls of the sender are also what makes the daemon look at g_shutdown: it
\* ends, even when the sender does not wait for the answer.
ShutdownEnds ==
    \A i \in Instances :
        (\E s \in Senders : sender[s].heard = i) ~> pc[i] = "stopped"
==============================================================================
