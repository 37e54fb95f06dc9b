------------------------ MODULE DaemonLifecycleProofs ------------------------
(***************************************************************************)
(* Theorems on the replacement of a running daemon, for any number of      *)
(* processes, ports, senders and connections.                              *)
(***************************************************************************)
EXTENDS DaemonLifecycle, TLAPS

----------------------------------------------------------------------------
(***************************************************************************)
(* Types.  A sender that waits on a connection waits on one of its own, of *)
(* the kind it asks for, so what it concludes is always one of Continue's  *)
(* cases.                                                                  *)
(***************************************************************************)
Stages == {"queued", "accepted", "noted", "answered", "reset"}

Waits(s) ==
    sender[s].sock # 0 =>
        /\ Asking(s)
        /\ conn[sender[s].sock] \in Conn
        /\ conn[sender[s].sock].owner = s
        /\ conn[sender[s].sock].kind = KindOf(s)

TypeInv == TypeOK /\ \A s \in Senders : Waits(s)

\* What the daemons can do to a connection: move it on, or forget one whose
\* client went away.
Follows(k) ==
    \/ conn'[k] = conn[k]
    \/ conn[k] \in Conn /\ conn[k].owner = None /\ conn'[k] = NoConn
    \/ conn[k] \in Conn /\ \E st \in Stages : conn'[k] = [conn[k] EXCEPT !.st = st]

LEMMA NoConnLemma == NoConn \notin Conn /\ NoConn.st = "none"
<1>1. NoConn.st = "none"
  BY DEF NoConn
<1>2. \A c \in Conn : c.st \in Stages
  BY DEF Conn, Stages
<1> QED
  BY <1>1, <1>2 DEF Stages

LEMMA DeliveredLemma ==
    ASSUME TypeOK, NEW k \in Sockets, conn[k] \in Conn, NEW st \in Stages,
           conn'[k] = Delivered(conn[k], st)
    PROVE  Follows(k)
<1> QED
  BY DEF Follows, Delivered

LEMMA HangupLemma ==
    ASSUME TypeOK, NEW i, NEW states \in SUBSET Stages, conn' = Hangup(i, states)
    PROVE  \A k \in Sockets :
              /\ Follows(k)
              /\ conn[k].st \in states /\ conn[k].to = i => conn'[k] \in {NoConn, [conn[k] EXCEPT !.st = "reset"]}
              /\ ~(conn[k].st \in states /\ conn[k].to = i) => conn'[k] = conn[k]
<1> TAKE k \in Sockets
<1>1. conn'[k] = IF conn[k].st \in states /\ conn[k].to = i
                 THEN Delivered(conn[k], "reset") ELSE conn[k]
  BY DEF Hangup
<1>2. conn[k] \in Conn \cup {NoConn} /\ "none" \notin states
  BY DEF TypeOK, Stages
<1>3. conn[k].st \in states => conn[k] \in Conn
  BY <1>2, NoConnLemma
<1> QED
  BY <1>1, <1>3 DEF Delivered, Follows, Stages

LEMMA FollowsTypes ==
    ASSUME TypeOK, NEW k \in Sockets, Follows(k)
    PROVE  conn'[k] \in Conn \cup {NoConn}
<1> QED
  BY DEF TypeOK, Follows, Conn, Stages

\* Where the steps of daemons and their handler threads leave everything else.
Main(i) ==
    \/ WritePid(i) \/ Bind(i) \/ BindFail(i) \/ Check(i) \/ Accept(i) \/ Close(i)
    \/ RemovePid(i) \/ Exit(i) \/ AcceptFail(i) \/ Die(i)

DaemonStep == (\E i \in Instances : Main(i)) \/ (\E k \in Sockets : Note(k) \/ Reply(k))

LEMMA DaemonFollows ==
    ASSUME TypeOK, DaemonStep
    PROVE  /\ UNCHANGED sender
           /\ conn' = [l \in Sockets |-> conn'[l]]
           /\ \A l \in Sockets : Follows(l)
<1>0. /\ conn \in [Sockets -> Conn \cup {NoConn}]
      /\ \A l \in Sockets : conn[l].st \in Stages => conn[l] \in Conn
  BY NoConnLemma DEF TypeOK, Stages
<1>1. ASSUME NEW i \in Instances,
             \/ WritePid(i) \/ Bind(i) \/ BindFail(i) \/ Check(i)
             \/ RemovePid(i) \/ AcceptFail(i)
      PROVE  UNCHANGED sender /\ conn' = [l \in Sockets |-> conn'[l]] /\ \A l \in Sockets : Follows(l)
  BY <1>0, <1>1 DEF WritePid, Bind, BindFail, Check, RemovePid, AcceptFail, Follows
<1>2. ASSUME NEW i \in Instances, Accept(i)
      PROVE  UNCHANGED sender /\ conn' = [l \in Sockets |-> conn'[l]] /\ \A l \in Sockets : Follows(l)
  <2>1. PICK l \in Sockets :
          /\ conn[l].st = "queued"
          /\ \/ conn' = [conn EXCEPT ![l].st = "accepted"]
             \/ conn' = [conn EXCEPT ![l] = Delivered(@, "reset")]
    BY <1>2 DEF Accept
  <2>2. conn[l] \in Conn
    BY <1>0, <2>1 DEF Stages
  <2>3. Follows(l)
    BY <1>0, <2>1, <2>2 DEF Follows, Stages, Delivered
  <2> QED
    BY <1>0, <1>2, <2>1, <2>3 DEF Accept, Follows
<1>3. ASSUME NEW i \in Instances, Close(i) \/ Exit(i) \/ Die(i)
      PROVE  UNCHANGED sender /\ conn' = [l \in Sockets |-> conn'[l]] /\ \A l \in Sockets : Follows(l)
  <2>1. PICK states \in SUBSET Stages : conn' = Hangup(i, states)
    BY <1>3 DEF Close, Exit, Die, Stages
  <2>2. UNCHANGED sender
    BY <1>3 DEF Close, Exit, Die
  <2> QED
    BY <2>1, <2>2, HangupLemma DEF Hangup
<1>4. ASSUME NEW k \in Sockets, Note(k) \/ Reply(k)
      PROVE  UNCHANGED sender /\ conn' = [l \in Sockets |-> conn'[l]] /\ \A l \in Sockets : Follows(l)
  <2>1. conn[k] \in Conn
    BY <1>0, <1>4 DEF Note, Reply, Stages
  <2>2. Follows(k)
    BY <1>0, <1>4, <2>1 DEF Note, Reply, Follows, Stages, Delivered
  <2> QED
    BY <1>0, <1>4, <2>2 DEF Note, Reply, Follows
<1> QED
  BY <1>1, <1>2, <1>3, <1>4 DEF DaemonStep, Main

LEMMA FollowsWaits ==
    ASSUME TypeInv, UNCHANGED sender, \A l \in Sockets : Follows(l)
    PROVE  \A s \in Senders : Waits(s)'
<1> SUFFICES ASSUME NEW s \in Senders, sender[s].sock # 0 PROVE Waits(s)'
  BY DEF Waits
<1> DEFINE k == sender[s].sock
<1>1. k \in Sockets /\ s # None
  BY LifecycleAssumption DEF TypeInv, TypeOK, Sender, Sockets
<1>2. /\ Asking(s) /\ conn[k] \in Conn
      /\ conn[k].owner = s /\ conn[k].kind = KindOf(s)
  BY DEF TypeInv, Waits
<1>3. \/ conn'[k] = conn[k]
      \/ \E st \in Stages : conn'[k] = [conn[k] EXCEPT !.st = st]
  BY <1>1, <1>2 DEF Follows
<1>4. conn'[k] \in Conn /\ conn'[k].owner = s /\ conn'[k].kind = KindOf(s)
  BY <1>2, <1>3 DEF Conn, Stages
<1> QED
  BY <1>2, <1>4 DEF Waits, Asking, KindOf

LEMMA SpendLemma ==
    ASSUME TypeOK, NEW b \in {"sends", "visits", "missed", "faults"}, Spend(b)
    PROVE  /\ budget' \in [{"sends", "visits", "missed", "faults"} -> Nat]
           /\ budget'[b] = budget[b] - 1
           /\ \A c \in {"sends", "visits", "missed", "faults"} \ {b} : budget'[c] = budget[c]
<1> QED
  BY DEF TypeOK, Spend

LEMMA DaemonTypes ==
    ASSUME TypeInv, DaemonStep
    PROVE  TypeInv'
<1> USE DEF TypeInv
<1>1. /\ UNCHANGED sender
      /\ conn' \in [Sockets -> Conn \cup {NoConn}]
      /\ \A s \in Senders : Waits(s)'
  BY DaemonFollows, FollowsTypes, FollowsWaits
<1>2. /\ pc' \in [Instances -> InstancePc]
      /\ pidfile' \in Instances \cup {None}
  BY DEF TypeOK, DaemonStep, Main, WritePid, Bind, BindFail, Check, Accept, Close, RemovePid, Exit,
         AcceptFail, Die, Note, Reply, InstancePc
<1>3. listener' \in [Ports -> Instances \cup {None}]
  BY DEF TypeOK, DaemonStep, Main, WritePid, Bind, BindFail, Check, Accept, Close, RemovePid, Exit,
         AcceptFail, Die, Note, Reply
<1>4. shutdown' \in [Instances -> BOOLEAN]
  BY DEF TypeOK, DaemonStep, Main, WritePid, Bind, BindFail, Check, Accept, Close, RemovePid, Exit,
         AcceptFail, Die, Note, Reply
<1>5. budget' \in [{"sends", "visits", "missed", "faults"} -> Nat]
  <2>1. budget' = budget \/ Spend("missed") \/ Spend("faults")
    BY DEF DaemonStep, Main, WritePid, Bind, BindFail, Check, Accept, Close, RemovePid, Exit,
           AcceptFail, Die, Note, Reply
  <2> QED
    BY <2>1, SpendLemma DEF TypeOK
<1> QED
  BY <1>1, <1>2, <1>3, <1>4, <1>5 DEF TypeOK

----------------------------------------------------------------------------
(***************************************************************************)
(* Senders                                                                 *)
(***************************************************************************)
LEMMA FreshTypes ==
    ASSUME NEW where \in SenderPc, NEW n \in DOMAIN Checked
    PROVE  /\ [Fresh EXCEPT !.pc = where] \in Sender
           /\ [Fresh EXCEPT !.port = n] \in Sender
           /\ Fresh \in Sender
<1>1. 1 \in DOMAIN Checked
  BY LifecycleAssumption
<1>2. MinPolls \in Nat /\ MaxOpen \in Nat
  BY LifecycleAssumption
<1> QED
  BY <1>1, <1>2 DEF Fresh, Sender, SenderPc

LEMMA NextPortLemma ==
    ASSUME TypeOK, NEW s \in Senders
    PROVE  /\ NextPort(s) \in Sender
           /\ NextPort(s).sock = 0 /\ NextPort(s).polls = 0 /\ NextPort(s).heard = None
           /\ \/ /\ sender[s].port < Len(Checked)
                 /\ NextPort(s).pc = "probe" /\ NextPort(s).port = sender[s].port + 1
              \/ /\ sender[s].port = Len(Checked)
                 /\ NextPort(s).pc = "send" /\ NextPort(s).port = 1
<1>1. sender[s].port \in 1 .. Len(Checked) /\ Len(Checked) \in Nat /\ DOMAIN Checked = 1 .. Len(Checked)
  BY LifecycleAssumption DEF TypeOK, Sender
<1>2. CASE sender[s].port < Len(Checked)
  <2>1. NextPort(s) = [Fresh EXCEPT !.port = sender[s].port + 1]
    BY <1>2 DEF NextPort
  <2>2. sender[s].port + 1 \in DOMAIN Checked
    BY <1>1, <1>2
  <2> QED
    BY <1>2, <2>1, <2>2, FreshTypes DEF Fresh, SenderPc
<1>3. CASE ~(sender[s].port < Len(Checked))
  <2>1. NextPort(s) = [Fresh EXCEPT !.pc = "send"] /\ sender[s].port = Len(Checked)
    BY <1>1, <1>3 DEF NextPort
  <2>2. "send" \in SenderPc
    BY DEF SenderPc
  <2> QED
    BY <1>1, <2>1, <2>2, FreshTypes DEF Fresh
<1> QED
  BY <1>2, <1>3

LEMMA AtLemma ==
    ASSUME TypeOK, NEW s \in Senders, NEW where \in SenderPc
    PROVE  /\ At(s, where) \in Sender
           /\ At(s, where).pc = where /\ At(s, where).sock = 0
           /\ At(s, where).port = sender[s].port
           /\ At(s, where).polls = sender[s].polls
           /\ At(s, where).heard = sender[s].heard
<1>1. sender[s] \in Sender /\ 0 \in 0 .. MaxOpen
  BY LifecycleAssumption DEF TypeOK
<1>2. At(s, where) = [sender[s] EXCEPT !.pc = where, !.sock = 0]
  BY DEF At
<1> QED
  BY <1>1, <1>2 DEF Sender

\* The outcomes of a request, by the stage of the sender.
LEMMA ContinueLemma ==
    ASSUME TypeOK, NEW s \in Senders, Asking(s), NEW i \in Instances \cup {None},
           NEW next \in Continue(s, i)
    PROVE  /\ next \in Sender /\ next.sock = 0
           /\ \/ sender[s].pc \in {"probe", "poll"} /\ i = None /\ next = NextPort(s)
              \/ sender[s].pc = "probe" /\ i # None /\ next = At(s, "shutdown")
              \/ sender[s].pc = "shutdown" /\ next = [At(s, "poll") EXCEPT !.heard = i]
              \/ /\ sender[s].pc = "poll" /\ i # None
                 /\ next.port = sender[s].port /\ next.heard = sender[s].heard
                 /\ \/ next.pc = "aborted" /\ sender[s].polls + 1 >= MinPolls
                    \/ next.pc = "poll" /\ next.polls <= sender[s].polls + 1
              \/ /\ sender[s].pc = "up"
                 /\ next \in {At(s, "up"), At(s, "idle")}
                 /\ next = At(s, "idle") /\ i = None => Starting = {}
<1>0. MinPolls \in Nat /\ sender[s].polls \in 0 .. MinPolls
  BY LifecycleAssumption DEF TypeOK, Sender
<1>1. CASE sender[s].pc = "probe"
  BY <1>1, NextPortLemma, AtLemma DEF Continue, SenderPc
<1>2. CASE sender[s].pc = "shutdown"
  <2>1. next = [At(s, "poll") EXCEPT !.heard = i] /\ At(s, "poll") \in Sender /\ At(s, "poll").sock = 0
    BY <1>2, AtLemma DEF Continue, SenderPc
  <2> QED
    BY <1>2, <2>1 DEF Sender
<1>3. CASE sender[s].pc = "poll" /\ i = None
  BY <1>3, NextPortLemma DEF Continue
<1>4. CASE sender[s].pc = "poll" /\ i # None
  <2> DEFINE n == sender[s].polls + 1
  <2>1. \/ n >= MinPolls /\ next = At(s, "aborted")
        \/ next = [At(s, "poll") EXCEPT !.polls = IF n < MinPolls THEN n ELSE @]
    BY <1>0, <1>4 DEF Continue
  <2>2. CASE n >= MinPolls /\ next = At(s, "aborted")
    BY <1>4, <2>2, AtLemma DEF SenderPc
  <2>3. CASE next = [At(s, "poll") EXCEPT !.polls = IF n < MinPolls THEN n ELSE @]
    <3>1. /\ At(s, "poll") \in Sender /\ At(s, "poll").pc = "poll" /\ At(s, "poll").sock = 0
          /\ At(s, "poll").port = sender[s].port
          /\ At(s, "poll").polls = sender[s].polls
          /\ At(s, "poll").heard = sender[s].heard
      BY AtLemma DEF SenderPc
    <3>2. PICK m \in 0 .. MinPolls : m <= n /\ next = [At(s, "poll") EXCEPT !.polls = m]
      BY <1>0, <2>3, <3>1
    <3> QED
      BY <1>4, <3>1, <3>2 DEF Sender
  <2> QED
    BY <2>1, <2>2, <2>3
<1>5. CASE sender[s].pc = "up"
  BY <1>5, AtLemma DEF Continue, SenderPc
<1> QED
  BY <1>1, <1>2, <1>3, <1>4, <1>5 DEF Asking

LEMMA DialLemma ==
    ASSUME TypeOK, NEW p \in Ports, NEW kind \in Kinds, NEW owner \in Senders \cup {None},
           Dial(p, kind, owner)
    PROVE  /\ listener[p] \in Instances
           /\ \E k \in Sockets, new \in Conn :
                 /\ conn[k] = NoConn
                 /\ conn' = [conn EXCEPT ![k] = new]
                 /\ new.st = "queued" /\ new.to = listener[p]
                 /\ new.kind = kind /\ new.owner = owner
<1>1. listener[p] \in Instances
  BY DEF Dial, TypeOK
<1>2. PICK k \in Sockets :
        /\ conn[k] = NoConn
        /\ conn' = [conn EXCEPT ![k] = [st |-> "queued", to |-> listener[p], kind |-> kind,
                                        owner |-> owner]]
  BY DEF Dial
<1>3. [st |-> "queued", to |-> listener[p], kind |-> kind, owner |-> owner] \in Conn
  BY <1>1 DEF Conn
<1> QED
  BY <1>1, <1>2, <1>3

\* What a sender does with the connection it waits on.
LEMMA SocketLemma ==
    ASSUME TypeInv, NEW s \in Senders, sender[s].sock # 0
    PROVE  /\ sender[s].sock \in Sockets
           /\ Asking(s)
           /\ conn[sender[s].sock] \in Conn
           /\ conn[sender[s].sock].owner = s
           /\ conn[sender[s].sock].to \in Instances
<1> QED
  BY LifecycleAssumption DEF TypeInv, Waits, TypeOK, Sender, Sockets, Conn

\* A sender that goes on holds no connection; what it did to its own does not
\* matter to the others.
LEMMA MovesOn ==
    ASSUME TypeInv, NEW s \in Senders, NEW next \in Sender, next.sock = 0,
           sender' = [sender EXCEPT ![s] = next],
           \A l \in Sockets : conn'[l] = conn[l] \/ (conn[l] \in Conn /\ conn[l].owner = s)
    PROVE  /\ sender' \in [Senders -> Sender]
           /\ \A t \in Senders : Waits(t)'
<1>1. sender' \in [Senders -> Sender]
  BY DEF TypeInv, TypeOK
<1>2. ASSUME NEW t \in Senders PROVE Waits(t)'
  <2>1. CASE t = s
    BY <2>1 DEF TypeInv, TypeOK, Waits
  <2>2. CASE t # s
    <3>1. sender'[t] = sender[t] /\ Waits(t)
      BY <2>2 DEF TypeInv, TypeOK
    <3>2. sender[t].sock # 0 => sender[t].sock \in Sockets /\ conn[sender[t].sock].owner = t
      BY SocketLemma
    <3> QED
      BY <2>2, <3>1, <3>2 DEF Waits, Asking, KindOf
  <2> QED
    BY <2>1, <2>2
<1> QED
  BY <1>1, <1>2

LEMMA SenderTypes ==
    ASSUME TypeInv, NEW s \in Senders,
           SenderStep(s) \/ Begin(s) \/ Late(s) \/ Launch(s) \/ LoaderFail(s)
    PROVE  TypeInv'
<1> USE DEF TypeInv
<1>0. /\ s # None /\ Port(s) \in Ports /\ KindOf(s) \in Kinds /\ sender \in [Senders -> Sender]
      /\ conn \in [Sockets -> Conn \cup {NoConn}]
  BY LifecycleAssumption DEF TypeOK, Sender, Port, Ports, KindOf, Kinds
<1>1. CASE Connect(s)
  <2>1. PICK k \in Sockets, new \in Conn :
          /\ conn[k] = NoConn
          /\ conn' = [conn EXCEPT ![k] = new]
          /\ new.kind = KindOf(s) /\ new.owner = s
    BY <1>0, <1>1, DialLemma DEF Connect
  <2>2. sender' = [sender EXCEPT ![s].sock = k]
    BY <1>0, <1>1, <2>1, NoConnLemma DEF Connect
  <2>3. k # 0 /\ k \in 0 .. MaxOpen
    BY LifecycleAssumption DEF Sockets
  <2>4. sender' \in [Senders -> Sender]
    BY <1>0, <2>2, <2>3 DEF Sender
  <2>5. conn' \in [Sockets -> Conn \cup {NoConn}]
    BY <1>0, <2>1
  <2>6. ASSUME NEW t \in Senders PROVE Waits(t)'
    <3>1. CASE t = s
      <4>1. /\ sender'[s].pc = sender[s].pc /\ sender'[s].sock = k
            /\ conn'[k] = new
        BY <1>0, <2>1, <2>2 DEF Sender
      <4> QED
        BY <1>1, <2>1, <3>1, <4>1 DEF Connect, Waits, Asking, KindOf
    <3>2. CASE t # s
      <4>1. sender'[t] = sender[t] /\ Waits(t)
        BY <1>0, <2>2, <3>2
      <4>2. sender[t].sock # 0 => sender[t].sock \in Sockets /\ sender[t].sock # k
        BY <2>1, <4>1, NoConnLemma, SocketLemma DEF Waits
      <4> QED
        BY <1>0, <2>1, <4>1, <4>2 DEF Waits, Asking, KindOf
    <3> QED
      BY <3>1, <3>2
  <2> QED
    BY <1>1, <2>4, <2>5, <2>6 DEF Connect, TypeOK
<1>2. CASE Refused(s)
  <2>1. PICK next \in Continue(s, None) : sender' = [sender EXCEPT ![s] = next]
    BY <1>2 DEF Refused
  <2>2. next \in Sender /\ next.sock = 0
    BY <1>2, ContinueLemma DEF Refused
  <2> QED
    BY <1>2, <2>1, <2>2, MovesOn DEF Refused, TypeOK
<1>3. CASE Answered(s)
  <2> DEFINE k == sender[s].sock
             i == IF conn[k].st = "reset" THEN None ELSE conn[k].to
  <2>1. /\ k \in Sockets /\ Asking(s) /\ i \in Instances \cup {None}
        /\ conn[k] \in Conn /\ conn[k].owner = s
    BY <1>3, SocketLemma DEF Answered
  <2>2. PICK next \in Continue(s, i) : sender' = [sender EXCEPT ![s] = next]
    BY <1>3 DEF Answered
  <2>3. next \in Sender /\ next.sock = 0
    BY <2>1, ContinueLemma
  <2>4. conn' = [conn EXCEPT ![k] = NoConn]
    BY <1>3 DEF Answered
  <2>5. \A l \in Sockets : conn'[l] = conn[l] \/ (conn[l] \in Conn /\ conn[l].owner = s)
    BY <1>0, <2>1, <2>4
  <2>6. conn' \in [Sockets -> Conn \cup {NoConn}]
    BY <1>0, <2>4
  <2> QED
    BY <1>3, <2>2, <2>3, <2>5, <2>6, MovesOn DEF Answered, TypeOK
<1>4. CASE Late(s)
  <2> DEFINE k == sender[s].sock
  <2>1. /\ k \in Sockets /\ Asking(s) /\ conn[k] \in Conn /\ conn[k].owner = s
    BY <1>4, SocketLemma DEF Late
  <2>2. PICK next \in Continue(s, None) : sender' = [sender EXCEPT ![s] = next]
    BY <1>4 DEF Late
  <2>3. next \in Sender /\ next.sock = 0
    BY <2>1, ContinueLemma
  <2>4. conn' = [conn EXCEPT ![k].owner = None]
    BY <1>4 DEF Late
  <2>5. \A l \in Sockets : conn'[l] = conn[l] \/ (conn[l] \in Conn /\ conn[l].owner = s)
    BY <1>0, <2>1, <2>4
  <2>6. conn' \in [Sockets -> Conn \cup {NoConn}]
    BY <1>0, <2>1, <2>4 DEF Conn
  <2>7. budget' \in [{"sends", "visits", "missed", "faults"} -> Nat]
    BY <1>4, SpendLemma DEF Late
  <2> QED
    BY <1>4, <2>2, <2>3, <2>5, <2>6, <2>7, MovesOn DEF Late, TypeOK
<1>5. CASE Begin(s) \/ Launch(s) \/ LoaderFail(s)
  <2>1. PICK next \in Sender : next.sock = 0 /\ sender' = [sender EXCEPT ![s] = next]
    <3>0. /\ Fresh \in Sender /\ Fresh.sock = 0
          /\ [Fresh EXCEPT !.pc = "up"] \in Sender /\ [Fresh EXCEPT !.pc = "up"].sock = 0
      <4>1. "up" \in SenderPc /\ 1 \in DOMAIN Checked
        BY LifecycleAssumption DEF SenderPc
      <4> QED
        BY <4>1, FreshTypes DEF Fresh
    <3>1. CASE Begin(s)
      BY <3>0, <3>1 DEF Begin
    <3>2. CASE Launch(s)
      BY <3>0, <3>2 DEF Launch
    <3>3. CASE LoaderFail(s)
      BY <3>3, AtLemma DEF LoaderFail, SenderPc
    <3> QED
      BY <1>5, <3>1, <3>2, <3>3
  <2>2. UNCHANGED conn
    BY <1>5 DEF Begin, Launch, LoaderFail
  <2>3. budget' \in [{"sends", "visits", "missed", "faults"} -> Nat]
    BY <1>5, SpendLemma DEF Begin, Launch, LoaderFail, TypeOK
  <2>4. pc' \in [Instances -> InstancePc] /\ UNCHANGED <<shutdown, listener, pidfile>>
    BY <1>5 DEF Begin, Launch, LoaderFail, TypeOK, InstancePc
  <2> QED
    BY <2>1, <2>2, <2>3, <2>4, MovesOn DEF TypeOK
<1> QED
  BY <1>1, <1>2, <1>3, <1>4, <1>5 DEF SenderStep

LEMMA VisitTypes == TypeInv /\ Visit => TypeInv'
<1> SUFFICES ASSUME TypeInv, Visit PROVE TypeInv'
  OBVIOUS
<1> USE DEF TypeInv
<1>1. PICK k \in Sockets, new \in Conn : conn[k] = NoConn /\ conn' = [conn EXCEPT ![k] = new]
  BY DialLemma DEF Visit
<1>2. conn' \in [Sockets -> Conn \cup {NoConn}]
  BY <1>1 DEF TypeOK
<1>3. ASSUME NEW t \in Senders PROVE Waits(t)'
  <2>1. sender' = sender /\ Waits(t)
    BY DEF Visit
  <2>2. sender[t].sock # 0 => sender[t].sock \in Sockets /\ sender[t].sock # k
    BY <1>1, NoConnLemma, SocketLemma
  <2> QED
    BY <1>1, <2>1, <2>2 DEF Waits, Asking, KindOf, TypeOK
<1> QED
  BY <1>2, <1>3, SpendLemma DEF Visit, TypeOK

LEMMA InitTypes == Init => TypeInv
<1> SUFFICES ASSUME Init PROVE TypeInv
  OBVIOUS
<1>1. [Fresh EXCEPT !.pc = "idle"] \in Sender /\ [Fresh EXCEPT !.pc = "idle"].sock = 0
  BY FreshTypes, LifecycleAssumption DEF SenderPc, Fresh
<1>2. PICK running \in SUBSET Old :
        /\ pc = [i \in Instances |-> IF i \in running THEN "check" ELSE "absent"]
        /\ listener \in [Ports -> running \cup {None}]
        /\ IF running = {} THEN pidfile = None ELSE pidfile \in running
  BY DEF Init
<1>3. /\ pc \in [Instances -> InstancePc]
      /\ listener \in [Ports -> Instances \cup {None}]
      /\ pidfile \in Instances \cup {None}
  BY <1>2 DEF Instances, InstancePc
<1>4. budget \in [{"sends", "visits", "missed", "faults"} -> Nat]
  BY LifecycleAssumption DEF Init
<1> QED
  BY <1>1, <1>3, <1>4 DEF Init, TypeInv, TypeOK, Waits

\* The steps of the specification, by who takes them.
SenderSide(s) == SenderStep(s) \/ Begin(s) \/ Late(s) \/ Launch(s) \/ LoaderFail(s)

LEMMA StepsLemma ==
    ASSUME [Next]_vars
    PROVE  UNCHANGED vars \/ DaemonStep \/ (\E s \in Senders : SenderSide(s)) \/ Visit
<1> QED
  BY DEF Next, Daemon, DaemonStep, Main, SenderSide

LEMMA NextTypes == TypeInv /\ [Next]_vars => TypeInv'
<1> SUFFICES ASSUME TypeInv, [Next]_vars PROVE TypeInv'
  OBVIOUS
<1>1. CASE UNCHANGED vars
  BY <1>1 DEF vars, TypeInv, TypeOK, Waits, Asking, KindOf
<1> QED
  BY <1>1, StepsLemma, DaemonTypes, SenderTypes, VisitTypes DEF SenderSide

LEMMA TypeInvariance == Spec => []TypeInv
<1> QED
  BY InitTypes, NextTypes, PTL DEF Spec

\* Every variable keeps its type; so the sender's next step is always one of the
\* cases of Continue.
THEOREM TypeCorrect == Spec => []TypeOK
<1>1. TypeInv => TypeOK
  BY DEF TypeInv
<1> QED
  BY TypeInvariance, <1>1, PTL

----------------------------------------------------------------------------
(***************************************************************************)
(* Who listens, and what an answer means: an instance listens on the port  *)
(* it was built for, at most once in its life, and answers a shutdown      *)
(* request after it set g_shutdown.                                        *)
(***************************************************************************)
Unborn == {"absent", "start", "bind"}

ListenInv ==
    /\ \A p \in Ports : listener[p] # None =>
          PortOf[listener[p]] = p /\ pc[listener[p]] \in {"check", "accept", "close"}
    /\ \A k \in Sockets : conn[k] # NoConn => pc[conn[k].to] \notin Unborn
    /\ \A k \in Sockets : conn[k].st \in {"noted", "answered"} /\ conn[k].kind = "shutdown"
                             => shutdown[conn[k].to]

\* The polls of s that the daemon it shuts down has accepted.
Spent(s) == sender[s].polls
            + IF sender[s].sock # 0 /\ conn[sender[s].sock].st \in {"accepted", "noted", "answered"}
              THEN 1 ELSE 0

\* A daemon that was heard and still listens has accepted one poll at most: then
\* it no longer waits in accept().
HeardInv(s) ==
    /\ sender[s].pc \notin {"poll", "aborted"} => sender[s].polls = 0 /\ sender[s].heard = None
    /\ sender[s].heard # None =>
          /\ shutdown[sender[s].heard] /\ pc[sender[s].heard] \notin Unborn
          /\ listener[Port(s)] = sender[s].heard =>
                /\ sender[s].pc = "poll"
                /\ sender[s].sock # 0 => conn[sender[s].sock].to = sender[s].heard
                /\ Spent(s) <= IF pc[sender[s].heard] = "accept" THEN 0 ELSE 1

WaitInv == TypeInv /\ ListenInv /\ \A s \in Senders : HeardInv(s)

\* A process comes to its socket once and stays told to end; a socket is opened by
\* a process that had none, and otherwise only closed.
LEMMA AgingLemma ==
    ASSUME TypeInv, DaemonStep
    PROVE  /\ \A i \in Instances : /\ pc[i] \notin Unborn => pc'[i] \notin Unborn
                                   /\ shutdown[i] => shutdown'[i]
           /\ \A p \in Ports : \/ listener'[p] \in {listener[p], None}
                               \/ /\ listener'[p] \in Instances /\ pc[listener'[p]] = "bind"
                                  /\ listener[p] = None
<1> USE DEF TypeInv, TypeOK
<1>1. \A i \in Instances : pc[i] \notin Unborn => pc'[i] \notin Unborn
  BY DEF DaemonStep, Main, WritePid, Bind, BindFail, Check, Accept, Close, RemovePid, Exit,
         AcceptFail, Die, Note, Reply, Unborn, InstancePc
<1>2. \A i \in Instances : shutdown[i] => shutdown'[i]
  BY DEF DaemonStep, Main, WritePid, Bind, BindFail, Check, Accept, Close, RemovePid, Exit,
         AcceptFail, Die, Note, Reply
<1>3. \A p \in Ports : \/ listener'[p] \in {listener[p], None}
                       \/ /\ listener'[p] \in Instances /\ pc[listener'[p]] = "bind"
                          /\ listener[p] = None
  BY DEF DaemonStep, Main, WritePid, Bind, BindFail, Check, Accept, Close, RemovePid, Exit,
         AcceptFail, Die, Note, Reply
<1> QED
  BY <1>1, <1>2, <1>3

\* A request to shut down is answered after it was noted.
LEMMA NotedLemma ==
    ASSUME TypeInv, ListenInv, DaemonStep, NEW k \in Sockets,
           conn'[k].st \in {"noted", "answered"}, conn'[k].kind = "shutdown"
    PROVE  shutdown'[conn'[k].to]
<1>0. /\ conn \in [Sockets -> Conn \cup {NoConn}] /\ shutdown \in [Instances -> BOOLEAN]
      /\ NoConn \notin Conn /\ NoConn.st = "none"
  BY NoConnLemma DEF TypeInv, TypeOK
<1>1. \A i \in Instances : shutdown[i] => shutdown'[i]
  BY AgingLemma
<1>2. /\ Follows(k) /\ conn'[k] \in Conn /\ conn[k] \in Conn
      /\ conn'[k].to = conn[k].to /\ conn'[k].kind = conn[k].kind /\ conn[k].to \in Instances
  <2>1. Follows(k)
    BY DaemonFollows DEF TypeInv
  <2>2. conn'[k] # NoConn
    BY <1>0
  <2> QED
    BY <1>0, <2>1, <2>2 DEF Follows, Conn, Stages
<1>3. CASE conn[k].st \in {"noted", "answered"}
  BY <1>1, <1>2, <1>3 DEF ListenInv
<1>4. CASE conn[k].st \notin {"noted", "answered"}
  <2>1. \E l \in Sockets : Note(l) \/ Reply(l)
    <3>1. ASSUME NEW i \in Instances, Main(i) PROVE conn'[k].st \in {conn[k].st, "accepted", "reset"}
      <4>1. CASE WritePid(i) \/ Bind(i) \/ BindFail(i) \/ Check(i) \/ RemovePid(i) \/ AcceptFail(i)
        BY <4>1 DEF WritePid, Bind, BindFail, Check, RemovePid, AcceptFail
      <4>2. CASE Accept(i)
        BY <1>0, <1>2, <4>2 DEF Accept, Delivered, Conn
      <4>3. CASE Close(i) \/ Exit(i) \/ Die(i)
        <5>1. PICK states \in SUBSET Stages : conn' = Hangup(i, states)
          BY <4>3 DEF Close, Exit, Die, Stages
        <5>2. conn'[k] = IF conn[k].st \in states /\ conn[k].to = i
                         THEN Delivered(conn[k], "reset") ELSE conn[k]
          BY <5>1 DEF Hangup
        <5> QED
          BY <1>0, <1>2, <5>2 DEF Delivered, Conn
      <4> QED
        BY <3>1, <4>1, <4>2, <4>3 DEF Main
    <3> QED
      BY <1>4, <3>1 DEF DaemonStep
  <2>2. PICK l \in Sockets : Note(l) \/ Reply(l)
    BY <2>1
  <2>3. l = k
    BY <1>0, <1>4, <2>2 DEF Note, Reply
  <2>4. Note(k)
    BY <1>0, <1>2, <1>4, <2>2, <2>3 DEF Reply, Delivered, Conn
  <2> QED
    BY <1>0, <1>2, <2>4 DEF Note, Conn
<1> QED
  BY <1>3, <1>4

LEMMA ListenDaemon ==
    ASSUME TypeInv, ListenInv, DaemonStep
    PROVE  ListenInv'
<1>1. ASSUME NEW p \in Ports, listener'[p] # None
      PROVE  PortOf[listener'[p]] = p /\ pc'[listener'[p]] \in {"check", "accept", "close"}
  <2>0. /\ listener \in [Ports -> Instances \cup {None}] /\ pc \in [Instances -> InstancePc]
        /\ PortOf \in [Instances -> Ports]
    BY LifecycleAssumption DEF TypeInv, TypeOK
  <2>1. listener[p] # None =>
          /\ listener[p] \in Instances
          /\ PortOf[listener[p]] = p /\ pc[listener[p]] \in {"check", "accept", "close"}
    BY <2>0 DEF ListenInv
  <2>2. CASE \E i \in Instances : Bind(i)
    BY <1>1, <2>0, <2>1, <2>2 DEF Bind
  <2>3. CASE \E i \in Instances : Close(i)
    BY <1>1, <2>0, <2>1, <2>3 DEF Close
  <2>4. CASE \E i \in Instances : Die(i)
    BY <1>1, <2>0, <2>1, <2>4 DEF Die
  <2>5. CASE \E i \in Instances :
                WritePid(i) \/ BindFail(i) \/ Check(i) \/ Accept(i) \/ RemovePid(i) \/ Exit(i) \/ AcceptFail(i)
    BY <1>1, <2>0, <2>1, <2>5
       DEF WritePid, BindFail, Check, Accept, RemovePid, Exit, AcceptFail
  <2>6. CASE \E k \in Sockets : Note(k) \/ Reply(k)
    BY <1>1, <2>0, <2>1, <2>6 DEF Note, Reply
  <2> QED
    BY <2>2, <2>3, <2>4, <2>5, <2>6 DEF DaemonStep, Main
<1>2. ASSUME NEW k \in Sockets, conn'[k] # NoConn PROVE pc'[conn'[k].to] \notin Unborn
  <2>1. Follows(k)
    BY DaemonFollows DEF TypeInv
  <2>2. conn[k] \in Conn /\ conn[k] # NoConn
    BY <1>2, <2>1, NoConnLemma DEF Follows, TypeInv, TypeOK
  <2>3. conn'[k].to = conn[k].to /\ conn[k].to \in Instances
    BY <1>2, <2>1, <2>2 DEF Follows, Conn
  <2> QED
    BY <2>2, <2>3, AgingLemma DEF ListenInv
<1> QED
  BY <1>1, <1>2, NotedLemma DEF ListenInv

\* What a step of a sender changes besides its own record.
Dialled(s, k) ==
    /\ conn[k] = NoConn /\ conn'[k] \in Conn
    /\ conn'[k].st = "queued" /\ conn'[k].to = listener[Port(s)]

LeftBehind(s, k) ==
    /\ conn[k] \in Conn /\ conn[k].owner = s
    /\ conn'[k] \in {NoConn, [conn[k] EXCEPT !.owner = None]}

LEMMA SenderMoves ==
    ASSUME TypeInv, NEW s \in Senders, SenderSide(s)
    PROVE  /\ UNCHANGED <<shutdown, listener>>
           /\ pc' = pc \/ \E i \in Instances : pc[i] = "absent" /\ pc' = [pc EXCEPT ![i] = "start"]
           /\ \A k \in Sockets : conn'[k] = conn[k] \/ Dialled(s, k) \/ LeftBehind(s, k)
           /\ \A t \in Senders \ {s} : sender'[t] = sender[t]
<1>0. /\ Port(s) \in Ports /\ KindOf(s) \in Kinds /\ sender \in [Senders -> Sender]
      /\ conn \in [Sockets -> Conn \cup {NoConn}]
  BY LifecycleAssumption DEF TypeInv, TypeOK, Sender, Port, Ports, KindOf, Kinds
<1>1. UNCHANGED <<shutdown, listener>>
  BY DEF SenderSide, SenderStep, Connect, Refused, Answered, Begin, Late, Launch, LoaderFail
<1>2. pc' = pc \/ \E i \in Instances : pc[i] = "absent" /\ pc' = [pc EXCEPT ![i] = "start"]
  BY DEF SenderSide, SenderStep, Connect, Refused, Answered, Begin, Late, Launch, LoaderFail, Instances
<1>3. \A t \in Senders \ {s} : sender'[t] = sender[t]
  BY <1>0 DEF SenderSide, SenderStep, Connect, Refused, Answered, Begin, Late, Launch, LoaderFail
<1>4. \A k \in Sockets : conn'[k] = conn[k] \/ Dialled(s, k) \/ LeftBehind(s, k)
  <2>1. CASE Connect(s)
    <3>1. PICK l \in Sockets, new \in Conn :
            /\ conn[l] = NoConn /\ conn' = [conn EXCEPT ![l] = new]
            /\ new.st = "queued" /\ new.to = listener[Port(s)]
      BY <1>0, <2>1, DialLemma DEF Connect, TypeInv
    <3> QED
      BY <1>0, <3>1 DEF Dialled
  <2>2. CASE Answered(s) \/ Late(s)
    <3>1. /\ sender[s].sock \in Sockets
          /\ conn[sender[s].sock] \in Conn /\ conn[sender[s].sock].owner = s
      BY <2>2, SocketLemma DEF Answered, Late
    <3>2. \/ conn' = [conn EXCEPT ![sender[s].sock] = NoConn]
          \/ conn' = [conn EXCEPT ![sender[s].sock].owner = None]
      BY <2>2 DEF Answered, Late
    <3> QED
      BY <1>0, <3>1, <3>2 DEF LeftBehind
  <2>3. CASE Refused(s) \/ Begin(s) \/ Launch(s) \/ LoaderFail(s)
    BY <2>3 DEF Refused, Begin, Launch, LoaderFail
  <2> QED
    BY <2>1, <2>2, <2>3 DEF SenderSide, SenderStep
<1> QED
  BY <1>1, <1>2, <1>3, <1>4

\* Dialling, answering and giving up do not concern the daemons.
LEMMA ListenOther ==
    ASSUME TypeInv, ListenInv, UNCHANGED <<shutdown, listener>>,
           pc' = pc \/ \E i \in Instances : pc[i] = "absent" /\ pc' = [pc EXCEPT ![i] = "start"],
           \A k \in Sockets :
              \/ conn'[k] \in {conn[k], NoConn}
              \/ conn[k] \in Conn /\ conn'[k] = [conn[k] EXCEPT !.owner = None]
              \/ /\ conn'[k] \in Conn /\ conn'[k].st = "queued"
                 /\ \E p \in Ports : listener[p] # None /\ conn'[k].to = listener[p]
    PROVE  ListenInv'
<1>0. /\ listener \in [Ports -> Instances \cup {None}] /\ pc \in [Instances -> InstancePc]
      /\ conn \in [Sockets -> Conn \cup {NoConn}] /\ NoConn.st = "none"
  BY NoConnLemma DEF TypeInv, TypeOK
<1>1. \A i \in Instances : pc[i] # "absent" => pc'[i] = pc[i]
  BY <1>0
<1>2. ASSUME NEW p \in Ports, listener'[p] # None
      PROVE  PortOf[listener'[p]] = p /\ pc'[listener'[p]] \in {"check", "accept", "close"}
  BY <1>0, <1>1, <1>2 DEF ListenInv
<1>3. ASSUME NEW k \in Sockets, conn'[k] # NoConn PROVE pc'[conn'[k].to] \notin Unborn
  <2>1. CASE conn[k] # NoConn /\ conn'[k].to = conn[k].to /\ conn[k].to \in Instances
    BY <1>1, <2>1 DEF ListenInv, Unborn
  <2>2. CASE \E p \in Ports : listener[p] # None /\ conn'[k].to = listener[p]
    BY <1>0, <1>1, <2>2 DEF ListenInv, Unborn
  <2> QED
    BY <1>0, <1>3, <2>1, <2>2 DEF Conn
<1>4. ASSUME NEW k \in Sockets, conn'[k].st \in {"noted", "answered"}, conn'[k].kind = "shutdown"
      PROVE  shutdown'[conn'[k].to]
  <2>1. /\ conn[k] \in Conn
        /\ conn'[k].st = conn[k].st /\ conn'[k].kind = conn[k].kind /\ conn'[k].to = conn[k].to
    BY <1>0, <1>4 DEF Conn
  <2> QED
    BY <1>4, <2>1 DEF ListenInv
<1> QED
  BY <1>2, <1>3, <1>4 DEF ListenInv

LEMMA ListenSender ==
    ASSUME TypeInv, ListenInv, NEW s \in Senders, SenderSide(s)
    PROVE  ListenInv'
<1>1. Port(s) \in Ports
  BY LifecycleAssumption DEF TypeInv, TypeOK, Sender, Port, Ports
<1>2. \A k \in Sockets : Dialled(s, k) => listener[Port(s)] # None
  BY LifecycleAssumption DEF Dialled, Conn, Instances
<1> QED
  BY <1>1, <1>2, SenderMoves, ListenOther DEF Dialled, LeftBehind

LEMMA ListenVisit ==
    ASSUME TypeInv, ListenInv, Visit
    PROVE  ListenInv'
<1>1. PICK k \in Sockets, new \in Conn, p \in Ports :
        /\ conn' = [conn EXCEPT ![k] = new] /\ new.st = "queued"
        /\ listener[p] # None /\ new.to = listener[p]
  BY DialLemma, LifecycleAssumption DEF Visit, TypeInv
<1> QED
  BY <1>1, ListenOther DEF Visit, TypeInv, TypeOK

\* The daemon that s heard, seen from a step of a daemon.
LEMMA HeardDaemon ==
    ASSUME WaitInv, DaemonStep, NEW s \in Senders
    PROVE  HeardInv(s)'
<1> DEFINE d == sender[s].heard
           k == sender[s].sock
<1>0. /\ TypeInv /\ ListenInv /\ HeardInv(s) /\ sender' = sender
      /\ sender[s] \in Sender /\ Port(s) \in Ports /\ Port(s)' = Port(s)
  BY DaemonFollows, LifecycleAssumption DEF WaitInv, TypeInv, TypeOK, Port, Ports, Sender
<1>1. CASE d = None
  BY <1>0, <1>1 DEF HeardInv
<1>2. CASE d # None
  <2>1. d \in Instances /\ shutdown[d] /\ pc[d] \notin Unborn
    BY <1>0, <1>2 DEF HeardInv, Sender
  <2>2. shutdown'[d] /\ pc'[d] \notin Unborn
    BY <1>0, <2>1, AgingLemma
  <2>3. CASE listener'[Port(s)] # d
    BY <1>0, <1>2, <2>2, <2>3 DEF HeardInv
  <2>4. CASE listener'[Port(s)] = d
    <3>1. listener[Port(s)] = d
      BY <1>0, <1>2, <2>1, <2>4, AgingLemma DEF Unborn
    <3>2. /\ sender[s].pc = "poll" /\ (k # 0 => conn[k].to = d)
          /\ Spent(s) <= IF pc[d] = "accept" THEN 0 ELSE 1
      BY <1>0, <1>2, <3>1 DEF HeardInv
    <3>3. k # 0 => /\ k \in Sockets /\ conn[k] \in Conn /\ conn[k].owner # None
                   /\ \/ conn'[k] = conn[k]
                      \/ \E st \in Stages : conn'[k] = [conn[k] EXCEPT !.st = st]
      <4> SUFFICES ASSUME k # 0 PROVE /\ k \in Sockets /\ conn[k] \in Conn /\ conn[k].owner # None
                                      /\ \/ conn'[k] = conn[k]
                                         \/ \E st \in Stages : conn'[k] = [conn[k] EXCEPT !.st = st]
        OBVIOUS
      <4>1. k \in Sockets /\ conn[k] \in Conn /\ conn[k].owner # None
        BY <1>0, SocketLemma, LifecycleAssumption
      <4> QED
        BY <1>0, <4>1, DaemonFollows DEF Follows, TypeInv
    <3>4. k # 0 => conn'[k].to = d
      BY <3>2, <3>3 DEF Conn
    <3>5. Spent(s)' <= IF pc'[d] = "accept" THEN 0 ELSE 1
      <4>0. /\ sender[s].polls \in Nat /\ pc \in [Instances -> InstancePc]
            /\ conn \in [Sockets -> Conn \cup {NoConn}]
        BY <1>0, LifecycleAssumption DEF Sender, TypeInv, TypeOK
      <4>1. CASE Accept(d)
        <5>1. pc[d] = "accept" /\ pc'[d] = "check" /\ sender[s].polls = 0
          BY <2>1, <3>2, <4>0, <4>1 DEF Accept, Spent
        <5> QED
          BY <1>0, <5>1 DEF Spent
      <4>2. ASSUME ~Accept(d) PROVE Spent(s)' <= Spent(s)
        <5> SUFFICES ASSUME k # 0, conn'[k].st \in {"accepted", "noted", "answered"}
                     PROVE  conn[k].st \in {"accepted", "noted", "answered"}
          BY <1>0, <4>0 DEF Spent
        <5>1. CASE \E l \in Sockets : Note(l) \/ Reply(l)
          BY <3>3, <4>0, <5>1 DEF Note, Reply, Delivered, Conn
        <5>2. ASSUME NEW i \in Instances, Close(i) \/ Exit(i) \/ Die(i)
              PROVE  conn[k].st \in {"accepted", "noted", "answered"}
          <6>1. PICK states \in SUBSET Stages : conn' = Hangup(i, states)
            BY <5>2 DEF Close, Exit, Die, Stages
          <6>2. conn'[k] \in {conn[k], [conn[k] EXCEPT !.st = "reset"]}
            BY <3>3, <6>1, NoConnLemma DEF Hangup, Delivered
          <6> QED
            BY <3>3, <6>2 DEF Conn
        <5>3. ASSUME NEW i \in Instances, Accept(i)
              PROVE  conn[k].st \in {"accepted", "noted", "answered"}
          <6>1. PICK l \in Sockets :
                  /\ conn[l].st = "queued" /\ conn[l].to = i
                  /\ \/ conn' = [conn EXCEPT ![l].st = "accepted"]
                     \/ conn' = [conn EXCEPT ![l] = Delivered(@, "reset")]
            BY <5>3 DEF Accept
          <6>2. CASE l = k
            BY <3>2, <4>2, <5>3, <6>1, <6>2
          <6> QED
            BY <3>3, <4>0, <6>1, <6>2
        <5>4. ASSUME NEW i \in Instances,
                     WritePid(i) \/ Bind(i) \/ BindFail(i) \/ Check(i) \/ RemovePid(i) \/ AcceptFail(i)
              PROVE  conn[k].st \in {"accepted", "noted", "answered"}
          BY <5>4 DEF WritePid, Bind, BindFail, Check, RemovePid, AcceptFail
        <5> QED
          BY <5>1, <5>2, <5>3, <5>4 DEF DaemonStep, Main
      <4>3. pc'[d] = "accept" => pc[d] = "accept"
        BY <2>1, <4>0
           DEF DaemonStep, Main, WritePid, Bind, BindFail, Check, Accept, Close, RemovePid, Exit,
               AcceptFail, Die, Note, Reply
      <4>4. Spent(s) \in Nat /\ Spent(s)' \in Nat
        BY <1>0, <4>0 DEF Spent
      <4> QED
        BY <3>2, <4>1, <4>2, <4>3, <4>4
    <3> QED
      BY <1>0, <1>2, <2>2, <3>2, <3>4, <3>5 DEF HeardInv
  <2> QED
    BY <2>3, <2>4
<1> QED
  BY <1>1, <1>2

\* Steps that leave a sender alone.
LEMMA HeardOther ==
    ASSUME WaitInv, NEW t \in Senders, sender'[t] = sender[t], UNCHANGED <<shutdown, listener>>,
           pc' = pc \/ \E i \in Instances : pc[i] = "absent" /\ pc' = [pc EXCEPT ![i] = "start"],
           sender[t].sock # 0 => conn'[sender[t].sock] = conn[sender[t].sock]
    PROVE  HeardInv(t)'
<1>1. /\ HeardInv(t) /\ pc \in [Instances -> InstancePc] /\ Port(t)' = Port(t)
      /\ sender[t].heard \in Instances \cup {None}
  BY DEF WaitInv, TypeInv, TypeOK, Port, Sender
<1>2. sender[t].heard # None => pc'[sender[t].heard] = pc[sender[t].heard]
  BY <1>1 DEF HeardInv, Unborn
<1>3. Spent(t)' = Spent(t)
  BY DEF Spent
<1> QED
  BY <1>1, <1>2, <1>3 DEF HeardInv

LEMMA HeardSender ==
    ASSUME WaitInv, NEW s \in Senders, SenderSide(s), MinPolls > 1
    PROVE  \A t \in Senders : HeardInv(t)'
<1>0. /\ TypeInv /\ ListenInv /\ HeardInv(s) /\ TypeOK
      /\ sender \in [Senders -> Sender] /\ sender' \in [Senders -> Sender]
      /\ Port(s) \in Ports /\ KindOf(s) \in Kinds
      /\ MinPolls \in Nat
      /\ conn \in [Sockets -> Conn \cup {NoConn}]
  BY SenderTypes, LifecycleAssumption
     DEF WaitInv, TypeInv, TypeOK, SenderSide, Sender, Port, Ports, KindOf, Kinds
<1>1. ASSUME NEW t \in Senders \ {s} PROVE HeardInv(t)'
  <2>1. sender[t].sock # 0 => conn'[sender[t].sock] = conn[sender[t].sock]
    BY <1>0, <1>1, SenderMoves, SocketLemma, NoConnLemma DEF Dialled, LeftBehind
  <2> QED
    BY <1>0, <1>1, <2>1, SenderMoves, HeardOther
<1>2. HeardInv(s)'
  <2>1. CASE Connect(s)
    <3>1. PICK k \in Sockets, new \in Conn :
            /\ conn[k] = NoConn /\ conn' = [conn EXCEPT ![k] = new]
            /\ new.st = "queued" /\ new.to = listener[Port(s)]
      BY <1>0, <2>1, DialLemma DEF Connect
    <3>2. sender' = [sender EXCEPT ![s].sock = k]
      BY <1>0, <2>1, <3>1, NoConnLemma DEF Connect
    <3>3. /\ sender'[s].pc = sender[s].pc /\ sender'[s].sock = k /\ sender'[s].polls = sender[s].polls
          /\ sender'[s].heard = sender[s].heard /\ sender'[s].port = sender[s].port
          /\ conn'[k] = new /\ UNCHANGED <<pc, shutdown, listener>> /\ sender[s].sock = 0
      BY <1>0, <2>1, <3>1, <3>2 DEF Sender, Connect
    <3>4. Spent(s)' = Spent(s) /\ Port(s)' = Port(s)
      BY <3>1, <3>3 DEF Spent, Port
    <3> QED
      BY <1>0, <3>1, <3>3, <3>4 DEF HeardInv
  <2>2. CASE Begin(s) \/ Launch(s) \/ LoaderFail(s)
    <3>1. sender'[s] \in {Fresh, [Fresh EXCEPT !.pc = "up"]} \/ (sender[s].pc = "send" /\ sender'[s] = At(s, "idle"))
      BY <1>0, <2>2 DEF Begin, Launch, LoaderFail
    <3>2. sender'[s].polls = 0 /\ sender'[s].heard = None
      BY <1>0, <3>1, AtLemma DEF Fresh, HeardInv, SenderPc
    <3> QED
      BY <3>2 DEF HeardInv
  <2>3. ASSUME Asking(s), NEW i \in Instances \cup {None}, NEW next \in Continue(s, i), sender'[s] = next,
               UNCHANGED <<pc, shutdown, listener>>,
               i # None => /\ sender[s].sock # 0 /\ conn[sender[s].sock].st = "answered"
                           /\ conn[sender[s].sock].to = i
        PROVE  HeardInv(s)'
    <3>0. sender[s] \in Sender /\ sender[s].polls \in Nat
      BY <1>0 DEF Sender
    <3>1. CASE next = NextPort(s)
      BY <1>0, <2>3, <3>1, NextPortLemma DEF HeardInv
    <3>2. CASE /\ sender[s].pc \in {"probe", "up"}
               /\ next \in {At(s, "shutdown"), At(s, "up"), At(s, "idle")}
      BY <1>0, <2>3, <3>2, AtLemma DEF HeardInv, SenderPc
    <3>3. CASE sender[s].pc = "shutdown" /\ next = [At(s, "poll") EXCEPT !.heard = i]
      <4>1. /\ next.pc = "poll" /\ next.sock = 0 /\ next.polls = 0 /\ next.heard = i
        <5>1. At(s, "poll") \in Sender /\ At(s, "poll").pc = "poll" /\ At(s, "poll").sock = 0
              /\ At(s, "poll").polls = 0
          BY <1>0, <3>3, AtLemma DEF SenderPc, HeardInv
        <5> QED
          BY <3>3, <5>1 DEF Sender
      <4>2. i # None => shutdown[i] /\ pc[i] \notin Unborn
        <5> SUFFICES ASSUME i # None PROVE shutdown[i] /\ pc[i] \notin Unborn
          OBVIOUS
        <5>1. /\ sender[s].sock \in Sockets /\ conn[sender[s].sock] \in Conn
              /\ conn[sender[s].sock].kind = "shutdown"
          BY <1>0, <2>3, <3>3, SocketLemma DEF TypeInv, Waits, KindOf
        <5> QED
          BY <1>0, <2>3, <5>1, NoConnLemma DEF ListenInv
      <4>3. Spent(s)' = 0
        BY <2>3, <4>1 DEF Spent
      <4> QED
        BY <2>3, <4>1, <4>2, <4>3 DEF HeardInv
    <3>4. CASE /\ sender[s].pc = "poll" /\ i # None
               /\ next.sock = 0 /\ next.port = sender[s].port /\ next.heard = sender[s].heard
               /\ \/ next.pc = "aborted" /\ sender[s].polls + 1 >= MinPolls
                  \/ next.pc = "poll" /\ next.polls <= sender[s].polls + 1
      <4> DEFINE d == sender[s].heard
      <4>1. Port(s)' = Port(s) /\ next \in Sender
        BY <1>0, <2>3, <3>4 DEF Port
      <4>2. d # None => shutdown[d] /\ pc[d] \notin Unborn
        BY <1>0 DEF HeardInv
      <4>3. ASSUME d # None, listener[Port(s)] = d
            PROVE  next.pc = "poll" /\ Spent(s)' <= IF pc[d] = "accept" THEN 0 ELSE 1
        <5>1. Spent(s) = sender[s].polls + 1 /\ Spent(s) <= IF pc[d] = "accept" THEN 0 ELSE 1
          BY <1>0, <2>3, <3>4, <4>3 DEF HeardInv, Spent
        <5>2. sender[s].polls = 0 /\ pc[d] # "accept"
          BY <3>0, <5>1
        <5>3. Spent(s)' = next.polls /\ next.polls \in Nat
          BY <1>0, <2>3, <3>4, <4>1 DEF Spent, Sender
        <5> QED
          BY <1>0, <3>4, <5>2, <5>3
      <4> QED
        BY <2>3, <3>4, <4>1, <4>2, <4>3 DEF HeardInv
    <3> QED
      BY <1>0, <2>3, <3>1, <3>2, <3>3, <3>4, ContinueLemma
  <2>4. CASE Refused(s) \/ Late(s)
    <3>1. PICK next \in Continue(s, None) : sender' = [sender EXCEPT ![s] = next]
      BY <2>4 DEF Refused, Late
    <3>2. Asking(s) /\ UNCHANGED <<pc, shutdown, listener>>
      BY <1>0, <2>4, SocketLemma DEF Refused, Late
    <3> QED
      BY <1>0, <2>3, <3>1, <3>2
  <2>5. CASE Answered(s)
    <3> DEFINE k == sender[s].sock
               i == IF conn[k].st = "reset" THEN None ELSE conn[k].to
    <3>1. PICK next \in Continue(s, i) : sender' = [sender EXCEPT ![s] = next]
      BY <2>5 DEF Answered
    <3>2. Asking(s) /\ UNCHANGED <<pc, shutdown, listener>> /\ k # 0 /\ i \in Instances \cup {None}
      BY <1>0, <2>5, SocketLemma DEF Answered
    <3>3. sender'[s] = next
      BY <1>0, <3>1
    <3>4. i # None => conn[k].st = "answered" /\ conn[k].to = i
      BY <2>5 DEF Answered
    <3> QED
      BY <2>3, <3>1, <3>2, <3>3, <3>4
  <2> QED
    BY <2>1, <2>2, <2>4, <2>5 DEF SenderSide, SenderStep
<1> QED
  BY <1>1, <1>2

LEMMA WaitInit == Init => WaitInv
<1> SUFFICES ASSUME Init PROVE WaitInv
  OBVIOUS
<1>1. TypeInv
  BY InitTypes
<1>2. PICK running \in SUBSET Old :
        /\ pc = [i \in Instances |-> IF i \in running THEN "check" ELSE "absent"]
        /\ listener \in [Ports -> running \cup {None}]
        /\ \A p \in Ports : listener[p] # None => PortOf[listener[p]] = p
  BY DEF Init
<1>3. \A k \in Sockets : conn[k] = NoConn
  BY DEF Init
<1>4. ListenInv
  BY <1>2, <1>3, NoConnLemma DEF ListenInv, Instances
<1>5. \A s \in Senders : sender[s].polls = 0 /\ sender[s].heard = None
  BY DEF Init, Fresh
<1> QED
  BY <1>1, <1>4, <1>5 DEF WaitInv, HeardInv

LEMMA WaitNext ==
    ASSUME MinPolls > 1, WaitInv, [Next]_vars
    PROVE  WaitInv'
<1>0. TypeInv /\ ListenInv /\ TypeInv'
  BY NextTypes DEF WaitInv
<1>1. CASE UNCHANGED vars
  <2>1. \A s \in Senders : Port(s)' = Port(s) /\ Spent(s)' = Spent(s)
    BY <1>1 DEF vars, Port, Spent
  <2> QED
    BY <1>0, <1>1, <2>1 DEF vars, WaitInv, ListenInv, HeardInv
<1>2. CASE DaemonStep
  BY <1>0, <1>2, ListenDaemon, HeardDaemon DEF WaitInv
<1>3. CASE \E s \in Senders : SenderSide(s)
  BY <1>0, <1>3, ListenSender, HeardSender DEF WaitInv
<1>4. CASE Visit
  <2>1. PICK k \in Sockets, new \in Conn : conn[k] = NoConn /\ conn' = [conn EXCEPT ![k] = new]
    BY <1>0, <1>4, DialLemma DEF Visit, TypeInv
  <2>2. ASSUME NEW t \in Senders PROVE HeardInv(t)'
    <3>1. sender[t].sock # 0 => conn'[sender[t].sock] = conn[sender[t].sock]
      BY <1>0, <2>1, SocketLemma, NoConnLemma DEF TypeInv, TypeOK
    <3> QED
      BY <1>4, <3>1, HeardOther DEF Visit
  <2> QED
    BY <1>0, <1>4, <2>2, ListenVisit DEF WaitInv
<1> QED
  BY <1>1, <1>2, <1>3, <1>4, StepsLemma

\* The accept loop looks at g_shutdown once per connection, so a daemon that
\* noted it answers one more request at most; a wait with room for two polls
\* never gives up on a daemon that was heard and still listens, for any number of
\* ports, processes and senders.
THEOREM AnswerObeyed ==
    ASSUME MinPolls > 1
    PROVE  Spec => []AnsweredIsObeyed
<1>1. WaitInv => AnsweredIsObeyed
  BY DEF WaitInv, HeardInv, AnsweredIsObeyed
<1>2. WaitInv /\ [Next]_vars => WaitInv'
  BY WaitNext
<1> QED
  BY <1>1, <1>2, WaitInit, PTL DEF Spec

\* The steps main() still has to take once g_shutdown is set.
MainLeft(i) == CASE pc[i] = "absent" -> 9
                 [] pc[i] = "start"  -> 8
                 [] pc[i] = "bind"   -> 7
                 [] pc[i] = "accept" -> 6
                 [] pc[i] = "check"  -> 5
                 [] pc[i] = "close"  -> 4
                 [] pc[i] = "unlink" -> 3
                 [] pc[i] = "exit"   -> 2
                 [] OTHER            -> 0

\* g_shutdown is final: from then on main() takes at most one more connection, and is
\* through after at most six more steps from its loop, whatever its handler threads,
\* senders and visitors do; nothing resets the flag or takes it back into the loop.
\* (That a connection comes at all, if it waits in accept(), is what ShutdownEnds
\* needs the polls for.)
THEOREM ShutdownIsFinal ==
    Spec => /\ [](\A i \in Instances : MainLeft(i) \in 0 .. 9)
            /\ [][\A i \in Instances : shutdown[i] =>
                     /\ shutdown'[i]
                     /\ Main(i) => MainLeft(i)' < MainLeft(i)
                     /\ ~Main(i) => MainLeft(i)' <= MainLeft(i)]_vars
<1>1. TypeInv => \A i \in Instances : MainLeft(i) \in 0 .. 9
  BY DEF MainLeft
<1>2. ASSUME TypeInv, [Next]_vars, NEW i \in Instances, shutdown[i]
      PROVE  shutdown'[i]
  <2>1. CASE UNCHANGED vars
    BY <1>2, <2>1 DEF vars
  <2>2. CASE DaemonStep
    BY <1>2, <2>2, AgingLemma
  <2>3. CASE ~DaemonStep /\ ~UNCHANGED vars
    <3>1. UNCHANGED shutdown
      BY <1>2, <2>3, StepsLemma DEF SenderSide, SenderStep, Connect, Refused, Answered, Begin, Late,
                                    Launch, LoaderFail, Visit
    <3> QED
      BY <1>2, <3>1
  <2> QED
    BY <2>1, <2>2, <2>3
<1>3. ASSUME TypeInv, NEW i \in Instances, shutdown[i], Main(i)
      PROVE  MainLeft(i)' < MainLeft(i)
  <2>1. pc \in [Instances -> InstancePc]
    BY <1>3 DEF TypeInv, TypeOK
  <2>2. \/ pc[i] = "start" /\ pc'[i] = "bind"
        \/ pc[i] = "bind" /\ pc'[i] \in {"check", "failed", "stopped"}
        \/ pc[i] = "check" /\ pc'[i] \in {"close", "stopped"}
        \/ pc[i] = "accept" /\ pc'[i] \in {"check", "close", "stopped"}
        \/ pc[i] = "close" /\ pc'[i] = "unlink"
        \/ pc[i] = "unlink" /\ pc'[i] = "exit"
        \/ pc[i] = "exit" /\ pc'[i] = "stopped"
    BY <1>3, <2>1 DEF Main, WritePid, Bind, BindFail, Check, Accept, Close, RemovePid, Exit,
                      AcceptFail, Die
  <2> QED
    BY <2>2 DEF MainLeft
<1>4. ASSUME TypeInv, [Next]_vars, NEW i \in Instances, ~Main(i)
      PROVE  MainLeft(i)' <= MainLeft(i)
  <2>1. pc \in [Instances -> InstancePc]
    BY <1>4 DEF TypeInv, TypeOK
  <2>2. \/ pc'[i] = pc[i]
        \/ pc[i] = "absent" /\ pc'[i] = "start"
    <3>1. CASE DaemonStep
      BY <1>4, <2>1, <3>1 DEF DaemonStep, Main, WritePid, Bind, BindFail, Check, Accept, Close,
                              RemovePid, Exit, AcceptFail, Die, Note, Reply
    <3>2. CASE ~DaemonStep
      BY <1>4, <2>1, <3>2, StepsLemma DEF vars, SenderSide, SenderStep, Connect, Refused, Answered,
                                          Begin, Late, Launch, LoaderFail, Visit
    <3> QED
      BY <3>1, <3>2
  <2> QED
    BY <2>2 DEF MainLeft
<1>5. TypeInv /\ [Next]_vars
      => [\A i \in Instances : shutdown[i] =>
             /\ shutdown'[i]
             /\ Main(i) => MainLeft(i)' < MainLeft(i)
             /\ ~Main(i) => MainLeft(i)' <= MainLeft(i)]_vars
  BY <1>2, <1>3, <1>4
<1> QED
  BY <1>1, <1>5, TypeInvariance, PTL DEF Spec

----------------------------------------------------------------------------
(***************************************************************************)
(* What one sender knows while no answer is late.                          *)
(***************************************************************************)
Silent(p) == listener[p] = None

\* A process that was launched is the only one to come, and nobody listens yet.
LaunchInv(s) ==
    \A i \in Starting :
        /\ Starting = {i} /\ \A p \in Ports : Silent(p)
        /\ sender[s].pc = "up" /\ sender[s].sock = 0

\* The ports behind the sender are silent; on its own nobody but the daemon it
\* talks to can be listening.
SweepInv(s) ==
    /\ sender[s].pc \in {"probe", "shutdown", "poll"} =>
          /\ \A m \in 1 .. (sender[s].port - 1) : Silent(Checked[m])
          /\ sender[s].sock # 0 => listener[Port(s)] \in {None, conn[sender[s].sock].to}
    /\ sender[s].pc = "send" => \A p \in Ports : Silent(p)

\* A connection is reset only by a daemon that listens no longer.
ResetInv == \A k \in Sockets : conn[k].st = "reset" => \A p \in Ports : listener[p] # conn[k].to

QuietInv ==
    /\ budget["missed"] <= MaxMissed
    /\ NothingMissed => ResetInv /\ \A s \in Senders : LaunchInv(s) /\ SweepInv(s)


Watched == TypeInv /\ ListenInv /\ QuietInv

\* Daemons do not start processes, and the only one to open a socket is one that
\* was launched.
LEMMA QuietDaemonFacts ==
    ASSUME Watched, DaemonStep, NothingMissed'
    PROVE  /\ NothingMissed /\ budget'["missed"] <= MaxMissed
           /\ Starting' \subseteq Starting
           /\ \A p \in Ports : listener'[p] \in {listener[p], None} \/ listener'[p] \in Starting
           /\ ListenInv' /\ listener' \in [Ports -> Instances \cup {None}]
<1>0. TypeInv /\ ListenInv /\ TypeOK
  BY DEF Watched, TypeInv
<1>1. budget' = budget \/ Spend("missed") \/ Spend("faults")
  BY DEF DaemonStep, Main, WritePid, Bind, BindFail, Check, Accept, Close, RemovePid, Exit,
         AcceptFail, Die, Note, Reply
<1>2. MaxMissed \in Nat /\ budget["missed"] \in Nat /\ budget["missed"] <= MaxMissed
  BY <1>0, LifecycleAssumption DEF TypeOK, Watched, QuietInv
<1>3. NothingMissed /\ budget'["missed"] <= MaxMissed
  BY <1>0, <1>1, <1>2, SpendLemma DEF NothingMissed
<1>4. Starting' \subseteq Starting
  BY <1>0
     DEF DaemonStep, Main, WritePid, Bind, BindFail, Check, Accept, Close, RemovePid, Exit,
         AcceptFail, Die, Note, Reply, Starting, TypeOK
<1>5. \A p \in Ports : listener'[p] \in {listener[p], None} \/ listener'[p] \in Starting
  BY <1>0, AgingLemma DEF Starting
<1>6. ListenInv' /\ TypeInv'
  BY <1>0, ListenDaemon, DaemonTypes
<1> QED
  BY <1>3, <1>4, <1>5, <1>6 DEF TypeInv, TypeOK

\* Who resets a connection is not listening afterwards.
LEMMA ResetLemma ==
    ASSUME Watched, DaemonStep, NothingMissed', NEW i \in Instances, Main(i), NEW k \in Sockets,
           conn'[k].st = "reset", conn[k].st # "reset"
    PROVE  /\ conn[k] \in Conn /\ conn[k].to = i /\ conn'[k].to = i
           /\ \A p \in Ports : listener'[p] # i
<1>0. /\ TypeInv /\ ListenInv /\ TypeOK /\ conn \in [Sockets -> Conn \cup {NoConn}]
      /\ NoConn.st = "none" /\ MaxMissed \in Nat
      /\ listener \in [Ports -> Instances \cup {None}] /\ None \notin Instances
  BY NoConnLemma, LifecycleAssumption DEF Watched, TypeInv, TypeOK
<1>1. Close(i) \/ Exit(i) \/ Die(i)
  <2>1. CASE WritePid(i) \/ Bind(i) \/ BindFail(i) \/ Check(i) \/ RemovePid(i) \/ AcceptFail(i)
    BY <2>1 DEF WritePid, Bind, BindFail, Check, RemovePid, AcceptFail
  <2>2. CASE Accept(i)
    <3>1. ~Spend("missed")
      <4>1. budget["missed"] \in Nat /\ budget["missed"] <= MaxMissed
        BY <1>0 DEF TypeOK, Watched, QuietInv
      <4> QED
        BY <1>0, <4>1, SpendLemma DEF NothingMissed
    <3>2. PICK l \in Sockets : conn[l].st = "queued" /\ conn' = [conn EXCEPT ![l].st = "accepted"]
      BY <2>2, <3>1 DEF Accept
    <3> QED
      BY <1>0, <3>2 DEF Conn
  <2> QED
    BY <2>1, <2>2 DEF Main
<1>2. PICK states \in SUBSET Stages : conn' = Hangup(i, states)
  BY <1>1 DEF Close, Exit, Die, Stages
<1>3. /\ conn[k].to = i /\ conn[k].st \in states
      /\ conn'[k] \in {NoConn, [conn[k] EXCEPT !.st = "reset"]}
  BY <1>0, <1>2, HangupLemma
<1>4. conn[k] \in Conn /\ conn'[k].to = i
  BY <1>0, <1>3 DEF Conn, Stages
<1>5. ASSUME NEW p \in Ports PROVE listener'[p] # i
  <2>1. listener[p] = i => PortOf[i] = p /\ pc[i] # "exit"
    BY <1>0 DEF ListenInv
  <2> QED
    BY <1>0, <1>1, <2>1 DEF Close, Exit, Die
<1> QED
  BY <1>3, <1>4, <1>5

LEMMA QuietDaemon ==
    ASSUME Watched, DaemonStep
    PROVE  QuietInv'
<1>0. TypeInv /\ ListenInv /\ TypeOK /\ UNCHANGED sender /\ budget'["missed"] <= MaxMissed
  <2>1. budget' = budget \/ Spend("missed") \/ Spend("faults")
    BY DEF DaemonStep, Main, WritePid, Bind, BindFail, Check, Accept, Close, RemovePid, Exit,
           AcceptFail, Die, Note, Reply
  <2>2. MaxMissed \in Nat /\ budget["missed"] \in Nat /\ budget["missed"] <= MaxMissed
    BY LifecycleAssumption DEF TypeInv, TypeOK, Watched, QuietInv
  <2> QED
    BY <2>1, <2>2, SpendLemma, DaemonFollows DEF Watched, TypeInv
<1> SUFFICES ASSUME NothingMissed'
             PROVE  ResetInv' /\ \A s \in Senders : LaunchInv(s)' /\ SweepInv(s)'
  BY <1>0 DEF QuietInv
<1>1. /\ NothingMissed /\ Starting' \subseteq Starting
      /\ \A p \in Ports : listener'[p] \in {listener[p], None} \/ listener'[p] \in Starting
      /\ ListenInv' /\ ResetInv /\ \A s \in Senders : LaunchInv(s) /\ SweepInv(s)
  BY QuietDaemonFacts DEF Watched, QuietInv
<1>2. ASSUME NEW s \in Senders PROVE LaunchInv(s)'
  <2> SUFFICES ASSUME NEW i \in Starting'
               PROVE  /\ Starting' = {i} /\ \A p \in Ports : Silent(p)'
                      /\ sender[s].pc = "up" /\ sender[s].sock = 0
    BY <1>0 DEF LaunchInv
  <2>1. /\ Starting = {i} /\ \A p \in Ports : Silent(p)
        /\ sender[s].pc = "up" /\ sender[s].sock = 0
    BY <1>1 DEF LaunchInv
  <2>2. Starting' = {i} /\ pc'[i] \in Unborn
    BY <1>1, <2>1 DEF Starting, Unborn
  <2>3. ASSUME NEW p \in Ports PROVE Silent(p)'
    BY <1>1, <2>1, <2>2 DEF Silent, ListenInv, Unborn
  <2> QED
    BY <2>1, <2>2, <2>3
<1>3. ASSUME NEW s \in Senders PROVE SweepInv(s)'
  <2>0. DOMAIN Checked = 1 .. Len(Checked) /\ sender[s] \in Sender /\ sender[s].port \in 1 .. Len(Checked)
        /\ Len(Checked) \in Nat
    BY <1>0, LifecycleAssumption DEF TypeOK, Sender
  <2>1. CASE sender[s].pc = "up"
    BY <1>0, <2>1 DEF SweepInv
  <2>2. CASE sender[s].pc # "up"
    <3>1. \A p \in Ports : listener'[p] \in {listener[p], None}
      BY <1>1, <2>2 DEF LaunchInv
    <3>2. /\ \A m \in 1 .. (sender[s].port - 1) : Checked[m] \in Ports
          /\ Port(s) \in Ports /\ Port(s)' = Port(s)
      BY <1>0, <2>0 DEF Ports, Port
    <3>3. sender[s].sock # 0 => conn'[sender[s].sock].to = conn[sender[s].sock].to
      <4> SUFFICES ASSUME sender[s].sock # 0 PROVE conn'[sender[s].sock].to = conn[sender[s].sock].to
        OBVIOUS
      <4>1. /\ sender[s].sock \in Sockets /\ conn[sender[s].sock] \in Conn
            /\ conn[sender[s].sock].owner # None
        BY <1>0, SocketLemma, LifecycleAssumption
      <4> QED
        BY <1>0, <4>1, DaemonFollows DEF Follows, Conn
    <3> QED
      BY <1>0, <1>1, <3>1, <3>2, <3>3 DEF SweepInv, Silent
  <2> QED
    BY <2>1, <2>2
<1>4. ResetInv'
  <2> SUFFICES ASSUME NEW k \in Sockets, conn'[k].st = "reset", NEW p \in Ports
               PROVE  listener'[p] # conn'[k].to
    BY DEF ResetInv
  <2>1. Follows(k) /\ conn[k] \in Conn \cup {NoConn} /\ NoConn.st = "none"
    BY <1>0, DaemonFollows, NoConnLemma DEF TypeOK
  <2>2. conn[k] \in Conn /\ conn'[k].to = conn[k].to /\ conn[k].to \in Instances
        /\ conn[k] # NoConn
    BY <2>1, NoConnLemma DEF Follows, Conn
  <2>3. CASE conn[k].st = "reset"
    <3>1. listener[p] # conn[k].to /\ conn[k].to \notin Starting /\ conn[k].to # None
      BY <1>0, <1>1, <2>2, <2>3, LifecycleAssumption DEF ResetInv, ListenInv, Starting, Unborn
    <3> QED
      BY <1>1, <2>2, <3>1
  <2>4. CASE conn[k].st # "reset"
    <3>1. CASE \E i \in Instances : Main(i)
      BY <2>4, <3>1, ResetLemma
    <3>2. CASE \E l \in Sockets : Note(l) \/ Reply(l)
      BY <1>0, <2>1, <2>2, <2>4, <3>2 DEF Note, Reply, Delivered, Conn, TypeOK
    <3> QED
      BY <3>1, <3>2 DEF DaemonStep
  <2> QED
    BY <2>3, <2>4
<1> QED
  BY <1>2, <1>3, <1>4

\* When the port of s is silent, s goes on to the next one.
LEMMA SweepOn ==
    ASSUME TypeOK, NEW s \in Senders, SweepInv(s), sender[s].pc \in {"probe", "poll"},
           Silent(Port(s)), sender'[s] = NextPort(s), UNCHANGED listener
    PROVE  SweepInv(s)'
<1>0. DOMAIN Checked = 1 .. Len(Checked) /\ sender[s].port \in 1 .. Len(Checked) /\ Len(Checked) \in Nat
  BY LifecycleAssumption DEF TypeOK, Sender
<1>1. \A m \in 1 .. sender[s].port : Silent(Checked[m])
  BY <1>0 DEF SweepInv, Port
<1>2. CASE sender[s].port < Len(Checked) /\ NextPort(s).pc = "probe" /\ NextPort(s).port = sender[s].port + 1
  BY <1>0, <1>1, <1>2, NextPortLemma DEF SweepInv, Silent
<1>3. CASE sender[s].port = Len(Checked) /\ NextPort(s).pc = "send"
  BY <1>0, <1>1, <1>3 DEF SweepInv, Silent, Ports
<1> QED
  BY <1>2, <1>3, NextPortLemma

LEMMA QuietSender ==
    ASSUME Watched, NEW s \in Senders, \A t \in Senders : t = s, SenderSide(s)
    PROVE  QuietInv'
<1>0. /\ TypeInv /\ ListenInv /\ TypeOK /\ MaxMissed \in Nat
      /\ sender \in [Senders -> Sender] /\ sender[s] \in Sender
      /\ Port(s) \in Ports /\ KindOf(s) \in Kinds
      /\ conn \in [Sockets -> Conn \cup {NoConn}] /\ NoConn.st = "none"
      /\ budget["missed"] \in Nat /\ budget["missed"] <= MaxMissed
  BY LifecycleAssumption, NoConnLemma
     DEF Watched, QuietInv, TypeInv, TypeOK, Sender, Port, Ports, KindOf, Kinds
<1>1. budget'["missed"] <= MaxMissed /\ (NothingMissed' => NothingMissed /\ ~Late(s))
  <2>1. budget' = budget \/ Spend("sends") \/ Spend("faults") \/ Spend("missed")
    BY DEF SenderSide, SenderStep, Connect, Refused, Answered, Begin, Late, Launch, LoaderFail
  <2>2. Late(s) => Spend("missed")
    BY DEF Late
  <2> QED
    BY <1>0, <2>1, <2>2, SpendLemma DEF NothingMissed
<1> SUFFICES ASSUME NothingMissed' PROVE ResetInv' /\ LaunchInv(s)' /\ SweepInv(s)'
  BY <1>1 DEF QuietInv
<1>2. ~Late(s) /\ ResetInv /\ LaunchInv(s) /\ SweepInv(s) /\ UNCHANGED listener
  BY <1>0, <1>1, SenderMoves DEF Watched, QuietInv
<1>3. ResetInv'
  BY <1>0, <1>2, SenderMoves, NoConnLemma DEF ResetInv, Dialled, LeftBehind, Conn
<1>4. CASE Connect(s)
  <2>1. PICK k \in Sockets, new \in Conn :
          /\ conn[k] = NoConn /\ conn' = [conn EXCEPT ![k] = new]
          /\ new.to = listener[Port(s)] /\ listener[Port(s)] # None
    BY <1>0, <1>4, DialLemma, LifecycleAssumption DEF Connect
  <2>2. sender' = [sender EXCEPT ![s].sock = k]
    BY <1>0, <1>4, <2>1, NoConnLemma DEF Connect
  <2>3. /\ sender'[s].pc = sender[s].pc /\ sender'[s].sock = k
        /\ sender'[s].port = sender[s].port /\ conn'[k] = new
    BY <1>0, <2>1, <2>2 DEF Sender
  <2>4. Starting' = Starting /\ Starting = {} /\ Port(s)' = Port(s)
    BY <1>0, <1>2, <1>4, <2>1, <2>3 DEF Connect, Starting, LaunchInv, Silent, Port
  <2> QED
    BY <1>2, <1>3, <2>1, <2>3, <2>4 DEF LaunchInv, SweepInv, Silent
<1>5. CASE Launch(s)
  <2>1. /\ sender[s].pc = "send" /\ sender'[s].pc = "up" /\ sender'[s].sock = 0
        /\ \A p \in Ports : Silent(p)
    BY <1>0, <1>2, <1>5 DEF Launch, Fresh, SweepInv
  <2>2. PICK i \in Instances : pc[i] = "absent" /\ pc' = [pc EXCEPT ![i] = "start"]
    BY <1>5 DEF Launch, Instances
  <2>3. Starting = {}
    BY <1>2, <2>1 DEF LaunchInv
  <2>4. Starting' = {i}
    BY <1>0, <2>2, <2>3 DEF Starting, TypeOK
  <2> QED
    BY <1>2, <1>3, <2>1, <2>4 DEF LaunchInv, SweepInv, Silent
<1>6. CASE Begin(s) \/ LoaderFail(s)
  <2>1. Starting = {} /\ Starting' = Starting
    BY <1>2, <1>6 DEF Begin, LoaderFail, LaunchInv, Starting
  <2>2. sender'[s] = Fresh \/ sender'[s] = At(s, "idle")
    BY <1>0, <1>6 DEF Begin, LoaderFail
  <2>3. /\ sender'[s].sock = 0
        /\ \/ sender'[s].pc = "probe" /\ sender'[s].port = 1
           \/ sender'[s].pc = "idle"
    BY <1>0, <2>2, AtLemma DEF Fresh, SenderPc
  <2> QED
    BY <1>3, <2>1, <2>3 DEF LaunchInv, SweepInv
<1>7. ASSUME Asking(s), NEW i \in Instances \cup {None}, NEW next \in Continue(s, i), sender'[s] = next,
             UNCHANGED <<pc, listener>>, i = None => Silent(Port(s)),
             Starting = {} \/ i = None
      PROVE  LaunchInv(s)' /\ SweepInv(s)'
  <2>1. Starting' = Starting /\ next.sock = 0
    BY <1>0, <1>7, ContinueLemma DEF Starting
  <2>2. CASE sender[s].pc \in {"probe", "poll"} /\ i = None /\ next = NextPort(s)
    BY <1>0, <1>2, <1>7, <2>1, <2>2, SweepOn DEF LaunchInv
  <2>3. CASE \/ sender[s].pc = "probe" /\ next = At(s, "shutdown")
             \/ sender[s].pc = "shutdown" /\ next = [At(s, "poll") EXCEPT !.heard = i]
             \/ /\ sender[s].pc = "poll" /\ next.port = sender[s].port
                /\ next.pc \in {"aborted", "poll"}
    <3>1. next.port = sender[s].port /\ next.pc \in {"shutdown", "poll", "aborted"}
      BY <1>0, <2>3, AtLemma DEF SenderPc, Sender
    <3> QED
      BY <1>2, <1>7, <2>1, <2>3, <3>1 DEF LaunchInv, SweepInv, Silent
  <2>4. CASE /\ sender[s].pc = "up" /\ next \in {At(s, "up"), At(s, "idle")}
             /\ next = At(s, "idle") /\ i = None => Starting = {}
    BY <1>0, <1>2, <1>7, <2>1, <2>4, AtLemma DEF LaunchInv, SweepInv, Silent, SenderPc
  <2> QED
    BY <1>0, <1>7, <2>2, <2>3, <2>4, ContinueLemma
<1>8. CASE Refused(s)
  <2>1. PICK next \in Continue(s, None) : sender' = [sender EXCEPT ![s] = next]
    BY <1>8 DEF Refused
  <2> QED
    BY <1>0, <1>3, <1>7, <1>8, <2>1 DEF Refused, Silent
<1>9. CASE Answered(s)
  <2> DEFINE k == sender[s].sock
             i == IF conn[k].st = "reset" THEN None ELSE conn[k].to
  <2>1. PICK next \in Continue(s, i) : sender' = [sender EXCEPT ![s] = next]
    BY <1>9 DEF Answered
  <2>2. /\ k # 0 /\ k \in Sockets /\ Asking(s) /\ i \in Instances \cup {None}
        /\ conn[k].to \in Instances /\ None \notin Instances
    BY <1>0, <1>9, SocketLemma, LifecycleAssumption DEF Answered
  <2>3. Starting = {}
    BY <1>2, <2>2 DEF LaunchInv
  <2>4. CASE sender[s].pc = "up" /\ i = None
    <3>1. next \in {At(s, "up"), At(s, "idle")} /\ Starting' = {}
      BY <1>0, <1>9, <2>1, <2>2, <2>3, <2>4, ContinueLemma DEF Answered, Starting
    <3> QED
      BY <1>0, <1>3, <2>1, <3>1, AtLemma DEF LaunchInv, SweepInv, SenderPc
  <2>5. CASE ~(sender[s].pc = "up" /\ i = None)
    <3>1. i = None => Silent(Port(s))
      <4> SUFFICES ASSUME i = None PROVE Silent(Port(s))
        OBVIOUS
      <4>1. conn[k].st = "reset" /\ listener[Port(s)] # conn[k].to
        BY <1>0, <1>2, <2>2 DEF ResetInv
      <4> QED
        BY <1>2, <2>2, <2>5, <4>1 DEF Asking, SweepInv, Silent
    <3> HIDE DEF i
    <3> QED
      BY <1>0, <1>3, <1>7, <1>9, <2>1, <2>2, <2>3, <3>1 DEF Answered
  <2> QED
    BY <2>4, <2>5
<1> QED
  BY <1>2, <1>3, <1>4, <1>5, <1>6, <1>8, <1>9 DEF SenderSide, SenderStep

LEMMA QuietVisit ==
    ASSUME Watched, Visit
    PROVE  QuietInv'
<1>0. TypeInv /\ TypeOK
  BY DEF Watched, TypeInv
<1>1. PICK k \in Sockets, new \in Conn :
        conn[k] = NoConn /\ conn' = [conn EXCEPT ![k] = new] /\ new.st = "queued"
  BY <1>0, DialLemma DEF Visit
<1>2. UNCHANGED <<pc, listener, sender>> /\ budget'["missed"] = budget["missed"]
  BY <1>0, SpendLemma DEF Visit
<1>3. \A t \in Senders : sender[t].sock # 0 => conn'[sender[t].sock] = conn[sender[t].sock]
  BY <1>0, <1>1, SocketLemma, NoConnLemma DEF TypeOK
<1>4. ResetInv => ResetInv'
  BY <1>0, <1>1, <1>2 DEF ResetInv, TypeOK
<1>5. ASSUME NEW t \in Senders, LaunchInv(t) /\ SweepInv(t) PROVE LaunchInv(t)' /\ SweepInv(t)'
  <2>1. Starting' = Starting /\ Port(t)' = Port(t)
    BY <1>2 DEF Starting, Port
  <2> QED
    BY <1>2, <1>3, <1>5, <2>1 DEF LaunchInv, SweepInv, Silent
<1> QED
  BY <1>2, <1>4, <1>5 DEF Watched, QuietInv, NothingMissed

LEMMA WatchedInit == Init => Watched
<1> SUFFICES ASSUME Init PROVE Watched
  OBVIOUS
<1>1. TypeInv /\ ListenInv
  BY WaitInit DEF WaitInv
<1>2. /\ \A i \in Instances : pc[i] \notin {"start", "bind"}
      /\ \A k \in Sockets : conn[k].st = "none"
      /\ \A s \in Senders : sender[s].pc = "idle"
      /\ budget["missed"] = MaxMissed /\ MaxMissed \in Nat
  BY NoConnLemma, LifecycleAssumption DEF Init, Fresh
<1> QED
  BY <1>1, <1>2 DEF Watched, QuietInv, ResetInv, LaunchInv, SweepInv, Starting

OneSender == \A s, t \in Senders : s = t

LEMMA WatchedNext ==
    ASSUME OneSender, Watched, [Next]_vars
    PROVE  Watched'
<1>0. TypeInv /\ ListenInv /\ TypeInv'
  BY NextTypes DEF Watched
<1>1. CASE UNCHANGED vars
  <2>1. Starting' = Starting /\ \A s \in Senders : Port(s)' = Port(s)
    BY <1>1 DEF vars, Starting, Port
  <2> QED
    BY <1>0, <1>1, <2>1
       DEF vars, Watched, ListenInv, QuietInv, NothingMissed, ResetInv, LaunchInv, SweepInv, Silent
<1>2. CASE DaemonStep
  BY <1>0, <1>2, ListenDaemon, QuietDaemon DEF Watched
<1>3. CASE \E s \in Senders : SenderSide(s)
  BY <1>0, <1>3, ListenSender, QuietSender DEF Watched, OneSender
<1>4. CASE Visit
  BY <1>0, <1>4, ListenVisit, QuietVisit DEF Watched
<1> QED
  BY <1>1, <1>2, <1>3, <1>4, StepsLemma

\* A process that comes to life is one the sender launched, after it found every
\* known port silent: for any ports, processes and other clients, as long as one
\* sender is at work and no answer is late.
THEOREM SentOnQuiet ==
    ASSUME OneSender
    PROVE  Spec => SendsOnQuiet
<1>1. ASSUME Watched, [Next]_vars
      PROVE  [\A i \in Instances :
                 pc[i] = "absent" /\ pc'[i] = "start" /\ NothingMissed
                   => \A p \in Ports : listener[p] = None]_vars
  <2> SUFFICES ASSUME NEW i \in Instances, pc[i] = "absent", pc'[i] = "start", NothingMissed
               PROVE  \A p \in Ports : listener[p] = None
    OBVIOUS
  <2>1. ~DaemonStep
    BY <1>1 DEF DaemonStep, Main, WritePid, Bind, BindFail, Check, Accept, Close, RemovePid, Exit,
           AcceptFail, Die, Note, Reply, Watched, TypeInv, TypeOK
  <2>2. PICK s \in Senders : SenderSide(s)
    BY <1>1, <2>1, StepsLemma DEF vars, Visit
  <2>3. Launch(s)
    BY <2>2 DEF SenderSide, SenderStep, Connect, Refused, Answered, Begin, Late, LoaderFail
  <2> QED
    BY <1>1, <2>3 DEF Launch, Watched, QuietInv, SweepInv, Silent
<1>2. Watched /\ [Next]_vars => Watched'
  BY WatchedNext
<1> QED
  BY <1>1, <1>2, WatchedInit, PTL DEF Spec, SendsOnQuiet
==============================================================================
