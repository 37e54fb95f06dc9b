-------------------------- MODULE LinkResolverProofs --------------------------
(***************************************************************************)
(* Theorems about one call of resolve_text, for any links, any answers of  *)
(* the servers, any text and any limits.                                   *)
(***************************************************************************)
EXTENDS LinkResolver, TLAPS

----------------------------------------------------------------------------
(***************************************************************************)
(* What a sequence holds                                                   *)
(***************************************************************************)
Elems(s) == {s[i] : i \in DOMAIN s}

LEMMA ElemsTail ==
    ASSUME NEW S, NEW s \in Seq(S), s # <<>>
    PROVE  /\ Head(s) \in S /\ Tail(s) \in Seq(S)
           /\ Elems(s) = {Head(s)} \cup Elems(Tail(s))
<1>1. Head(s) \in S /\ Tail(s) \in Seq(S) /\ Len(s) > 0
  OBVIOUS
<1>2. Elems(s) \subseteq {Head(s)} \cup Elems(Tail(s))
  <2> SUFFICES ASSUME NEW i \in 1 .. Len(s), i # 1 PROVE s[i] \in Elems(Tail(s))
    BY DEF Elems
  <2>1. i - 1 \in DOMAIN Tail(s) /\ Tail(s)[i - 1] = s[i]
    BY <1>1
  <2> QED
    BY <1>1, <2>1 DEF Elems
<1>3. {Head(s)} \cup Elems(Tail(s)) \subseteq Elems(s)
  <2>1. ASSUME NEW i \in 1 .. Len(Tail(s)) PROVE Tail(s)[i] \in Elems(s)
    <3>1. i + 1 \in 1 .. Len(s) /\ Tail(s)[i] = s[i + 1]
      BY <1>1
    <3> QED
      BY <3>1 DEF Elems
  <2>2. Head(s) = s[1] /\ 1 \in 1 .. Len(s)
    BY <1>1
  <2> QED
    BY <1>1, <2>1, <2>2 DEF Elems
<1> QED
  BY <1>1, <1>2, <1>3

LEMMA ElemsConcat ==
    ASSUME NEW S, NEW s \in Seq(S), NEW t \in Seq(S)
    PROVE  s \o t \in Seq(S) /\ Elems(s \o t) = Elems(s) \cup Elems(t)
<1>1. s \o t \in Seq(S) /\ Len(s \o t) = Len(s) + Len(t)
  OBVIOUS
<1>2. Elems(s \o t) \subseteq Elems(s) \cup Elems(t)
  <2> SUFFICES ASSUME NEW i \in 1 .. Len(s) + Len(t)
               PROVE  (s \o t)[i] \in Elems(s) \cup Elems(t)
    BY <1>1 DEF Elems
  <2>1. CASE i <= Len(s)
    BY <2>1 DEF Elems
  <2>2. CASE i > Len(s)
    <3>1. i - Len(s) \in 1 .. Len(t) /\ (s \o t)[i] = t[i - Len(s)]
      BY <2>2
    <3> QED
      BY <3>1 DEF Elems
  <2> QED
    BY <2>1, <2>2
<1>3. Elems(s) \subseteq Elems(s \o t)
  <2> SUFFICES ASSUME NEW i \in 1 .. Len(s) PROVE s[i] \in Elems(s \o t)
    BY DEF Elems
  <2>1. i \in 1 .. Len(s \o t) /\ (s \o t)[i] = s[i]
    BY <1>1
  <2> QED
    BY <1>1, <2>1 DEF Elems
<1>4. Elems(t) \subseteq Elems(s \o t)
  <2> SUFFICES ASSUME NEW i \in 1 .. Len(t) PROVE t[i] \in Elems(s \o t)
    BY DEF Elems
  <2>1. i + Len(s) \in 1 .. Len(s \o t) /\ (s \o t)[i + Len(s)] = t[i]
    BY <1>1
  <2> QED
    BY <1>1, <2>1 DEF Elems
<1> QED
  BY <1>1, <1>2, <1>3, <1>4

LEMMA ElemsAppend ==
    ASSUME NEW S, NEW s \in Seq(S), NEW e \in S
    PROVE  /\ Append(s, e) \in Seq(S) /\ Len(Append(s, e)) = Len(s) + 1
           /\ Elems(Append(s, e)) = Elems(s) \cup {e}
<1>1. Append(s, e) \in Seq(S) /\ Len(Append(s, e)) = Len(s) + 1
  OBVIOUS
<1>2. Append(s, e)[Len(s) + 1] = e /\ \A i \in 1 .. Len(s) : Append(s, e)[i] = s[i]
  OBVIOUS
<1>3. Elems(Append(s, e)) \subseteq Elems(s) \cup {e}
  BY <1>1, <1>2 DEF Elems
<1>4. Elems(s) \subseteq Elems(Append(s, e))
  <2> SUFFICES ASSUME NEW i \in 1 .. Len(s) PROVE s[i] \in Elems(Append(s, e))
    BY DEF Elems
  <2>1. i \in 1 .. Len(Append(s, e))
    BY <1>1
  <2> QED
    BY <1>1, <1>2, <2>1 DEF Elems
<1>5. e \in Elems(Append(s, e))
  <2>1. Len(s) + 1 \in 1 .. Len(Append(s, e))
    BY <1>1
  <2> QED
    BY <1>1, <1>2, <2>1 DEF Elems
<1> QED
  BY <1>1, <1>3, <1>4, <1>5

----------------------------------------------------------------------------
(***************************************************************************)
(* What plugins return                                                     *)
(***************************************************************************)
\* A result for u; one of the page plugin is no redirect, so that it is not taken
\* for a page's child, and redirects and packages lead somewhere.
Sensible(r, u) ==
    /\ r \in Result /\ r.url = u
    /\ r.plugin # "resolver"
    /\ ~(r.type = "redirect" /\ r.plugin = "html")
    /\ GoesOn(r) => r.to # <<>>

LEMMA PlainSensible ==
    ASSUME NEW u \in Links, NEW p \in Plugins \cup {"registry"},
           NEW type \in {"unsupported", "manual-action-required", "error"}
    PROVE  Sensible(Plain(type, u, p), u)
<1> QED
  BY DEF Sensible, GoesOn, Plain, Result, Types, Plugins, Hosters

LEMMA ToSensible ==
    ASSUME NEW u \in Links, NEW l \in Links, NEW p \in Plugins,
           NEW type \in {"direct-file", "redirect"}, type = "redirect" => p = "redirect"
    PROVE  Sensible(To(type, u, p, l), u)
<1>1. <<l>> \in Seq(Links) /\ <<l>> # <<>>
  OBVIOUS
<1> QED
  BY <1>1 DEF Sensible, GoesOn, To, Result, Types, Plugins, Hosters

LEMMA PackageSensible ==
    ASSUME NEW u \in Links, NEW c \in Children(u)
    PROVE  Sensible(Package(u, c), u)
<1> DEFINE files == ({Norm[l] : l \in Links} \cap Downloads) \ {u}
<1>1. PICK n \in 1 .. MaxChildren : c \in [1 .. n -> files]
  BY DEF Children
<1>2. c \in Seq(Links) /\ c # <<>>
  <2>1. n \in Nat \ {0} /\ files \subseteq Links
    BY <1>1, LinksAssumption, LimitsAssumption
  <2>2. c \in [1 .. n -> Links] /\ 1 \in DOMAIN c
    BY <1>1, <2>1
  <2> QED
    BY <2>1, <2>2
<1> QED
  BY <1>2 DEF Sensible, GoesOn, Package, Result, Types, Plugins, Hosters

LEMMA RedirectSensible ==
    ASSUME NEW u \in Links, NEW r \in Redirect(u)
    PROVE  Sensible(r, u)
<1>1. PICK reply \in Replies : r = RedirectFor(u, reply)
  BY DEF Redirect
<1>2. "redirect" \in Plugins
  BY DEF Plugins
<1>3. CASE ~reply.ok
  BY <1>1, <1>2, <1>3, PlainSensible DEF RedirectFor
<1>4. CASE reply.ok
  <2>1. reply.final \in Links
    BY <1>4 DEF Replies
  <2>2. r \in {To("redirect", u, "redirect", reply.final), Plain("unsupported", u, "redirect")}
    BY <1>1, <1>4 DEF RedirectFor
  <2> QED
    BY <2>1, <2>2, <1>2, PlainSensible, ToSensible
<1> QED
  BY <1>3, <1>4

LEMMA DirectSensible ==
    ASSUME NEW u \in Links, NEW r \in Direct(u)
    PROVE  Sensible(r, u)
<1>1. PICK reply \in Replies : r = DirectFor(u, reply)
  BY DEF Direct
<1>2. "direct" \in Plugins
  BY DEF Plugins
<1> DEFINE file == IF reply.ok THEN reply.final ELSE u
<1>3. file \in Links
  BY DEF Replies
<1>4. r \in {To("direct-file", u, "direct", file), Plain("unsupported", u, "direct")}
  BY <1>1 DEF DirectFor
<1> QED
  BY <1>2, <1>3, <1>4, PlainSensible, ToSensible

LEMMA AnswersSensible ==
    ASSUME NEW p \in Plugins, NEW u \in Links, NEW r \in Answers(p, u)
    PROVE  Sensible(r, u)
<1>1. \A q \in Plugins : \A x \in Unresolved(u, q) : Sensible(x, u)
  BY PlainSensible DEF Unresolved
<1>2. \A q \in Plugins : \A x \in DirectTo(u, q) : Sensible(x, u)
  BY ToSensible DEF DirectTo
<1>3. CASE p \in {"mediafire", "buzzheavier", "akirabox", "1fichier"}
  BY <1>1, <1>2, <1>3 DEF Answers, MediaFire, BuzzHeavier, AkiraBox, OneFichier
<1>4. CASE p = "rootz"
  BY <1>2, <1>4, PlainSensible DEF Answers, Rootz
<1>5. CASE p = "github"
  BY <1>5, ToSensible DEF Answers, GitHub
<1>6. CASE p = "redirect"
  BY <1>6, RedirectSensible DEF Answers
<1>7. CASE p = "direct"
  BY <1>7, DirectSensible DEF Answers
<1>8. CASE p = "html"
  BY <1>1, <1>8, PlainSensible, PackageSensible DEF Answers, Html
<1> QED
  BY <1>3, <1>4, <1>5, <1>6, <1>7, <1>8 DEF Plugins, Hosters

----------------------------------------------------------------------------
(***************************************************************************)
(* Types and the limit                                                     *)
(***************************************************************************)
Pastable == {t \in Task : t.page = NoLink}

Shapes ==
    /\ phase \in {"scan", "expand", "done", "raised"}
    /\ text \in Seq(Links)
    /\ found \in [preferred : Seq(Pastable), rest : Seq(Pastable)]
    /\ todo \in Seq(Task)
    /\ call \in Call \cup {NoCall}
    /\ results \in Seq(Result)
    /\ answer \in [DOMAIN answer -> Result]

\* A call is begun below the limit and adds one result, however deep it is.
BelowLimit == Len(results) <= MaxResults /\ (call # NoCall => ~Full)

\* What was seen has been answered, but for the link that is being resolved, or
\* whose second normalization raised.
SeenAnswered ==
    /\ seen \subseteq Links /\ DOMAIN answer \subseteq seen
    /\ call = NoCall /\ phase # "raised" => seen = DOMAIN answer
    /\ call # NoCall => /\ seen = DOMAIN answer \cup {call.link}
                        /\ call.link \notin DOMAIN answer
                        /\ Sensible(call.last, call.url)

TypeInv == Shapes /\ BelowLimit /\ SeenAnswered

LEMMA NoCallLemma == \A c \in Call : c # NoCall
<1> SUFFICES ASSUME NEW c \in Call PROVE c # NoCall
  OBVIOUS
<1>1. c.url \in Links
  BY DEF Call
<1> QED
  BY <1>1, LinksAssumption DEF NoCall

\* Answer and GiveUp expand a result for the URL of the call.
LEMMA AnswerExpands ==
    ASSUME TypeInv, GiveUp \/ \E p \in Plugins : Answer(p)
    PROVE  /\ phase = "expand" /\ call \in Call
           /\ UNCHANGED <<phase, text, found, seen>>
           /\ \E r \in Result : Sensible(r, call.url) /\ ExpandResult(r)
<1>1. CASE GiveUp
  BY <1>1 DEF GiveUp, TypeInv, Shapes, SeenAnswered, Sensible
<1>2. ASSUME NEW p \in Plugins, Answer(p)
      PROVE  /\ phase = "expand" /\ call \in Call
             /\ UNCHANGED <<phase, text, found, seen>>
             /\ \E r \in Result : Sensible(r, call.url) /\ ExpandResult(r)
  <2>1. call \in Call /\ call.url \in Links
    BY <1>2 DEF Answer, Asking, TypeInv, Shapes, Call
  <2>2. PICK r \in Answers(p, call.url) : ExpandResult(r)
    BY <1>2 DEF Answer
  <2>3. Sensible(r, call.url)
    BY <2>1, AnswersSensible
  <2> QED
    BY <1>2, <2>1, <2>2, <2>3 DEF Answer, Asking, Sensible
<1> QED
  BY <1>1, <1>2

\* The tasks a result leads to.
LEMMA TasksLemma ==
    ASSUME NEW r \in Result, NEW d \in 1 .. MaxDepth, r.type \in {"redirect", "package"}
    PROVE  /\ Tasks(r, d) \in Seq(Task)
           /\ DOMAIN Tasks(r, d) = DOMAIN r.to
           /\ \A i \in DOMAIN r.to :
                /\ Tasks(r, d)[i].link = r.to[i]
                /\ Tasks(r, d)[i].page \in {r.url, NoLink}
                /\ Tasks(r, d)[i].page # NoLink => Tasks(r, d)[i].depth = 0 /\ r.type = "package"
<1>1. r.to \in Seq(Links) /\ r.url \in Links
  BY DEF Result
<1>2. \A i \in DOMAIN r.to : r.to[i] \in Links
  BY <1>1
<1>3. \A i \in DOMAIN r.to : TaskFor(r, d, r.to[i]) \in Task
  BY <1>1, <1>2, LimitsAssumption DEF TaskFor, Task
<1>4. \A i \in DOMAIN r.to :
        LET t == TaskFor(r, d, r.to[i])
        IN  /\ t.link = r.to[i] /\ t.page \in {r.url, NoLink}
            /\ t.page # NoLink => t.depth = 0 /\ r.type = "package"
  BY <1>1, LimitsAssumption DEF TaskFor
<1>5. Tasks(r, d) \in Seq(Task)
  <2>1. DOMAIN r.to = 1 .. Len(r.to) /\ Len(r.to) \in Nat
    BY <1>1
  <2> QED
    BY <1>3, <2>1 DEF Tasks
<1> QED
  BY <1>4, <1>5 DEF Tasks

LEMMA CallForLemma ==
    ASSUME NEW t \in Task, Norm[t.link] # Invalid, Norm[Norm[t.link]] # Invalid
    PROVE  /\ CallFor(t) \in Call /\ CallFor(t).link = Norm[t.link] /\ CallFor(t).depth = t.depth
           /\ Sensible(CallFor(t).last, CallFor(t).url)
<1>1. /\ t.link \in Links /\ Norm[t.link] \in Links /\ Norm[Norm[t.link]] \in Links
      /\ t.depth \in 0 .. MaxDepth
  BY LinksAssumption DEF Task
<1>2. Sensible(Plain("unsupported", Norm[Norm[t.link]], "registry"), Norm[Norm[t.link]])
  BY <1>1, PlainSensible
<1> QED
  BY <1>1, <1>2 DEF CallFor, Call, Sensible

LEMMA ExpandTypes ==
    ASSUME TypeInv, phase = "expand", call \in Call, UNCHANGED <<phase, text, found, seen>>,
           NEW r \in Result, Sensible(r, call.url), ExpandResult(r)
    PROVE  TypeInv'
<1>1. call # NoCall /\ ~Full
  BY NoCallLemma DEF TypeInv, BelowLimit
<1>2. /\ DOMAIN answer' = DOMAIN answer \cup {call.link}
      /\ answer' \in [DOMAIN answer' -> Result] /\ call' = NoCall
  BY DEF ExpandResult, Remember, TypeInv, Shapes
<1>3. todo' \in Seq(Task) /\ results' \in Seq(Result) /\ Len(results') <= MaxResults
  <2>1. CASE Leads(r) /\ todo' = Tasks(r, call.depth) \o todo /\ UNCHANGED results
    <3>1. call.depth \in 1 .. MaxDepth /\ r.type \in {"redirect", "package"}
      BY <2>1, LimitsAssumption DEF Leads, Call
    <3> QED
      BY <2>1, <3>1, TasksLemma, ElemsConcat DEF TypeInv, Shapes, BelowLimit
  <2>2. CASE results' = Append(results, r) /\ UNCHANGED todo
    <3>1. results \in Seq(Result) /\ Len(results) \in Nat /\ Len(results) < MaxResults
      BY <1>1, LimitsAssumption DEF TypeInv, Shapes, Full
    <3> QED
      BY <2>2, <3>1, ElemsAppend, LimitsAssumption DEF TypeInv, Shapes
  <2> QED
    BY <2>1, <2>2 DEF ExpandResult
<1> QED
  BY <1>1, <1>2, <1>3 DEF TypeInv, Shapes, BelowLimit, SeenAnswered

LEMMA ScanTypes ==
    ASSUME TypeInv, Scan
    PROVE  TypeInv'
<1> DEFINE u == Norm[Head(text)]
<1>1. Head(text) \in Links /\ Tail(text) \in Seq(Links)
  BY ElemsTail DEF Scan, TypeInv, Shapes
<1>2. u # Invalid => Pass(u) \in Pastable
  BY <1>1, LinksAssumption, LimitsAssumption DEF Pass, Pastable, Task
<1>3. found' \in [preferred : Seq(Pastable), rest : Seq(Pastable)]
  <2>1. found.preferred \in Seq(Pastable) /\ found.rest \in Seq(Pastable)
    BY DEF TypeInv, Shapes
  <2>2. u # Invalid => /\ Append(found.preferred, Pass(u)) \in Seq(Pastable)
                       /\ Append(found.rest, Pass(u)) \in Seq(Pastable)
    BY <1>2, <2>1, ElemsAppend
  <2> QED
    BY <2>1, <2>2 DEF Scan, TypeInv, Shapes
<1> QED
  BY <1>1, <1>3 DEF Scan, TypeInv, Shapes, BelowLimit, SeenAnswered, Full

\* A step that takes the first task off the list.
LEMMA PopTypes ==
    ASSUME TypeInv, Pop
    PROVE  /\ call = NoCall /\ phase = "expand" /\ ~Full
           /\ Head(todo) \in Task /\ todo' \in Seq(Task)
           /\ Elems(todo) = {Head(todo)} \cup Elems(todo')
<1> QED
  BY ElemsTail DEF TypeInv, Shapes, Pop, Idle

LEMMA ListTypes ==
    ASSUME TypeInv, Pop, UNCHANGED <<phase, text, found, call, seen, answer>>,
           NEW r \in Result, results' = Append(results, r)
    PROVE  TypeInv'
<1>1. results \in Seq(Result) /\ Len(results) \in Nat /\ Len(results) < MaxResults
  BY PopTypes, LimitsAssumption DEF TypeInv, Shapes, Full
<1>2. results' \in Seq(Result) /\ Len(results') = Len(results) + 1
  BY <1>1, ElemsAppend
<1> QED
  BY <1>1, <1>2, PopTypes, LimitsAssumption DEF TypeInv, Shapes, BelowLimit, SeenAnswered

LEMMA ListedResults ==
    /\ \A p, l \in Links : ChildOf(p, l) \in Result
    /\ \A l \in Links : Rejected(l) \in Result
<1>1. \A l \in Links : <<l>> \in Seq(Links)
  OBVIOUS
<1> QED
  BY <1>1 DEF ChildOf, To, Rejected, Plain, Result, Types, Plugins

LEMMA TypeStep ==
    ASSUME TypeInv, [Next]_vars
    PROVE  TypeInv'
<1>1. CASE UNCHANGED vars
  BY <1>1 DEF vars, TypeInv, Shapes, BelowLimit, SeenAnswered, Full
<1>2. CASE Scan
  BY <1>2, ScanTypes
<1>3. CASE Begin
  <2>1. found.preferred \in Seq(Task) /\ found.rest \in Seq(Task)
    BY DEF TypeInv, Shapes, Pastable
  <2>2. todo' \in Seq(Task)
    BY <1>3, <2>1, ElemsConcat DEF Begin
  <2> QED
    BY <1>3, <2>2 DEF Begin, TypeInv, Shapes, BelowLimit, SeenAnswered, Full
<1>4. CASE Stop
  BY <1>4 DEF Stop, TypeInv, Shapes, BelowLimit, SeenAnswered, Full
<1>5. CASE ListChild
  <2>1. Head(todo) \in Task /\ Head(todo).page \in Links
    BY <1>5, PopTypes DEF ListChild, Task
  <2>2. ChildOf(Head(todo).page, Head(todo).link) \in Result
    BY <2>1, ListedResults DEF Task
  <2> QED
    BY <1>5, <2>2, ListTypes DEF ListChild
<1>6. CASE Reject
  <2>1. Rejected(Head(todo).link) \in Result
    BY <1>6, PopTypes, ListedResults DEF Reject, Task
  <2> QED
    BY <1>6, <2>1, ListTypes DEF Reject
<1>7. CASE Skip
  BY <1>7, PopTypes DEF Skip, TypeInv, Shapes, BelowLimit, SeenAnswered, Full
<1>8. CASE Resolve
  <2>1. Head(todo) \in Task /\ Norm[Head(todo).link] \in Links \ seen
    BY <1>8, PopTypes, LinksAssumption DEF Resolve, Remembers, Task
  <2>2. /\ CallFor(Head(todo)) \in Call /\ CallFor(Head(todo)).link = Norm[Head(todo).link]
        /\ Sensible(CallFor(Head(todo)).last, CallFor(Head(todo)).url)
    BY <1>8, <2>1, CallForLemma, LinksAssumption DEF Resolve
  <2> QED
    BY <1>8, <2>1, <2>2, PopTypes, NoCallLemma
    DEF Resolve, Remembers, TypeInv, Shapes, BelowLimit, SeenAnswered, Full
<1>9. CASE GiveUp \/ \E p \in Plugins : Answer(p)
  BY <1>9, AnswerExpands, ExpandTypes
<1>10. CASE Finish
  BY <1>10 DEF Finish, Idle, TypeInv, Shapes, BelowLimit, SeenAnswered, Full
<1>11. ASSUME NEW p \in Plugins, PassOn(p) PROVE TypeInv'
  <2>1. call \in Call /\ call.url \in Links /\ call # NoCall
    BY <1>11 DEF PassOn, Asking, TypeInv, Shapes, Call
  <2>2. PICK r \in Answers(p, call.url) :
          call' = [call EXCEPT !.left = @ \ {p}, !.last = IF r.type = "error" THEN r ELSE @]
    BY <1>11 DEF PassOn
  <2>3. Sensible(r, call.url) /\ Sensible(call.last, call.url)
    BY <2>1, AnswersSensible DEF TypeInv, SeenAnswered
  <2>4. call' \in Call /\ call'.link = call.link /\ Sensible(call'.last, call'.url)
    BY <2>1, <2>2, <2>3 DEF Call, Sensible
  <2> QED
    BY <1>11, <2>1, <2>4, NoCallLemma
    DEF PassOn, TypeInv, Shapes, BelowLimit, SeenAnswered, Full
<1>12. CASE ScanRaise \/ \E p \in Plugins : Raise(p)
  BY <1>12 DEF ScanRaise, Raise, TypeInv, Shapes, BelowLimit, SeenAnswered, Full
<1>13. CASE ResolveRaise
  <2>1. Norm[Head(todo).link] \in Links
    BY <1>13, PopTypes, LinksAssumption DEF ResolveRaise, Remembers, Task
  <2> QED
    BY <1>13, <2>1, PopTypes
    DEF ResolveRaise, Remembers, TypeInv, Shapes, BelowLimit, SeenAnswered, Full
<1> QED
  BY <1>1, <1>2, <1>3, <1>4, <1>5, <1>6, <1>7, <1>8, <1>9, <1>10, <1>11, <1>12, <1>13 DEF Next

LEMMA TypeInit == Init => TypeInv
<1> SUFFICES ASSUME Init PROVE TypeInv
  OBVIOUS
<1>1. text \in Seq(Links)
  BY LinksAssumption DEF Init
<1>2. answer \in [DOMAIN answer -> Result] /\ DOMAIN answer = {}
  BY DEF Init
<1> QED
  BY <1>1, <1>2, LimitsAssumption DEF Init, TypeInv, Shapes, BelowLimit, SeenAnswered

\* Whatever redirects and pages the servers make up, tasks stay within the depth
\* and the list of results within max_results.
THEOREM TypeCorrect == Spec => []TypeOK
<1>1. TypeInv => TypeOK
  <2> SUFFICES ASSUME TypeInv PROVE TypeOK
    OBVIOUS
  <2>1. found \in [preferred : Seq(Task), rest : Seq(Task)]
    BY DEF TypeInv, Shapes, Pastable
  <2> QED
    BY <2>1 DEF TypeInv, Shapes, BelowLimit, SeenAnswered, TypeOK
<1> QED
  BY <1>1, TypeInit, TypeStep, PTL DEF Spec

----------------------------------------------------------------------------
(***************************************************************************)
(* Nothing is dropped                                                      *)
(***************************************************************************)
\* A link r leads to has been followed, or a task for it is left.
Pending(r, l) == \E t \in Elems(todo) : t.link = l /\ t.page \in {r.url, NoLink}
Met(r, l)     == Followed(r, l) \/ Pending(r, l)

AnswerKept(r) ==
    \/ Listed(r)
    \/ GoesOn(r) /\ r.to # <<>> /\ \A i \in DOMAIN r.to : Met(r, r.to[i])

PastedKept ==
    \A l \in Pasted :
        \/ Norm[l] \in seen \/ Listed(Rejected(l))
        \/ \E t \in Elems(todo) : t.link = l /\ t.page = NoLink

Kept ==
    phase \in {"expand", "done"} /\ ~Full =>
        PastedKept /\ \A u \in DOMAIN answer : AnswerKept(answer[u])

\* A call has nothing to do before the text is read and when it is done.
Phases ==
    /\ phase = "scan" => call = NoCall /\ DOMAIN answer = {}
    /\ phase = "done" => todo = <<>> /\ call = NoCall

DropInv == TypeInv /\ Kept /\ Phases

LEMMA ListedElems == \A r : Listed(r) <=> r \in Elems(results)
<1> QED
  BY DEF Listed, Elems

\* A step that only adds results and URLs seen, and takes a task off the list that
\* has then been followed, keeps everything.
LEMMA FollowKeeps ==
    ASSUME DropInv, Pop, UNCHANGED <<phase, text, found, answer>>,
           seen \subseteq seen', Elems(results) \subseteq Elems(results'),
           LET t == Head(todo)
           IN  \/ Norm[t.link] \in seen'
               \/ Rejected(t.link) \in Elems(results') /\ Norm[t.link] = Invalid
               \/ t.page # NoLink /\ ChildOf(t.page, t.link) \in Elems(results')
    PROVE  Kept'
<1> DEFINE t == Head(todo)
<1>1. /\ ~Full /\ phase = "expand" /\ t \in Task
      /\ Elems(todo) = {t} \cup Elems(todo')
      /\ todo' = Tail(todo)
  BY PopTypes DEF DropInv, Pop
<1>2. \A p, l : Listed(l) => Listed(l)'
  BY ListedElems DEF Listed, Elems
<1>3. ASSUME NEW r, NEW l, Met(r, l) PROVE Met(r, l)'
  <2>1. CASE Followed(r, l)
    BY <2>1, <1>2 DEF Followed, Met, ChildOf, Rejected, To, Plain
  <2>2. CASE \E s \in Elems(todo') : s.link = l /\ s.page \in {r.url, NoLink}
    BY <2>2 DEF Met, Pending, Elems
  <2>3. CASE t.link = l /\ t.page \in {r.url, NoLink}
    <3>1. \/ Norm[l] \in seen' \/ Rejected(l) \in Elems(results')
          \/ ChildOf(r.url, l) \in Elems(results')
      BY <2>3
    <3> QED
      BY <3>1 DEF Met, Followed, Listed, Elems, ChildOf, Rejected, To, Plain
  <2>4. ASSUME NEW s \in Elems(todo), s.link = l, s.page \in {r.url, NoLink}
        PROVE  s \in Elems(todo') \/ s = t
    BY <1>1
  <2> QED
    BY <1>3, <2>1, <2>2, <2>3, <2>4 DEF Met, Pending
<1>4. \A r : AnswerKept(r) => AnswerKept(r)'
  BY <1>2, <1>3 DEF AnswerKept, GoesOn
<1>5. PastedKept => PastedKept'
  <2>0. Pasted' = Pasted
    BY DEF Pasted
  <2> SUFFICES ASSUME PastedKept, NEW l \in Pasted
               PROVE  \/ Norm[l] \in seen' \/ Listed(Rejected(l))'
                      \/ \E s \in Elems(todo') : s.link = l /\ s.page = NoLink
    BY <2>0 DEF PastedKept, Elems, Rejected, Plain
  <2>1. CASE Norm[l] \in seen \/ Listed(Rejected(l))
    BY <1>2, <2>1 DEF Rejected, Plain
  <2>2. CASE t.link = l /\ t.page = NoLink
    BY <2>2 DEF Listed, Elems, Rejected, Plain
  <2>3. CASE \E s \in Elems(todo') : s.link = l /\ s.page = NoLink
    BY <2>3
  <2> QED
    BY <1>1, <2>1, <2>2, <2>3 DEF PastedKept
<1> QED
  BY <1>1, <1>4, <1>5 DEF DropInv, Kept

\* Expanding a result keeps it: it is listed, or what it leads to becomes tasks.
LEMMA ExpandKeeps ==
    ASSUME DropInv, phase = "expand", call \in Call, UNCHANGED <<phase, text, found, seen>>,
           NEW r \in Result, Sensible(r, call.url), ExpandResult(r)
    PROVE  Kept'
<1>1. /\ TypeInv /\ ~Full /\ call.link \notin DOMAIN answer
      /\ \A u \in DOMAIN answer : AnswerKept(answer[u])
      /\ PastedKept
  BY NoCallLemma DEF DropInv, TypeInv, BelowLimit, SeenAnswered, Kept
<1>2. /\ DOMAIN answer' = DOMAIN answer \cup {call.link} /\ answer'[call.link] = r
      /\ \A u \in DOMAIN answer : answer'[u] = answer[u]
  BY <1>1 DEF ExpandResult, Remember
<1>3. Elems(todo) \subseteq Elems(todo') /\ Elems(results) \subseteq Elems(results')
      /\ \/ r \in Elems(results')
         \/ /\ GoesOn(r) /\ r.to # <<>>
            /\ \A i \in DOMAIN r.to : \E s \in Elems(todo') :
                  s.link = r.to[i] /\ s.page \in {r.url, NoLink}
  <2>1. CASE Leads(r) /\ todo' = Tasks(r, call.depth) \o todo /\ UNCHANGED results
    <3>1. call.depth \in 1 .. MaxDepth /\ r.type \in {"redirect", "package"}
      BY <2>1, LimitsAssumption DEF Leads, Call
    <3>2. Elems(todo') = Elems(Tasks(r, call.depth)) \cup Elems(todo)
      BY <2>1, <3>1, TasksLemma, ElemsConcat DEF DropInv, TypeInv, Shapes
    <3>3. \A i \in DOMAIN r.to : Tasks(r, call.depth)[i] \in Elems(Tasks(r, call.depth))
      BY <3>1, TasksLemma DEF Elems
    <3> QED
      BY <2>1, <3>1, <3>2, <3>3, TasksLemma DEF GoesOn, Sensible
  <2>2. CASE results' = Append(results, r) /\ UNCHANGED todo
    BY <2>2, ElemsAppend DEF DropInv, TypeInv, Shapes
  <2> QED
    BY <2>1, <2>2 DEF ExpandResult
<1>4. \A x : Listed(x) => Listed(x)'
  BY <1>3, ListedElems DEF Listed, Elems
<1>5. \A x, l : Met(x, l) => Met(x, l)'
  <2> SUFFICES ASSUME NEW x, NEW l, Met(x, l) PROVE Met(x, l)'
    OBVIOUS
  <2>1. CASE Followed(x, l)
    BY <2>1, <1>4 DEF Followed, Met, ChildOf, Rejected, To, Plain
  <2>2. CASE Pending(x, l)
    BY <2>2, <1>3 DEF Pending, Met, Elems
  <2> QED
    BY <2>1, <2>2 DEF Met
<1>6. ASSUME NEW u \in DOMAIN answer PROVE AnswerKept(answer[u])'
  <2>1. answer'[u] = answer[u] /\ AnswerKept(answer[u])
    BY <1>1, <1>2
  <2> QED
    BY <1>4, <1>5, <2>1 DEF AnswerKept
<1>7. ASSUME NEW u, u = call.link PROVE AnswerKept(answer[u])'
  <2>0. answer'[u] = r
    BY <1>2, <1>7
  <2>1. CASE r \in Elems(results')
    BY <2>0, <2>1 DEF AnswerKept, Listed, Elems
  <2>2. CASE /\ GoesOn(r) /\ r.to # <<>>
             /\ \A i \in DOMAIN r.to : \E s \in Elems(todo') :
                  s.link = r.to[i] /\ s.page \in {r.url, NoLink}
    BY <2>0, <2>2 DEF AnswerKept, Met, Pending, Elems
  <2> QED
    BY <1>3, <2>1, <2>2
<1>8. PastedKept'
  <2>0. Pasted' = Pasted
    BY DEF Pasted
  <2> SUFFICES ASSUME NEW l \in Pasted
               PROVE  \/ Norm[l] \in seen' \/ Listed(Rejected(l))'
                      \/ \E s \in Elems(todo') : s.link = l /\ s.page = NoLink
    BY <2>0 DEF PastedKept, Elems, Rejected, Plain
  <2>1. CASE Norm[l] \in seen \/ Listed(Rejected(l))
    BY <1>4, <2>1 DEF Rejected, Plain
  <2>2. CASE \E s \in Elems(todo) : s.link = l /\ s.page = NoLink
    BY <1>3, <2>2
  <2> QED
    BY <1>1, <2>1, <2>2 DEF PastedKept
<1>9. \A u : u \in DOMAIN answer' => AnswerKept(answer[u])'
  BY <1>2, <1>6, <1>7
<1> QED
  BY <1>8, <1>9 DEF Kept

\* The text's links all become tasks.
LEMMA BeginKeeps ==
    ASSUME DropInv, Begin
    PROVE  Kept'
<1>1. found.preferred \in Seq(Task) /\ found.rest \in Seq(Task)
  BY DEF DropInv, TypeInv, Shapes, Pastable
<1>2. found.preferred \in Seq(Pastable) /\ found.rest \in Seq(Pastable)
  BY DEF DropInv, TypeInv, Shapes
<1>3. Elems(todo') = Elems(found.preferred) \cup Elems(found.rest)
  BY <1>1, ElemsConcat DEF Begin
<1>4. PastedKept'
  <2>0. Pasted' = Pasted
    BY DEF Pasted, Begin
  <2> SUFFICES ASSUME NEW u \in Pasted PROVE \E t \in Elems(todo') : t.link = u /\ t.page = NoLink
    BY <2>0 DEF PastedKept, Elems
  <2>1. PICK t \in Elems(found.preferred) \cup Elems(found.rest) : t.link = u
    BY DEF Pasted, Elems
  <2>2. t.page = NoLink
    BY <1>2 DEF Elems, Pastable
  <2> QED
    BY <1>3, <2>1, <2>2 DEF Elems
<1>5. DOMAIN answer' = {}
  BY DEF Begin, DropInv, Phases
<1> QED
  BY <1>4, <1>5 DEF Kept

\* A step that changes nothing Kept speaks of, or leaves the call.
LEMMA KeptUnchanged ==
    ASSUME Kept, UNCHANGED <<found, todo, seen, results, answer>>,
           phase \in {"expand", "done"} \/ phase' \notin {"expand", "done"}
    PROVE  Kept'
<1>0. \A x : Listed(x) <=> Listed(x)'
  BY DEF Listed
<1>1. \A r : AnswerKept(r) => AnswerKept(r)'
  BY <1>0 DEF AnswerKept, Met, Followed, Pending, Elems, ChildOf, Rejected, To, Plain
<1>2. PastedKept => PastedKept'
  <2>1. Pasted' = Pasted /\ Elems(todo)' = Elems(todo)
    BY DEF Pasted, Elems
  <2> QED
    BY <1>0, <2>1 DEF PastedKept, Rejected, Plain
<1> QED
  BY <1>1, <1>2 DEF Kept, Full

LEMMA DropStep ==
    ASSUME DropInv, [Next]_vars
    PROVE  DropInv'
<1> USE DEF DropInv
<1>0. TypeInv'
  BY TypeStep
<1>1. CASE UNCHANGED vars
  BY <1>0, <1>1, KeptUnchanged DEF vars, Phases
<1>2. CASE Scan
  <2>1. DOMAIN answer' = {} /\ phase' = "scan" /\ call' = NoCall
    BY <1>2 DEF Scan, Phases
  <2> QED
    BY <1>0, <2>1 DEF Kept, Phases
<1>3. CASE Begin
  BY <1>0, <1>3, BeginKeeps DEF Begin, Phases
<1>4. CASE Stop
  <2>1. Full' /\ phase' = "expand"
    BY <1>4 DEF Stop, Idle, Full
  <2> QED
    BY <1>0, <2>1 DEF Kept, Phases
<1>5. CASE ListChild
  <2> DEFINE c == ChildOf(Head(todo).page, Head(todo).link)
  <2>1. Head(todo) \in Task /\ Head(todo).page \in Links /\ phase = "expand"
    BY <1>5, PopTypes DEF ListChild, Task
  <2>2. c \in Result
    BY <2>1, ListedResults DEF Task
  <2>3. Elems(results') = Elems(results) \cup {c}
    BY <1>5, <2>2, ElemsAppend DEF ListChild, TypeInv, Shapes
  <2> QED
    BY <1>0, <1>5, <2>1, <2>3, FollowKeeps DEF ListChild, Phases
<1>6. CASE Reject
  <2>1. Rejected(Head(todo).link) \in Result /\ phase = "expand"
    BY <1>6, PopTypes, ListedResults DEF Reject, Task
  <2>2. Elems(results') = Elems(results) \cup {Rejected(Head(todo).link)}
    BY <1>6, <2>1, ElemsAppend DEF Reject, TypeInv, Shapes
  <2> QED
    BY <1>0, <1>6, <2>1, <2>2, FollowKeeps DEF Reject, Phases
<1>7. CASE Skip
  <2>1. phase = "expand"
    BY <1>7, PopTypes DEF Skip
  <2> QED
    BY <1>0, <1>7, <2>1, FollowKeeps DEF Skip, Phases
<1>8. CASE Resolve
  <2>1. phase = "expand"
    BY <1>8, PopTypes DEF Resolve, Remembers
  <2> QED
    BY <1>0, <1>8, <2>1, FollowKeeps DEF Resolve, Remembers, Phases
<1>9. CASE GiveUp \/ \E p \in Plugins : Answer(p)
  <2>1. phase = "expand" /\ phase' = phase
    BY <1>9, AnswerExpands
  <2>2. Kept'
    BY <1>9, AnswerExpands, ExpandKeeps
  <2> QED
    BY <1>0, <2>1, <2>2 DEF Phases
<1>10. CASE Finish
  BY <1>0, <1>10, KeptUnchanged DEF Finish, Idle, Phases
<1>11. CASE \E p \in Plugins : PassOn(p)
  BY <1>0, <1>11, KeptUnchanged DEF PassOn, Asking, Phases
<1>12. CASE ScanRaise \/ ResolveRaise \/ \E p \in Plugins : Raise(p)
  <2>1. phase' = "raised"
    BY <1>12 DEF ScanRaise, ResolveRaise, Raise
  <2> QED
    BY <1>0, <2>1 DEF Kept, Phases
<1> QED
  BY <1>1, <1>2, <1>3, <1>4, <1>5, <1>6, <1>7, <1>8, <1>9, <1>10, <1>11, <1>12 DEF Next

\* Below the limit every pasted link is resolved or listed as an error and all that
\* a link resolved to is listed or has an answer, though branches share the seen set
\* and the depth; links that show nothing lead round in a circle.
THEOREM NoneDropped == Spec => []NothingDropped
<1>1. Init => DropInv
  BY TypeInit DEF Init, DropInv, Kept, Phases
<1>2. DropInv => NothingDropped
  <2> SUFFICES ASSUME DropInv, Complete
               PROVE  /\ \A l \in Pasted : Norm[l] \in seen \/ Listed(Rejected(l))
                      /\ seen = DOMAIN answer
                      /\ \A u \in seen : Accounted(answer[u])
                      /\ \A S \in SUBSET seen \ {{}} :
                            Closed(S) => HasCircle(S) \/ \E u \in S : Shows(u)
    BY DEF NothingDropped
  <2>1. Elems(todo) = {} /\ call = NoCall
    BY DEF DropInv, Phases, Elems, Complete
  <2>2. seen = DOMAIN answer
    BY <2>1 DEF DropInv, TypeInv, SeenAnswered, Complete
  <2>3. \A l \in Pasted : Norm[l] \in seen \/ Listed(Rejected(l))
    BY <2>1 DEF DropInv, Kept, PastedKept, Complete
  <2>4. \A u \in seen : Accounted(answer[u])
    BY <2>1, <2>2 DEF DropInv, Kept, AnswerKept, Met, Pending, Accounted, Complete
  <2>5. ASSUME NEW S \in SUBSET seen \ {{}}, Closed(S), ~HasCircle(S)
        PROVE  \E u \in S : Shows(u)
    <3>1. PICK u \in S : LeadsTo(u) \cap S = {}
      BY <2>5 DEF HasCircle
    <3>2. LeadsTo(u) = {}
      BY <2>5, <3>1 DEF Closed
    <3>3. CASE Listed(answer[u])
      BY <3>3 DEF Shows
    <3>4. CASE ~Listed(answer[u])
      <4>1. answer[u] \in Result /\ GoesOn(answer[u]) /\ answer[u].to # <<>>
            /\ \A i \in DOMAIN answer[u].to : Followed(answer[u], answer[u].to[i])
        BY <2>2, <2>4, <3>4 DEF Accounted, DropInv, TypeInv, Shapes
      <4>2. 1 \in DOMAIN answer[u].to
        BY <4>1 DEF Result
      <4>3. Norm[answer[u].to[1]] \notin seen
        BY <3>2, <4>1, <4>2 DEF LeadsTo
      <4> QED
        BY <4>1, <4>2, <4>3 DEF Followed, Shows
    <3> QED
      BY <3>3, <3>4
  <2> QED
    BY <2>2, <2>3, <2>4, <2>5
<1> QED
  BY <1>1, <1>2, DropStep, PTL DEF Spec

----------------------------------------------------------------------------
(***************************************************************************)
(* No URL is asked for twice                                               *)
(***************************************************************************)
\* An entry that is a child or an error, or no entry: the answers behind the
\* others stay what they are.
LEMMA ListedEntry ==
    ASSUME TypeInv, OneEntryPerLink, UNCHANGED answer, NEW r \in Result, results' = Append(results, r),
           r.plugin = "resolver" \/ (r.type = "redirect" /\ r.plugin = "html")
    PROVE  OneEntryPerLink'
<1>1. /\ results \in Seq(Result) /\ Len(results') = Len(results) + 1
      /\ DOMAIN results = 1 .. Len(results) /\ DOMAIN results' = 1 .. Len(results) + 1
      /\ \A i \in DOMAIN results : results'[i] = results[i]
      /\ results'[Len(results) + 1] = r
  BY DEF TypeInv, Shapes
<1>2. \A i \in DOMAIN results' : i \in DOMAIN results \/ i = Len(results) + 1
  BY <1>1
<1>3. Own' = Own
  BY <1>1, <1>2 DEF Own
<1>4. PICK link \in [Own -> DOMAIN answer] :
        /\ \A i \in Own : results[i] = answer[link[i]]
        /\ \A i, j \in Own : link[i] = link[j] => i = j
  BY DEF OneEntryPerLink
<1>5. /\ link \in [Own' -> DOMAIN answer']
      /\ \A i \in Own' : results'[i] = answer'[link[i]]
      /\ \A i, j \in Own' : link[i] = link[j] => i = j
  BY <1>1, <1>3, <1>4 DEF Own
<1> QED
  BY <1>5 DEF OneEntryPerLink

\* The link of the call has no answer yet.
LEMMA AnsweredEntry ==
    ASSUME TypeInv, OneEntryPerLink, call \in Call,
           NEW r \in Result, Sensible(r, call.url), ExpandResult(r)
    PROVE  OneEntryPerLink'
<1>1. /\ call.link \notin DOMAIN answer
      /\ DOMAIN answer' = DOMAIN answer \cup {call.link} /\ answer'[call.link] = r
      /\ \A u \in DOMAIN answer : answer'[u] = answer[u]
  BY NoCallLemma DEF TypeInv, SeenAnswered, ExpandResult, Remember
<1>2. PICK link \in [Own -> DOMAIN answer] :
        /\ \A i \in Own : results[i] = answer[link[i]]
        /\ \A i, j \in Own : link[i] = link[j] => i = j
  BY DEF OneEntryPerLink
<1>3. CASE UNCHANGED results
  <2>1. Own' = Own /\ link \in [Own -> DOMAIN answer']
    BY <1>1, <1>2, <1>3 DEF Own
  <2> QED
    BY <1>1, <1>2, <1>3, <2>1 DEF OneEntryPerLink
<1>4. CASE results' = Append(results, r)
  <2> DEFINE n    == Len(results) + 1
             new  == [i \in Own \cup {n} |-> IF i = n THEN call.link ELSE link[i]]
  <2>1. /\ results \in Seq(Result) /\ DOMAIN results = 1 .. Len(results) /\ n \notin DOMAIN results
        /\ DOMAIN results' = DOMAIN results \cup {n}
        /\ \A i \in DOMAIN results : results'[i] = results[i]
        /\ results'[n] = r
    BY <1>4 DEF TypeInv, Shapes
  <2>2. Own' = Own \cup {n} /\ n \notin Own /\ Own \subseteq DOMAIN results
    BY <2>1 DEF Own, Sensible
  <2>3. new \in [Own' -> DOMAIN answer']
    BY <1>1, <1>2, <2>2
  <2>4. \A i \in Own' : results'[i] = answer'[new[i]]
    BY <1>1, <1>2, <2>1, <2>2
  <2>5. ASSUME NEW i \in Own', NEW j \in Own', new[i] = new[j] PROVE i = j
    <3>1. \A k \in Own : new[k] = link[k] /\ new[k] # call.link
      BY <1>1, <1>2, <2>2
    <3>2. new[n] = call.link
      OBVIOUS
    <3> QED
      BY <1>2, <2>2, <2>5, <3>1, <3>2
  <2> HIDE DEF new
  <2> QED
    BY <2>3, <2>4, <2>5 DEF OneEntryPerLink
<1> QED
  BY <1>3, <1>4 DEF ExpandResult

\* Every entry of its own is the answer to another URL: seen holds what a link is
\* normalized to, so that no spelling of one that was asked for is asked for again.
THEOREM AskedOnce == Spec => []OneEntryPerLink
<1>1. Init => OneEntryPerLink
  <2> SUFFICES ASSUME Init PROVE OneEntryPerLink
    OBVIOUS
  <2>1. Own = {}
    BY DEF Init, Own
  <2>2. [i \in {} |-> NoLink] \in [Own -> DOMAIN answer]
    BY <2>1
  <2> QED
    BY <2>1, <2>2 DEF OneEntryPerLink
<1>2. ASSUME TypeInv, OneEntryPerLink, [Next]_vars PROVE OneEntryPerLink'
  <2>1. CASE UNCHANGED <<results, answer>>
    <3>1. Own' = Own
      BY <2>1 DEF Own
    <3> QED
      BY <1>2, <2>1, <3>1 DEF OneEntryPerLink
  <2>2. CASE ListChild
    <3>1. /\ ChildOf(Head(todo).page, Head(todo).link) \in Result
          /\ ChildOf(Head(todo).page, Head(todo).link).type = "redirect"
          /\ ChildOf(Head(todo).page, Head(todo).link).plugin = "html"
      BY <1>2, <2>2, PopTypes, ListedResults DEF ListChild, Task, ChildOf, To
    <3> QED
      BY <1>2, <2>2, <3>1, ListedEntry DEF ListChild
  <2>3. CASE Reject
    <3>1. Rejected(Head(todo).link) \in Result /\ Rejected(Head(todo).link).plugin = "resolver"
      BY <1>2, <2>3, PopTypes, ListedResults DEF Reject, Task, Rejected, Plain
    <3> QED
      BY <1>2, <2>3, <3>1, ListedEntry DEF Reject
  <2>4. CASE GiveUp \/ \E p \in Plugins : Answer(p)
    BY <1>2, <2>4, AnswerExpands, AnsweredEntry
  <2> QED
    BY <1>2, <2>1, <2>2, <2>3, <2>4
    DEF Next, vars, Scan, ScanRaise, Begin, Stop, Skip, Resolve, ResolveRaise, Remembers, Finish,
        PassOn, Raise
<1> QED
  BY <1>1, <1>2, TypeInit, TypeStep, PTL DEF Spec

----------------------------------------------------------------------------
(***************************************************************************)
(* The depth                                                               *)
(***************************************************************************)
\* A link is pasted, or an answer leads to it: at most n levels down.
LedTo(level, ans, pasted, l, n) ==
    \/ \E k \in pasted : l = Norm[k]
    \/ \E v \in DOMAIN ans :
          /\ GoesOn(ans[v]) /\ \E i \in DOMAIN ans[v].to : l = Norm[ans[v].to[i]]
          /\ level[v] + Levels(ans[v]) <= n

\* So is every link that was answered, is being answered, or has a task.
Leveled(level) ==
    /\ \A u \in DOMAIN answer : LedTo(level, answer, Pasted, u, level[u])
    /\ \A t \in Elems(todo) :
          t.page = NoLink => LedTo(level, answer, Pasted, Norm[t.link], MaxDepth - t.depth)
    /\ call # NoCall => LedTo(level, answer, Pasted, call.link, MaxDepth - call.depth)

DepthInv ==
    /\ TypeInv
    /\ phase = "scan" => call = NoCall /\ DOMAIN answer = {} /\ todo = <<>>
    /\ \E level \in [DOMAIN answer -> 0 .. MaxDepth] : Leveled(level)

\* A step that answers nothing, and adds no tasks.
LEMMA LevelsKept ==
    ASSUME TypeInv, NEW level, Leveled(level), UNCHANGED <<answer, found>>,
           Elems(todo') \subseteq Elems(todo),
           \/ call' = NoCall
           \/ call # NoCall /\ call'.link = call.link /\ call'.depth = call.depth
    PROVE  Leveled(level)'
<1>1. Pasted' = Pasted
  BY DEF Pasted
<1>2. \A t \in Elems(todo') :
        t.page = NoLink => LedTo(level, answer, Pasted, Norm[t.link], MaxDepth - t.depth)
  BY DEF Leveled
<1>3. call' # NoCall => LedTo(level, answer, Pasted, call'.link, MaxDepth - call'.depth)
  BY DEF Leveled
<1> QED
  BY <1>1, <1>2, <1>3 DEF Leveled, Elems

LEMMA LevelsResolve ==
    ASSUME TypeInv, NEW level, Leveled(level), Resolve
    PROVE  Leveled(level)'
<1>1. Pasted' = Pasted /\ UNCHANGED answer
  BY DEF Pasted, Resolve
<1>2. /\ Head(todo) \in Elems(todo) /\ Elems(todo') \subseteq Elems(todo)
      /\ Head(todo).page = NoLink
  BY PopTypes DEF Resolve, Remembers
<1>3. call'.link = Norm[Head(todo).link] /\ call'.depth = Head(todo).depth
  BY DEF Resolve, CallFor
<1>4. LedTo(level, answer, Pasted, call'.link, MaxDepth - call'.depth)
  BY <1>2, <1>3 DEF Leveled
<1>5. \A t \in Elems(todo') :
        t.page = NoLink => LedTo(level, answer, Pasted, Norm[t.link], MaxDepth - t.depth)
  BY <1>2 DEF Leveled
<1> QED
  BY <1>1, <1>4, <1>5 DEF Leveled, Elems

LEMMA LevelsBegin ==
    ASSUME TypeInv, NEW level, DOMAIN answer = {}, call = NoCall, Begin
    PROVE  Leveled(level)'
<1>1. /\ found.preferred \in Seq(Task) /\ found.rest \in Seq(Task) /\ Pasted' = Pasted
  BY DEF TypeInv, Shapes, Pastable, Begin, Pasted
<1>2. Elems(todo') = Elems(found.preferred) \cup Elems(found.rest)
  BY <1>1, ElemsConcat DEF Begin
<1>3. \A t \in Elems(todo') : t.link \in Pasted
  BY <1>1, <1>2 DEF Elems, Pasted
<1>4. \A t \in Elems(todo') : LedTo(level, answer, Pasted, Norm[t.link], MaxDepth - t.depth)
  BY <1>3 DEF LedTo
<1> QED
  BY <1>1, <1>4 DEF Leveled, Begin, Elems

\* The answer is as far as the call was; what it leads to is further by its levels.
LEMMA LevelsExpand ==
    ASSUME TypeInv, phase = "expand", call \in Call, UNCHANGED <<phase, text, found, seen>>,
           NEW r \in Result, Sensible(r, call.url), ExpandResult(r),
           NEW level \in [DOMAIN answer -> 0 .. MaxDepth], Leveled(level)
    PROVE  \E new \in [DOMAIN answer' -> 0 .. MaxDepth] : Leveled(new)'
<1> DEFINE c == call.link
<1>1. /\ c \notin DOMAIN answer /\ DOMAIN answer' = DOMAIN answer \cup {c} /\ answer'[c] = r
      /\ \A u \in DOMAIN answer : answer'[u] = answer[u]
      /\ call # NoCall /\ call' = NoCall
  BY NoCallLemma DEF TypeInv, SeenAnswered, ExpandResult, Remember
<1>2. call.depth \in 0 .. MaxDepth /\ MaxDepth \in Nat /\ MaxDepth - call.depth \in 0 .. MaxDepth
  BY LimitsAssumption DEF Call
<1>3. PICK new : new = [u \in DOMAIN answer' |-> IF u = c THEN MaxDepth - call.depth ELSE level[u]]
  OBVIOUS
<1>4. /\ new \in [DOMAIN answer' -> 0 .. MaxDepth] /\ new[c] = MaxDepth - call.depth
      /\ \A u \in DOMAIN answer : new[u] = level[u]
  BY <1>1, <1>2, <1>3
<1>5. Pasted' = Pasted
  BY DEF Pasted
<1>6. ASSUME NEW l, NEW n, LedTo(level, answer, Pasted, l, n)
      PROVE  LedTo(new, answer', Pasted, l, n)
  BY <1>1, <1>4, <1>6 DEF LedTo
<1>7. \A u \in DOMAIN answer' : LedTo(new, answer', Pasted, u, new[u])
  <2>1. \A u \in DOMAIN answer : LedTo(new, answer', Pasted, u, new[u])
    BY <1>4, <1>6 DEF Leveled
  <2>2. LedTo(new, answer', Pasted, c, new[c])
    BY <1>1, <1>4, <1>6 DEF Leveled
  <2> QED
    BY <1>1, <2>1, <2>2
<1>8. \A t \in Elems(todo) :
        t.page = NoLink => LedTo(new, answer', Pasted, Norm[t.link], MaxDepth - t.depth)
  BY <1>6 DEF Leveled
<1>9. \A t \in Elems(todo') :
        t.page = NoLink => LedTo(new, answer', Pasted, Norm[t.link], MaxDepth - t.depth)
  <2>1. CASE Leads(r) /\ todo' = Tasks(r, call.depth) \o todo
    <3> DEFINE ts == Tasks(r, call.depth)
    <3>1. call.depth \in 1 .. MaxDepth /\ GoesOn(r) /\ r.type \in {"redirect", "package"}
      BY <1>2, <2>1 DEF Leads, GoesOn
    <3>2. ts \in Seq(Task) /\ DOMAIN ts = DOMAIN r.to
      BY <3>1, TasksLemma
    <3>3. Elems(todo') = Elems(ts) \cup Elems(todo)
      BY <2>1, <3>2, ElemsConcat DEF TypeInv, Shapes
    <3>4. ASSUME NEW i \in DOMAIN r.to, ts[i].page = NoLink
          PROVE  LedTo(new, answer', Pasted, Norm[ts[i].link], MaxDepth - ts[i].depth)
      <4>1. ts[i] = TaskFor(r, call.depth, r.to[i])
        BY DEF Tasks
      <4>2. r.url \in Links
        BY DEF Result
      <4>3. ts[i].link = r.to[i] /\ ts[i].depth = call.depth - Levels(r)
        <5>1. CASE r.type = "redirect"
          BY <4>1, <5>1 DEF TaskFor, Levels
        <5>2. CASE r.type = "package" /\ call.depth = 1
          BY <3>4, <4>1, <4>2, <5>2, LinksAssumption DEF TaskFor
        <5>3. CASE r.type = "package" /\ call.depth > 1
          BY <4>1, <5>3 DEF TaskFor, Levels
        <5> QED
          BY <3>1, <5>1, <5>2, <5>3
      <4>4. new[c] + Levels(r) <= MaxDepth - ts[i].depth
        BY <1>2, <1>4, <4>3 DEF Levels
      <4> QED
        BY <1>1, <3>1, <4>3, <4>4 DEF LedTo
    <3>5. \A t \in Elems(ts) :
            t.page = NoLink => LedTo(new, answer', Pasted, Norm[t.link], MaxDepth - t.depth)
      BY <3>2, <3>4 DEF Elems
    <3> QED
      BY <1>8, <3>3, <3>5
  <2>2. CASE UNCHANGED todo
    BY <1>8, <2>2 DEF Elems
  <2> QED
    BY <2>1, <2>2 DEF ExpandResult
<1>10. Leveled(new)'
  BY <1>1, <1>5, <1>7, <1>9 DEF Leveled, Elems
<1> QED
  BY <1>4, <1>10

LEMMA DepthStep ==
    ASSUME DepthInv, [Next]_vars
    PROVE  DepthInv'
<1>0. TypeInv' /\ TypeInv
  BY TypeStep DEF DepthInv
<1>1. PICK level \in [DOMAIN answer -> 0 .. MaxDepth] : Leveled(level)
  BY DEF DepthInv
<1>2. CASE Scan \/ ScanRaise
  <2>1. DOMAIN answer' = {} /\ todo' = <<>> /\ call' = NoCall /\ UNCHANGED answer
    BY <1>2 DEF Scan, ScanRaise, DepthInv
  <2>2. Elems(todo') = {}
    BY <2>1 DEF Elems
  <2>3. Leveled(level)'
    BY <2>1, <2>2 DEF Leveled, Elems
  <2> QED
    BY <1>0, <1>1, <2>1, <2>3 DEF DepthInv
<1>3. CASE Begin
  <2>1. Leveled(level)'
    BY <1>0, <1>3, LevelsBegin DEF Begin, DepthInv
  <2> QED
    BY <1>0, <1>1, <1>3, <2>1 DEF Begin, DepthInv
<1>4. CASE Resolve
  <2>1. Leveled(level)' /\ phase' # "scan"
    BY <1>0, <1>1, <1>4, LevelsResolve, PopTypes DEF Resolve, Remembers
  <2> QED
    BY <1>0, <1>1, <1>4, <2>1 DEF Resolve, DepthInv
<1>5. CASE GiveUp \/ \E p \in Plugins : Answer(p)
  <2>1. \E new \in [DOMAIN answer' -> 0 .. MaxDepth] : Leveled(new)'
    BY <1>0, <1>1, <1>5, AnswerExpands, LevelsExpand
  <2>2. phase' = "expand"
    BY <1>0, <1>5, AnswerExpands
  <2> QED
    BY <1>0, <2>1, <2>2 DEF DepthInv
<1>6. CASE \/ UNCHANGED vars \/ Stop \/ ListChild \/ Reject \/ Skip \/ ResolveRaise \/ Finish
           \/ \E p \in Plugins : PassOn(p) \/ Raise(p)
  <2>1. UNCHANGED <<answer, found>>
    BY <1>6 DEF vars, Stop, ListChild, Reject, Skip, ResolveRaise, Remembers, Finish, PassOn, Raise
  <2>2. Elems(todo') \subseteq Elems(todo)
    <3>1. CASE ListChild \/ Reject \/ Skip \/ ResolveRaise
      BY <1>0, <3>1, PopTypes DEF ListChild, Reject, Skip, ResolveRaise, Remembers
    <3>2. CASE Stop
      BY <3>2 DEF Stop, Elems
    <3>3. CASE UNCHANGED todo
      BY <3>3 DEF Elems
    <3> QED
      BY <1>6, <3>1, <3>2, <3>3 DEF vars, Finish, PassOn, Raise
  <2>3. \/ call' = NoCall
        \/ call # NoCall /\ call'.link = call.link /\ call'.depth = call.depth
    <3>1. CASE UNCHANGED call
      BY <3>1
    <3>2. ASSUME NEW p \in Plugins, PassOn(p)
          PROVE  call # NoCall /\ call'.link = call.link /\ call'.depth = call.depth
      <4>1. call \in Call /\ call # NoCall
        BY <1>0, <3>2 DEF PassOn, Asking, TypeInv, Shapes
      <4> QED
        BY <3>2, <4>1 DEF PassOn, Call
    <3> QED
      BY <1>6, <3>1, <3>2
      DEF vars, Stop, ListChild, Reject, Skip, ResolveRaise, Remembers, Pop, Idle, Finish, Raise
  <2>4. Leveled(level)'
    BY <1>0, <1>1, <2>1, <2>2, <2>3, LevelsKept
  <2>5. phase' = "scan" => UNCHANGED vars
    BY <1>0, <1>6, PopTypes
    DEF Stop, Idle, ListChild, Reject, Skip, ResolveRaise, Finish, PassOn, Raise, Asking
  <2> QED
    BY <1>0, <1>1, <2>1, <2>4, <2>5 DEF DepthInv, vars
<1> QED
  BY <1>2, <1>3, <1>4, <1>5, <1>6 DEF Next

\* Whatever chain of redirects and pages the servers make up, however many links
\* there are: a URL that is asked for is at most max_depth levels from a pasted one.
THEOREM AskedWithinDepth == Spec => []WithinDepth
<1>1. Init => DepthInv
  <2> SUFFICES ASSUME Init PROVE DepthInv
    OBVIOUS
  <2>1. DOMAIN answer = {} /\ Elems(todo) = {} /\ call = NoCall /\ todo = <<>>
    BY DEF Init, Elems
  <2>2. [i \in {} |-> 0] \in [DOMAIN answer -> 0 .. MaxDepth]
    BY <2>1
  <2>3. Leveled([i \in {} |-> 0])
    BY <2>1 DEF Leveled
  <2> QED
    BY <2>1, <2>2, <2>3, TypeInit DEF DepthInv
<1>2. DepthInv => WithinDepth
  <2> SUFFICES ASSUME DepthInv PROVE WithinDepth
    OBVIOUS
  <2>1. PICK level \in [DOMAIN answer -> 0 .. MaxDepth] : Leveled(level)
    BY DEF DepthInv
  <2>2. DOMAIN answer \subseteq seen
    BY DEF DepthInv, TypeInv, SeenAnswered
  <2>3. ASSUME NEW u \in DOMAIN answer
        PROVE  \/ \E l \in Pasted : u = Norm[l]
               \/ \E v \in DOMAIN answer :
                     u \in LeadsTo(v) /\ level[v] + Levels(answer[v]) <= level[u]
    BY <2>1, <2>2 DEF Leveled, LedTo, LeadsTo
  <2> QED
    BY <2>1, <2>3 DEF WithinDepth
<1> QED
  BY <1>1, <1>2, DepthStep, PTL DEF Spec
==============================================================================
