-------------------------- MODULE HelperServerProofs --------------------------
(***************************************************************************)
(* Theorems about the helper, for any handler threads, texts, file servers *)
(* and settings, and any number of requests, faults and deaths.            *)
(***************************************************************************)
EXTENDS HelperServer, TLAPS

----------------------------------------------------------------------------
(***************************************************************************)
(* The settings file and its temporary file                                *)
(***************************************************************************)
\* Just opened, or written.
Content == {<<>>} \cup {<<s>> : s \in Settings}

LEMMA NamesDiffer ==
    /\ SettingsPath \in FileNames /\ TmpPath \in FileNames
    /\ SettingsPath # TmpPath
    /\ SettingsPath # Detached /\ TmpPath # Detached
<1> QED
  BY SettingsAssumption DEF SettingsPath, TmpPath, FinalOf, PartOf, FileNames, PathValues

LEMMA ContentLemma ==
    /\ NoFile \notin Content
    /\ \A c \in Content : c \in Seq(Settings)
    /\ \A c \in Content : Len(c) = 1 => c[1] \in Settings
    /\ Defaults \in Settings /\ Unreadable \notin Settings
<1>1. \A c \in Content : c \in Seq(Settings)
  <2>1. <<>> \in Seq(Settings) /\ \A s \in Settings : <<s>> \in Seq(Settings)
    OBVIOUS
  <2> SUFFICES ASSUME NEW c \in Content PROVE c \in Seq(Settings)
    OBVIOUS
  <2>2. c = <<>> \/ \E s \in Settings : c = <<s>>
    BY DEF Content
  <2> QED
    BY <2>1, <2>2
<1>2. \A c \in Content : Len(c) = 1 => c[1] \in Settings
  BY <1>1
<1> QED
  BY <1>1, <1>2, SettingsAssumption DEF Settings

LEMMA WriteLemma ==
    ASSUME NEW c \in Content, NEW s \in Settings
    PROVE  WriteAt(c, 0, s) = <<s>>
<1>1. Len(c) \in {0, 1}
  <2>1. \A x \in Settings : Len(<<x>>) = 1
    OBVIOUS
  <2> QED
    BY <2>1 DEF Content
<1>2. PICK n : n = IF 0 < Len(c) THEN Len(c) ELSE 0 + 1
  OBVIOUS
<1>3. n = 1
  BY <1>1, <1>2
<1> DEFINE chunk(i) == CASE i = 0 + 1 -> s
                      [] i # 0 + 1 /\ i <= Len(c) -> c[i]
                      [] i # 0 + 1 /\ i > Len(c)  -> Hole
<1>4. WriteAt(c, 0, s) = [i \in 1 .. n |-> chunk(i)]
  BY <1>2 DEF WriteAt
<1>5. \A i \in 1 .. n : chunk(i) = s
  <2>1. chunk(1) = s
    OBVIOUS
  <2> QED
    BY <1>3, <2>1
<1> HIDE DEF chunk
<1>6. WriteAt(c, 0, s) = [i \in 1 .. n |-> s]
  BY <1>4, <1>5
<1>7. [i \in 1 .. 1 |-> s] = <<s>>
  OBVIOUS
<1> QED
  BY <1>3, <1>6, <1>7

\* An open file has content, whatever its name is by now.
StoreInv ==
    /\ disk \in [FileNames -> Content \cup {NoFile}]
    /\ fd \in [Handlers -> {Detached, TmpPath, SettingsPath}]
    /\ put \in [Handlers -> Put]
    /\ \A h \in Handlers : fd[h] # Detached => disk[fd[h]] \in Content

LEMMA LoadedLemma ==
    ASSUME StoreInv PROVE Loaded \in Settings \cup {Unreadable}
<1> QED
  BY NamesDiffer, ContentLemma DEF StoreInv, Loaded, Exists

LEMMA MergeTypes ==
    ASSUME StoreInv, NEW h \in Handlers, NEW k \in Keys, NEW v \in Vals, Merge(h, k, v)
    PROVE  StoreInv'
<1> DEFINE new == IF Loaded = Unreadable THEN Defaults ELSE [Loaded EXCEPT ![k] = v]
<1>1. new \in Settings
  BY LoadedLemma, ContentLemma DEF Settings
<1>2. put' = [put EXCEPT ![h] = [pc  |-> IF Loaded # Unreadable /\ Valid(new) THEN "open" ELSE "failed",
                                 new |-> new, key |-> k]]
  BY DEF Merge
<1> HIDE DEF new
<1>3. put' \in [Handlers -> Put]
  BY <1>1, <1>2 DEF StoreInv, Put
<1> QED
  BY <1>3 DEF StoreInv, Merge

LEMMA SavingTypes ==
    ASSUME StoreInv, NEW h \in Handlers, Saving(h)
    PROVE  StoreInv'
<1> USE NamesDiffer, ContentLemma DEF StoreInv, At, Put
<1>1. CASE OpenTmp(h)
  <2>1. disk' = [disk EXCEPT ![TmpPath] = <<>>]
    BY <1>1 DEF OpenTmp, Opened
  <2>2. <<>> \in Content
    BY DEF Content
  <2>3. fd' = [fd EXCEPT ![h] = TmpPath] /\ put' = [put EXCEPT ![h].pc = "write"]
    BY <1>1 DEF OpenTmp
  <2>4. disk' \in [FileNames -> Content \cup {NoFile}]
    BY <2>1, <2>2
  <2>5. \A g \in Handlers : fd'[g] # Detached => disk'[fd'[g]] \in Content
    BY <2>1, <2>2, <2>3
  <2>6. put' \in [Handlers -> Put] /\ fd' \in [Handlers -> {Detached, TmpPath, SettingsPath}]
    BY <2>3
  <2> QED
    BY <2>4, <2>5, <2>6
<1>2. CASE WriteTmp(h)
  <2>1. put[h].new \in Settings
    OBVIOUS
  <2>2. fd[h] # Detached => disk' = [disk EXCEPT ![fd[h]] = <<put[h].new>>]
    BY <1>2, <2>1, WriteLemma DEF WriteTmp, Written
  <2>3. fd[h] = Detached => disk' = disk
    BY <1>2 DEF WriteTmp, Written
  <2>4. <<put[h].new>> \in Content
    BY <2>1 DEF Content
  <2>5. \A n \in FileNames : disk[n] \in Content => disk'[n] \in Content
    BY <2>2, <2>3, <2>4
  <2>6. disk' \in [FileNames -> Content \cup {NoFile}]
    BY <2>2, <2>3, <2>4
  <2>7. fd' = [fd EXCEPT ![h] = Detached] /\ put' = [put EXCEPT ![h].pc = "replace"]
    BY <1>2 DEF WriteTmp
  <2>8. \A g \in Handlers : fd'[g] # Detached => disk'[fd'[g]] \in Content
    BY <2>5, <2>7
  <2> QED
    BY <2>6, <2>7, <2>8
<1>3. CASE WriteFail(h)
  BY <1>3 DEF WriteFail
<1>4. CASE ReplaceTmp(h)
  <2>1. disk' = [disk EXCEPT ![SettingsPath] = disk[TmpPath], ![TmpPath] = NoFile]
        /\ disk[TmpPath] \in Content
    BY <1>4 DEF ReplaceTmp, Renamed, Exists
  <2>2. \A g \in Handlers : fd'[g] = CASE fd[g] = TmpPath      -> SettingsPath
                                       [] fd[g] = SettingsPath -> Detached
                                       [] OTHER                -> fd[g]
    BY <1>4 DEF ReplaceTmp, AfterRename
  <2>3. fd' \in [Handlers -> {Detached, TmpPath, SettingsPath}]
    BY <1>4, <2>2 DEF ReplaceTmp, AfterRename
  <2>4. \A g \in Handlers : fd'[g] \in {Detached, SettingsPath}
    BY <2>2
  <2>5. disk' \in [FileNames -> Content \cup {NoFile}] /\ disk'[SettingsPath] \in Content
    BY <2>1
  <2>6. put' = [put EXCEPT ![h].pc = "saved"]
    BY <1>4 DEF ReplaceTmp
  <2> QED
    BY <2>3, <2>4, <2>5, <2>6
<1>5. CASE ReplaceFail(h)
  BY <1>5 DEF ReplaceFail
<1> QED
  BY <1>1, <1>2, <1>3, <1>4, <1>5 DEF Saving

\* The other steps end updates, or leave the store alone.
LEMMA ForgetTypes ==
    ASSUME StoreInv, disk' = disk,
           fd' = fd \/ fd' = [h \in Handlers |-> Detached],
           \/ put' = put \/ put' = [h \in Handlers |-> NoPut]
           \/ \E h \in Handlers : put' = [put EXCEPT ![h] = NoPut]
    PROVE  StoreInv'
<1>1. NoPut \in Put
  BY ContentLemma, SettingsAssumption DEF NoPut, Put, AnyKey
<1> QED
  BY <1>1 DEF StoreInv

LEMMA StoreTypes == StoreInv => StoreTypeOK
<1> SUFFICES ASSUME StoreInv PROVE StoreTypeOK
  OBVIOUS
<1>1. \A c \in Content : c \in Seq(Settings \cup {Hole})
  BY ContentLemma
<1>2. \A n \in FileNames : disk[n] \in Seq(Settings \cup {Hole}) \cup {NoFile}
  BY <1>1 DEF StoreInv
<1>3. disk \in [FileNames -> Seq(Settings \cup {Hole}) \cup {NoFile}]
  BY <1>2 DEF StoreInv
<1> QED
  BY <1>3, NamesDiffer DEF StoreTypeOK, StoreInv

----------------------------------------------------------------------------
(***************************************************************************)
(* Types                                                                   *)
(***************************************************************************)
AppTypes ==
    /\ up \in BOOLEAN
    /\ app \in [{"app", "queue", "engine"} -> Settings]
    /\ kept \in [Keys -> SUBSET Vals]
    /\ clashed \in BOOLEAN

NativeTypes ==
    /\ cache \in [Texts -> [at : Nat \cup {Never}, urls : SUBSET Urls]]
    /\ now \in Nat
    /\ budget \in [Kinds -> Nat]
    /\ given \in [Texts -> [Urls -> Nat \cup {Never}]]
    /\ vetted \subseteq Https /\ \A u \in vetted : Preflight(u)

\* What the relay promised of a URL that passes the preflight.
Kept(r) ==
    r.failed = TRUE \/ ~r.head \/ ~Preflight(r.url)
    \/ /\ r.status = 200
       /\ Site[r.url].range # "untotalled" => r.length \in {Size, Untold}

\* Retries are counted from 0; what a handler reads after an answer is its own text.
Sound(r) ==
    /\ r.pc = "sleep" => r.tries + 1 < Retries
    /\ r.pc \in {"resolve", "sleep", "cache", "vet"} => r.text \in Texts
    /\ r.pc \in {"connect", "fallback"} => r.url \in Urls
    /\ r.pc = "fallback" => Site[r.url].head = "refused"
    /\ r.pc = "ended" => Kept(r)

Requests == req \in [Handlers -> Request] /\ \A h \in Handlers : Sound(req[h])

TypeInv == StoreInv /\ AppTypes /\ NativeTypes /\ Requests

LEMMA NumbersLemma ==
    /\ Size \in Nat /\ Size > 0 /\ Retries \in Nat /\ Retries > 0
    /\ Untold \in Nat /\ Untold = Size + 1
<1> QED
  BY HelperAssumption DEF Untold

\* What becomes of a request when some of its fields change, one lemma per set of fields.
Pcs == {"idle", "resolve", "sleep", "cache", "vet", "connect", "fallback", "copy",
        "ended", "lost", "save", "publish", "queue", "engine"}
Statuses == {0, 200, 206, 403, 404, 416, 502}

\* The requests the actions make of r.
WithPc(r, p) == [r EXCEPT !.pc = p]
WithText(r, p, x) == [r EXCEPT !.pc = p, !.text = x]
WithTry(r) == [r EXCEPT !.pc = "resolve", !.tries = r.tries + 1]
WithDirect(r, p, d) == [r EXCEPT !.pc = p, !.direct = d]
WithNative(r, d, n) == [r EXCEPT !.direct = d, !.native = n]
WithUrl(r, u, head, from) == [r EXCEPT !.pc = "connect", !.url = u, !.head = head, !.from = from]
WithReply(r, p, s, n) == [r EXCEPT !.pc = p, !.status = s, !.length = n]
WithFault(r, s) == [r EXCEPT !.pc = "ended", !.status = s, !.length = Untold, !.failed = TRUE]
WithBody(r, s, n, from) == [r EXCEPT !.pc = "copy", !.status = s, !.length = n, !.from = from]
WithSent(r) == [r EXCEPT !.sent = @ + 1]

LEMMA SetPc ==
    ASSUME NEW r \in Request, NEW p \in Pcs
    PROVE  LET q == WithPc(r, p)
           IN  q \in Request /\ q.pc = p /\ q.text = r.text /\ q.tries = r.tries /\ q.url = r.url
                /\ q.direct = r.direct /\ q.native = r.native /\ q.head = r.head
<1> QED
  BY DEF Request, Pcs, WithPc

LEMMA SetText ==
    ASSUME NEW r \in Request, NEW p \in Pcs, NEW x \in Texts
    PROVE  LET q == WithText(r, p, x)
           IN  q \in Request /\ q.pc = p /\ q.text = x /\ q.native = r.native
<1> DEFINE a == WithPc(r, p)
           b == [a EXCEPT !.text = x]
<1>1. a \in Request /\ a.pc = p /\ a.native = r.native
  BY SetPc
<1>2. b = WithText(r, p, x)
  BY DEF WithText, WithPc
<1> HIDE DEF a
<1>3. b \in Request /\ b.pc = p /\ b.text = x /\ b.native = a.native
  BY <1>1 DEF Request
<1> QED
  BY <1>1, <1>2, <1>3

LEMMA SetTries ==
    ASSUME NEW r \in Request, r.tries + 1 < Retries
    PROVE  LET q == WithTry(r)
           IN  q \in Request /\ q.pc = "resolve" /\ q.text = r.text /\ q.native = r.native
<1> DEFINE a == WithPc(r, "resolve")
           b == [a EXCEPT !.tries = @ + 1]
<1>1. a \in Request /\ a.pc = "resolve" /\ a.text = r.text /\ a.tries = r.tries
      /\ a.native = r.native
  BY SetPc DEF Pcs
<1>2. b = WithTry(r)
  BY DEF WithTry, WithPc, Request
<1> HIDE DEF a
<1>3. a.tries + 1 \in 0 .. Retries
  BY <1>1, NumbersLemma DEF Request
<1>4. b \in Request /\ b.pc = "resolve" /\ b.text = a.text /\ b.native = a.native
  BY <1>1, <1>3 DEF Request
<1> QED
  BY <1>1, <1>2, <1>4

LEMMA SetDirect ==
    ASSUME NEW r \in Request, NEW p \in Pcs, NEW d \in SUBSET Urls
    PROVE  LET q == WithDirect(r, p, d)
           IN  q \in Request /\ q.pc = p /\ q.text = r.text /\ q.tries = r.tries
                /\ q.direct = d /\ q.native = r.native
<1> DEFINE a == WithPc(r, p)
           b == [a EXCEPT !.direct = d]
<1>1. a \in Request /\ a.pc = p /\ a.text = r.text /\ a.tries = r.tries /\ a.native = r.native
  BY DEF Request, Pcs, WithPc
<1>2. b = WithDirect(r, p, d)
  BY DEF WithDirect, WithPc
<1> HIDE DEF a
<1>3. b \in Request /\ b.pc = p /\ b.text = a.text /\ b.tries = a.tries /\ b.direct = d /\ b.native = a.native
  BY <1>1 DEF Request
<1> QED
  BY <1>1, <1>2, <1>3

LEMMA SetNative ==
    ASSUME NEW r \in Request, NEW d \in SUBSET Urls, NEW n \in SUBSET Urls
    PROVE  LET q == WithNative(r, d, n)
           IN  q \in Request /\ q.pc = r.pc /\ q.text = r.text /\ q.direct = d /\ q.native = n
<1> DEFINE a == [r EXCEPT !.direct = d]
           b == [a EXCEPT !.native = n]
<1>1. a \in Request /\ a.pc = r.pc /\ a.text = r.text /\ a.direct = d
  BY DEF Request
<1>2. b = WithNative(r, d, n)
  BY DEF WithNative
<1> HIDE DEF a
<1>3. b \in Request /\ b.pc = a.pc /\ b.text = a.text /\ b.direct = a.direct /\ b.native = n
  BY <1>1 DEF Request
<1> QED
  BY <1>1, <1>2, <1>3

LEMMA SetUrl ==
    ASSUME NEW r \in Request, NEW u \in Urls, NEW head \in BOOLEAN, NEW from \in 0 .. Size
    PROVE  LET q == WithUrl(r, u, head, from)
           IN  q \in Request /\ q.pc = "connect" /\ q.url = u /\ q.head = head
<1> DEFINE a == WithPc(r, "connect")
           b == [a EXCEPT !.url = u]
           c == [b EXCEPT !.head = head]
           d == [c EXCEPT !.from = from]
<1>1. a \in Request /\ a.pc = "connect"
  BY SetPc DEF Pcs
<1>2. d = WithUrl(r, u, head, from)
  BY DEF WithUrl, WithPc, Request
<1> HIDE DEF a
<1>3. b \in Request /\ b.pc = a.pc /\ b.url = u
  BY <1>1 DEF Request
<1> HIDE DEF b
<1>4. c \in Request /\ c.pc = b.pc /\ c.url = b.url /\ c.head = head
  BY <1>3 DEF Request
<1> HIDE DEF c
<1>5. d \in Request /\ d.pc = c.pc /\ d.url = c.url /\ d.head = c.head
  BY <1>4 DEF Request
<1> QED
  BY <1>1, <1>2, <1>3, <1>4, <1>5

LEMMA SetReply ==
    ASSUME NEW r \in Request, NEW p \in Pcs, NEW s \in Statuses, NEW n \in 0 .. Untold
    PROVE  LET q == WithReply(r, p, s, n)
           IN  /\ q \in Request /\ q.pc = p /\ q.status = s /\ q.length = n
               /\ q.url = r.url /\ q.head = r.head /\ q.failed = r.failed
<1> DEFINE a == WithPc(r, p)
           b == [a EXCEPT !.status = s]
           c == [b EXCEPT !.length = n]
<1>1. a \in Request /\ a.pc = p /\ a.url = r.url /\ a.head = r.head /\ a.failed = r.failed
  BY DEF Request, Pcs, WithPc
<1>2. c = WithReply(r, p, s, n)
  BY DEF WithReply, WithPc, Request
<1> HIDE DEF a
<1>3. b \in Request /\ b.pc = a.pc /\ b.status = s /\ b.url = a.url /\ b.head = a.head
      /\ b.failed = a.failed
  BY <1>1 DEF Request, Statuses
<1> HIDE DEF b
<1>4. c \in Request /\ c.pc = b.pc /\ c.status = b.status /\ c.length = n /\ c.url = b.url
      /\ c.head = b.head /\ c.failed = b.failed
  BY <1>3 DEF Request
<1> QED
  BY <1>1, <1>2, <1>3, <1>4

LEMMA SetFailed ==
    ASSUME NEW r \in Request
    PROVE  LET q == [r EXCEPT !.failed = TRUE]
           IN  q \in Request /\ q.pc = r.pc /\ q.failed = TRUE
<1>1. PICK f \in BOOLEAN : f = TRUE
  OBVIOUS
<1>2. [r EXCEPT !.failed = f] \in Request /\ [r EXCEPT !.failed = f].pc = r.pc
      /\ [r EXCEPT !.failed = f].failed = f
  BY DEF Request
<1> QED
  BY <1>1, <1>2, Zenon

LEMMA SetBroken ==
    ASSUME NEW r \in Request, NEW s \in Statuses
    PROVE  LET q == WithFault(r, s)
           IN  q \in Request /\ q.pc = "ended" /\ q.failed = TRUE
<1> DEFINE a == WithPc(r, "ended")
           b == [a EXCEPT !.status = s]
           c == [b EXCEPT !.length = Untold]
           d == [c EXCEPT !.failed = TRUE]
<1>0. Untold \in 0 .. Untold
  BY NumbersLemma
<1>1. a \in Request /\ a.pc = "ended"
  BY SetPc DEF Pcs
<1>2. d = WithFault(r, s)
  BY DEF WithFault, WithPc, Request
<1> HIDE DEF a
<1>3. b \in Request /\ b.pc = a.pc
  BY <1>1 DEF Request, Statuses
<1> HIDE DEF b
<1>4. c \in Request /\ c.pc = b.pc
  BY <1>0, <1>3 DEF Request
<1> HIDE DEF c
<1>5. d \in Request /\ d.pc = c.pc /\ d.failed = TRUE
  BY <1>4, SetFailed
<1> QED
  BY <1>1, <1>2, <1>3, <1>4, <1>5

LEMMA SetStream ==
    ASSUME NEW r \in Request, NEW s \in Statuses, NEW n \in 0 .. Untold, NEW from \in 0 .. Size
    PROVE  LET q == WithBody(r, s, n, from)
           IN  q \in Request /\ q.pc = "copy" /\ q.head = r.head
<1> DEFINE a == WithPc(r, "copy")
           b == [a EXCEPT !.status = s]
           c == [b EXCEPT !.length = n]
           d == [c EXCEPT !.from = from]
<1>1. a \in Request /\ a.pc = "copy" /\ a.head = r.head
  BY SetPc DEF Pcs
<1>2. d = WithBody(r, s, n, from)
  BY DEF WithBody, WithPc, Request
<1> HIDE DEF a
<1>3. b \in Request /\ b.pc = a.pc /\ b.head = a.head
  BY <1>1 DEF Request, Statuses
<1> HIDE DEF b
<1>4. c \in Request /\ c.pc = b.pc /\ c.head = b.head
  BY <1>3 DEF Request
<1> HIDE DEF c
<1>5. d \in Request /\ d.pc = c.pc /\ d.head = c.head
  BY <1>4 DEF Request
<1> QED
  BY <1>1, <1>2, <1>3, <1>4, <1>5

LEMMA SetSent ==
    ASSUME NEW r \in Request, r.sent < Size - r.from
    PROVE  LET q == WithSent(r)
           IN  q \in Request /\ q.pc = r.pc /\ q.head = r.head
<1>1. r.sent + 1 \in 0 .. Size
  BY NumbersLemma DEF Request
<1> QED
  BY <1>1 DEF Request, WithSent

\* The requests a handler accepts, and what it leaves behind.
LEMMA IdleTypes ==
    /\ Idle \in Request /\ Idle.pc = "idle" /\ ~Idle.head /\ Idle.native = {}
    /\ \A p \in {"ended", "lost", "save"} :
          WithPc(Idle, p) \in Request /\ WithPc(Idle, p).pc = p /\ ~WithPc(Idle, p).head
<1>1. Idle \in Request /\ Idle.pc = "idle" /\ ~Idle.head /\ Idle.native = {}
  <2>1. 0 \in 0 .. Retries /\ 0 \in 0 .. Size /\ 0 \in 0 .. Untold
    BY NumbersLemma
  <2> QED
    BY <2>1 DEF Idle, Request
<1> QED
  BY <1>1, SetPc DEF Pcs

\* A handler's request becomes another.
Takes(h, q) == req' = [req EXCEPT ![h] = q]

LEMMA Becomes ==
    ASSUME Requests, NEW h \in Handlers, NEW q \in Request, Sound(q), Takes(h, q)
    PROVE  Requests' /\ req'[h] = q /\ \A g \in Handlers \ {h} : req'[g] = req[g]
<1> QED
  BY DEF Requests, Takes

\* What a handler's step makes of its request, when that is at one of pcs.
Turns(h, pcs) == \E q \in Request : Takes(h, q) /\ Sound(q) /\ q.pc \in pcs

LEMMA Left ==
    ASSUME NEW h \in Handlers, NEW p \in {"ended", "lost", "save"},
           Takes(h, [Idle EXCEPT !.pc = p])
    PROVE  Turns(h, {p})
<1>1. Takes(h, WithPc(Idle, p))
  BY DEF WithPc
<1>2. WithPc(Idle, p) \in Request /\ Sound(WithPc(Idle, p)) /\ WithPc(Idle, p).pc = p
  BY IdleTypes DEF Sound, Kept
<1> QED
  BY <1>1, <1>2 DEF Turns

LEMMA Turned ==
    ASSUME Requests, NEW h \in Handlers, NEW pcs, Turns(h, pcs)
    PROVE  Requests' /\ req'[h].pc \in pcs /\ \A g \in Handlers \ {h} : req'[g] = req[g]
<1> QED
  BY Becomes DEF Turns

LEMMA SpendTypes ==
    ASSUME budget \in [Kinds -> Nat], NEW b \in Kinds, Spend(b)
    PROVE  budget' \in [Kinds -> Nat]
<1> QED
  BY DEF Spend

\* resolve-native changes requests, the cache and the history of answers.
NativePcs == {"resolve", "sleep", "cache", "vet"}

LEMMA NativeStep ==
    ASSUME TypeInv, NEW h \in Handlers,
           \/ \E x \in Texts : AskNative(h, x)
           \/ Resolve(h) \/ ResolveRaise(h) \/ Sleep(h) \/ Cache(h)
           \/ Vet(h) \/ VetFail(h) \/ ReplyNative(h)
    PROVE  /\ TypeInv'
           /\ req'[h].pc \in NativePcs \cup {"ended", "lost"}
           /\ \A g \in Handlers \ {h} : req'[g] = req[g]
<1>0. UNCHANGED <<store, up, app, kept, clashed>>
  BY DEF AskNative, Resolve, ResolveRaise, Sleep, Cache, Vet, VetFail, ReplyNative, store, history
<1>1. StoreInv' /\ AppTypes'
  BY <1>0 DEF store, StoreInv, AppTypes, TypeInv
<1> DEFINE r == req[h]
<1> DEFINE Moved == /\ req'[h].pc \in NativePcs \cup {"ended", "lost"}
                    /\ \A g \in Handlers \ {h} : req'[g] = req[g]
<1>2. r \in Request /\ Sound(r)
  BY DEF TypeInv, Requests
<1>3. NativeTypes /\ Requests
  BY DEF TypeInv
<1>4. r.direct \in SUBSET Urls /\ r.native \in SUBSET Urls
  BY <1>2 DEF Request
<1>5. ASSUME NEW x \in Texts, AskNative(h, x) PROVE NativeTypes' /\ Requests' /\ Moved
  <2> DEFINE q == WithText(Idle, "resolve", x)
  <2>1. q \in Request /\ q.pc = "resolve" /\ q.text = x
    BY IdleTypes, SetText DEF Pcs
  <2>2. Takes(h, q)
    BY <1>5 DEF AskNative, Accept, WithText, Takes
  <2> HIDE DEF q
  <2>3. Requests' /\ Moved
    BY <1>3, <2>1, <2>2, Becomes DEF Sound, NativePcs
  <2>4. budget' \in [Kinds -> Nat]
    BY <1>3, <1>5, SpendTypes DEF AskNative, Accept, NativeTypes, Kinds
  <2> QED
    BY <1>3, <1>5, <2>3, <2>4 DEF AskNative, Accept, history, NativeTypes
<1>6. CASE Resolve(h)
  <2>0. PICK direct \in Outcomes(r.text), challenged \in BOOLEAN :
          LET again == direct = {} /\ challenged /\ r.tries + 1 < Retries
          IN  /\ Takes(h, WithDirect(r, IF again THEN "sleep" ELSE "cache", direct))
              /\ given' = [given EXCEPT ![r.text] =
                             [u \in Urls |-> IF u \in direct THEN now ELSE @[u]]]
    BY <1>6, Zenon DEF Resolve, WithDirect, Takes
  <2>1. PICK p \in {"sleep", "cache"} :
          Takes(h, WithDirect(r, p, direct)) /\ (p = "sleep" => r.tries + 1 < Retries)
    BY <2>0
  <2> DEFINE q == WithDirect(r, p, direct)
  <2>2. direct \in SUBSET Urls /\ r.text \in Texts
    BY <1>2, <1>6, HelperAssumption DEF Resolve, Outcomes, Sound
  <2>3. q \in Request /\ q.pc = p /\ q.text = r.text /\ q.tries = r.tries
    BY <1>2, <2>2, SetDirect DEF Pcs
  <2>4. Takes(h, q)
    BY <2>1
  <2> HIDE DEF q
  <2>5. Requests' /\ Moved
    BY <1>3, <2>1, <2>2, <2>3, <2>4, Becomes DEF Sound, NativePcs
  <2>6. given' \in [Texts -> [Urls -> Nat \cup {Never}]]
    BY <1>3, <2>0, <2>2 DEF NativeTypes
  <2>7. UNCHANGED <<cache, now, budget, vetted>>
    BY <1>6 DEF Resolve
  <2> QED
    BY <1>1, <1>3, <2>5, <2>6, <2>7 DEF NativeTypes, TypeInv
<1>7. CASE ResolveRaise(h) \/ ReplyNative(h)
  <2>1. UNCHANGED <<cache, now, budget, given, vetted>>
    BY <1>7 DEF ResolveRaise, ReplyNative, history
  <2>2. Requests' /\ Moved
    BY <1>3, <1>7, Left, Turned DEF ResolveRaise, ReplyNative, Leave, Takes
  <2> QED
    BY <1>1, <1>3, <2>1, <2>2 DEF NativeTypes, TypeInv
<1>8. CASE Sleep(h)
  <2> DEFINE q == WithTry(r)
  <2>1. Takes(h, q)
    BY <1>8, Zenon DEF Sleep, WithTry, Takes
  <2>2. r.tries + 1 < Retries /\ r.text \in Texts
    BY <1>2, <1>8 DEF Sleep, Sound
  <2>3. q \in Request /\ q.pc = "resolve" /\ q.text = r.text
    BY <1>2, <2>2, SetTries
  <2> HIDE DEF q
  <2>4. Requests' /\ Moved
    BY <1>3, <2>1, <2>2, <2>3, Becomes DEF Sound, NativePcs
  <2>5. UNCHANGED <<cache, now, budget, given, vetted>>
    BY <1>8 DEF Sleep, history
  <2> QED
    BY <1>1, <1>3, <2>4, <2>5 DEF NativeTypes, TypeInv
<1>9. CASE Cache(h)
  <2>1. r.text \in Texts /\ r.pc = "cache"
    BY <1>2, <1>9 DEF Cache, Sound
  <2>2. PICK q \in Request : Takes(h, q) /\ q.pc = "vet" /\ q.text = r.text
    <3>1. CASE Goto(h, "vet")
      <4>1. Takes(h, WithPc(r, "vet"))
        BY <1>2, <3>1 DEF Goto, WithPc, Takes
      <4> QED
        BY <1>2, <4>1, SetPc DEF Pcs
    <3>2. ASSUME NEW d, d = cache[r.text].urls \/ d = {},
                 Takes(h, WithDirect(r, "vet", d))
          PROVE  \E q \in Request :
                   Takes(h, q) /\ q.pc = "vet" /\ q.text = r.text
      <4>1. d \in SUBSET Urls
        BY <1>3, <2>1, <3>2 DEF NativeTypes
      <4> QED
        BY <1>2, <3>2, <4>1, SetDirect DEF Pcs
    <3> QED
      BY <1>2, <1>9, <3>1, <3>2, Zenon DEF Cache, WithDirect, Takes
  <2>3. Requests' /\ Moved
    BY <1>3, <2>1, <2>2, Becomes DEF Sound, NativePcs
  <2>4. cache' \in [Texts -> [at : Nat \cup {Never}, urls : SUBSET Urls]]
    BY <1>2, <1>3, <1>4, <1>9, <2>1 DEF Cache, NativeTypes
  <2>5. UNCHANGED <<now, budget, given, vetted>>
    BY <1>9 DEF Cache, history
  <2> QED
    BY <1>1, <1>3, <2>3, <2>4, <2>5 DEF NativeTypes, TypeInv
<1>10. CASE Vet(h) \/ VetFail(h)
  <2>1. r.text \in Texts /\ r.pc = "vet"
    BY <1>2, <1>10 DEF Vet, VetFail, Sound
  <2>2. PICK q \in Request : Takes(h, q) /\ q.pc = "vet" /\ q.text = r.text
    <3>1. ASSUME NEW u, NEW n \in SUBSET Urls,
                 Takes(h, WithNative(r, r.direct \ {u}, n))
          PROVE  \E q \in Request :
                   Takes(h, q) /\ q.pc = "vet" /\ q.text = r.text
      <4>1. r.direct \ {u} \in SUBSET Urls
        BY <1>4
      <4> QED
        BY <1>2, <2>1, <3>1, <4>1, SetNative
    <3>2. CASE Vet(h)
      <4>1. PICK u \in r.direct :
              Takes(h, WithNative(r, r.direct \ {u},
                        IF u \in Https /\ ~Preflight(u) THEN r.native ELSE r.native \cup {u}))
        BY <3>2, Zenon DEF Vet, WithNative, Takes
      <4>2. PICK n \in SUBSET Urls :
              n = IF u \in Https /\ ~Preflight(u) THEN r.native ELSE r.native \cup {u}
        BY <1>4
      <4> QED
        BY <3>1, <4>1, <4>2
    <3>3. CASE VetFail(h)
      <4>1. PICK u \in r.direct :
              Takes(h, [r EXCEPT !.direct = r.direct \ {u}])
        BY <1>2, <3>3, Zenon DEF VetFail, Takes
      <4>2. [r EXCEPT !.direct = r.direct \ {u}] = WithNative(r, r.direct \ {u}, r.native)
        BY DEF Request, WithNative
      <4> QED
        BY <1>4, <3>1, <4>1, <4>2
    <3> QED
      BY <1>10, <3>2, <3>3
  <2>3. Requests' /\ Moved
    BY <1>3, <2>1, <2>2, Becomes DEF Sound, NativePcs
  <2>4. vetted' \subseteq Https /\ \A u \in vetted' : Preflight(u)
    BY <1>3, <1>10 DEF Vet, VetFail, NativeTypes, history
  <2>5. budget' \in [Kinds -> Nat]
    BY <1>3, <1>10, SpendTypes DEF Vet, VetFail, NativeTypes, Kinds
  <2>6. UNCHANGED <<cache, now, given>>
    BY <1>10 DEF Vet, VetFail, history
  <2> QED
    BY <1>1, <1>3, <2>3, <2>4, <2>5, <2>6 DEF NativeTypes, TypeInv
<1> QED
  BY <1>1, <1>5, <1>6, <1>7, <1>8, <1>9, <1>10 DEF TypeInv

\* The relay changes requests only.
RelayPcs == {"connect", "fallback", "copy", "ended", "lost"}

LEMMA RelayStep ==
    ASSUME TypeInv, NEW h \in Handlers,
           \/ \E u \in Urls, head \in BOOLEAN, from \in 0 .. Size : AskRelay(h, u, head, from)
           \/ ConnectHead(h) \/ ConnectGet(h) \/ ConnectFail(h) \/ Fallback(h)
           \/ FallbackFail(h) \/ Copy(h) \/ CopyFail(h)
    PROVE  TypeInv' /\ Turns(h, RelayPcs)
<1>0. UNCHANGED <<store, up, app, cache, now, history>>
  BY DEF AskRelay, ConnectHead, ConnectGet, ConnectFail, Fallback, FallbackFail, Copy, CopyFail
<1>1. budget' \in [Kinds -> Nat]
  BY SpendTypes DEF AskRelay, Accept, ConnectHead, ConnectGet, ConnectFail, Fallback,
                    FallbackFail, Copy, CopyFail, TypeInv, NativeTypes, Kinds
<1>2. StoreInv' /\ AppTypes' /\ NativeTypes'
  BY <1>0, <1>1 DEF store, history, StoreInv, AppTypes, NativeTypes, TypeInv
<1>3. Requests
  BY DEF TypeInv
<1> DEFINE r == req[h]
<1>4. r \in Request /\ Sound(r)
  BY <1>3 DEF Requests
<1> SUFFICES Turns(h, RelayPcs)
  BY <1>2, <1>3, Turned DEF TypeInv
<1>5. ASSUME NEW q \in Request, q.pc = "ended" => Kept(q), q.pc \in {"ended", "copy"}, Takes(h, q)
      PROVE  Turns(h, RelayPcs)
  BY <1>5 DEF Sound, Turns, RelayPcs
<1>6. ASSUME NEW s \in Statuses, NEW n \in 0 .. Untold, Relay(h, s, n),
             \/ ~r.head \/ ~Preflight(r.url)
             \/ s = 200 /\ (Site[r.url].range # "untotalled" => n \in {Size, Untold})
      PROVE  Turns(h, RelayPcs)
  <2>1. Takes(h, WithReply(r, "ended", s, n))
    BY <1>4, <1>6, Zenon DEF Relay, WithReply, Takes
  <2>2. "ended" \in Pcs
    BY DEF Pcs
  <2> DEFINE q == WithReply(r, "ended", s, n)
  <2>3. /\ q \in Request /\ q.pc = "ended" /\ q.status = s /\ q.length = n
        /\ q.url = r.url /\ q.head = r.head
    BY <1>4, <1>6, <2>2, SetReply
  <2> HIDE DEF q
  <2>4. Kept(q)
    BY <1>6, <2>3 DEF Kept
  <2> QED
    BY <1>5, <2>1, <2>3, <2>4 DEF q
<1>7. ASSUME NEW s \in Statuses, Broken(h, s) PROVE Turns(h, RelayPcs)
  <2>1. Takes(h, WithFault(r, s))
    BY <1>4, <1>7, Zenon DEF Broken, WithFault, Takes
  <2> DEFINE q == WithFault(r, s)
  <2>2. q \in Request /\ q.pc = "ended" /\ q.failed = TRUE
    BY <1>4, SetBroken
  <2> HIDE DEF q
  <2> QED
    BY <1>5, <2>1, <2>2 DEF q, Kept
<1>8. ASSUME NEW s \in Statuses, NEW n \in 0 .. Untold, NEW from \in 0 .. Size,
             Stream(h, s, n, from)
      PROVE  Turns(h, RelayPcs)
  <2>1. Takes(h, WithBody(r, s, n, from))
    BY <1>4, <1>8, Zenon DEF Stream, WithBody, Takes
  <2> QED
    BY <1>4, <1>5, <2>1, SetStream
<1>9. \A u \in Urls, n \in 0 .. Size : Told(u, n) \in 0 .. Untold
  BY NumbersLemma DEF Told
<1>10. Size \in 0 .. Untold /\ Size \in 0 .. Size /\ Untold \in 0 .. Untold /\ 0 \in 0 .. Size
       /\ 1 \in 0 .. Untold
  BY NumbersLemma
<1>11. {200, 206, 403, 404, 416, 502} \subseteq Statuses
  BY DEF Statuses
<1>12. CASE \E u \in Urls, head \in BOOLEAN, from \in 0 .. Size : AskRelay(h, u, head, from)
  <2>1. PICK u \in Urls, head \in BOOLEAN, from \in 0 .. Size : AskRelay(h, u, head, from)
    BY <1>12
  <2> DEFINE q == WithUrl(Idle, u, head, from)
  <2>2. q \in Request /\ q.pc = "connect" /\ q.url = u
    BY IdleTypes, SetUrl
  <2>3. Takes(h, q)
    BY <2>1 DEF AskRelay, Accept, WithUrl, Takes
  <2> HIDE DEF q
  <2> QED
    BY <2>2, <2>3 DEF Sound, Turns, RelayPcs
<1>13. r.pc \in {"connect", "fallback"} => r.url \in Urls
  BY <1>4 DEF Sound
<1>14. CASE ConnectHead(h)
  <2>1. CASE Goto(h, "fallback") /\ Site[r.url].head = "refused"
    <3> DEFINE q == WithPc(r, "fallback")
    <3>1. Takes(h, q)
      BY <1>4, <2>1 DEF Goto, WithPc, Takes
    <3>2. q \in Request /\ q.pc = "fallback" /\ q.url = r.url
      BY <1>4, SetPc DEF Pcs
    <3> HIDE DEF q
    <3>3. r.pc = "connect" /\ Site[r.url].head = "refused"
      BY <1>14, <2>1 DEF ConnectHead
    <3> QED
      BY <1>13, <3>1, <3>2, <3>3 DEF Sound, Turns, RelayPcs
  <2>2. CASE r.url \in Urls /\ Relay(h, 200, Told(r.url, Size))
    BY <1>6, <1>9, <1>10, <1>11, <2>2 DEF Told
  <2>3. CASE Relay(h, 404, Untold) /\ Site[r.url].head = "error"
    <3>1. ~Preflight(r.url)
      BY <2>3 DEF Preflight
    <3> QED
      BY <1>6, <1>10, <1>11, <2>3, <3>1
  <2> QED
    BY <1>13, <1>14, <2>1, <2>2, <2>3 DEF ConnectHead
<1>15. CASE ConnectGet(h)
  <2>1. r.from \in 0 .. Size /\ r.url \in Urls
    BY <1>4, <1>13, <1>15 DEF ConnectGet, Request
  <2>2. Size - r.from \in 0 .. Size
    BY <2>1, NumbersLemma
  <2>3. CASE (Relay(h, 403, Untold) \/ Relay(h, 416, Untold)) /\ ~r.head
    BY <1>6, <1>10, <1>11, <2>3
  <2>4. CASE Stream(h, 206, Told(r.url, Size - r.from), r.from)
    BY <1>8, <1>9, <1>11, <2>1, <2>2, <2>4
  <2>5. CASE Stream(h, 200, Told(r.url, Size), 0)
    BY <1>8, <1>9, <1>10, <1>11, <2>1, <2>5
  <2> QED
    BY <1>4, <1>15, <2>3, <2>4, <2>5, Zenon DEF ConnectGet
<1>16. CASE Fallback(h)
  <2>1. r.url \in Urls
    BY <1>4, <1>13, <1>16 DEF Fallback
  <2>2. Site[r.url].range \in {"ranged", "whole", "untotalled", "refused"}
    BY <2>1, HelperAssumption
  <2>3. CASE Site[r.url].range = "refused"
    <3>1. ~Preflight(r.url)
      BY <1>4, <1>16, <2>3 DEF Preflight, Fallback, Sound
    <3>2. Relay(h, 403, Untold)
      BY <1>16, <2>3 DEF Fallback
    <3> QED
      BY <1>6, <1>10, <1>11, <3>1, <3>2
  <2>4. CASE Site[r.url].range = "whole"
    <3>1. Relay(h, 200, Told(r.url, Size))
      BY <1>16, <2>4 DEF Fallback
    <3>2. Told(r.url, Size) \in {Size, Untold}
      BY DEF Told
    <3> QED
      BY <1>6, <1>10, <1>11, <3>1, <3>2
  <2>5. CASE Site[r.url].range = "ranged"
    <3>1. Relay(h, 200, Size)
      BY <1>16, <2>5 DEF Fallback
    <3> QED
      BY <1>6, <1>10, <1>11, <3>1
  <2>6. CASE Site[r.url].range = "untotalled"
    <3>1. Relay(h, 200, 1)
      BY <1>16, <2>6 DEF Fallback
    <3> QED
      BY <1>6, <1>10, <1>11, <2>6, <3>1
  <2> QED
    BY <2>2, <2>3, <2>4, <2>5, <2>6
<1>17. CASE ConnectFail(h) \/ FallbackFail(h)
  BY <1>7, <1>11, <1>17 DEF ConnectFail, FallbackFail
<1>18. CASE Copy(h)
  <2>1. CASE req' = [req EXCEPT ![h].sent = @ + 1] /\ r.sent < Size - r.from /\ r.pc = "copy"
    <3>1. Takes(h, WithSent(r))
      BY <1>4, <2>1, Zenon DEF WithSent, Takes
    <3> QED
      BY <1>4, <1>5, <2>1, <3>1, SetSent
  <2>2. CASE Takes(h, [Idle EXCEPT !.pc = "ended"])
    BY <2>2, Left DEF Takes, Turns, RelayPcs
  <2> QED
    BY <1>4, <1>18, <2>1, <2>2 DEF Copy, Takes
<1>19. CASE CopyFail(h)
  BY <1>19, Left DEF CopyFail, Leave, Takes, Turns, RelayPcs
<1> QED
  BY <1>12, <1>14, <1>15, <1>16, <1>17, <1>18, <1>19

\* PUT changes the store, the settings and requests.
PutPcs == {"save", "queue", "engine", "ended"}

LEMMA PutStep ==
    ASSUME TypeInv, NEW h \in Handlers,
           \/ \E k \in Keys, v \in Vals : AskPut(h, k, v)
           \/ Save(h) \/ PutFail(h) \/ Publish(h) \/ SetQueue(h) \/ SetEngine(h)
    PROVE  TypeInv' /\ (Turns(h, PutPcs) \/ req' = req)
<1>1. StoreInv'
  BY MergeTypes, SavingTypes, ForgetTypes
  DEF AskPut, Save, PutFail, Publish, SetQueue, SetEngine, store, TypeInv
<1>2. NativeTypes'
  BY SpendTypes DEF AskPut, Accept, Save, PutFail, Publish, SetQueue, SetEngine, NativeTypes,
                    history, Kinds, TypeInv
<1>3. put[h].new \in Settings /\ put[h].key \in Keys
  BY DEF StoreInv, Put, TypeInv
<1>4. AppTypes'
  BY <1>3 DEF AskPut, Accept, Save, PutFail, Publish, SetQueue, SetEngine, AppTypes, history,
              Settings, TypeInv
<1>5. Requests
  BY DEF TypeInv
<1>6. Turns(h, PutPcs) \/ req' = req
  <2> DEFINE r == req[h]
  <2>1. r \in Request /\ Sound(r)
    BY <1>5 DEF Requests
  <2>2. ASSUME NEW p \in {"queue", "engine"}, Goto(h, p) PROVE Turns(h, PutPcs)
    <3>1. Takes(h, WithPc(r, p))
      BY <2>2, Zenon DEF Goto, WithPc, Takes
    <3>2. WithPc(r, p) \in Request /\ Sound(WithPc(r, p)) /\ WithPc(r, p).pc = p
      BY <2>1, SetPc DEF Pcs, Sound
    <3> QED
      BY <3>1, <3>2 DEF Turns, PutPcs
  <2>3. CASE Publish(h) \/ SetQueue(h)
    BY <2>2, <2>3 DEF Publish, SetQueue
  <2>4. CASE Save(h)
    BY <2>4 DEF Save
  <2>5. CASE PutFail(h) \/ SetEngine(h) \/ \E k \in Keys, v \in Vals : AskPut(h, k, v)
    BY <2>5, Left DEF PutFail, SetEngine, AskPut, Accept, Leave, Takes, Turns, PutPcs
  <2> QED
    BY <2>3, <2>4, <2>5
<1>7. Requests'
  BY <1>5, <1>6, Turned DEF Requests
<1> QED
  BY <1>1, <1>2, <1>4, <1>6, <1>7 DEF TypeInv

LEMMA AppLemma ==
    ASSUME NEW s \in Settings
    PROVE  AppOf(s) \in [{"app", "queue", "engine"} -> Settings]
<1>1. AppOf(s) = [x \in {"app", "queue", "engine"} |-> s]
  BY DEF AppOf
<1> QED
  BY <1>1

LEMMA ProcessStep ==
    ASSUME TypeInv, Exit \/ Start \/ Tick
    PROVE  TypeInv'
<1>1. StoreInv'
  BY ForgetTypes DEF Exit, Start, Tick, store, TypeInv
<1>2. NativeTypes'
  BY SpendTypes DEF Exit, Start, Tick, NativeTypes, history, Kinds, TypeInv
<1>3. Loaded # Unreadable => Loaded \in Settings
  BY LoadedLemma DEF TypeInv
<1>4. AppTypes'
  BY <1>3, AppLemma DEF Exit, Start, Tick, AppTypes, history, TypeInv
<1>5. Sound(Idle)
  BY DEF Sound, Idle
<1>6. Requests'
  BY <1>5, IdleTypes DEF Exit, Start, Tick, Requests, TypeInv
<1> QED
  BY <1>1, <1>2, <1>4, <1>6 DEF TypeInv

LEMMA TypeStep ==
    ASSUME TypeInv, [Next]_vars
    PROVE  TypeInv'
<1>1. CASE UNCHANGED vars
  BY <1>1 DEF vars, store, history, TypeInv, StoreInv, AppTypes, NativeTypes, Requests
<1>2. CASE Next
  BY <1>2, NativeStep, RelayStep, PutStep, ProcessStep DEF Next, HandlerStep
<1> QED
  BY <1>1, <1>2

LEMMA TypeInit == Init => TypeInv
<1> SUFFICES ASSUME Init PROVE TypeInv
  OBVIOUS
<1>1. Defaults \in Settings /\ NoPut \in Put /\ AnyKey \in Keys
  BY ContentLemma, SettingsAssumption DEF NoPut, Put, AnyKey
<1>2. StoreInv
  BY <1>1 DEF Init, StoreInit, StoreInv
<1>3. AppTypes
  BY <1>1, SettingsAssumption, AppLemma DEF Init, AppTypes
<1>4. NativeTypes
  BY HelperAssumption DEF Init, NativeTypes
<1>5. Sound(Idle)
  BY DEF Sound, Idle
<1>6. Requests
  BY <1>5, IdleTypes DEF Init, Requests
<1> QED
  BY <1>2, <1>3, <1>4, <1>6 DEF TypeInv

\* Type correctness for any number of handlers; a handler whose temporary file was
\* renamed by another writes to settings.json, which exists then.
THEOREM TypeCorrect == Spec => []TypeOK
<1>1. TypeInv => TypeOK
  BY StoreTypes DEF TypeInv, AppTypes, NativeTypes, Requests, TypeOK
<1> QED
  BY <1>1, TypeInit, TypeStep, PTL DEF Spec

\* The relay's promise, for every kind of server: what the preflight and the relay
\* conclude from the same refusals agrees.
THEOREM PromiseKept == Spec => []RelayKeepsPromise
<1>1. TypeInv => RelayKeepsPromise
  BY DEF TypeInv, NativeTypes, Requests, Sound, Kept, Request, RelayKeepsPromise
<1> QED
  BY <1>1, TypeInit, TypeStep, PTL DEF Spec

----------------------------------------------------------------------------
(***************************************************************************)
(* Answers                                                                 *)
(***************************************************************************)
\* Where a request for a text is, g the times of the answers and n the time.
Answered(r, g, n) ==
    /\ r.pc \in {"resolve", "sleep", "cache"} => r.native = {}
    /\ r.pc = "cache" => \A u \in r.direct : g[r.text][u] = n
    /\ r.pc = "vet" => \A u \in r.direct \cup r.native :
                          g[r.text][u] # Never /\ n - g[r.text][u] < Ttl

\* A cached answer is no older than it says.
CacheInv ==
    \A x \in Texts : cache[x].at # Never =>
        /\ cache[x].at <= now
        /\ \A u \in cache[x].urls : given[x][u] # Never /\ cache[x].at <= given[x][u]

RecentInv == CacheInv /\ \A h \in Handlers : Answered(req[h], given, now)

\* A handler's request becomes one that says the truth; the clock and the other
\* answers stay.
LEMMA Answers ==
    ASSUME Requests, RecentInv, CacheInv', NEW h \in Handlers, NEW q \in Request, Takes(h, q),
           Answered(q, given', now'), now' = now,
           \A g \in Handlers \ {h} : Answered(req[g], given', now')
    PROVE  RecentInv'
<1>1. req'[h] = q /\ \A g \in Handlers \ {h} : req'[g] = req[g]
  BY DEF Takes, Requests
<1> QED
  BY <1>1 DEF RecentInv

LEMMA AnswersStay ==
    ASSUME Requests, RecentInv, UNCHANGED <<cache, given, now>>, NEW h \in Handlers,
           NEW q \in Request, Takes(h, q), Answered(q, given, now)
    PROVE  RecentInv'
<1>1. CacheInv'
  BY DEF RecentInv, CacheInv
<1> QED
  BY <1>1, Answers DEF RecentInv

LEMMA AnswersElsewhere ==
    ASSUME Requests, RecentInv, UNCHANGED <<cache, given, now>>, NEW h \in Handlers,
           NEW pcs, pcs \cap NativePcs = {}, Turns(h, pcs)
    PROVE  RecentInv'
<1>1. PICK q \in Request : Takes(h, q) /\ q.pc \in pcs
  BY DEF Turns
<1>2. Answered(q, given, now)
  BY <1>1 DEF Answered, NativePcs
<1> QED
  BY <1>1, <1>2, AnswersStay

LEMMA RecentNative ==
    ASSUME TypeInv, RecentInv, NEW h \in Handlers,
           \/ \E x \in Texts : AskNative(h, x)
           \/ Resolve(h) \/ ResolveRaise(h) \/ Sleep(h) \/ Cache(h)
           \/ Vet(h) \/ VetFail(h) \/ ReplyNative(h)
    PROVE  RecentInv'
<1> DEFINE r == req[h]
<1>1. r \in Request /\ Sound(r) /\ Answered(r, given, now)
  BY DEF TypeInv, Requests, RecentInv
<1>2. NativeTypes /\ Requests
  BY DEF TypeInv
<1>3. r.direct \in SUBSET Urls /\ r.native \in SUBSET Urls
  BY <1>1 DEF Request
<1>4. CASE \E x \in Texts : AskNative(h, x)
  <2>1. PICK x \in Texts : AskNative(h, x)
    BY <1>4
  <2> DEFINE q == WithText(Idle, "resolve", x)
  <2>2. "resolve" \in Pcs
    BY DEF Pcs
  <2>3. q \in Request /\ q.pc = "resolve" /\ q.native = Idle.native
    BY <2>2, IdleTypes, SetText
  <2>4. Takes(h, q) /\ UNCHANGED <<cache, given, now>>
    BY <2>1 DEF AskNative, Accept, WithText, Takes, history
  <2> HIDE DEF q
  <2> QED
    BY <1>2, <2>3, <2>4, IdleTypes, AnswersStay DEF Answered
<1>5. CASE Resolve(h)
  <2>1. PICK direct \in Outcomes(r.text), p \in {"sleep", "cache"} :
          /\ Takes(h, WithDirect(r, p, direct))
          /\ given' = [given EXCEPT ![r.text] =
                         [u \in Urls |-> IF u \in direct THEN now ELSE @[u]]]
    <3>1. PICK direct \in Outcomes(r.text), challenged \in BOOLEAN :
          LET again == direct = {} /\ challenged /\ r.tries + 1 < Retries
          IN  /\ Takes(h, WithDirect(r, IF again THEN "sleep" ELSE "cache", direct))
              /\ given' = [given EXCEPT ![r.text] =
                             [u \in Urls |-> IF u \in direct THEN now ELSE @[u]]]
      BY <1>5, Zenon DEF Resolve, WithDirect, Takes
    <3> QED
      BY <3>1
  <2> DEFINE q == WithDirect(r, p, direct)
  <2>2. direct \in SUBSET Urls /\ r.text \in Texts /\ r.native = {}
    BY <1>1, <1>5, HelperAssumption DEF Resolve, Outcomes, Sound, Answered
  <2>3. q \in Request /\ q.pc = p /\ q.text = r.text /\ q.direct = direct /\ q.native = {}
    BY <1>1, <2>2, SetDirect DEF Pcs
  <2>4. Takes(h, q) /\ UNCHANGED <<cache, now>>
    BY <1>5, <2>1 DEF Resolve
  <2> HIDE DEF q
  <2>5. \A x \in Texts, u \in Urls : given'[x][u] = now \/ given'[x][u] = given[x][u]
    BY <1>2, <2>1, <2>2 DEF NativeTypes
  <2>6. \A u \in direct : given'[r.text][u] = now
    BY <1>2, <2>1, <2>2 DEF NativeTypes
  <2>7. now \in Nat /\ now - now < Ttl /\ now # Never
    BY <1>2, HelperAssumption DEF NativeTypes
  <2>8. Answered(q, given', now')
    BY <2>1, <2>3, <2>4, <2>6 DEF Answered
  <2>9. \A g \in Handlers \ {h} : Answered(req[g], given', now')
    <3> SUFFICES ASSUME NEW g \in Handlers \ {h} PROVE Answered(req[g], given', now')
      OBVIOUS
    <3>1. req[g] \in Request /\ Sound(req[g]) /\ Answered(req[g], given, now)
      BY <1>2 DEF Requests, RecentInv
    <3>2. req[g].direct \subseteq Urls /\ req[g].native \subseteq Urls
      BY <3>1 DEF Request
    <3>3. req[g].pc \in {"cache", "vet"} => req[g].text \in Texts
      BY <3>1 DEF Sound
    <3> QED
      BY <2>4, <2>5, <2>7, <3>1, <3>2, <3>3 DEF Answered
  <2>10. CacheInv'
    BY <1>2, <2>4, <2>5, <2>7 DEF CacheInv, RecentInv, NativeTypes
  <2> QED
    BY <1>2, <2>3, <2>4, <2>8, <2>9, <2>10, Answers
<1>6. CASE ResolveRaise(h) \/ ReplyNative(h)
  <2>1. UNCHANGED <<cache, given, now>>
    BY <1>6 DEF ResolveRaise, ReplyNative, history
  <2>2. Turns(h, {"lost"}) \/ Turns(h, {"ended"})
    BY <1>6, Left DEF ResolveRaise, ReplyNative, Leave, Takes
  <2> QED
    BY <1>2, <2>1, <2>2, AnswersElsewhere DEF NativePcs
<1>7. CASE Sleep(h)
  <2> DEFINE q == WithTry(r)
  <2>1. Takes(h, q) /\ UNCHANGED <<cache, given, now>>
    BY <1>7, Zenon DEF Sleep, WithTry, Takes, history
  <2>2. r.tries + 1 < Retries /\ r.native = {}
    BY <1>1, <1>7 DEF Sleep, Sound, Answered
  <2>3. q \in Request /\ q.pc = "resolve" /\ q.native = r.native
    BY <1>1, <2>2, SetTries
  <2> HIDE DEF q
  <2> QED
    BY <1>2, <2>1, <2>2, <2>3, AnswersStay DEF Answered
<1>8. CASE Cache(h)
  <2> DEFINE x == r.text
  <2>1. x \in Texts /\ r.pc = "cache" /\ r.native = {} /\ now \in Nat /\ Ttl \in Nat /\ Ttl > 0
        /\ now' = now /\ given' = given /\ now # Never
    BY <1>1, <1>2, <1>8, HelperAssumption DEF Cache, Sound, Answered, NativeTypes, history
  <2>2. \A u \in r.direct : given[x][u] = now
    BY <1>1, <2>1 DEF Answered
  <2>3. \A g \in Handlers \ {h} : Answered(req[g], given', now')
    BY <2>1 DEF RecentInv
  <2>4. CASE Goto(h, "vet") /\ r.direct # {} /\ cache' = [cache EXCEPT ![x] = [at |-> now, urls |-> r.direct]]
    <3> DEFINE q == WithPc(r, "vet")
    <3>1. Takes(h, q)
      BY <2>4, Zenon DEF Goto, WithPc, Takes
    <3>2. q \in Request /\ q.pc = "vet" /\ q.text = x /\ q.direct = r.direct /\ q.native = {}
      BY <1>1, <2>1, SetPc DEF Pcs
    <3> HIDE DEF q
    <3>3. Answered(q, given', now')
      BY <2>1, <2>2, <3>2 DEF Answered
    <3>4. CacheInv'
      BY <1>2, <1>3, <2>1, <2>2, <2>4 DEF CacheInv, RecentInv, NativeTypes
    <3> QED
      BY <1>2, <2>1, <2>3, <3>1, <3>2, <3>3, <3>4, Answers
  <2>5. CASE /\ Takes(h, WithDirect(r, "vet", IF Fresh(x) THEN cache[x].urls ELSE {}))
             /\ cache' = cache
    <3>1. PICK d : d = IF Fresh(x) THEN cache[x].urls ELSE {}
      OBVIOUS
    <3> DEFINE q == WithDirect(r, "vet", d)
    <3>2. d \in SUBSET Urls
      BY <1>2, <2>1, <3>1 DEF NativeTypes
    <3>3. q \in Request /\ q.pc = "vet" /\ q.text = x /\ q.direct = d /\ q.native = {}
      BY <1>1, <2>1, <3>2, SetDirect DEF Pcs
    <3>4. Takes(h, q)
      BY <2>5, <3>1
    <3> HIDE DEF q
    <3>5. \A u \in d : given[x][u] # Never /\ now - given[x][u] < Ttl
      <4> SUFFICES ASSUME NEW u \in d PROVE given[x][u] # Never /\ now - given[x][u] < Ttl
        OBVIOUS
      <4>1. cache[x].at # Never /\ now - cache[x].at < Ttl /\ u \in cache[x].urls
        BY <3>1 DEF Fresh
      <4>2. given[x][u] # Never /\ cache[x].at <= given[x][u]
        BY <2>1, <4>1 DEF CacheInv, RecentInv
      <4>3. cache[x].at \in Nat /\ given[x][u] \in Nat
        BY <1>2, <2>1, <3>2, <4>1, <4>2 DEF NativeTypes
      <4> QED
        BY <2>1, <4>1, <4>2, <4>3
    <3>6. Answered(q, given, now)
      BY <3>3, <3>5 DEF Answered
    <3> QED
      BY <1>2, <2>1, <2>5, <3>3, <3>4, <3>6, AnswersStay
  <2> QED
    BY <1>8, <2>4, <2>5, Zenon DEF Cache, WithDirect, Takes
<1>9. CASE Vet(h) \/ VetFail(h)
  <2>1. r.pc = "vet" /\ UNCHANGED <<cache, given, now>>
    BY <1>9 DEF Vet, VetFail, history
  <2>2. PICK u \in r.direct, n \in SUBSET Urls :
          Takes(h, WithNative(r, r.direct \ {u}, n)) /\ n \subseteq r.native \cup {u}
    <3>1. CASE Vet(h)
      <4>1. PICK u \in r.direct :
              Takes(h, WithNative(r, r.direct \ {u},
                        IF u \in Https /\ ~Preflight(u) THEN r.native ELSE r.native \cup {u}))
        BY <3>1, Zenon DEF Vet, WithNative, Takes
      <4>2. PICK n \in SUBSET Urls :
              n = IF u \in Https /\ ~Preflight(u) THEN r.native ELSE r.native \cup {u}
        BY <1>3
      <4> QED
        BY <4>1, <4>2
    <3>2. CASE VetFail(h)
      <4>1. PICK u \in r.direct : Takes(h, [r EXCEPT !.direct = r.direct \ {u}])
        BY <3>2, Zenon DEF VetFail, Takes
      <4>2. [r EXCEPT !.direct = r.direct \ {u}] = WithNative(r, r.direct \ {u}, r.native)
        BY <1>1 DEF Request, WithNative
      <4> QED
        BY <1>3, <4>1, <4>2
    <3> QED
      BY <1>9, <3>1, <3>2
  <2> DEFINE q == WithNative(r, r.direct \ {u}, n)
  <2>3. r.direct \ {u} \in SUBSET Urls
    BY <1>3
  <2>4. q \in Request /\ q.pc = "vet" /\ q.text = r.text /\ q.direct = r.direct \ {u} /\ q.native = n
    BY <1>1, <2>1, <2>3, SetNative
  <2> HIDE DEF q
  <2>5. q.direct \cup q.native \subseteq r.direct \cup r.native
    BY <2>2, <2>4
  <2>6. Answered(q, given, now)
    BY <1>1, <2>1, <2>4, <2>5 DEF Answered
  <2> QED
    BY <1>2, <2>1, <2>2, <2>4, <2>6, AnswersStay DEF q
<1> QED
  BY <1>4, <1>5, <1>6, <1>7, <1>8, <1>9

LEMMA RecentStep ==
    ASSUME TypeInv, RecentInv, [Next]_vars
    PROVE  RecentInv'
<1>1. Requests /\ NativeTypes
  BY DEF TypeInv
<1>2. CASE UNCHANGED vars
  BY <1>2 DEF vars, history, RecentInv, CacheInv
<1>3. ASSUME NEW h \in Handlers,
             \/ \E u \in Urls, head \in BOOLEAN, from \in 0 .. Size : AskRelay(h, u, head, from)
             \/ ConnectHead(h) \/ ConnectGet(h) \/ ConnectFail(h) \/ Fallback(h)
             \/ FallbackFail(h) \/ Copy(h) \/ CopyFail(h)
      PROVE  RecentInv'
  <2>1. UNCHANGED <<cache, given, now>>
    BY <1>3 DEF AskRelay, ConnectHead, ConnectGet, ConnectFail, Fallback, FallbackFail, Copy,
                CopyFail, history
  <2>2. Turns(h, RelayPcs) /\ RelayPcs \cap NativePcs = {}
    BY <1>3, RelayStep DEF RelayPcs, NativePcs
  <2> QED
    BY <1>1, <2>1, <2>2, AnswersElsewhere
<1>4. ASSUME NEW h \in Handlers,
             \/ \E k \in Keys, v \in Vals : AskPut(h, k, v)
             \/ Save(h) \/ PutFail(h) \/ Publish(h) \/ SetQueue(h) \/ SetEngine(h)
      PROVE  RecentInv'
  <2>1. UNCHANGED <<cache, given, now>>
    BY <1>4 DEF AskPut, Save, PutFail, Publish, SetQueue, SetEngine, history
  <2>2. CASE Turns(h, PutPcs)
    <3>1. PutPcs \cap NativePcs = {}
      BY DEF PutPcs, NativePcs
    <3> QED
      BY <1>1, <2>1, <2>2, <3>1, AnswersElsewhere
  <2>3. CASE req' = req
    BY <2>1, <2>3 DEF RecentInv, CacheInv
  <2> QED
    BY <1>4, <2>2, <2>3, PutStep
<1>5. CASE Exit
  <2>1. \A h \in Handlers : Answered(req'[h], given', now')
    BY <1>5 DEF Exit, Idle, Answered
  <2>2. CacheInv'
    BY <1>5 DEF Exit, CacheInv
  <2> QED
    BY <2>1, <2>2 DEF RecentInv
<1>6. CASE Start
  BY <1>6 DEF Start, history, RecentInv, CacheInv
<1>7. CASE Tick
  <2>1. now \in Nat /\ now' = now + 1 /\ UNCHANGED <<cache, given, req>>
    BY <1>1, <1>7 DEF Tick, history, NativeTypes
  <2>2. \A h \in Handlers : req[h].pc \notin {"cache", "vet"}
    BY <1>7 DEF Tick
  <2>3. \A h \in Handlers : Answered(req'[h], given', now')
    BY <2>1, <2>2 DEF RecentInv, Answered
  <2>4. CacheInv'
    BY <1>1, <2>1 DEF RecentInv, CacheInv, NativeTypes
  <2> QED
    BY <2>3, <2>4 DEF RecentInv
<1> QED
  BY <1>2, <1>3, <1>4, <1>5, <1>6, <1>7, RecentNative DEF Next, HandlerStep

LEMMA RecentInit == Init => RecentInv
<1> SUFFICES ASSUME Init PROVE RecentInv
  OBVIOUS
<1>1. CacheInv
  BY DEF Init, CacheInv
<1>2. \A h \in Handlers : Answered(req[h], given, now)
  BY DEF Init, Idle, Answered
<1> QED
  BY <1>1, <1>2 DEF RecentInv

\* No answer is older than the cache's time, for any texts, handlers and clock.
THEOREM AnswersRecent == Spec => []AnswerIsRecent
<1>1. RecentInv => AnswerIsRecent
  BY DEF RecentInv, Answered, AnswerIsRecent
<1> QED
  BY <1>1, TypeInit, TypeStep, RecentInit, RecentStep, PTL DEF Spec

----------------------------------------------------------------------------
(***************************************************************************)
(* Settings                                                                *)
(***************************************************************************)
\* While updates do not overlap: one at a time, settings.json is whole, and the
\* temporary file is the one update's own.
OneWriter ==
    /\ \A g, h \in Handlers : put[g].pc # "none" /\ put[h].pc # "none" => g = h
    /\ disk[SettingsPath] # <<>>
    /\ \A h \in Handlers :
          /\ fd[h] = IF put[h].pc = "write" THEN TmpPath ELSE Detached
          /\ put[h].pc = "replace" => disk[TmpPath] = <<put[h].new>>
          /\ put[h].pc = "saved" => Loaded = put[h].new
          /\ put[h].pc \in {"open", "write", "replace"} =>
                \A k \in Keys : put[h].new[k] \in kept[k]
    /\ \A k \in Keys : Loaded[k] \in kept[k]

LEMMA WholeLemma ==
    ASSUME StoreInv, disk[SettingsPath] # <<>>
    PROVE  /\ Loaded \in Settings /\ Loaded # Unreadable
           /\ disk[SettingsPath] = NoFile => Loaded = Defaults
           /\ \A s \in Settings : disk[SettingsPath] = <<s>> => Loaded = s
<1>1. disk[SettingsPath] = NoFile \/ \E s \in Settings : disk[SettingsPath] = <<s>>
  BY NamesDiffer DEF StoreInv, Content
<1>2. \A s \in Settings : <<s>> # NoFile /\ Len(<<s>>) = 1 /\ <<s>>[1] = s
  BY ContentLemma DEF Content
<1>3. CASE disk[SettingsPath] = NoFile
  BY <1>2, <1>3, ContentLemma DEF Loaded, Exists
<1>4. CASE \E s \in Settings : disk[SettingsPath] = <<s>>
  <2>1. PICK s \in Settings : disk[SettingsPath] = <<s>>
    BY <1>4
  <2>2. Loaded = s
    BY <1>2, <2>1 DEF Loaded, Exists
  <2>3. \A t \in Settings : <<s>> = <<t>> => s = t
    OBVIOUS
  <2> QED
    BY <1>2, <2>1, <2>2, <2>3, ContentLemma
<1> QED
  BY <1>1, <1>3, <1>4

LEMMA OneMerge ==
    ASSUME StoreInv, kept \in [Keys -> SUBSET Vals], OneWriter,
           NEW h \in Handlers, NEW k \in Keys, NEW v \in Vals, Merge(h, k, v),
           kept' = [kept EXCEPT ![k] = @ \cup {v}],
           \A g \in Handlers : put[g].pc = "none"
    PROVE  OneWriter'
<1> DEFINE new == [Loaded EXCEPT ![k] = v]
<1>1. Loaded \in Settings /\ Loaded # Unreadable
  BY WholeLemma DEF OneWriter
<1>2. PICK p \in {"open", "failed"} : put' = [put EXCEPT ![h] = [pc |-> p, new |-> new, key |-> k]]
  BY <1>1 DEF Merge
<1>3. \A g \in Handlers : g # h => put'[g] = put[g]
  BY <1>2 DEF StoreInv
<1>4. put'[h].pc = p /\ put'[h].new = new
  BY <1>2 DEF StoreInv
<1>5. disk' = disk /\ fd' = fd /\ Loaded' = Loaded
  BY DEF Merge, Loaded
<1>6. \A l \in Keys : Loaded[l] \in kept'[l] /\ new[l] \in kept'[l]
  BY <1>1 DEF OneWriter, Settings
<1> HIDE DEF new
<1> QED
  BY <1>3, <1>4, <1>5, <1>6 DEF OneWriter

LEMMA OneSaving ==
    ASSUME StoreInv, OneWriter, NEW h \in Handlers, Saving(h), kept' = kept
    PROVE  /\ OneWriter'
           /\ \A g \in Handlers \ {h} : put'[g] = put[g]
           /\ put[h].pc # "none" /\ put'[h].pc # "none"
           /\ put[h].pc \notin {"saved", "failed"}
           /\ put'[h].pc = "saved" \/ Loaded' = Loaded
<1>1. put[h] \in Put /\ \A g \in Handlers \ {h} : put[g].pc = "none" \/ put[h].pc = "none"
  BY DEF StoreInv, OneWriter
<1>2. \A p \in {"write", "replace", "saved", "failed"} : At(h, p) =>
        /\ put'[h].pc = p /\ put'[h].new = put[h].new
        /\ \A g \in Handlers \ {h} : put'[g] = put[g]
  BY <1>1 DEF At, StoreInv, Put
<1>3. TmpPath \in FileNames /\ SettingsPath \in FileNames /\ TmpPath # SettingsPath
      /\ TmpPath # Detached /\ SettingsPath # Detached
  BY NamesDiffer
<1>4. CASE OpenTmp(h)
  <2>1. At(h, "write") /\ put[h].pc = "open" /\ fd' = [fd EXCEPT ![h] = TmpPath]
    BY <1>4 DEF OpenTmp
  <2>2. disk' = [disk EXCEPT ![TmpPath] = <<>>]
    BY <1>4 DEF OpenTmp, Opened
  <2>3. disk'[SettingsPath] = disk[SettingsPath] /\ Loaded' = Loaded
    BY <1>3, <2>2 DEF StoreInv, Loaded, Exists
  <2>4. \A g \in Handlers \ {h} : put'[g].pc = "none" /\ fd'[g] = fd[g]
    BY <1>1, <1>2, <2>1 DEF StoreInv
  <2>5. fd'[h] = TmpPath /\ put'[h].pc = "write" /\ put'[h].new = put[h].new
    BY <1>2, <2>1 DEF StoreInv
  <2>6. OneWriter'
    BY <2>1, <2>3, <2>4, <2>5 DEF OneWriter
  <2> QED
    BY <1>2, <2>1, <2>3, <2>5, <2>6
<1>5. CASE WriteTmp(h)
  <2>1. At(h, "replace") /\ put[h].pc = "write" /\ fd' = [fd EXCEPT ![h] = Detached]
    BY <1>5 DEF WriteTmp
  <2>2. fd[h] = TmpPath /\ disk[TmpPath] \in Content
    BY <1>3, <2>1 DEF OneWriter, StoreInv
  <2>3. disk' = [disk EXCEPT ![TmpPath] = <<put[h].new>>]
    BY <1>1, <1>3, <1>5, <2>2, WriteLemma DEF WriteTmp, Written, Put
  <2>4. disk'[SettingsPath] = disk[SettingsPath] /\ disk'[TmpPath] = <<put[h].new>> /\ Loaded' = Loaded
    BY <1>3, <2>3 DEF StoreInv, Loaded, Exists
  <2>5. \A g \in Handlers \ {h} : put'[g].pc = "none" /\ fd'[g] = fd[g]
    BY <1>1, <1>2, <2>1 DEF StoreInv
  <2>6. fd'[h] = Detached /\ put'[h].pc = "replace" /\ put'[h].new = put[h].new
    BY <1>2, <2>1 DEF StoreInv
  <2>7. OneWriter'
    BY <2>1, <2>4, <2>5, <2>6 DEF OneWriter
  <2> QED
    BY <1>2, <2>1, <2>4, <2>6, <2>7
<1>6. CASE WriteFail(h) \/ ReplaceFail(h)
  <2>1. At(h, "failed") /\ put[h].pc \in {"write", "replace"} /\ disk' = disk
    BY <1>6 DEF WriteFail, ReplaceFail
  <2>2. Loaded' = Loaded
    BY <2>1 DEF Loaded
  <2>3. put'[h].pc = "failed" /\ put'[h].new = put[h].new
    BY <1>2, <2>1
  <2>4. \A g \in Handlers \ {h} : put'[g].pc = "none" /\ fd'[g] = fd[g]
    BY <1>1, <1>2, <1>6, <2>1 DEF StoreInv, WriteFail, ReplaceFail
  <2>5. fd'[h] = Detached
    BY <1>6 DEF StoreInv, WriteFail, ReplaceFail, OneWriter
  <2>6. OneWriter'
    BY <2>1, <2>2, <2>3, <2>4, <2>5 DEF OneWriter
  <2> QED
    BY <1>2, <2>1, <2>2, <2>3, <2>6
<1>7. CASE ReplaceTmp(h)
  <2>1. At(h, "saved") /\ put[h].pc = "replace" /\ fd' = AfterRename(fd, TmpPath, SettingsPath)
    BY <1>7 DEF ReplaceTmp
  <2>2. disk' = [disk EXCEPT ![SettingsPath] = disk[TmpPath], ![TmpPath] = NoFile]
    BY <1>7 DEF ReplaceTmp, Renamed
  <2>3. disk[TmpPath] = <<put[h].new>> /\ put[h].new \in Settings
    BY <1>1, <2>1 DEF OneWriter, Put
  <2>4. disk'[SettingsPath] = <<put[h].new>>
    BY <1>3, <2>2, <2>3 DEF StoreInv
  <2>5. <<put[h].new>> # <<>>
    OBVIOUS
  <2>6. Loaded' = put[h].new
    <3>1. PICK new \in Settings : new = put[h].new
      BY <2>3
    <3>2. <<new>> # NoFile /\ Len(<<new>>) = 1 /\ <<new>>[1] = new
      BY ContentLemma DEF Content
    <3> QED
      BY <2>4, <3>1, <3>2 DEF Loaded, Exists
  <2>7. put'[h].pc = "saved" /\ put'[h].new = put[h].new
    BY <1>2, <2>1
  <2>8. \A g \in Handlers : fd[g] = Detached
    BY <1>1, <2>1 DEF OneWriter
  <2>9. \A g \in Handlers : fd'[g] = Detached
    BY <1>3, <2>1, <2>8 DEF AfterRename, StoreInv
  <2>10. \A g \in Handlers \ {h} : put'[g].pc = "none"
    BY <1>1, <1>2, <2>1
  <2>11. OneWriter'
    BY <2>1, <2>4, <2>5, <2>6, <2>7, <2>9, <2>10 DEF OneWriter
  <2> QED
    BY <1>2, <2>1, <2>7, <2>11
<1> QED
  BY <1>4, <1>5, <1>6, <1>7 DEF Saving

\* The updates and the requests that make them go together; what app.settings,
\* the queue and the engine lack is on its way.
Working(h) == req[h].pc \in {"save", "queue", "engine"}

AgreeInv ==
    /\ \A h \in Handlers : Working(h) <=> put[h].pc # "none"
    /\ \A h \in Handlers : req[h].pc \in {"queue", "engine"} => put[h].pc = "saved"
    /\ up => app.queue = app.app \/ \E h \in Handlers : req[h].pc = "queue"
    /\ up => app.engine = app.app \/ \E h \in Handlers : req[h].pc \in {"queue", "engine"}
    /\ up /\ ~clashed =>
          app.app = Loaded \/ \E h \in Handlers : put[h].pc = "saved" /\ req[h].pc = "save"

SaveInv == AgreeInv /\ (~clashed => OneWriter)

\* Steps that have nothing to do with the settings.
LEMMA SaveAside ==
    ASSUME Requests, SaveInv, UNCHANGED <<store, up, app, kept, clashed>>,
           NEW h \in Handlers, ~Working(h), req'[h].pc \notin {"save", "queue", "engine"},
           \A g \in Handlers \ {h} : req'[g] = req[g]
    PROVE  SaveInv'
<1>1. UNCHANGED <<disk, fd, put, up, app, kept, clashed>> /\ Loaded' = Loaded
  BY DEF store, Loaded
<1>2. AgreeInv'
  BY <1>1 DEF AgreeInv, SaveInv, Working
<1>3. (~clashed => OneWriter)'
  BY <1>1 DEF OneWriter, SaveInv
<1> QED
  BY <1>2, <1>3 DEF SaveInv

LEMMA SavePut ==
    ASSUME TypeInv, SaveInv, NEW h \in Handlers,
           \/ \E k \in Keys, v \in Vals : AskPut(h, k, v)
           \/ Save(h) \/ PutFail(h) \/ Publish(h) \/ SetQueue(h) \/ SetEngine(h)
    PROVE  SaveInv'
<1>1. StoreInv /\ AppTypes /\ Requests /\ req \in [Handlers -> Request]
  BY DEF TypeInv, Requests
<1>2. req[h] \in Request /\ put[h] \in Put
  BY <1>1 DEF Requests, StoreInv
<1>3. CASE \E k \in Keys, v \in Vals : AskPut(h, k, v)
  <2>1. PICK k \in Keys, v \in Vals : AskPut(h, k, v)
    BY <1>3
  <2>2. /\ Merge(h, k, v) /\ kept' = [kept EXCEPT ![k] = @ \cup {v}]
        /\ clashed' = (clashed \/ \E g \in Handlers : put[g].pc # "none")
        /\ UNCHANGED <<up, app, disk, fd>> /\ ~Working(h)
    BY <2>1 DEF AskPut, Accept, Merge, Working
  <2>3. Turns(h, {"save"})
    BY <2>1, Left DEF AskPut, Accept, Takes
  <2>4. req'[h].pc = "save" /\ \A g \in Handlers \ {h} : req'[g] = req[g]
    BY <1>1, <2>3, Turned
  <2>5. put'[h].pc # "none" /\ \A g \in Handlers \ {h} : put'[g] = put[g]
    BY <1>1, <2>2 DEF Merge, StoreInv
  <2>6. Loaded' = Loaded
    BY <2>2 DEF Loaded
  <2>7. (~clashed => OneWriter)'
    BY <1>1, <2>2, OneMerge DEF SaveInv, AppTypes
  <2>8. put[h].pc = "none"
    BY <2>2 DEF Merge
  <2>9. AgreeInv'
    <3>1. \A g \in Handlers : (Working(g) <=> put[g].pc # "none")'
      BY <2>4, <2>5 DEF AgreeInv, SaveInv, Working
    <3>2. \A g \in Handlers : req'[g].pc \in {"queue", "engine"} => put'[g].pc = "saved"
      BY <2>4, <2>5 DEF AgreeInv, SaveInv
    <3>3. up => app.queue = app.app \/ \E g \in Handlers : req'[g].pc = "queue"
      BY <2>2, <2>4 DEF AgreeInv, SaveInv, Working
    <3>4. up => app.engine = app.app
                \/ \E g \in Handlers : req'[g].pc \in {"queue", "engine"}
      BY <2>2, <2>4 DEF AgreeInv, SaveInv, Working
    <3>5. up /\ ~clashed' => app.app = Loaded
      BY <2>2 DEF AgreeInv, SaveInv
    <3> QED
      BY <2>2, <2>6, <3>1, <3>2, <3>3, <3>4, <3>5 DEF AgreeInv
  <2> QED
    BY <2>7, <2>9 DEF SaveInv
<1>4. CASE Save(h)
  <2>1. Saving(h) /\ req' = req /\ UNCHANGED <<up, app, kept, clashed>> /\ req[h].pc = "save"
    BY <1>4 DEF Save, history
  <2>2. \A g \in Handlers \ {h} : put'[g] = put[g]
    BY <1>1, <2>1 DEF Saving, OpenTmp, WriteTmp, WriteFail, ReplaceTmp, ReplaceFail, At, StoreInv
  <2>3. put[h].pc # "none" /\ put'[h].pc # "none" /\ put[h].pc \notin {"saved", "failed"}
    BY <1>1, <1>2, <2>1
    DEF Saving, OpenTmp, WriteTmp, WriteFail, ReplaceTmp, ReplaceFail, At, StoreInv, Put
  <2>4. ~clashed => OneWriter' /\ (put'[h].pc = "saved" \/ Loaded' = Loaded)
    BY <1>1, <2>1, OneSaving DEF SaveInv
  <2>5. AgreeInv'
    BY <2>1, <2>2, <2>3, <2>4 DEF AgreeInv, SaveInv, Working
  <2> QED
    BY <2>1, <2>4, <2>5 DEF SaveInv
<1>5. CASE PutFail(h)
  <2>1. /\ req[h].pc = "save" /\ put[h].pc = "failed" /\ put' = [put EXCEPT ![h] = NoPut]
        /\ UNCHANGED <<disk, fd, up, app, kept, clashed>> /\ Loaded' = Loaded
    BY <1>5 DEF PutFail, history, Loaded
  <2>2. Turns(h, {"ended"})
    BY <1>5, Left DEF PutFail, Leave, Takes
  <2>3. req'[h].pc = "ended" /\ \A g \in Handlers \ {h} : req'[g] = req[g]
    BY <1>1, <2>2, Turned
  <2>4. put'[h].pc = "none" /\ \A g \in Handlers \ {h} : put'[g] = put[g]
    BY <1>1, <2>1 DEF StoreInv, NoPut
  <2>5. AgreeInv'
    BY <2>1, <2>3, <2>4 DEF AgreeInv, SaveInv, Working
  <2>6. (~clashed => OneWriter)'
    BY <2>1, <2>4 DEF OneWriter, SaveInv
  <2> QED
    BY <2>5, <2>6 DEF SaveInv
<1>6. CASE Publish(h)
  <2>1. /\ req[h].pc = "save" /\ put[h].pc = "saved" /\ app' = [app EXCEPT !.app = put[h].new]
        /\ UNCHANGED <<disk, fd, put, up, kept, clashed>> /\ Loaded' = Loaded
    BY <1>6 DEF Publish, history, store, Loaded
  <2>2. req'[h].pc = "queue" /\ \A g \in Handlers \ {h} : req'[g] = req[g]
    BY <1>1, <1>2, <1>6 DEF Publish, Goto, Request
  <2>3. app'.app = put[h].new
    BY <1>1, <2>1 DEF AppTypes
  <2>4. ~clashed => Loaded = put[h].new
    BY <2>1 DEF SaveInv, OneWriter
  <2>5. AgreeInv'
    BY <2>1, <2>2, <2>3, <2>4 DEF AgreeInv, SaveInv, Working
  <2>6. (~clashed => OneWriter)'
    BY <2>1 DEF OneWriter, SaveInv
  <2> QED
    BY <2>5, <2>6 DEF SaveInv
<1>7. CASE SetQueue(h)
  <2>1. /\ req[h].pc = "queue" /\ app' = [app EXCEPT !.queue = app.app]
        /\ UNCHANGED <<disk, fd, put, up, kept, clashed>> /\ Loaded' = Loaded
    BY <1>7 DEF SetQueue, history, store, Loaded
  <2>2. req'[h].pc = "engine" /\ \A g \in Handlers \ {h} : req'[g] = req[g]
    BY <1>1, <1>2, <1>7 DEF SetQueue, Goto, Request
  <2>3. app'.queue = app.app /\ app'.app = app.app /\ app'.engine = app.engine
    BY <1>1, <2>1 DEF AppTypes
  <2>4. AgreeInv'
    BY <2>1, <2>2, <2>3 DEF AgreeInv, SaveInv, Working
  <2>5. (~clashed => OneWriter)'
    BY <2>1 DEF OneWriter, SaveInv
  <2> QED
    BY <2>4, <2>5 DEF SaveInv
<1>8. CASE SetEngine(h)
  <2>1. /\ req[h].pc = "engine" /\ app' = [app EXCEPT !.engine = app.app]
        /\ put' = [put EXCEPT ![h] = NoPut]
        /\ kept' = [kept EXCEPT ![put[h].key] = {put[h].new[put[h].key]}]
        /\ UNCHANGED <<disk, fd, up, clashed>> /\ Loaded' = Loaded
    BY <1>8 DEF SetEngine, Loaded
  <2>2. Turns(h, {"ended"})
    BY <1>8, Left DEF SetEngine, Leave, Takes
  <2>3. req'[h].pc = "ended" /\ \A g \in Handlers \ {h} : req'[g] = req[g]
    BY <1>1, <2>2, Turned
  <2>4. put'[h].pc = "none" /\ \A g \in Handlers \ {h} : put'[g] = put[g]
    BY <1>1, <2>1 DEF StoreInv, NoPut
  <2>5. app'.engine = app.app /\ app'.app = app.app /\ app'.queue = app.queue
    BY <1>1, <2>1 DEF AppTypes
  <2>6. AgreeInv'
    BY <2>1, <2>3, <2>4, <2>5 DEF AgreeInv, SaveInv, Working
  <2>7. (~clashed => OneWriter)'
    <3> SUFFICES ASSUME ~clashed PROVE OneWriter'
      BY <2>1
    <3>1. OneWriter /\ put[h].pc = "saved" /\ Loaded = put[h].new
      BY <2>1 DEF SaveInv, AgreeInv, OneWriter
    <3>2. \A g \in Handlers \ {h} : put[g].pc = "none"
      BY <3>1 DEF OneWriter
    <3>3. \A k \in Keys : Loaded[k] \in kept'[k]
      BY <1>1, <1>2, <2>1, <3>1 DEF OneWriter, AppTypes, Put
    <3> QED
      BY <2>1, <2>4, <3>1, <3>2, <3>3 DEF OneWriter
  <2> QED
    BY <2>6, <2>7 DEF SaveInv
<1> QED
  BY <1>3, <1>4, <1>5, <1>6, <1>7, <1>8

LEMMA SaveStep ==
    ASSUME TypeInv, SaveInv, [Next]_vars
    PROVE  SaveInv'
<1>1. Requests /\ StoreInv
  BY DEF TypeInv
<1>2. CASE UNCHANGED vars
  BY <1>2 DEF vars, store, history, SaveInv, AgreeInv, OneWriter, Loaded, Working
<1>3. ASSUME NEW h \in Handlers,
             \/ \E x \in Texts : AskNative(h, x)
             \/ Resolve(h) \/ ResolveRaise(h) \/ Sleep(h) \/ Cache(h)
             \/ Vet(h) \/ VetFail(h) \/ ReplyNative(h)
      PROVE  SaveInv'
  <2>1. ~Working(h) /\ UNCHANGED <<store, up, app, kept, clashed>>
    BY <1>3 DEF Working, AskNative, Accept, Resolve, ResolveRaise, Sleep, Cache, Vet, VetFail,
                ReplyNative, history
  <2>2. /\ req'[h].pc \notin {"save", "queue", "engine"}
        /\ \A g \in Handlers \ {h} : req'[g] = req[g]
    BY <1>3, NativeStep DEF NativePcs
  <2> QED
    BY <1>1, <2>1, <2>2, SaveAside
<1>4. ASSUME NEW h \in Handlers,
             \/ \E u \in Urls, head \in BOOLEAN, from \in 0 .. Size : AskRelay(h, u, head, from)
             \/ ConnectHead(h) \/ ConnectGet(h) \/ ConnectFail(h) \/ Fallback(h)
             \/ FallbackFail(h) \/ Copy(h) \/ CopyFail(h)
      PROVE  SaveInv'
  <2>1. ~Working(h) /\ UNCHANGED <<store, up, app, kept, clashed>>
    BY <1>4 DEF Working, AskRelay, Accept, ConnectHead, ConnectGet, ConnectFail, Fallback,
                FallbackFail, Copy, CopyFail, history
  <2>2. Turns(h, RelayPcs)
    BY <1>4, RelayStep
  <2>3. req'[h].pc \in RelayPcs /\ \A g \in Handlers \ {h} : req'[g] = req[g]
    BY <1>1, <2>2, Turned
  <2> QED
    BY <1>1, <2>1, <2>3, SaveAside DEF RelayPcs
<1>5. CASE Exit
  <2>1. /\ \A h \in Handlers : req'[h] = Idle /\ put'[h] = NoPut /\ fd'[h] = Detached
        /\ up' = FALSE /\ UNCHANGED <<disk, kept, clashed>> /\ Loaded' = Loaded
    BY <1>5 DEF Exit, history, Loaded
  <2>2. AgreeInv'
    BY <2>1 DEF AgreeInv, Working, Idle, NoPut
  <2>3. (~clashed => OneWriter)'
    BY <2>1 DEF OneWriter, SaveInv, NoPut
  <2> QED
    BY <2>2, <2>3 DEF SaveInv
<1>6. CASE Start
  <2>1. app' = AppOf(Loaded) /\ UNCHANGED <<disk, fd, put, req, kept, clashed>> /\ Loaded' = Loaded
    BY <1>6 DEF Start, store, history, Loaded
  <2>2. app'.app = Loaded /\ app'.queue = Loaded /\ app'.engine = Loaded
    BY <2>1 DEF AppOf
  <2>3. AgreeInv'
    BY <2>1, <2>2 DEF AgreeInv, SaveInv, Working
  <2>4. (~clashed => OneWriter)'
    BY <2>1 DEF OneWriter, SaveInv
  <2> QED
    BY <2>3, <2>4 DEF SaveInv
<1>7. CASE Tick
  <2>1. UNCHANGED <<disk, fd, put, up, app, req, kept, clashed>> /\ Loaded' = Loaded
    BY <1>7 DEF Tick, store, history, Loaded
  <2> QED
    BY <2>1 DEF SaveInv, AgreeInv, OneWriter, Working
<1> QED
  BY <1>2, <1>3, <1>4, <1>5, <1>6, <1>7, SavePut DEF Next, HandlerStep

LEMMA SaveInit == Init => SaveInv
<1> SUFFICES ASSUME Init PROVE SaveInv
  OBVIOUS
<1>1. Loaded = Defaults /\ disk[SettingsPath] = NoFile /\ NoFile # <<>>
  BY NamesDiffer, ContentLemma DEF Init, StoreInit, Loaded, Exists, Content
<1>2. OneWriter
  BY <1>1 DEF Init, StoreInit, NoPut, OneWriter
<1>3. app.app = Defaults /\ app.queue = Defaults /\ app.engine = Defaults
  BY DEF Init, AppOf
<1>4. AgreeInv
  BY <1>1, <1>3 DEF Init, StoreInit, Idle, NoPut, AgreeInv, Working
<1> QED
  BY <1>2, <1>4 DEF SaveInv

\* What was saved is kept over failed writes and deaths of the process, whatever
\* the fields and values, while updates do not overlap.
THEOREM SavedKept == Spec => []SavedIsKept
<1>1. TypeInv /\ SaveInv => SavedIsKept
  BY WholeLemma DEF TypeInv, SaveInv, OneWriter, SavedIsKept
<1> QED
  BY <1>1, TypeInit, TypeStep, SaveInit, SaveStep, PTL DEF Spec

\* The queue and the engine end up with the settings the API shows.
THEOREM SettingsMeet == Spec => []SettingsAgree
<1>1. SaveInv => SettingsAgree
  BY DEF SaveInv, AgreeInv, Working, SettingsAgree
<1> QED
  BY <1>1, TypeInit, TypeStep, SaveInit, SaveStep, PTL DEF Spec
==============================================================================
