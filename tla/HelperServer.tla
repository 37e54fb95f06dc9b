----------------------------- MODULE HelperServer -----------------------------
(***************************************************************************)
(* The helper's HTTP server (server/api.py) as the console and the panel   *)
(* use it: resolve-native with its cache, the relay, and the settings.     *)
(* Handler threads share the App object, the cache and settings.json; the  *)
(* hosters' file servers are Sites, each with its own manners.             *)
(*                                                                         *)
(* A call of the resolver is what LinkResolver says of it: direct URLs,    *)
(* links that need the user, or an exception.  Out of the model: POST      *)
(* /api/links and the item actions (QueueManager), static files, logs.     *)
(***************************************************************************)
EXTENDS SettingsStore, FiniteSets

CONSTANTS Texts,        \* texts the console asks resolve-native about
          Urls,         \* direct URLs
          Https,        \* those that need the relay
          LeadsTo,      \* the direct URLs the links of a text may resolve to
          Site,         \* how the server of each URL answers
          Size,         \* chunks in every file
          Retries,      \* attempts on a challenged hoster, 3 in the code
          Ttl,          \* how long a cached answer counts, 15 minutes in the code
          MaxDirect,    \* bound: direct URLs one call of the resolver returns
          Workloads,    \* bound: requests by kind, faults, ends of the process, ticks
          Never         \* no time
Untold == Size + 1      \* no Content-Length

Kinds == {"native", "relay", "put", "faults", "exits", "ticks"}

ASSUME HelperAssumption ==
    /\ Https \subseteq Urls
    /\ LeadsTo \in [Texts -> SUBSET Urls]
    /\ Site \in [Urls -> [head  : {"ok", "refused", "error"},
                          range : {"ranged", "whole", "untotalled", "refused"},
                          sized : BOOLEAN]]
    /\ Size \in Nat \ {0} /\ Retries \in Nat \ {0}
    /\ Ttl \in Nat \ {0} /\ Never \notin Nat
    /\ Workloads \subseteq [Kinds -> Nat]

VARIABLES up,       \* the process runs
          app,      \* App.settings, QueueManager.settings, DownloadEngine.settings
          cache,    \* native_direct_cache
          req,      \* each handler's request
          now,      \* the clock
          budget,   \* what is left of the workload
          given,    \* history: when the resolver last gave a URL for a text
          vetted,   \* history: URLs whose preflight succeeded
          kept,     \* history: the values each field may have after the PUTs so far
          clashed   \* history: two updates of settings.json overlapped

store   == <<disk, fd, put>>
history == <<given, vetted, kept, clashed>>
vars    == <<store, up, app, cache, req, now, budget, history>>

NoText == "no text"
NoUrl  == "no url"

Idle == [pc |-> "idle", text |-> NoText, tries |-> 0, direct |-> {}, native |-> {},
         url |-> NoUrl, head |-> FALSE, from |-> 0, status |-> 0, length |-> 0, sent |-> 0, failed |-> FALSE]
Request == [pc : {"idle", "resolve", "sleep", "cache", "vet", "connect", "fallback", "copy",
                  "ended", "lost", "save", "publish", "queue", "engine"},
            text : Texts \cup {NoText}, tries : 0 .. Retries,
            direct : SUBSET Urls, native : SUBSET Urls,
            url : Urls \cup {NoUrl}, head : BOOLEAN, from : 0 .. Size,
            status : {0, 200, 206, 403, 404, 416, 502}, length : 0 .. Untold,
            sent : 0 .. Size, failed : BOOLEAN]

AppOf(s) == [app |-> s, queue |-> s, engine |-> s]

Init ==
    /\ StoreInit
    /\ up = TRUE
    /\ app = AppOf(Defaults)
    /\ cache = [x \in Texts |-> [at |-> Never, urls |-> {}]]
    /\ req = [h \in Handlers |-> Idle]
    /\ now = 0
    /\ budget \in Workloads
    /\ given = [x \in Texts |-> [u \in Urls |-> Never]]
    /\ vetted = {}
    /\ kept = [k \in Keys |-> {Defaults[k]}]
    /\ clashed = FALSE

Spend(b) == budget[b] > 0 /\ budget' = [budget EXCEPT ![b] = @ - 1]

\* A handler takes a request; what the last one left behind is forgotten.
Accept(h, kind, r) ==
    /\ up
    /\ req[h].pc \in {"idle", "ended", "lost"}
    /\ Spend(kind)
    /\ req' = [req EXCEPT ![h] = r]

Goto(h, pc)  == req' = [req EXCEPT ![h].pc = pc]
Leave(h, pc) == req' = [req EXCEPT ![h] = [Idle EXCEPT !.pc = pc]]

(***************************************************************************)
(* GET /api/resolve-native                                                 *)
(***************************************************************************)
AskNative(h, x) ==
    /\ Accept(h, "native", [Idle EXCEPT !.pc = "resolve", !.text = x])
    /\ UNCHANGED <<store, up, app, cache, now, history>>

Outcomes(x) == {d \in SUBSET LeadsTo[x] : Cardinality(d) <= MaxDirect}

\* resolve_text: direct URLs, and whether a Buzzheavier link was challenged.
Resolve(h) ==
    /\ req[h].pc = "resolve"
    /\ \E direct \in Outcomes(req[h].text), challenged \in BOOLEAN :
          LET again == direct = {} /\ challenged /\ req[h].tries + 1 < Retries
          IN  /\ req' = [req EXCEPT ![h] = [@ EXCEPT !.pc = IF again THEN "sleep" ELSE "cache",
                                                  !.direct = direct]]
              /\ given' = [given EXCEPT ![req[h].text] =
                            [u \in Urls |-> IF u \in direct THEN now ELSE @[u]]]
    /\ UNCHANGED <<store, up, app, cache, now, budget, vetted, kept, clashed>>

\* The exception ends the handler without a reply.
ResolveRaise(h) ==
    /\ req[h].pc = "resolve"
    /\ Leave(h, "lost")
    /\ UNCHANGED <<store, up, app, cache, now, budget, history>>

Sleep(h) ==
    /\ req[h].pc = "sleep"
    /\ req' = [req EXCEPT ![h] = [@ EXCEPT !.pc = "resolve", !.tries = req[h].tries + 1]]
    /\ UNCHANGED <<store, up, app, cache, now, budget, history>>

Fresh(x) == cache[x].at # Never /\ now - cache[x].at < Ttl

\* Mutant: an answer taken from the cache counts as a new one.
CacheSliding(h) ==
    LET x      == req[h].text
        direct == IF req[h].direct = {} /\ Fresh(x) THEN cache[x].urls ELSE req[h].direct
    IN  /\ req[h].pc = "cache"
        /\ cache' = IF direct = {} THEN cache ELSE [cache EXCEPT ![x] = [at |-> now, urls |-> direct]]
        /\ req' = [req EXCEPT ![h].pc = "vet", ![h].direct = direct]
        /\ UNCHANGED <<store, up, app, now, budget, history>>

\* What was resolved replaces the cached answer; what was not is looked up there.
Cache(h) ==
    LET x      == req[h].text
        direct == req[h].direct
    IN  /\ req[h].pc = "cache"
        /\ \/ /\ direct # {}
              /\ cache' = [cache EXCEPT ![x] = [at |-> now, urls |-> direct]]
              /\ Goto(h, "vet")
           \/ /\ direct = {}
              /\ req' = [req EXCEPT ![h] = [@ EXCEPT !.pc = "vet",
                                      !.direct = IF Fresh(x) THEN cache[x].urls ELSE {}]]
              /\ UNCHANGED cache
        /\ UNCHANGED <<store, up, app, now, budget, history>>

\* preflight_relayable_url: HEAD, or one byte when HEAD is refused.
Preflight(u) ==
    \/ Site[u].head = "ok"
    \/ Site[u].head = "refused" /\ Site[u].range # "refused"

\* A plain http URL needs no preflight: ps5_native_http_url keeps it one.
Vet(h) ==
    LET r == req[h]
    IN  /\ r.pc = "vet"
        /\ \E u \in r.direct :
              LET refused == u \in Https /\ ~Preflight(u)
              IN  /\ req' = [req EXCEPT ![h] = [@ EXCEPT
                              !.direct = r.direct \ {u},
                              !.native = IF refused THEN r.native ELSE r.native \cup {u}]]
                  /\ vetted' = IF u \in Https /\ ~refused THEN vetted \cup {u} ELSE vetted
        /\ UNCHANGED <<store, up, app, cache, now, budget, given, kept, clashed>>

VetFail(h) ==
    /\ req[h].pc = "vet"
    /\ Spend("faults")
    /\ \E u \in req[h].direct \cap Https : req' = [req EXCEPT ![h].direct = @ \ {u}]
    /\ UNCHANGED <<store, up, app, cache, now, history>>

\* The URLs, or "manual-action-required" with the reasons.
ReplyNative(h) ==
    /\ req[h].pc = "vet"
    /\ req[h].direct = {}
    /\ Leave(h, "ended")
    /\ UNCHANGED <<store, up, app, cache, now, budget, history>>

(***************************************************************************)
(* HEAD and GET /api/relay                                                 *)
(***************************************************************************)
\* from = 0: no Range header.
AskRelay(h, u, head, from) ==
    /\ head => from = 0
    /\ Accept(h, "relay", [Idle EXCEPT !.pc = "connect", !.url = u, !.head = head, !.from = from])
    /\ UNCHANGED <<store, up, app, cache, now, history>>

Told(u, n) == IF Site[u].sized THEN n ELSE Untold

\* Only the status line and the headers, or the body after them.
Relay(h, status, length) ==
    req' = [req EXCEPT ![h] = [@ EXCEPT !.pc = "ended", !.status = status, !.length = length]]
Broken(h, status) ==
    req' = [req EXCEPT ![h] = [@ EXCEPT !.pc = "ended", !.status = status, !.length = Untold,
                                        !.failed = TRUE]]
Stream(h, status, length, from) ==
    req' = [req EXCEPT ![h] = [@ EXCEPT !.pc = "copy", !.status = status, !.length = length,
                                        !.from = from]]

ConnectHead(h) ==
    LET u == req[h].url
    IN  /\ req[h].pc = "connect"
        /\ req[h].head
        /\ \/ Site[u].head = "ok" /\ Relay(h, 200, Told(u, Size))
           \/ Site[u].head = "refused" /\ Goto(h, "fallback")
           \/ Site[u].head = "error" /\ Relay(h, 404, Untold)
        /\ UNCHANGED <<store, up, app, cache, now, budget, history>>

ConnectGet(h) ==
    LET u      == req[h].url
        ranges == Site[u].range \in {"ranged", "untotalled"} /\ req[h].from > 0
    IN  /\ req[h].pc = "connect"
        /\ ~req[h].head
        /\ \/ Site[u].range = "refused" /\ Relay(h, 403, Untold)
           \/ ranges /\ req[h].from >= Size /\ Relay(h, 416, Untold)
           \/ ranges /\ req[h].from < Size
                     /\ Stream(h, 206, Told(u, Size - req[h].from), req[h].from)
           \/ Site[u].range # "refused" /\ ~ranges /\ Stream(h, 200, Told(u, Size), 0)
        /\ UNCHANGED <<store, up, app, cache, now, budget, history>>

ConnectFail(h) ==
    /\ req[h].pc = "connect"
    /\ Spend("faults")
    /\ Broken(h, 502)
    /\ UNCHANGED <<store, up, app, cache, now, history>>

\* Mutant: the length of the one byte that was asked for.
FallbackOneByte(h) ==
    LET u == req[h].url
    IN  /\ req[h].pc = "fallback"
        /\ CASE Site[u].range = "refused" -> Relay(h, 403, Untold)
             [] Site[u].range = "whole"   -> Relay(h, 200, Told(u, Size))
             [] OTHER                     -> Relay(h, 200, 1)
        /\ UNCHANGED <<store, up, app, cache, now, budget, history>>

\* relay_head_via_range: the total of Content-Range becomes the Content-Length;
\* without a total ("bytes 0-0/*") the one byte's own length stays.
Fallback(h) ==
    LET u == req[h].url
    IN  /\ req[h].pc = "fallback"
        /\ CASE Site[u].range = "refused"    -> Relay(h, 403, Untold)
             [] Site[u].range = "whole"      -> Relay(h, 200, Told(u, Size))
             [] Site[u].range = "ranged"     -> Relay(h, 200, Size)
             [] Site[u].range = "untotalled" -> Relay(h, 200, 1)
        /\ UNCHANGED <<store, up, app, cache, now, budget, history>>

\* The refusal of HEAD is what is left to relay.
FallbackFail(h) ==
    /\ req[h].pc = "fallback"
    /\ Spend("faults")
    /\ Broken(h, 403)
    /\ UNCHANGED <<store, up, app, cache, now, history>>

\* Mutant: one chunk more than there is.
CopyPast(h) ==
    LET r == req[h]
    IN  /\ r.pc = "copy"
        /\ req' = IF r.sent <= Size - r.from THEN [req EXCEPT ![h].sent = @ + 1]
                  ELSE [req EXCEPT ![h] = [Idle EXCEPT !.pc = "ended"]]
        /\ UNCHANGED <<store, up, app, cache, now, budget, history>>

Copy(h) ==
    LET r == req[h]
    IN  /\ r.pc = "copy"
        /\ req' = IF r.sent < Size - r.from THEN [req EXCEPT ![h].sent = @ + 1]
                  ELSE [req EXCEPT ![h] = [Idle EXCEPT !.pc = "ended"]]
        /\ UNCHANGED <<store, up, app, cache, now, budget, history>>

\* The upstream ends early, or the console goes away.
CopyFail(h) ==
    /\ req[h].pc = "copy"
    /\ Spend("faults")
    /\ \E pc \in {"ended", "lost"} : Leave(h, pc)
    /\ UNCHANGED <<store, up, app, cache, now, history>>

(***************************************************************************)
(* PUT /api/settings                                                       *)
(***************************************************************************)
AskPut(h, k, v) ==
    /\ Accept(h, "put", [Idle EXCEPT !.pc = "save"])
    /\ Merge(h, k, v)
    /\ clashed' = (clashed \/ \E g \in Handlers : put[g].pc # "none")
    /\ kept' = [kept EXCEPT ![k] = @ \cup {v}]
    /\ UNCHANGED <<up, app, cache, now, given, vetted>>

Save(h) ==
    /\ req[h].pc = "save"
    /\ Saving(h)
    /\ UNCHANGED <<up, app, cache, req, now, budget, history>>

\* 400, with the exception's text.
PutFail(h) ==
    /\ req[h].pc = "save"
    /\ put[h].pc = "failed"
    /\ Leave(h, "ended")
    /\ put' = [put EXCEPT ![h] = NoPut]
    /\ UNCHANGED <<disk, fd, up, app, cache, now, budget, history>>

Publish(h) ==
    /\ req[h].pc = "save"
    /\ put[h].pc = "saved"
    /\ app' = [app EXCEPT !.app = put[h].new]
    /\ Goto(h, "queue")
    /\ UNCHANGED <<store, up, cache, now, budget, history>>

\* Mutant: the handler passes its own settings on.
SetQueueOwn(h) ==
    /\ req[h].pc = "queue"
    /\ app' = [app EXCEPT !.queue = put[h].new]
    /\ Goto(h, "engine")
    /\ UNCHANGED <<store, up, cache, now, budget, history>>

\* Each assignment reads app.settings again.
SetQueue(h) ==
    /\ req[h].pc = "queue"
    /\ app' = [app EXCEPT !.queue = app.app]
    /\ Goto(h, "engine")
    /\ UNCHANGED <<store, up, cache, now, budget, history>>

SetEngine(h) ==
    /\ req[h].pc = "engine"
    /\ app' = [app EXCEPT !.engine = app.app]
    /\ Leave(h, "ended")
    /\ put' = [put EXCEPT ![h] = NoPut]
    /\ kept' = [kept EXCEPT ![put[h].key] = {put[h].new[put[h].key]}]
    /\ UNCHANGED <<disk, fd, up, cache, now, budget, given, vetted, clashed>>

(***************************************************************************)
(* The process                                                             *)
(***************************************************************************)
\* A crash, or POST /api/shutdown: handler threads are daemons and die with it.
Exit ==
    /\ up
    /\ Spend("exits")
    /\ up' = FALSE
    /\ req' = [h \in Handlers |-> Idle]
    /\ fd' = [h \in Handlers |-> Detached]
    /\ put' = [h \in Handlers |-> NoPut]
    /\ cache' = [x \in Texts |-> [at |-> Never, urls |-> {}]]
    /\ UNCHANGED <<disk, app, now, history>>

\* make_app: settings that cannot be read keep the helper from starting.
Start ==
    /\ ~up
    /\ Loaded # Unreadable
    /\ up' = TRUE
    /\ app' = AppOf(Loaded)
    /\ UNCHANGED <<store, cache, req, now, budget, history>>

\* The clock's unit is minutes: an answer that is being looked up or vetted is
\* given before it moves.
Tick ==
    /\ Spend("ticks")
    /\ \A h \in Handlers : req[h].pc \notin {"cache", "vet"}
    /\ now' = now + 1
    /\ UNCHANGED <<store, up, app, cache, req, history>>

HandlerStep(h) ==
    \/ Resolve(h) \/ ResolveRaise(h) \/ Sleep(h) \/ Cache(h) \/ Vet(h) \/ VetFail(h)
    \/ ReplyNative(h) \/ ConnectHead(h) \/ ConnectGet(h) \/ ConnectFail(h) \/ Fallback(h)
    \/ FallbackFail(h) \/ Copy(h) \/ CopyFail(h)
    \/ Save(h) \/ PutFail(h) \/ Publish(h) \/ SetQueue(h) \/ SetEngine(h)

Next ==
    \/ \E h \in Handlers :
          \/ \E x \in Texts : AskNative(h, x)
          \/ \E u \in Urls, head \in BOOLEAN, from \in 0 .. Size : AskRelay(h, u, head, from)
          \/ \E k \in Keys, v \in Vals : AskPut(h, k, v)
          \/ HandlerStep(h)
    \/ Exit \/ Start \/ Tick

Spec == Init /\ [][Next]_vars

(***************************************************************************)
(* Properties                                                              *)
(***************************************************************************)
\* Types of the helper's state.
TypeOK ==
    /\ StoreTypeOK
    /\ up \in BOOLEAN
    /\ app \in [{"app", "queue", "engine"} -> Settings]
    /\ cache \in [Texts -> [at : Nat \cup {Never}, urls : SUBSET Urls]]
    /\ req \in [Handlers -> Request]
    /\ now \in Nat
    /\ budget \in [Kinds -> Nat]
    /\ given \in [Texts -> [Urls -> Nat \cup {Never}]]
    /\ vetted \subseteq Https
    /\ kept \in [Keys -> SUBSET Vals]
    /\ clashed \in BOOLEAN

\* What the console is told to download was resolved for the text it asked about
\* less than 15 minutes before ("retried/cached", docs/HOSTER_SUPPORT.md:24):
\* hits do not prolong a cached answer, other texts do not leak into it, however
\* the handlers of one text interleave (server/api.py:147).
AnswerIsRecent ==
    \A h \in Handlers : req[h].pc = "vet" =>
        \A u \in req[h].direct \cup req[h].native :
            LET t == given[req[h].text][u] IN t # Never /\ now - t < Ttl

\* Unless a connection fails, the relay URL the console was given answers its
\* HEAD with 200 and the size of the file: preflight_relayable_url and
\* handle_relay judge every server alike, those that refuse HEAD too
\* (README.md:185).  A server that hides the size ("bytes 0-0/*") is left out:
\* for it the relay announces one byte.
RelayKeepsPromise ==
    \A h \in Handlers :
        LET r == req[h]
        IN  r.pc = "ended" /\ r.head /\ r.url \in vetted /\ ~r.failed
              => /\ r.status = 200
                 /\ Site[r.url].range # "untotalled" => r.length \in {Size, Untold}

\* Over failed writes and deaths of the helper at any point, settings.json can be
\* read and holds, for every field, what the last PUT that was answered set, or
\* one that was not answered since: unless two updates overlapped, which share
\* the temporary file (core/settings.py:46).
SavedIsKept ==
    ~clashed => /\ Loaded # Unreadable
                /\ \A k \in Keys : Loaded[k] \in kept[k]

\* When no PUT is under way the queue and the engine work with the settings the
\* API shows, also after PUTs whose assignments interleaved; and these are the
\* saved ones, unless updates overlapped (server/api.py:91).
SettingsAgree ==
    up /\ (\A h \in Handlers : put[h].pc = "none") =>
        /\ app.queue = app.app /\ app.engine = app.app
        /\ ~clashed => app.app = Loaded
==============================================================================
