----------------------------- MODULE LinkResolver -----------------------------
(***************************************************************************)
(* One call of LinkResolver.resolve_text, from the pasted text to the list *)
(* of results (core/resolver.py, plugins/).  The recursion of _expand_url  *)
(* and _expand_result is a list of tasks, the next one first: nothing is   *)
(* left to do in a frame whose call returns but to look at the limit, and  *)
(* every task looks at it first.  Calls share no state, so one is enough.  *)
(*                                                                         *)
(* What the Internet answers is a choice made at every request, so the     *)
(* graph of redirects and pages may have any shape, cycles included.       *)
(***************************************************************************)
EXTENDS Integers, Sequences, FiniteSets

CONSTANTS
    Links,        \* URLs as they are spelled in a text, a page or a reply
    Invalid,      \* what normalize_url makes of a URL it rejects
    NoLink,
    Norm,         \* normalize_url
    HosterOf,     \* the hoster plugin whose domains or patterns match, or "none"
    Noise,        \* is_noise_url
    Preferred,    \* Google Drive and MediaFire links, resolved first
    Downloads,    \* is_likely_download_url
    Texts,        \* the links of the texts users paste, in order
    MaxDepth,     \* max_depth, 3 in the code
    MaxResults,   \* max_results, 128 in the code
    MaxChildren   \* links taken from one page, 64 in the code

ASSUME LinksAssumption ==
    /\ Invalid \notin Links /\ NoLink \notin Links
    /\ Norm \in [Links -> Links \cup {Invalid}]
    /\ Texts \subseteq Seq(Links) /\ Downloads \subseteq Links
ASSUME LimitsAssumption ==
    /\ MaxDepth \in Nat \ {0} /\ MaxResults \in Nat \ {0} /\ MaxChildren \in Nat

VARIABLES
    phase,    \* "scan", "expand", "done", or "raised": an exception left the call
    text,     \* links of the text not yet looked at
    found,    \* the tasks of parse_text: [preferred, rest]
    todo,     \* tasks, the next one first
    call,     \* what the registry is resolving and the plugins still to ask
    seen,     \* the set `seen' of normalized URLs
    results,  \* the list `results'
    answer    \* history: what the registry returned for each member of seen

vars == <<phase, text, found, todo, call, seen, results, answer>>

(***************************************************************************)
(* Results and plugins                                                     *)
(***************************************************************************)
Types == {"direct-file", "package", "redirect", "unsupported",
          "manual-action-required", "error"}

Hosters  == {"mediafire", "buzzheavier", "rootz", "akirabox", "1fichier", "github"}
Plugins  == Hosters \cup {"redirect", "direct", "html"}
Priority == [p \in Plugins |->
    CASE p = "mediafire" -> 100 [] p = "buzzheavier" -> 90 [] p = "rootz"    -> 89
      [] p = "akirabox"  -> 88  [] p = "1fichier"    -> 87 [] p = "github"   -> 80
      [] p = "redirect"  -> 20  [] p = "direct"      -> 10 [] p = "html"     -> -10]

Matches(p, u) == p \notin Hosters \/ HosterOf[u] = p

\* "to" holds the resolved URL, or the children of a package.
Result == [type : Types, url : Links, plugin : Plugins \cup {"resolver", "registry"},
           to : Seq(Links)]
Plain(type, u, p) == [type |-> type, url |-> u, plugin |-> p, to |-> <<>>]
To(type, u, p, l) == [type |-> type, url |-> u, plugin |-> p, to |-> <<l>>]

Unresolved(u, p) == {Plain("error", u, p), Plain("manual-action-required", u, p)}
DirectTo(u, p)   == {To("direct-file", u, p, f) : f \in Links}

\* Each plugin's resolve: the results it can return for u.
MediaFire(u)   == Unresolved(u, "mediafire") \cup DirectTo(u, "mediafire")
BuzzHeavier(u) == Unresolved(u, "buzzheavier") \cup DirectTo(u, "buzzheavier")
\* A page or an API that cannot be read still leaves the proxy link.
Rootz(u)       == {Plain("unsupported", u, "rootz"),
                   Plain("manual-action-required", u, "rootz")} \cup DirectTo(u, "rootz")
AkiraBox(u)    == Unresolved(u, "akirabox") \cup DirectTo(u, "akirabox")
OneFichier(u)  == Unresolved(u, "1fichier")
GitHub(u)      == {To("direct-file", u, "github", u)}

\* A HEAD request: it fails, or is answered from the URL its redirects end at.
Replies == [ok : {FALSE}] \cup [ok : {TRUE}, final : Links, html : BOOLEAN]

RedirectFor(u, reply) ==
    CASE ~reply.ok        -> Plain("error", u, "redirect")
      [] reply.ok         -> IF reply.final # u THEN To("redirect", u, "redirect", reply.final)
                             ELSE Plain("unsupported", u, "redirect")
Redirect(u) == {RedirectFor(u, reply) : reply \in Replies}

\* A URL that looks like a file is one whatever the server says.
DirectFor(u, reply) ==
    LET file == IF reply.ok THEN reply.final ELSE u
        page == ~reply.ok \/ reply.html
    IN  IF page /\ file \notin Downloads THEN Plain("unsupported", u, "direct")
        ELSE To("direct-file", u, "direct", file)
Direct(u) == {DirectFor(u, reply) : reply \in Replies}

\* The links of a page that look like files, normalized, once each and without
\* the page itself, in any order.
Children(u) ==
    LET files == ({Norm[l] : l \in Links} \cap Downloads) \ {u}
    IN  {c \in UNION {[1 .. n -> files] : n \in 1 .. MaxChildren} :
           \A i, j \in DOMAIN c : c[i] = c[j] => i = j}
Package(u, c) == [type |-> "package", url |-> u, plugin |-> "html", to |-> c]
Html(u) == {Plain("unsupported", u, "html")} \cup Unresolved(u, "html")
             \cup {Package(u, c) : c \in Children(u)}

Answers(p, u) ==
    CASE p = "mediafire" -> MediaFire(u)  [] p = "buzzheavier" -> BuzzHeavier(u)
      [] p = "rootz"     -> Rootz(u)      [] p = "akirabox"    -> AkiraBox(u)
      [] p = "1fichier"  -> OneFichier(u) [] p = "github"      -> GitHub(u)
      [] p = "redirect"  -> Redirect(u)   [] p = "direct"      -> Direct(u)
      [] p = "html"      -> Html(u)

\* Plugins that read a page or an API's reply outside their try block: a link
\* with half an IPv6 address, a list where an object is expected, a number too long.
Raisers == {"mediafire", "buzzheavier", "rootz", "akirabox", "1fichier", "direct", "html"}

Final == {"direct-file", "package", "redirect", "manual-action-required"}

(***************************************************************************)
(* State                                                                   *)
(***************************************************************************)
\* page # NoLink: a child of that page, found too deep to be followed.
Task   == [link : Links, depth : 0 .. MaxDepth, page : Links \cup {NoLink}]
NoCall == [url |-> NoLink]
\* link: as it is in seen; last: the result if no plugin returns a final one.
Call   == [link : Links, url : Links, depth : 0 .. MaxDepth, left : SUBSET Plugins, last : Result]

Idle == phase = "expand" /\ call = NoCall
\* Mutant: one result too many.
FullPast == Len(results) > MaxResults

Full == Len(results) >= MaxResults

Init ==
    /\ phase = "scan"
    /\ text \in Texts
    /\ found = [preferred |-> <<>>, rest |-> <<>>]
    /\ todo = <<>>
    /\ call = NoCall
    /\ seen = {}
    /\ results = <<>>
    /\ answer = <<>>

(***************************************************************************)
(* parse_text                                                              *)
(***************************************************************************)
Pasted == {found.preferred[i].link : i \in DOMAIN found.preferred}
            \cup {found.rest[i].link : i \in DOMAIN found.rest}

Pass(u) == [link |-> u, depth |-> MaxDepth, page |-> NoLink]

\* A link that is invalid, noise, or in the text before, is passed over.
Scan ==
    LET u == Norm[Head(text)]
    IN  /\ phase = "scan"
        /\ text # <<>>
        /\ text' = Tail(text)
        /\ found' = IF u \in {Invalid} \cup Noise \cup Pasted THEN found
                    ELSE IF u \in Preferred
                    THEN [found EXCEPT !.preferred = Append(@, Pass(u))]
                    ELSE [found EXCEPT !.rest = Append(@, Pass(u))]
        /\ UNCHANGED <<phase, todo, call, seen, results, answer>>

\* Of a link that lost its brackets to normalize_url another may be left: no host
\* can be read from it (is_noise_url, host_from_url).
ScanRaise ==
    LET u == Norm[Head(text)]
    IN  /\ phase = "scan"
        /\ text # <<>>
        /\ u # Invalid /\ Norm[u] = Invalid
        /\ phase' = "raised"
        /\ UNCHANGED <<text, found, todo, call, seen, results, answer>>

Begin ==
    /\ phase = "scan"
    /\ text = <<>>
    /\ phase' = "expand"
    /\ todo' = found.preferred \o found.rest
    /\ UNCHANGED <<text, found, call, seen, results, answer>>

(***************************************************************************)
(* _expand_url                                                             *)
(***************************************************************************)
\* At the limit every call that is left returns at once.
Stop ==
    /\ Idle
    /\ todo # <<>>
    /\ Full
    /\ todo' = <<>>
    /\ UNCHANGED <<phase, text, found, call, seen, results, answer>>

Listed(r)    == \E i \in DOMAIN results : results[i] = r
ChildOf(p, l) == To("redirect", p, "html", l)
Rejected(l)  == Plain("error", l, "resolver")

Pop == /\ Idle
       /\ todo # <<>>
       /\ ~Full
       /\ todo' = Tail(todo)

\* Mutant: a child too deep to follow is forgotten.
ListChildSilent ==
    LET t == Head(todo)
    IN  /\ Pop
        /\ t.page # NoLink
        /\ UNCHANGED <<phase, text, found, call, seen, results, answer>>

ListChild ==
    LET t == Head(todo)
    IN  /\ Pop
        /\ t.page # NoLink
        /\ results' = Append(results, ChildOf(t.page, t.link))
        /\ UNCHANGED <<phase, text, found, call, seen, answer>>

Reject ==
    LET t == Head(todo)
    IN  /\ Pop
        /\ t.page = NoLink
        /\ Norm[t.link] = Invalid
        /\ results' = Append(results, Rejected(t.link))
        /\ UNCHANGED <<phase, text, found, call, seen, answer>>

Skip ==
    LET t == Head(todo)
    IN  /\ Pop
        /\ t.page = NoLink
        /\ Norm[t.link] \in seen
        /\ UNCHANGED <<phase, text, found, call, seen, results, answer>>

Remembers(l) ==
    LET t == Head(todo)
    IN  /\ Pop
        /\ t.page = NoLink
        /\ Norm[t.link] \notin seen \cup {Invalid}
        /\ seen' = seen \cup {l}

\* resolve_url normalizes once more.
CallFor(t) ==
    LET u == Norm[Norm[t.link]]
    IN  [link |-> Norm[t.link], url |-> u, depth |-> t.depth,
         left |-> {p \in Plugins : Matches(p, u)}, last |-> Plain("unsupported", u, "registry")]

\* Mutant: the URL is remembered as it was spelled.
ResolveAsSpelled ==
    LET t == Head(todo)
    IN  /\ Remembers(t.link)
        /\ Norm[Norm[t.link]] # Invalid
        /\ call' = CallFor(t)
        /\ UNCHANGED <<phase, text, found, results, answer>>

Resolve ==
    LET t == Head(todo)
    IN  /\ Remembers(Norm[t.link])
        /\ Norm[Norm[t.link]] # Invalid
        /\ call' = CallFor(t)
        /\ UNCHANGED <<phase, text, found, results, answer>>

\* What it made of a bracketed IPv6 host it rejects: nothing catches that.
ResolveRaise ==
    LET t == Head(todo)
    IN  /\ Remembers(Norm[t.link])
        /\ Norm[Norm[t.link]] = Invalid
        /\ phase' = "raised"
        /\ UNCHANGED <<text, found, call, results, answer>>

(***************************************************************************)
(* PluginRegistry.resolve and _expand_result                               *)
(***************************************************************************)
Top(p) == p \in call.left /\ \A q \in call.left : Priority[q] <= Priority[p]

Asking(p) == phase = "expand" /\ call # NoCall /\ Top(p)

\* Mutant: a redirect costs no depth.
TaskForFree(r, d, l) ==
    CASE r.type = "redirect"          -> [link |-> l, depth |-> d, page |-> NoLink]
      [] r.type = "package" /\ d = 1  -> [link |-> l, depth |-> 0, page |-> r.url]
      [] r.type = "package" /\ d > 1  -> [link |-> l, depth |-> d - 2, page |-> NoLink]

\* What a result at depth d > 0 leads to.  The children of a page are redirects
\* one level down: followed two levels down, or listed.
TaskFor(r, d, l) ==
    CASE r.type = "redirect"          -> [link |-> l, depth |-> d - 1, page |-> NoLink]
      [] r.type = "package" /\ d = 1  -> [link |-> l, depth |-> 0, page |-> r.url]
      [] r.type = "package" /\ d > 1  -> [link |-> l, depth |-> d - 2, page |-> NoLink]
Tasks(r, d) == [i \in DOMAIN r.to |-> TaskFor(r, d, r.to[i])]

Leads(r) == r.type \in {"redirect", "package"} /\ call.depth > 0

Remember(r) ==
    answer' = [u \in DOMAIN answer \cup {call.link} |-> IF u = call.link THEN r ELSE answer[u]]

ExpandResult(r) ==
    /\ Remember(r)
    /\ call' = NoCall
    /\ \/ /\ Leads(r)
          /\ todo' = Tasks(r, call.depth) \o todo
          /\ UNCHANGED results
       \/ /\ ~Leads(r)
          /\ results' = Append(results, r)
          /\ UNCHANGED todo

Answer(p) ==
    /\ Asking(p)
    /\ \E r \in Answers(p, call.url) : r.type \in Final /\ ExpandResult(r)
    /\ UNCHANGED <<phase, text, found, seen>>

PassOn(p) ==
    /\ Asking(p)
    /\ \E r \in Answers(p, call.url) :
          /\ r.type \notin Final
          /\ call' = [call EXCEPT !.left = @ \ {p},
                                  !.last = IF r.type = "error" THEN r ELSE @]
    /\ UNCHANGED <<phase, text, found, todo, seen, results, answer>>

\* The exception leaves resolve_text: the results so far are lost.
Raise(p) ==
    /\ Asking(p)
    /\ p \in Raisers
    /\ phase' = "raised"
    /\ UNCHANGED <<text, found, todo, call, seen, results, answer>>

GiveUp ==
    /\ phase = "expand"
    /\ call # NoCall
    /\ call.left = {}
    /\ ExpandResult(call.last)
    /\ UNCHANGED <<phase, text, found, seen>>

Finish ==
    /\ Idle
    /\ todo = <<>>
    /\ phase' = "done"
    /\ UNCHANGED <<text, found, todo, call, seen, results, answer>>

Next ==
    \/ Scan \/ ScanRaise \/ Begin
    \/ Stop \/ ListChild \/ Reject \/ Skip \/ Resolve \/ ResolveRaise \/ GiveUp \/ Finish
    \/ \E p \in Plugins : Answer(p) \/ PassOn(p) \/ Raise(p)

Spec == Init /\ [][Next]_vars

(***************************************************************************)
(* Properties                                                              *)
(***************************************************************************)
\* Types of the call's state: tasks within the depth, only valid URLs
\* remembered, at most max_results results (core/resolver.py:36).
TypeOK ==
    /\ phase \in {"scan", "expand", "done", "raised"}
    /\ text \in Seq(Links)
    /\ found \in [preferred : Seq(Task), rest : Seq(Task)]
    /\ todo \in Seq(Task)
    /\ call \in Call \cup {NoCall}
    /\ seen \subseteq Links
    /\ results \in Seq(Result) /\ Len(results) <= MaxResults
    /\ answer \in [DOMAIN answer -> Result] /\ DOMAIN answer \subseteq seen

GoesOn(r) == r.type \in {"redirect", "package"}

\* A link a result leads to has an answer of its own, or is listed as the child or
\* the error it is.
Followed(r, l) == Norm[l] \in seen \/ Listed(ChildOf(r.url, l)) \/ Listed(Rejected(l))
Accounted(r) ==
    \/ Listed(r)
    \/ GoesOn(r) /\ r.to # <<>> /\ \A i \in DOMAIN r.to : Followed(r, r.to[i])

\* The links that were answered where u led to, and the entries it led to.
LeadsTo(u) == IF GoesOn(answer[u])
              THEN {Norm[answer[u].to[i]] : i \in DOMAIN answer[u].to} \cap seen ELSE {}
Shows(u)   == LET r == answer[u]
              IN  \/ Listed(r)
                  \/ \E i \in DOMAIN r.to : Listed(ChildOf(r.url, r.to[i])) \/ Listed(Rejected(r.to[i]))

Closed(S)    == \A u \in S : LeadsTo(u) \subseteq S
HasCircle(S) == \E T \in SUBSET S \ {{}} : \A u \in T : LeadsTo(u) \cap T # {}

Complete == phase = "done" /\ ~Full

\* Unless the limit cut the call short, every pasted link is resolved or listed as
\* an error, and what a link resolved to is in the list, or leads to links each of
\* which is listed or has an answer ("expand packages, follow safe redirects, then
\* queue", README.md:19).  The skip of a link already seen, the depth limit and the
\* break out of a package's children all have to fit.  Links of which nothing at all
\* is shown, wherever they lead to, lead round in a circle; these the code does hide
\* (core/resolver.py:43), where README.md:26 has every pasted link shown.
NothingDropped ==
    Complete =>
        /\ \A l \in Pasted : Norm[l] \in seen \/ Listed(Rejected(l))
        /\ seen = DOMAIN answer
        /\ \A u \in seen : Accounted(answer[u])
        /\ \A S \in SUBSET seen \ {{}} : Closed(S) => HasCircle(S) \/ \E u \in S : Shows(u)

\* Entries that are neither a page's child, listed too deep to be followed, nor a
\* link rejected.
Own == {i \in DOMAIN results :
          /\ results[i].plugin # "resolver"
          /\ ~(results[i].type = "redirect" /\ results[i].plugin = "html")}

\* Each of them is the answer to another URL: no URL is asked for twice, in
\* whatever spelling texts, pages and redirects have it (core/resolver.py:43-45).
\* Two URLs may lead to one file, and a child may be listed for each of its pages.
OneEntryPerLink ==
    \E link \in [Own -> DOMAIN answer] :
        /\ \A i \in Own : results[i] = answer[link[i]]
        /\ \A i, j \in Own : link[i] = link[j] => i = j

\* Redirects cost one level, pages two.
Levels(r) == IF r.type = "package" THEN 2 ELSE 1

\* However long a chain of redirects and pages the servers make up, no URL is
\* asked for that is further than max_depth levels from a pasted link
\* (core/resolver.py:53-60).  With max_children this bounds the call.
WithinDepth ==
    \E level \in [DOMAIN answer -> 0 .. MaxDepth] :
        \A u \in DOMAIN answer :
            \/ \E l \in Pasted : u = Norm[l]
            \/ \E v \in DOMAIN answer :
                  u \in LeadsTo(v) /\ level[v] + Levels(answer[v]) <= level[u]
==============================================================================
