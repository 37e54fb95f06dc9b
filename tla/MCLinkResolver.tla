---------------------------- MODULE MCLinkResolver ----------------------------
(***************************************************************************)
(* An instance of LinkResolver for TLC: a hoster page, a file under two    *)
(* spellings, a page, and a link that no URL can be made of.               *)
(***************************************************************************)
EXTENDS LinkResolver

CONSTANTS site,         \* a page with links, or anything else
          zip, zip2,    \* "/a.zip?x=1&y=2" and "/a.zip?y=2&x=1"
          hoster,       \* a page of a hoster with a plugin
          proxied,      \* one whose plugin may pass the URL on
          ad,           \* a noise link
          broken,       \* "http://[::1]/a.zip"
          bare          \* "http://::1/a.zip", what normalize_url makes of it: invalid

Spellings == [l \in Links |-> CASE l = broken -> bare [] l = bare -> Invalid
                             [] l = zip2 -> zip    [] OTHER -> l]
Hosts     == [l \in Links |-> IF l = hoster THEN "mediafire"
                              ELSE IF l = proxied THEN "rootz" ELSE "none"]
Pastes    == {<<site, ad, zip2, hoster>>, <<zip, broken, zip2>>, <<proxied>>}
==============================================================================
