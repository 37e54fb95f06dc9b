\* One call of resolve_text over links that redirect and list each other freely.
SPECIFICATION Spec
CONSTANTS
    site = site
    zip = zip
    zip2 = zip2
    hoster = hoster
    proxied = proxied
    ad = ad
    broken = broken
    bare = bare
    Invalid = Invalid
    NoLink = NoLink
    Links = {site, zip, zip2, hoster, proxied, ad, broken, bare}
    Norm <- Spellings
    HosterOf <- Hosts
    Noise = {ad}
    Preferred = {hoster}
    Downloads = {zip, bare}
    Texts <- Pastes
    MaxDepth = 3
    MaxResults = 3
    MaxChildren = 2
INVARIANTS
    TypeOK
    NothingDropped
    OneEntryPerLink
    WithinDepth
\* The call ends.
CHECK_DEADLOCK FALSE
