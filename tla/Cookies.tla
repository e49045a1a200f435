------------------------------ MODULE Cookies ------------------------------
(***************************************************************************)
(* The cookies of src/mendes/src/cookies.rs between an application and one *)
(* browser: a handler calls cookie() for the request it has and            *)
(* set_cookie() for the response it makes, the value is sealed with the    *)
(* key of the application (src/mendes/src/key.rs), and the browser keeps   *)
(* it as RFC 6265 tells it to.  Requests overlap, so a response may be     *)
(* received after requests that were sent later have been answered, or     *)
(* never.  Time passes, and the application is started again with another  *)
(* key.  The connections are secure.                                       *)
(*                                                                         *)
(* A path is its depth: all paths are prefixes of the longest, and a       *)
(* request for url u sees the cookies of the paths up to u.                *)
(*                                                                         *)
(* An operator named Bug_... is a broken variant of the definition after   *)
(* it; no specification uses one.                                          *)
(***************************************************************************)
EXTENDS Naturals, Sequences, FiniteSets

CONSTANTS
    Requests,        \* the requests the browser makes
    Names,           \* the types with #[cookie]
    Data,            \* the data of such a type
    Depth,           \* the longest path
    Params,          \* the parameter lists of #[cookie(...)]
    Absent,          \* the list lacks a parameter
    DefaultAge,      \* 6 * 60 * 60, in units of the clock
    NoCookie,        \* there is no cookie, or it is deleted
    Text, Binary,    \* a cookie of another program of the site; one that is not UTF-8
    Others,          \* the cells that may have such a cookie at first, and its value
    Untouched,       \* the handler has not set this cookie
    MaxTurns, MaxSets   \* bounds: clock ticks and restarts, headers of open requests

Paths == 1..Depth
Cells == Names \X Paths
Foreign == {Text, Binary}

ASSUME CookiesAssumption ==
    /\ Depth \in Nat \ {0}
    /\ DefaultAge \in Nat /\ MaxTurns \in Nat /\ MaxSets \in Nat
    /\ Params \subseteq [max_age : Nat \cup {Absent}, path : Paths \cup {Absent},
                         same_site : {"Lax", "None", "Strict", Absent},
                         secure : BOOLEAN \cup {Absent}]
    /\ Others \subseteq Cells \X Foreign
    /\ Absent \notin Nat \cup BOOLEAN \cup {"Lax", "None", "Strict"}

VARIABLES
    meta,            \* meta[n]: CookieData::meta() of the type n
    key, now,        \* the application's key, and SystemTime::now()
    jar,             \* jar[n, p]: what the browser has under the name and path
    split,           \* whether each cookie has a header of its own, as in HTTP/2
    at,              \* at[r]: whether the request is with the handler, or answered
    url, sent,       \* its path, and its cookies
    headers,         \* headers[r]: the Set-Cookie headers of its response
    answer,          \* what the last step returned, if it was a call of cookie()
    told, expect, called     \* histories, see below

reqs == <<at, url, sent, expect>>
ckvars == <<meta, split, key, now, jar, reqs, headers, answer, told, called>>

-----------------------------------------------------------------------------
(* The macro, and the values of cookies.                                   *)

Given(v, default) == IF v = Absent THEN default ELSE v

\* a default is missing
Bug_MetaOf(ps) ==
    [max_age   |-> ps.max_age,
     path      |-> Given(ps.path, 1),
     same_site |-> Given(ps.same_site, "None"),
     secure    |-> Given(ps.secure, TRUE)]

\* The attribute macro, the path being "/" when there is none.
MetaOf(ps) ==
    [max_age   |-> Given(ps.max_age, DefaultAge),
     path      |-> Given(ps.path, 1),
     same_site |-> Given(ps.same_site, "None"),
     secure    |-> Given(ps.secure, TRUE)]

\* It panics for other lists.
Compiles(m) == m.same_site = "Strict" => m.secure

Metas == {m \in [max_age : Nat, path : Paths, same_site : {"Lax", "None", "Strict"},
                 secure : BOOLEAN] : Compiles(m)}

Tokens == [name : Names, data : Data, key : Nat, expires : Nat]

ASSUME ValuesAssumption ==
    /\ NoCookie \notin Tokens \cup Foreign
    /\ Untouched \notin Tokens \cup Foreign \cup {NoCookie}
    /\ Foreign \cap Tokens = {}

Headers == [cell : Cells, value : Tokens \cup {NoCookie}, meta : Metas]

Values == Tokens \cup Foreign \cup {NoCookie}

\* Cookie::encode, Key::encrypt: the name is authenticated with the data.
Seal(n, d, m) ==
    [name |-> n, data |-> d, key |-> key, expires |-> now + m.max_age]

\* expired cookies are accepted
Bug_Decodes(v, n) == v \in Tokens /\ v.name = n /\ v.key = key

\* CookieData::decode, Key::decrypt
Decodes(v, n) == v \in Tokens /\ v.name = n /\ v.key = key /\ now < v.expires

-----------------------------------------------------------------------------
(* Histories: told is what the handlers of the responses received have     *)
(* said of each cookie, expect[r] what told was when r was sent, and       *)
(* called[r] what the handler of r says.                                   *)

Quiet  == [name |-> NoCookie, value |-> NoCookie]
Silent == [x \in Cells |-> Untouched]
Gone   == [value |-> NoCookie, dies |-> 0]
Empty  == [x \in Cells |-> NoCookie]

CkTypeOK ==
    /\ meta \in [Names -> Metas]
    /\ key \in Nat /\ now \in Nat
    /\ jar \in [Cells -> [value : Values, dies : Nat]]
    /\ at \in [Requests -> {"new", "handler", "answered", "done"}]
    /\ url \in [Requests -> Paths] /\ split \in BOOLEAN
    /\ sent \in [Requests -> [Cells -> Values]]
    /\ headers \in [Requests -> Seq(Headers)]
    /\ answer \in [name : Names \cup {NoCookie}, value : Tokens \cup {NoCookie}]
    /\ told \in [Cells -> Values]
    /\ expect \in [Requests -> [Cells -> Values]]
    /\ called \in [Requests -> [Cells -> Tokens \cup {NoCookie, Untouched}]]

CkInit ==
    /\ meta \in {f \in [Names -> {MetaOf(ps) : ps \in Params}] : \A n \in Names : Compiles(f[n])}
    /\ key = 0 /\ now = 0
    /\ jar \in [Cells -> {Gone} \cup {[value |-> v, dies |-> DefaultAge] : v \in Foreign}]
    /\ \A x \in Cells : jar[x] # Gone => <<x, jar[x].value>> \in Others
    /\ at = [r \in Requests |-> "new"]
    /\ url = [r \in Requests |-> 1] /\ split \in BOOLEAN
    /\ sent = [r \in Requests |-> Empty]
    /\ headers = [r \in Requests |-> <<>>]
    /\ answer = Quiet
    /\ told = [x \in Cells |-> jar[x].value]
    /\ expect = [r \in Requests |-> Empty]
    /\ called = [r \in Requests |-> Silent]

-----------------------------------------------------------------------------
(* The application.                                                        *)

\* A header that is not UTF-8 is passed over, with all the cookies in it.
Unread(r, x) ==
    IF split THEN sent[r][x] = Binary ELSE \E y \in Cells : sent[r][y] = Binary

\* The last of the headers, or the longest of the paths: its cookie comes first.
Last(ps) == CHOOSE p \in ps : \A q \in ps : q <= p

\* gives up at the first cookie of the name
Bug_extract(r, n) ==
    LET ps == {p \in Paths : sent[r][<<n, p>>] # NoCookie /\ ~Unread(r, <<n, p>>)}
    IN  IF ps # {} /\ Decodes(sent[r][<<n, Last(ps)>>], n) THEN sent[r][<<n, Last(ps)>>] ELSE NoCookie

\* The first cookie of the name that decodes.
extract(r, n) ==
    LET ps == {p \in Paths : Decodes(sent[r][<<n, p>>], n) /\ ~Unread(r, <<n, p>>)}
    IN  IF ps = {} THEN NoCookie ELSE sent[r][<<n, Last(ps)>>]

\* AppWithCookies::cookie
Read(r, n) ==
    /\ at[r] = "handler"
    /\ answer' = [name |-> n, value |-> extract(r, n)]
    /\ UNCHANGED <<meta, split, key, now, jar, reqs, headers, told, called>>

\* headers.append
Add(hs, h) == Append(hs, h)

\* Browsers refuse SameSite=None without Secure.
Storable(m) == m.same_site = "None" => m.secure

UnderWay == UNION {{r} \X DOMAIN headers[r] : r \in Requests}

\* set_cookie_from_parts, and the application puts the header in its response.
SetFromParts(r, n, v, m) ==
    /\ at[r] = "handler" /\ Cardinality(UnderWay) < MaxSets
    /\ headers' = [headers EXCEPT ![r] = Add(@, [cell |-> <<n, m.path>>, value |-> v, meta |-> m])]
    /\ called' = IF Storable(m) THEN [called EXCEPT ![r][<<n, m.path>>] = v] ELSE called
    /\ answer' = Quiet
    /\ UNCHANGED <<meta, split, key, now, jar, reqs, told>>

\* set_cookie, with the meta of the type or with another path.
SetCookie(r, n, d, p) ==
    LET m == [meta[n] EXCEPT !.path = p]
    IN  SetFromParts(r, n, Seal(n, d, m), m)
DeleteCookie(r, n, p) ==
    SetFromParts(r, n, NoCookie, [meta[n] EXCEPT !.path = p])

\* What a request brought is gone when its handler has returned.
Drop(rs) ==
    /\ url' = [r \in Requests |-> IF r \in rs THEN 1 ELSE url[r]]
    /\ sent' = [r \in Requests |-> IF r \in rs THEN Empty ELSE sent[r]]
    /\ expect' = [r \in Requests |-> IF r \in rs THEN Empty ELSE expect[r]]

Respond(r) ==
    /\ at[r] = "handler"
    /\ at' = [at EXCEPT ![r] = "answered"]
    /\ Drop({r})
    /\ answer' = Quiet
    /\ UNCHANGED <<meta, split, key, now, jar, headers, told, called>>

\* set_cookie() is an Err, and the handler returns it: the response that it was
\* about to make is dropped with its headers.
SetCookieFails(r) ==
    /\ at[r] = "handler"
    /\ at' = [at EXCEPT ![r] = "answered"]
    /\ Drop({r})
    /\ headers' = [headers EXCEPT ![r] = <<>>]
    /\ called' = [called EXCEPT ![r] = Silent]
    /\ answer' = Quiet
    /\ UNCHANGED <<meta, split, key, now, jar, told>>

-----------------------------------------------------------------------------
(* The browser.                                                            *)

\* Nothing of these requests and responses is left.
Forget(rs) ==
    /\ at' = [r \in Requests |-> IF r \in rs THEN "done" ELSE at[r]]
    /\ headers' = [r \in Requests |-> IF r \in rs THEN <<>> ELSE headers[r]]
    /\ called' = [r \in Requests |-> IF r \in rs THEN Silent ELSE called[r]]
    /\ Drop(rs)

Send(r, u) ==
    /\ at[r] = "new"
    /\ at' = [at EXCEPT ![r] = "handler"]
    /\ url' = [url EXCEPT ![r] = u]
    /\ sent' = [sent EXCEPT ![r] =
                  [x \in Cells |-> IF x[2] <= u THEN jar[x].value ELSE NoCookie]]
    /\ expect' = [expect EXCEPT ![r] = told]
    /\ answer' = Quiet
    /\ UNCHANGED <<meta, split, key, now, jar, headers, told, called>>

\* The headers that are about a cookie; the last of them decides.
About(hs, x) == {k \in DOMAIN hs : hs[k].cell = x /\ Storable(hs[k].meta)}
Decides(hs, x) == hs[Last(About(hs, x))]

\* The response is received.
Receive(r) ==
    /\ at[r] = "answered"
    /\ jar' = [x \in Cells |->
                 IF About(headers[r], x) = {} THEN jar[x]
                 ELSE IF Decides(headers[r], x).value = NoCookie \/ Decides(headers[r], x).meta.max_age = 0
                 THEN Gone
                 ELSE [value |-> Decides(headers[r], x).value,
                       dies |-> now + Decides(headers[r], x).meta.max_age]]
    /\ told' = [x \in Cells |-> IF called[r][x] = Untouched THEN told[x] ELSE called[r][x]]
    /\ Forget({r})
    /\ answer' = Quiet
    /\ UNCHANGED <<meta, split, key, now>>

\* It is not: the browser or the network has given the request up.
Lost(r) ==
    /\ at[r] \in {"handler", "answered"}
    /\ Forget({r})
    /\ answer' = Quiet
    /\ UNCHANGED <<meta, split, key, now, jar, told>>

\* Time goes on, and the browser forgets the cookies whose Max-Age is over.
Tick ==
    /\ now + key < MaxTurns /\ now' = now + 1
    /\ jar' = [x \in Cells |-> IF jar[x].dies <= now' THEN Gone ELSE jar[x]]
    /\ answer' = Quiet
    /\ UNCHANGED <<meta, split, key, reqs, headers, told, called>>

\* The application is started again with another key; handlers do not survive.
Restart ==
    /\ now + key < MaxTurns /\ key' = key + 1
    /\ Forget({r \in Requests : at[r] = "handler"})
    /\ answer' = Quiet
    /\ UNCHANGED <<meta, split, now, jar, told>>

CkNext ==
    \/ \E r \in Requests :
          \/ \E u \in Paths : Send(r, u)
          \/ \E n \in Names : Read(r, n)
          \/ \E n \in Names, p \in Paths :
                DeleteCookie(r, n, p) \/ \E d \in Data : SetCookie(r, n, d, p)
          \/ Respond(r) \/ SetCookieFails(r) \/ Receive(r) \/ Lost(r)
    \/ Tick \/ Restart

CkSpec == CkInit /\ [][CkNext]_ckvars

-----------------------------------------------------------------------------

\* Whatever happens to requests and responses, cookie() returns what the last
\* response received has set for the longest path that the request is under, of
\* those that are not deleted, expired or sealed with an older key, and nothing
\* when there is none; only a header that is not UTF-8 hides a cookie.
Live(r, n) == {p \in 1..url[r] : Decodes(expect[r][<<n, p>>], n)}
ReadsWhatWasSet ==
    [][\A r \in Requests, n \in Names : Read(r, n) =>
          \/ ~split /\ \E x \in Cells : sent[r][x] = Binary
          \/ Live(r, n) = {} /\ answer'.value = NoCookie
          \/ \E p \in Live(r, n) : /\ answer'.value = expect[r][<<n, p>>]
                                   /\ \A q \in Live(r, n) : q <= p]_ckvars

\* What the headers of a response set.
Set(hs) == {hs[k].value : k \in DOMAIN hs}

\* The sealed values anybody has: the browser, the requests and the responses.
Held ==
    {t \in {jar[x].value : x \in Cells}
           \cup {sent[r][x] : r \in Requests, x \in Cells}
           \cup UNION {Set(headers[r]) : r \in Requests}
        : t \in Tokens}

\* cookie() keeps the promise of SealedStore: it returns only what the application
\* has sealed for this name, with the key it has now, and what is not expired.
Store == INSTANCE SealedStore WITH held <- Held
StaysSealed == Store!Spec
=============================================================================
