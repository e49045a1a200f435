--------------------------- MODULE CookiesProofs ---------------------------
(***************************************************************************)
(* Cookies, proved for every number of requests, names, data, paths and    *)
(* parameters, and for a clock and a key without bounds: what the browser  *)
(* has and sends is what the handlers have said, as far as it can still be *)
(* read, so cookie() reads what was set, and only what is sealed.          *)
(***************************************************************************)
EXTENDS Cookies, WellFoundedInduction, TLAPS

\* A value that no cookie() returns any more at time t.
Faded(v, t) == v \in Foreign \/ (v \in Tokens /\ v.expires <= t)

\* w stands for v unless v has faded and is gone.
StandsFor(w, v, t) == w = v \/ (w = NoCookie /\ Faded(v, t))

\* The jar and what was told of it agree, and the browser does not drop a cookie
\* before it expires.
JarAsTold ==
    \A x \in Cells :
        /\ StandsFor(jar[x].value, told[x], now)
        /\ jar[x].value \in Tokens => jar[x].value.expires <= jar[x].dies

\* A request has what was told when it was sent, of the paths it is under.
SentAsTold ==
    \A r \in Requests, x \in Cells :
        IF x[2] <= url[r] THEN StandsFor(sent[r][x], expect[r][x], now) ELSE sent[r][x] = NoCookie

\* The headers of a response say what its handler has called for.
HeadersAsCalled ==
    \A r \in Requests :
        /\ \A x \in Cells :
              called[r][x] = IF About(headers[r], x) = {} THEN Untouched
                             ELSE Decides(headers[r], x).value
        /\ \A k \in DOMAIN headers[r] :
              headers[r][k].value \in Tokens =>
                  headers[r][k].value.expires <= now + headers[r][k].meta.max_age

IInv == CkTypeOK /\ JarAsTold /\ SentAsTold /\ HeadersAsCalled

-----------------------------------------------------------------------------

\* A finite set of numbers that is not empty has a last one.
LEMMA Longest ==
    ASSUME NEW D \in Nat, NEW ps \in SUBSET (1..D), ps # {}
    PROVE  Last(ps) \in ps /\ \A q \in ps : q <= Last(ps)
<1> DEFINE Rest == {D - p : p \in ps}
           Less == OpToRel(<, Nat)
<1>1. Rest \subseteq Nat /\ Rest # {}
  <2>1. \A p \in ps : D - p \in Nat
    OBVIOUS
  <2>2. PICK p \in ps : TRUE
    OBVIOUS
  <2>3. D - p \in Rest
    OBVIOUS
  <2>4. Rest \subseteq Nat
    BY <2>1
  <2> QED  BY <2>3, <2>4
<1>2. PICK m \in Rest : \A k \in Rest : ~(<<k, m>> \in Less)
  <2> HIDE DEF Rest
  <2> QED  BY <1>1, NatLessThanWellFounded, WFMin
<1>3. \A k, i \in Nat : k < i => <<k, i>> \in Less
  BY DEF OpToRel
<1>4. \A k \in Rest : m <= k
  <2> HIDE DEF Rest, Less
  <2>1. \A k \in Rest : k \in Nat /\ m \in Nat
    BY <1>1, <1>2, Zenon
  <2>2. \A k \in Rest : ~(k < m)
    BY <1>2, <1>3, <2>1, Zenon
  <2> QED  BY <2>1, <2>2
<1>5. PICK p \in ps : m = D - p
  OBVIOUS
<1>6. \A q \in ps : D - q \in Rest
  OBVIOUS
<1>7. \A q \in ps : q <= p
  <2> HIDE DEF Rest
  <2> QED  BY <1>4, <1>5, <1>6
<1>8. \E i \in ps : \A q \in ps : q <= i
  BY <1>7
<1> QED  BY <1>8, Zenon DEF Last

\* set_cookie_from_parts appends a header: it decides about its own cookie, and
\* nothing else changes.
LEMMA AppendDecides ==
    ASSUME NEW hs \in Seq(Headers), NEW h \in Headers, NEW x \in Cells
    PROVE  IF h.cell = x /\ Storable(h.meta)
           THEN About(Append(hs, h), x) # {} /\ Decides(Append(hs, h), x) = h
           ELSE /\ About(Append(hs, h), x) = About(hs, x)
                /\ About(hs, x) # {} => Decides(Append(hs, h), x) = Decides(hs, x)
<1> DEFINE n == Len(hs)
<1>1. /\ n \in Nat /\ DOMAIN hs = 1..n /\ DOMAIN Append(hs, h) = 1..(n + 1)
      /\ Append(hs, h)[n + 1] = h
      /\ \A k \in 1..n : Append(hs, h)[k] = hs[k]
  OBVIOUS
<1>2. CASE h.cell = x /\ Storable(h.meta)
  <2>1. n + 1 \in About(Append(hs, h), x) /\ About(Append(hs, h), x) \subseteq 1..(n + 1)
    BY <1>1, <1>2 DEF About
  <2>2. Last(About(Append(hs, h), x)) = n + 1
    <3> HIDE DEF n
    <3> DEFINE ps == About(Append(hs, h), x)
    <3>1. n + 1 \in Nat /\ ps \in SUBSET (1..(n + 1)) /\ n + 1 \in ps
      BY <1>1, <2>1
    <3> HIDE DEF ps
    <3>2. Last(ps) \in ps /\ \A q \in ps : q <= Last(ps)
      BY <3>1, Longest
    <3>3. Last(ps) \in 1..(n + 1) /\ n + 1 <= Last(ps) /\ n \in Nat
      BY <1>1, <3>1, <3>2
    <3>4. Last(ps) = n + 1
      BY <3>3
    <3> QED  BY <3>4 DEF ps
  <2> QED  BY <1>1, <1>2, <2>1, <2>2 DEF Decides
<1>3. CASE ~(h.cell = x /\ Storable(h.meta))
  <2>1. About(Append(hs, h), x) = About(hs, x)
    BY <1>1, <1>3 DEF About
  <2>2. ASSUME About(hs, x) # {} PROVE Last(About(hs, x)) \in 1..n
    <3> HIDE DEF n
    <3>1. About(hs, x) \subseteq 1..n
      BY <1>1 DEF About
    <3> QED  BY <1>1, <2>2, <3>1, Longest
  <2> QED  BY <1>1, <1>3, <2>1, <2>2 DEF Decides
<1> QED  BY <1>2, <1>3

\* What decides about a cookie is one of the headers.
LEMMA DecidesIsAHeader ==
    ASSUME NEW hs \in Seq(Headers), NEW x \in Cells, About(hs, x) # {}
    PROVE  \E k \in DOMAIN hs : Decides(hs, x) = hs[k] /\ hs[k] \in Headers
<1>1. Len(hs) \in Nat /\ DOMAIN hs = 1..Len(hs)
  OBVIOUS
<1>2. About(hs, x) \subseteq 1..Len(hs)
  BY <1>1 DEF About
<1>3. Last(About(hs, x)) \in DOMAIN hs
  BY <1>1, <1>2, Longest
<1> QED  BY <1>1, <1>3 DEF Decides

-----------------------------------------------------------------------------

\* The macro makes a meta of each list of parameters.
LEMMA MetasOfParams == \A ps \in Params : Compiles(MetaOf(ps)) => MetaOf(ps) \in Metas
<1> SUFFICES ASSUME NEW ps \in Params, Compiles(MetaOf(ps)) PROVE MetaOf(ps) \in Metas
  OBVIOUS
<1>1. /\ ps.max_age \in Nat \cup {Absent} /\ ps.path \in Paths \cup {Absent}
      /\ ps.same_site \in {"Lax", "None", "Strict", Absent}
      /\ ps.secure \in BOOLEAN \cup {Absent}
  BY CookiesAssumption
<1>2. Given(ps.max_age, DefaultAge) \in Nat /\ Given(ps.path, 1) \in Paths
  BY <1>1, CookiesAssumption DEF Given, Paths
<1>3. Given(ps.same_site, "None") \in {"Lax", "None", "Strict"}
  BY <1>1 DEF Given
<1>4. Given(ps.secure, TRUE) \in BOOLEAN
  BY <1>1, Zenon DEF Given
<1> QED  BY <1>2, <1>3, <1>4 DEF MetaOf, Metas

\* The browser has made no request, and what it has is of other programs.
LEMMA InitInv == CkInit => IInv
<1> SUFFICES ASSUME CkInit PROVE IInv
  OBVIOUS
<1> USE DEF CkInit
<1>1. CkTypeOK
  <2>1. meta \in [Names -> Metas]
    BY MetasOfParams
  <2>2. jar \in [Cells -> [value : Values, dies : Nat]]
    BY CookiesAssumption DEF Gone, Values
  <2>3. told \in [Cells -> Values]
    BY <2>2
  <2>4. 1 \in Paths
    BY CookiesAssumption DEF Paths
  <2> QED  BY <2>1, <2>2, <2>3, <2>4 DEF CkTypeOK, Quiet, Empty, Silent, Values
<1>2. JarAsTold
  BY <1>1, ValuesAssumption DEF JarAsTold, CkTypeOK, StandsFor, Gone
<1>3. SentAsTold
  BY DEF SentAsTold, StandsFor, Empty
<1>4. HeadersAsCalled
  <2>1. \A x \in Cells : About(<<>>, x) = {}
    BY DEF About
  <2> QED  BY <2>1 DEF HeadersAsCalled, Silent
<1> QED  BY <1>1, <1>2, <1>3, <1>4 DEF IInv

\* What Forget and Drop leave is in order.
LEMMA DropInv ==
    ASSUME IInv, NEW rs, Drop(rs), now' = now
    PROVE  /\ url' \in [Requests -> Paths] /\ sent' \in [Requests -> [Cells -> Values]]
           /\ expect' \in [Requests -> [Cells -> Values]]
           /\ SentAsTold'
<1>1. 1 \in Paths /\ Empty \in [Cells -> Values]
  BY CookiesAssumption DEF Paths, Empty, Values
<1>2. /\ url' \in [Requests -> Paths] /\ sent' \in [Requests -> [Cells -> Values]]
      /\ expect' \in [Requests -> [Cells -> Values]]
  BY <1>1 DEF IInv, CkTypeOK, Drop
<1>4. ASSUME NEW r \in Requests, NEW x \in Cells
      PROVE  IF x[2] <= url'[r] THEN StandsFor(sent'[r][x], expect'[r][x], now') ELSE sent'[r][x] = NoCookie
  <2>1. CASE r \in rs
    BY <2>1, <1>4 DEF Drop, Empty, StandsFor
  <2>2. CASE r \notin rs
    BY <2>2, <1>4 DEF Drop, IInv, SentAsTold
  <2> QED  BY <2>1, <2>2
<1> QED  BY <1>2, <1>4 DEF SentAsTold

LEMMA ForgetInv ==
    ASSUME IInv, NEW rs, Forget(rs), now' = now
    PROVE  /\ at' \in [Requests -> {"new", "handler", "answered", "done"}]
           /\ headers' \in [Requests -> Seq(Headers)]
           /\ called' \in [Requests -> [Cells -> Tokens \cup {NoCookie, Untouched}]]
           /\ HeadersAsCalled'
<1>1. <<>> \in Seq(Headers) /\ Silent \in [Cells -> Tokens \cup {NoCookie, Untouched}]
  BY DEF Silent
<1>2. /\ at' \in [Requests -> {"new", "handler", "answered", "done"}]
      /\ headers' \in [Requests -> Seq(Headers)]
      /\ called' \in [Requests -> [Cells -> Tokens \cup {NoCookie, Untouched}]]
  BY <1>1 DEF IInv, CkTypeOK, Forget
<1>3. \A x \in Cells : About(<<>>, x) = {}
  BY DEF About
<1>4. \A r \in Requests :
        IF r \in rs THEN headers'[r] = <<>> /\ called'[r] = Silent
        ELSE headers'[r] = headers[r] /\ called'[r] = called[r]
  BY DEF Forget
<1>5. ASSUME NEW r \in Requests
      PROVE  /\ \A x \in Cells :
                    called'[r][x] = IF About(headers'[r], x) = {} THEN Untouched
                                    ELSE Decides(headers'[r], x).value
             /\ \A k \in DOMAIN headers'[r] :
                    headers'[r][k].value \in Tokens =>
                        headers'[r][k].value.expires <= now' + headers'[r][k].meta.max_age
  <2>1. CASE r \in rs
    BY <1>3, <1>4, <1>5, <2>1 DEF Silent
  <2>2. CASE r \notin rs
    BY <1>4, <1>5, <2>2 DEF IInv, HeadersAsCalled
  <2> QED  BY <2>1, <2>2
<1> QED  BY <1>2, <1>5 DEF HeadersAsCalled

-----------------------------------------------------------------------------

\* A call of set_cookie_from_parts keeps the invariant.
LEMMA SetInv ==
    ASSUME IInv, NEW r \in Requests, NEW n \in Names, NEW v \in Tokens \cup {NoCookie},
           NEW m \in Metas, v \in Tokens => v.expires <= now + m.max_age,
           SetFromParts(r, n, v, m)
    PROVE  IInv'
<1> DEFINE h == [cell |-> <<n, m.path>>, value |-> v, meta |-> m]
<1>1. h \in Headers /\ <<n, m.path>> \in Cells
  BY DEF Headers, Metas, Cells
<1>2. /\ headers[r] \in Seq(Headers) /\ headers'[r] = Append(headers[r], h)
      /\ \A q \in Requests \ {r} : headers'[q] = headers[q]
  BY DEF IInv, CkTypeOK, SetFromParts, Add
<1> HIDE DEF h
<1>3. /\ \A x \in Cells : called'[r][x] =
                IF Storable(m) /\ x = <<n, m.path>> THEN v ELSE called[r][x]
      /\ \A q \in Requests \ {r} : called'[q] = called[q]
      /\ called' \in [Requests -> [Cells -> Tokens \cup {NoCookie, Untouched}]]
  BY <1>1 DEF IInv, CkTypeOK, SetFromParts
<1>4. headers' \in [Requests -> Seq(Headers)]
  BY <1>1, <1>2 DEF IInv, CkTypeOK, SetFromParts, Add, h
<1>5. CkTypeOK'
  BY <1>3, <1>4 DEF IInv, CkTypeOK, SetFromParts, Quiet, reqs
<1>6. JarAsTold' /\ SentAsTold'
  BY DEF IInv, JarAsTold, SentAsTold, SetFromParts, reqs
<1>7. ASSUME NEW x \in Cells
      PROVE  called'[r][x] = IF About(headers'[r], x) = {} THEN Untouched
                             ELSE Decides(headers'[r], x).value
  <2>1. h.cell = <<n, m.path>> /\ h.value = v /\ h.meta = m
    BY DEF h
  <2>2. called[r][x] = IF About(headers[r], x) = {} THEN Untouched
                       ELSE Decides(headers[r], x).value
    BY <1>7 DEF IInv, HeadersAsCalled
  <2>3. CASE h.cell = x /\ Storable(h.meta)
    <3>1. About(headers'[r], x) # {} /\ Decides(headers'[r], x) = h
      BY <1>1, <1>2, <1>7, <2>3, AppendDecides
    <3> QED  BY <1>3, <1>7, <2>1, <2>3, <3>1
  <2>4. CASE ~(h.cell = x /\ Storable(h.meta))
    <3>1. /\ About(headers'[r], x) = About(headers[r], x)
          /\ About(headers[r], x) # {} => Decides(headers'[r], x) = Decides(headers[r], x)
      BY <1>1, <1>2, <1>7, <2>4, AppendDecides
    <3> QED  BY <1>3, <1>7, <2>1, <2>2, <2>4, <3>1
  <2> QED  BY <2>3, <2>4
<1>8. ASSUME NEW k \in DOMAIN headers'[r], headers'[r][k].value \in Tokens
      PROVE  headers'[r][k].value.expires <= now' + headers'[r][k].meta.max_age
  <2>1. now' = now
    BY DEF SetFromParts
  <2>2. CASE k \in DOMAIN headers[r]
    <3>1. headers'[r][k] = headers[r][k]
      BY <1>1, <1>2, <2>2
    <3> QED  BY <1>8, <2>1, <2>2, <3>1 DEF IInv, HeadersAsCalled
  <2>3. CASE k \notin DOMAIN headers[r]
    <3>1. headers'[r][k] = h
      BY <1>1, <1>2, <1>8, <2>3
    <3> QED  BY <1>8, <2>1, <3>1 DEF h
  <2> QED  BY <2>2, <2>3
<1>9. HeadersAsCalled'
  <2>1. now' = now
    BY DEF SetFromParts
  <2>2. ASSUME NEW q \in Requests \ {r}
        PROVE  headers'[q] = headers[q] /\ called'[q] = called[q]
    BY <1>2, <1>3
  <2> QED  BY <1>7, <1>8, <2>1, <2>2 DEF IInv, HeadersAsCalled
<1> QED  BY <1>5, <1>6, <1>9 DEF IInv

\* What the application seals for itself expires with the cookie.
LEMMA SealInv ==
    ASSUME CkTypeOK, NEW n \in Names, NEW d \in Data, NEW p \in Paths
    PROVE  LET m == [meta[n] EXCEPT !.path = p]
           IN  /\ m \in Metas /\ Seal(n, d, m) \in Tokens
               /\ Seal(n, d, m).expires <= now + m.max_age
<1> DEFINE m == [meta[n] EXCEPT !.path = p]
<1>1. m \in Metas
  <2>1. meta[n] \in Metas
    BY DEF CkTypeOK
  <2>2. /\ m.same_site = meta[n].same_site /\ m.secure = meta[n].secure
        /\ m \in [max_age : Nat, path : Paths, same_site : {"Lax", "None", "Strict"},
                  secure : BOOLEAN]
    BY <2>1 DEF Metas
  <2>3. Compiles(m)
    BY <2>1, <2>2 DEF Metas, Compiles
  <2> QED  BY <2>2, <2>3 DEF Metas
<1>2. m.max_age \in Nat
  BY <1>1 DEF Metas
<1> QED  BY <1>1, <1>2 DEF CkTypeOK, Seal, Tokens

\* The browser receives a response.
LEMMA ReceiveInv == ASSUME IInv, NEW r \in Requests, Receive(r) PROVE IInv'
<1>1. now' = now /\ Forget({r}) /\ Drop({r})
  BY DEF Receive, Forget
<1>2. ASSUME NEW x \in Cells
      PROVE  /\ told'[x] \in Values /\ jar'[x] \in [value : Values, dies : Nat]
             /\ StandsFor(jar'[x].value, told'[x], now)
             /\ jar'[x].value \in Tokens => jar'[x].value.expires <= jar'[x].dies
  <2>1. CASE About(headers[r], x) = {}
    <3>1. called[r][x] = Untouched
      BY <1>2, <2>1 DEF IInv, HeadersAsCalled
    <3>2. jar'[x] = jar[x] /\ told'[x] = told[x]
      BY <1>2, <2>1, <3>1 DEF Receive
    <3> QED  BY <1>2, <3>2 DEF IInv, CkTypeOK, JarAsTold
  <2>2. CASE About(headers[r], x) # {}
    <3> DEFINE h == Decides(headers[r], x)
    <3>1. called[r][x] = h.value
      BY <1>2, <2>2 DEF IInv, HeadersAsCalled
    <3>2. PICK k \in DOMAIN headers[r] : h = headers[r][k] /\ h \in Headers
      BY <1>2, <2>2, DecidesIsAHeader DEF IInv, CkTypeOK
    <3>3. h.value \in Tokens => h.value.expires <= now + h.meta.max_age
      BY <3>2 DEF IInv, HeadersAsCalled
    <3>4. /\ h.value \in Tokens \cup {NoCookie} /\ h.meta.max_age \in Nat
          /\ now \in Nat
      BY <3>2 DEF Headers, Metas, IInv, CkTypeOK
    <3>5. told'[x] = h.value
      BY <1>2, <3>1, <3>4, ValuesAssumption DEF Receive
    <3>6. jar'[x] = IF h.value = NoCookie \/ h.meta.max_age = 0 THEN Gone
                    ELSE [value |-> h.value, dies |-> now + h.meta.max_age]
      BY <1>2, <2>2 DEF Receive
    <3> HIDE DEF h
    <3>7. CASE h.value = NoCookie
      BY <3>5, <3>6, <3>7, ValuesAssumption DEF StandsFor, Values, Gone
    <3>8. CASE h.value \in Tokens /\ h.meta.max_age = 0
      <4>1. h.value.expires <= now
        BY <3>3, <3>4, <3>8
      <4> QED  BY <3>5, <3>6, <3>8, <4>1, ValuesAssumption
                DEF StandsFor, Faded, Values, Gone
    <3>9. CASE h.value \in Tokens /\ h.meta.max_age # 0
      <4>1. jar'[x] = [value |-> h.value, dies |-> now + h.meta.max_age]
        BY <3>6, <3>9, ValuesAssumption
      <4> QED  BY <3>3, <3>4, <3>5, <3>9, <4>1 DEF StandsFor, Values
    <3> QED  BY <3>4, <3>7, <3>8, <3>9
  <2> QED  BY <2>1, <2>2
<1>3. jar' \in [Cells -> [value : Values, dies : Nat]] /\ told' \in [Cells -> Values]
  BY <1>2 DEF Receive
<1>4. JarAsTold'
  BY <1>1, <1>2 DEF JarAsTold
<1>5. CkTypeOK'
  BY <1>1, <1>3, DropInv, ForgetInv DEF IInv, CkTypeOK, Receive, Quiet
<1> QED  BY <1>1, <1>4, <1>5, DropInv, ForgetInv DEF IInv

\* A request is sent.
LEMMA SendInv ==
    ASSUME IInv, NEW r \in Requests, NEW u \in Paths, Send(r, u) PROVE IInv'
<1>1. [x \in Cells |-> IF x[2] <= u THEN jar[x].value ELSE NoCookie] \in [Cells -> Values]
  BY DEF IInv, CkTypeOK, Values
<1>2. CkTypeOK'
  BY <1>1 DEF IInv, CkTypeOK, Send, Quiet
<1>3. JarAsTold' /\ HeadersAsCalled'
  BY DEF IInv, JarAsTold, HeadersAsCalled, Send
<1>4. ASSUME NEW q \in Requests, NEW x \in Cells
      PROVE  IF x[2] <= url'[q] THEN StandsFor(sent'[q][x], expect'[q][x], now)
             ELSE sent'[q][x] = NoCookie
  <2>1. CASE q = r
    BY <1>4, <2>1 DEF IInv, CkTypeOK, JarAsTold, Send
  <2>2. CASE q # r
    BY <1>4, <2>2 DEF IInv, CkTypeOK, SentAsTold, Send
  <2> QED  BY <2>1, <2>2
<1>5. SentAsTold'
  BY <1>4 DEF SentAsTold, Send
<1> QED  BY <1>2, <1>3, <1>5 DEF IInv

\* Time goes on: what has faded remains so.
LEMMA TickInv == ASSUME IInv, Tick PROVE IInv'
<1>1. now \in Nat /\ now' = now + 1
  BY DEF IInv, CkTypeOK, Tick
<1>2. \A v, w : StandsFor(w, v, now) => StandsFor(w, v, now')
  <2>1. \A v \in Tokens : v.expires \in Nat
    BY DEF Tokens
  <2> QED  BY <1>1, <2>1 DEF StandsFor, Faded
<1>3. CkTypeOK'
  BY DEF IInv, CkTypeOK, Tick, reqs, Quiet, Gone, Values
<1>4. SentAsTold'
  BY <1>2 DEF IInv, SentAsTold, Tick, reqs
<1>5. ASSUME NEW x \in Cells
      PROVE  /\ StandsFor(jar'[x].value, told[x], now')
             /\ jar'[x].value \in Tokens => jar'[x].value.expires <= jar'[x].dies
  <2>1. StandsFor(jar[x].value, told[x], now')
    BY <1>2, <1>5 DEF IInv, JarAsTold
  <2>2. jar[x].value \in Values /\ jar[x].dies \in Nat
    BY <1>5 DEF IInv, CkTypeOK
  <2>3. CASE jar[x].dies <= now'
    <3>1. jar'[x] = Gone
      BY <1>5, <2>3 DEF Tick
    <3>2. jar[x].value \in Tokens => Faded(jar[x].value, now')
      <4>1. ASSUME jar[x].value \in Tokens PROVE jar[x].value.expires <= now'
        <5>1. jar[x].value.expires \in Nat
          BY <4>1 DEF Tokens
        <5>2. jar[x].value.expires <= jar[x].dies
          BY <1>5, <4>1 DEF IInv, JarAsTold
        <5> QED  BY <1>1, <2>2, <2>3, <5>1, <5>2
      <4> QED  BY <4>1 DEF Faded
    <3> QED  BY <2>1, <2>2, <3>1, <3>2, ValuesAssumption DEF StandsFor, Faded, Gone, Values
  <2>4. CASE ~(jar[x].dies <= now')
    <3>1. jar'[x] = jar[x]
      BY <1>5, <2>4 DEF Tick
    <3> QED  BY <1>5, <2>1, <3>1 DEF IInv, JarAsTold
  <2> QED  BY <2>3, <2>4
<1>6. JarAsTold'
  BY <1>5 DEF JarAsTold, Tick
<1>7. ASSUME NEW r \in Requests, NEW k \in DOMAIN headers[r], headers[r][k].value \in Tokens
      PROVE  headers[r][k].value.expires <= now' + headers[r][k].meta.max_age
  <2>1. headers[r][k] \in Headers
    BY <1>7 DEF IInv, CkTypeOK
  <2>2. headers[r][k].value.expires \in Nat /\ headers[r][k].meta.max_age \in Nat
    BY <1>7, <2>1 DEF Headers, Tokens, Metas
  <2>3. headers[r][k].value.expires <= now + headers[r][k].meta.max_age
    BY <1>7 DEF IInv, HeadersAsCalled
  <2> QED  BY <1>1, <2>2, <2>3
<1>8. HeadersAsCalled'
  BY <1>7 DEF IInv, HeadersAsCalled, Tick
<1> QED  BY <1>3, <1>4, <1>6, <1>8 DEF IInv

\* Every step of the application and the browser keeps the invariant.
LEMMA StepInv == IInv /\ [CkNext]_ckvars => IInv'
<1> SUFFICES ASSUME IInv, [CkNext]_ckvars PROVE IInv'
  OBVIOUS
<1>1. ASSUME NEW r \in Requests, NEW n \in Names, Read(r, n) PROVE IInv'
  <2>1. extract(r, n) \in Tokens \cup {NoCookie}
    <3> DEFINE ps == {p \in Paths : Decodes(sent[r][<<n, p>>], n) /\ ~Unread(r, <<n, p>>)}
    <3>1. CASE ps = {}
      BY <3>1 DEF extract
    <3>2. CASE ps # {}
      <4>1. ps \in SUBSET (1..Depth) /\ Depth \in Nat
        BY CookiesAssumption DEF Paths
      <4>2. Last(ps) \in ps
        <5> HIDE DEF ps
        <5> QED  BY <3>2, <4>1, Longest
      <4> QED  BY <3>2, <4>2 DEF extract, Decodes
    <3> QED  BY <3>1, <3>2
  <2> QED  BY <1>1, <2>1
        DEF Read, reqs, IInv, CkTypeOK, JarAsTold, SentAsTold, HeadersAsCalled
<1>2. ASSUME NEW r \in Requests, NEW n \in Names, NEW p \in Paths, NEW d \in Data,
             SetCookie(r, n, d, p)
      PROVE  IInv'
  <2> DEFINE m == [meta[n] EXCEPT !.path = p]
  <2>1. m \in Metas /\ Seal(n, d, m) \in Tokens /\ Seal(n, d, m).expires <= now + m.max_age
    BY SealInv DEF IInv
  <2>2. SetFromParts(r, n, Seal(n, d, m), m)
    BY <1>2 DEF SetCookie
  <2> HIDE DEF m
  <2> QED  BY <2>1, <2>2, SetInv
<1>3. ASSUME NEW r \in Requests, NEW n \in Names, NEW p \in Paths, DeleteCookie(r, n, p)
      PROVE  IInv'
  <2> DEFINE m == [meta[n] EXCEPT !.path = p]
  <2>1. meta[n] \in Metas
    BY DEF IInv, CkTypeOK
  <2>2. m \in Metas
    <3>1. /\ m.same_site = meta[n].same_site /\ m.secure = meta[n].secure
          /\ m \in [max_age : Nat, path : Paths, same_site : {"Lax", "None", "Strict"},
                    secure : BOOLEAN]
      BY <2>1 DEF Metas
    <3> QED  BY <2>1, <3>1 DEF Metas, Compiles
  <2>3. SetFromParts(r, n, NoCookie, m)
    BY <1>3 DEF DeleteCookie
  <2> HIDE DEF m
  <2> QED  BY <2>2, <2>3, SetInv, ValuesAssumption
<1>4. ASSUME NEW r \in Requests, Respond(r) PROVE IInv'
  <2>1. Drop({r}) /\ now' = now
    BY <1>4 DEF Respond
  <2> QED  BY <1>4, <2>1, DropInv
        DEF Respond, IInv, CkTypeOK, JarAsTold, HeadersAsCalled, Quiet
<1>5. ASSUME NEW r \in Requests, SetCookieFails(r) PROVE IInv'
  <2>1. Drop({r}) /\ now' = now
    BY <1>5 DEF SetCookieFails
  <2>2. <<>> \in Seq(Headers) /\ Silent \in [Cells -> Tokens \cup {NoCookie, Untouched}]
    BY DEF Silent
  <2>3. CkTypeOK' /\ SentAsTold' /\ JarAsTold'
    BY <1>5, <2>1, <2>2, DropInv DEF SetCookieFails, IInv, CkTypeOK, JarAsTold, Quiet
  <2>4. \A x \in Cells : About(<<>>, x) = {}
    BY DEF About
  <2>5. /\ headers'[r] = <<>> /\ called'[r] = Silent
        /\ \A q \in Requests \ {r} : headers'[q] = headers[q] /\ called'[q] = called[q]
    BY <1>5 DEF SetCookieFails, IInv, CkTypeOK
  <2>6. ASSUME NEW q \in Requests
        PROVE  /\ \A x \in Cells :
                      called'[q][x] = IF About(headers'[q], x) = {} THEN Untouched
                                      ELSE Decides(headers'[q], x).value
               /\ \A k \in DOMAIN headers'[q] :
                      headers'[q][k].value \in Tokens =>
                          headers'[q][k].value.expires <= now' + headers'[q][k].meta.max_age
    <3>1. CASE q = r
      BY <2>4, <2>5, <3>1 DEF Silent
    <3>2. CASE q # r
      BY <2>1, <2>5, <2>6, <3>2 DEF IInv, HeadersAsCalled
    <3> QED  BY <3>1, <3>2
  <2>7. HeadersAsCalled'
    BY <2>6 DEF HeadersAsCalled
  <2> QED  BY <2>3, <2>7 DEF IInv
<1>6. ASSUME NEW r \in Requests, Lost(r) PROVE IInv'
  <2>1. Forget({r}) /\ Drop({r}) /\ now' = now
    BY <1>6 DEF Lost, Forget
  <2> QED  BY <1>6, <2>1, DropInv, ForgetInv DEF Lost, IInv, CkTypeOK, JarAsTold, Quiet
<1>7. CASE Restart
  <2> DEFINE rs == {r \in Requests : at[r] = "handler"}
  <2>1. Forget(rs) /\ Drop(rs) /\ now' = now /\ key' = key + 1
    BY <1>7 DEF Restart, Forget
  <2> HIDE DEF rs
  <2>2. CkTypeOK' /\ SentAsTold' /\ HeadersAsCalled'
    BY <1>7, <2>1, DropInv, ForgetInv DEF Restart, IInv, CkTypeOK, Quiet
  <2>3. JarAsTold'
    BY <1>7 DEF Restart, IInv, JarAsTold
  <2> QED  BY <2>2, <2>3 DEF IInv
<1>8. CASE UNCHANGED ckvars
  BY <1>8 DEF ckvars, reqs, IInv, CkTypeOK, JarAsTold, SentAsTold, HeadersAsCalled
<1> QED  BY <1>1, <1>2, <1>3, <1>4, <1>5, <1>6, <1>7, <1>8, SendInv, ReceiveInv, TickInv
      DEF CkNext

\* IInv holds of every exchange.
THEOREM Invariance == CkSpec => []IInv
  BY InitInv, StepInv, PTL DEF CkSpec

\* The variables keep their types: cookie() returns a sealed value or nothing.
THEOREM TypeCorrect == CkSpec => []CkTypeOK
<1>1. IInv => CkTypeOK
  BY DEF IInv
<1> QED  BY <1>1, Invariance, PTL

-----------------------------------------------------------------------------

\* In a state of the invariant, extract() finds what was told.
LEMMA ExtractFinds ==
    ASSUME IInv, NEW r \in Requests, NEW n \in Names,
           ~(~split /\ \E x \in Cells : sent[r][x] = Binary)
    PROVE  \/ Live(r, n) = {} /\ extract(r, n) = NoCookie
           \/ \E p \in Live(r, n) : /\ extract(r, n) = expect[r][<<n, p>>]
                                    /\ \A q \in Live(r, n) : q <= p
<1> DEFINE ps == {p \in Paths : Decodes(sent[r][<<n, p>>], n) /\ ~Unread(r, <<n, p>>)}
<1>1. url[r] \in 1..Depth /\ Depth \in Nat
  BY CookiesAssumption DEF IInv, CkTypeOK, Paths
<1>2. ASSUME NEW p \in Paths
      PROVE  /\ Decodes(sent[r][<<n, p>>], n) => ~Unread(r, <<n, p>>)
             /\ p \in ps <=> p <= url[r] /\ Decodes(expect[r][<<n, p>>], n)
             /\ p \in ps => sent[r][<<n, p>>] = expect[r][<<n, p>>]
  <2>1. <<n, p>> \in Cells /\ <<n, p>>[2] = p
    BY <1>2 DEF Cells
  <2>2. Decodes(sent[r][<<n, p>>], n) => ~Unread(r, <<n, p>>)
    BY <2>1, ValuesAssumption DEF Decodes, Unread, Foreign
  <2>3. IF p <= url[r] THEN StandsFor(sent[r][<<n, p>>], expect[r][<<n, p>>], now)
        ELSE sent[r][<<n, p>>] = NoCookie
    BY <2>1 DEF IInv, SentAsTold
  <2>4. ~Decodes(NoCookie, n)
    BY ValuesAssumption DEF Decodes
  <2>5. Faded(expect[r][<<n, p>>], now) => ~Decodes(expect[r][<<n, p>>], n)
    <3>1. \A v \in Tokens : v.expires \in Nat
      BY DEF Tokens
    <3>2. now \in Nat
      BY DEF IInv, CkTypeOK
    <3> QED  BY <3>1, <3>2, ValuesAssumption DEF Faded, Decodes
  <2> QED  BY <1>2, <2>2, <2>3, <2>4, <2>5 DEF StandsFor
<1>3. ps = Live(r, n)
  BY <1>1, <1>2 DEF Live, Paths
<1>4. CASE ps = {}
  BY <1>3, <1>4 DEF extract
<1>5. CASE ps # {}
  <2>1. ps \in SUBSET (1..Depth)
    BY DEF Paths
  <2>2. Last(ps) \in ps /\ \A q \in ps : q <= Last(ps)
    <3> HIDE DEF ps
    <3> QED  BY <1>1, <1>5, <2>1, Longest
  <2>3. extract(r, n) = sent[r][<<n, Last(ps)>>]
    BY <1>5 DEF extract
  <2>4. Last(ps) \in Paths
    BY <2>2
  <2> HIDE DEF ps
  <2>5. extract(r, n) = expect[r][<<n, Last(ps)>>]
    BY <1>2, <2>2, <2>3, <2>4
  <2> QED  BY <1>3, <2>2, <2>5
<1> QED  BY <1>4, <1>5

\* cookie() returns what the handlers of the responses received have set
\* (cookies.rs:43-45, 52-59, 176-204).
THEOREM CookiesAreWhatWasSet == CkSpec => ReadsWhatWasSet
<1>1. ASSUME IInv, NEW r \in Requests, NEW n \in Names, Read(r, n)
      PROVE  \/ ~split /\ \E x \in Cells : sent[r][x] = Binary
             \/ Live(r, n) = {} /\ answer'.value = NoCookie
             \/ \E p \in Live(r, n) : /\ answer'.value = expect[r][<<n, p>>]
                                      /\ \A q \in Live(r, n) : q <= p
  BY <1>1, ExtractFinds DEF Read
<1>2. IInv => [\A r \in Requests, n \in Names : Read(r, n) =>
          \/ ~split /\ \E x \in Cells : sent[r][x] = Binary
          \/ Live(r, n) = {} /\ answer'.value = NoCookie
          \/ \E p \in Live(r, n) : /\ answer'.value = expect[r][<<n, p>>]
                                   /\ \A q \in Live(r, n) : q <= p]_ckvars
  BY <1>1
<1> QED  BY <1>2, Invariance, PTL DEF ReadsWhatWasSet

-----------------------------------------------------------------------------
(* The refinement.                                                         *)

\* Where a sealed value may be, before and after a step.
LEMMA HeldWhere ==
    \A t : t \in Held <=>
        /\ t \in Tokens
        /\ \/ \E x \in Cells : jar[x].value = t
           \/ \E r \in Requests, x \in Cells : sent[r][x] = t
           \/ \E r \in Requests : \E k \in DOMAIN headers[r] : headers[r][k].value = t
<1> DEFINE H == UNION {Set(headers[r]) : r \in Requests}
<1>1. \A t : t \in H <=> \E r \in Requests : t \in Set(headers[r])
  OBVIOUS
<1>2. \A t : t \in H <=>
          \E r \in Requests : \E k \in DOMAIN headers[r] : headers[r][k].value = t
  <2> HIDE DEF H
  <2>1. \A hs, t : t \in Set(hs) <=> \E k \in DOMAIN hs : hs[k].value = t
    BY DEF Set
  <2> QED  BY <1>1, <2>1
<1>3. Held = {t \in {jar[x].value : x \in Cells} \cup {sent[r][x] : r \in Requests, x \in Cells}
                     \cup H : t \in Tokens}
  BY DEF Held
<1> HIDE DEF H
<1> QED  BY <1>2, <1>3

LEMMA HeldWhereNext ==
    \A t : t \in Held' <=>
        /\ t \in Tokens
        /\ \/ \E x \in Cells : jar'[x].value = t
           \/ \E r \in Requests, x \in Cells : sent'[r][x] = t
           \/ \E r \in Requests : \E k \in DOMAIN headers'[r] : headers'[r][k].value = t
<1> DEFINE H == UNION {Set(headers'[r]) : r \in Requests}
<1>1. \A t : t \in H <=> \E r \in Requests : t \in Set(headers'[r])
  OBVIOUS
<1>2. \A t : t \in H <=>
          \E r \in Requests : \E k \in DOMAIN headers'[r] : headers'[r][k].value = t
  <2> HIDE DEF H
  <2>1. \A hs, t : t \in Set(hs) <=> \E k \in DOMAIN hs : hs[k].value = t
    BY DEF Set
  <2> QED  BY <1>1, <2>1
<1>3. Held' = {t \in {jar'[x].value : x \in Cells} \cup {sent'[r][x] : r \in Requests, x \in Cells}
                     \cup H : t \in Tokens}
  BY DEF Held
<1> HIDE DEF H
<1> QED  BY <1>2, <1>3

\* Dropping requests and responses adds no value.
LEMMA DropHeld ==
    ASSUME NEW rs, Drop(rs)
    PROVE  \A r \in Requests, x \in Cells :
              sent'[r][x] \in Tokens => \E q \in Requests : sent'[r][x] = sent[q][x]
  BY ValuesAssumption DEF Drop, Empty

LEMMA ForgetHeld ==
    ASSUME NEW rs, Forget(rs), \A x \in Cells : jar'[x] = jar[x]
    PROVE  Held' \subseteq Held
<1>1. Drop(rs)
  BY DEF Forget
<1>2. \A r \in Requests : \A k \in DOMAIN headers'[r] :
          k \in DOMAIN headers[r] /\ headers'[r][k] = headers[r][k]
  BY DEF Forget
<1> QED  BY <1>1, <1>2, HeldWhere, HeldWhereNext, DropHeld

\* A call of cookie() answers with a value that is held, or with nothing.
LEMMA ReadRefines ==
    ASSUME IInv, NEW r \in Requests, NEW n \in Names, Read(r, n) PROVE Store!Answer
<1> DEFINE ps == {p \in Paths : Decodes(sent[r][<<n, p>>], n) /\ ~Unread(r, <<n, p>>)}
<1>1. UNCHANGED <<Held, now, key>>
  BY DEF Read, reqs, Held
<1>2. /\ extract(r, n) \in Held \cup {NoCookie}
      /\ extract(r, n) # NoCookie => Decodes(extract(r, n), n)
  <2>1. CASE ps = {}
    BY <2>1 DEF extract
  <2>2. CASE ps # {}
    <3>1. ps \in SUBSET (1..Depth) /\ Depth \in Nat
      BY CookiesAssumption DEF Paths
    <3>2. Last(ps) \in ps
      <4> HIDE DEF ps
      <4> QED  BY <2>2, <3>1, Longest
    <3>3. /\ extract(r, n) = sent[r][<<n, Last(ps)>>]
          /\ <<n, Last(ps)>> \in Cells
          /\ Decodes(extract(r, n), n)
      BY <2>2, <3>2 DEF extract, Cells
    <3> QED  BY <3>3, HeldWhere DEF Decodes
  <2> QED  BY <2>1, <2>2
<1>3. answer' = [name |-> n, value |-> extract(r, n)]
  BY DEF Read
<1> QED  BY <1>1, <1>2, <1>3 DEF Store!Answer, Decodes

\* A handler that sets a cookie adds what it seals, if anything.
LEMMA SetHeld ==
    ASSUME IInv, NEW r \in Requests, NEW n \in Names, NEW v, NEW m, SetFromParts(r, n, v, m)
    PROVE  /\ Held' \subseteq Held \cup {v}
           /\ v \in Tokens => v \in Held'
<1> DEFINE h == [cell |-> <<n, m.path>>, value |-> v, meta |-> m]
           len == Len(headers[r])
<1>1. headers[r] \in Seq(Headers)
  BY DEF IInv, CkTypeOK
<1>2. /\ headers'[r] = Append(headers[r], h)
      /\ \A q \in Requests \ {r} : headers'[q] = headers[q]
  BY DEF IInv, CkTypeOK, SetFromParts, Add
<1>3. /\ DOMAIN headers'[r] = 1..(len + 1) /\ DOMAIN headers[r] = 1..len /\ len \in Nat
      /\ headers'[r][len + 1] = h
      /\ \A k \in 1..len : headers'[r][k] = headers[r][k]
  BY <1>1, <1>2
<1>4. h.value = v
  OBVIOUS
<1> HIDE DEF h, len
<1>5. \A k \in DOMAIN headers'[r] :
          headers'[r][k].value = v \/ (k \in DOMAIN headers[r] /\ headers'[r][k] = headers[r][k])
  BY <1>3, <1>4
<1>6. len + 1 \in DOMAIN headers'[r]
  BY <1>3
<1>7. jar' = jar /\ sent' = sent
  BY DEF SetFromParts, reqs
<1>8. Held' \subseteq Held \cup {v}
  BY <1>2, <1>5, <1>7, HeldWhere, HeldWhereNext
<1>9. v \in Tokens => v \in Held'
  BY <1>3, <1>4, <1>6, HeldWhereNext
<1> QED  BY <1>8, <1>9

\* The response that is received brings no other value than those it has.
LEMMA ReceiveHeld == ASSUME IInv, NEW r \in Requests, Receive(r) PROVE Held' \subseteq Held
<1>1. Forget({r}) /\ Drop({r})
  BY DEF Receive, Forget
<1>2. \A q \in Requests : \A k \in DOMAIN headers'[q] :
          k \in DOMAIN headers[q] /\ headers'[q][k] = headers[q][k]
  BY <1>1 DEF Forget
<1>3. ASSUME NEW x \in Cells, jar'[x].value \in Tokens PROVE jar'[x].value \in Held
  <2>1. CASE About(headers[r], x) = {}
    BY <1>3, <2>1, HeldWhere DEF Receive
  <2>2. CASE About(headers[r], x) # {}
    <3>1. PICK k \in DOMAIN headers[r] : Decides(headers[r], x) = headers[r][k]
      BY <1>3, <2>2, DecidesIsAHeader DEF IInv, CkTypeOK
    <3>2. jar'[x] = Gone \/ jar'[x].value = headers[r][k].value
      BY <1>3, <2>2, <3>1 DEF Receive
    <3> QED  BY <1>3, <3>1, <3>2, HeldWhere, ValuesAssumption DEF Gone
  <2> QED  BY <2>1, <2>2
<1> QED  BY <1>1, <1>2, <1>3, HeldWhere, HeldWhereNext, DropHeld

\* Every step is one of the store, or changes nothing there.
LEMMA StepRefines == IInv /\ [CkNext]_ckvars => [Store!Next]_(Store!vars)
<1> SUFFICES ASSUME IInv, [CkNext]_ckvars PROVE Store!Next \/ UNCHANGED Store!vars
  OBVIOUS
<1>a. Store!Quiet = Quiet
  BY DEF Store!Quiet, Quiet
<1>b. ASSUME Held' \subseteq Held, answer' = Quiet, UNCHANGED <<now, key>> PROVE Store!Next
  BY <1>a, <1>b DEF Store!Next, Store!Forget
<1>1. ASSUME NEW r \in Requests, NEW n \in Names, Read(r, n) PROVE Store!Next
  BY <1>1, ReadRefines DEF Store!Next
<1>2. ASSUME NEW r \in Requests, NEW n \in Names, NEW p \in Paths, NEW d \in Data,
             SetCookie(r, n, d, p)
      PROVE  Store!Next
  <2> DEFINE m == [meta[n] EXCEPT !.path = p]
             t == Seal(n, d, m)
  <2>1. m \in Metas /\ t \in Tokens
    BY SealInv DEF IInv
  <2>2. SetFromParts(r, n, t, m)
    BY <1>2 DEF SetCookie
  <2>3. t \in Store!Sealed
    BY <2>1 DEF Seal, Store!Sealed, Tokens, IInv, CkTypeOK
  <2> HIDE DEF m, t
  <2>4. Held' \subseteq Held \cup {t} /\ t \in Held'
    BY <2>1, <2>2, SetHeld
  <2>5. answer' = Quiet /\ UNCHANGED <<now, key>>
    BY <2>2 DEF SetFromParts
  <2> QED  BY <1>a, <2>3, <2>4, <2>5 DEF Store!Next, Store!Issue
<1>3. ASSUME NEW r \in Requests, NEW n \in Names, NEW p \in Paths, DeleteCookie(r, n, p)
      PROVE  Store!Next
  <2> DEFINE m == [meta[n] EXCEPT !.path = p]
  <2>1. SetFromParts(r, n, NoCookie, m)
    BY <1>3 DEF DeleteCookie
  <2> HIDE DEF m
  <2>2. Held' \subseteq Held
    BY <2>1, SetHeld, HeldWhereNext, ValuesAssumption
  <2> QED  BY <1>b, <2>1, <2>2 DEF SetFromParts
<1>4. ASSUME NEW r \in Requests, NEW u \in Paths, Send(r, u) PROVE Store!Next
  <2>1. \A q \in Requests, x \in Cells :
            sent'[q][x] \in {sent[q][x], jar[x].value, NoCookie}
    BY <1>4 DEF Send, IInv, CkTypeOK
  <2>2. Held' \subseteq Held
    BY <1>4, <2>1, HeldWhere, HeldWhereNext, ValuesAssumption DEF Send
  <2> QED  BY <1>4, <1>b, <2>2 DEF Send
<1>5. ASSUME NEW r \in Requests, Respond(r) PROVE Store!Next
  <2>1. Drop({r})
    BY <1>5 DEF Respond
  <2>2. Held' \subseteq Held
    BY <1>5, <2>1, HeldWhere, HeldWhereNext, DropHeld DEF Respond
  <2> QED  BY <1>5, <1>b, <2>2 DEF Respond
<1>6. ASSUME NEW r \in Requests, SetCookieFails(r) PROVE Store!Next
  <2>1. Drop({r})
    BY <1>6 DEF SetCookieFails
  <2>2. \A q \in Requests : \A k \in DOMAIN headers'[q] :
            k \in DOMAIN headers[q] /\ headers'[q][k] = headers[q][k]
    BY <1>6 DEF SetCookieFails, IInv, CkTypeOK
  <2>3. Held' \subseteq Held
    BY <1>6, <2>1, <2>2, HeldWhere, HeldWhereNext, DropHeld DEF SetCookieFails
  <2> QED  BY <1>6, <1>b, <2>3 DEF SetCookieFails
<1>7. ASSUME NEW r \in Requests, Receive(r) PROVE Store!Next
  BY <1>7, <1>b, ReceiveHeld DEF Receive
<1>8. ASSUME NEW r \in Requests, Lost(r) PROVE Store!Next
  BY <1>8, <1>b, ForgetHeld DEF Lost
<1>9. CASE Tick
  <2>1. \A x \in Cells : jar'[x] = Gone \/ jar'[x] = jar[x]
    BY <1>9 DEF Tick
  <2>2. Held' \subseteq Held
    BY <1>9, <2>1, HeldWhere, HeldWhereNext, ValuesAssumption DEF Tick, reqs, Gone
  <2> QED  BY <1>9, <1>a, <2>2 DEF Tick, Store!Next, Store!Tick, IInv, CkTypeOK
<1>10. CASE Restart
  <2>1. Held' \subseteq Held
    BY <1>10, ForgetHeld DEF Restart
  <2> QED  BY <1>10, <1>a, <2>1 DEF Restart, Store!Next, Store!Rotate, IInv, CkTypeOK
<1>11. CASE UNCHANGED ckvars
  BY <1>11 DEF ckvars, reqs, Store!vars, Held
<1> QED  BY <1>1, <1>2, <1>3, <1>4, <1>5, <1>6, <1>7, <1>8, <1>9, <1>10, <1>11 DEF CkNext

\* Cookies implements SealedStore: cookie() answers with nothing but what the
\* application has sealed under this name with this key, and in time
\* (cookies.rs:93-106, 162-173; key.rs:47-71).
THEOREM CookiesStaySealed == CkSpec => StaysSealed
<1>1. CkInit => Store!Init
  <2> SUFFICES ASSUME CkInit PROVE Store!Init
    OBVIOUS
  <2>1. Held = {}
    <3>1. \A x \in Cells : jar[x].value \notin Tokens
      BY ValuesAssumption DEF CkInit, Gone
    <3>2. \A r \in Requests, x \in Cells : sent[r][x] \notin Tokens
      BY ValuesAssumption DEF CkInit, Empty
    <3>3. \A r \in Requests : DOMAIN headers[r] = {}
      BY DEF CkInit
    <3> QED  BY <3>1, <3>2, <3>3, HeldWhere
  <2> QED  BY <2>1 DEF CkInit, Store!Init, Store!Quiet, Quiet
<1> QED  BY <1>1, StepRefines, Invariance, PTL DEF CkSpec, StaysSealed, Store!Spec
=============================================================================
