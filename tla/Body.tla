-------------------------------- MODULE Body --------------------------------
(***************************************************************************)
(* The response body of src/mendes/src/body.rs: what `Body` is made from,  *)
(* what `EncodeResponse::encoded` makes of it for the Accept-Encoding of   *)
(* the request, and how poll_frame(), is_end_stream() and size_hint() hand *)
(* it to hyper.  Bytes are counted, not named: a body is the number of     *)
(* bytes it still has to yield.  What a compressor makes of n bytes is any *)
(* number from 1 to n + Added, which may be more than the allowance that   *)
(* the code makes for it (as it is for megabytes of noise).                *)
(*                                                                         *)
(* An operator named Bug_... is a broken variant of the definition after   *)
(* it: with it in that definition's place TLC must find a property         *)
(* violated.  No specification uses one.                                   *)
(***************************************************************************)
EXTENDS Integers

CONSTANTS
    Sizes,           \* sizes of the bodies handlers return
    Chunk,           \* bytes poll_read_buf() reads into an empty BytesMut (64)
    Slack,           \* what size_hint() allows a compressor to add (256)
    Added,           \* what a compressor does add at most
    Compressions,    \* the encodings compiled in: features brotli, gzip, zlib
    Half,            \* 2^63, from where on a u64 is negative as an i64
    Qualities        \* weights in Accept-Encoding, as `(qual * 100.0) as u64`

ASSUME BodyAssumption ==
    /\ Sizes \subseteq Nat
    /\ Chunk \in Nat \ {0}
    /\ Slack \in Nat /\ Slack > 1
    /\ Added \in Nat
    /\ Compressions \subseteq {"br", "gzip", "deflate"}
    /\ Half \in Nat /\ Half > 100
    /\ Qualities \subseteq 0..(2 * Half - 1)

VARIABLES
    offers,          \* Accept-Encoding: a set of [alg, qual], unknown ones left out
    kind,            \* the variant of InnerBody
    left,            \* bytes that come out of it from now on
    enc,             \* the Encoding of a compressor or noted in Lazy
    ready,           \* the future of Lazy has been polled to its end
    fullSize, done,  \* the other fields of Body
    header,          \* the Content-Encoding of the response
    at,              \* who has the body: handler, application, hyper, or nobody
    sent,            \* bytes hyper got
    due,             \* bytes hyper should get in all
    size             \* history: bytes of the body that the handler made

given == <<offers, size>>
inner == <<kind, left, enc, ready>>
vars  == <<given, inner, fullSize, done, header, at, sent, due>>

Encodings == Compressions \cup {"identity"}

TypeOK ==
    /\ offers \subseteq [alg : Encodings, qual : Qualities]
    /\ kind \in {"bytes", "compressor", "lazy", "stream", "hyper"}
    /\ left \in Nat /\ fullSize \in Nat /\ sent \in Nat /\ due \in Nat /\ size \in Nat
    /\ enc \in Encodings
    /\ ready \in BOOLEAN /\ done \in BOOLEAN
    /\ header \in Encodings
    /\ at \in {"handler", "app", "hyper", "ended", "failed", "panicked", "overflowed"}

-----------------------------------------------------------------------------
(* Encoding::from_accept: the offers are sorted by negated weight and then *)
(* by the order of the enum, and the first one counts; without a known one *)
(* identity is used.  A weight is any number that parses: the conversion   *)
(* to u64 makes 0 of a negative one and cuts off fractions of a percent,   *)
(* the one to i64 wraps.                                                   *)

Rank == [br |-> 1, gzip |-> 2, deflate |-> 3, identity |-> 4]

\* -(qual as i64), which overflows for 2^63 alone and stays what it is if the
\* build does not check for that
SortKey(q) ==
    IF q <= Half THEN -q ELSE 2 * Half - q

\* sorted by ascending weight
Bug_LightestFirst(o, p) == o.qual <= p.qual

Before(o, p) ==
    \/ SortKey(o.qual) < SortKey(p.qual)
    \/ SortKey(o.qual) = SortKey(p.qual) /\ Rank[o.alg] <= Rank[p.alg]

FromAccept(alg) ==
    \/ offers = {} /\ alg = "identity"
    \/ \E o \in offers : o.alg = alg /\ \A p \in offers : Before(o, p)

\* The negation panics in a build that checks for overflow; sort_by_key asks for
\* no key if there is but one offer.
SortOverflows == \E o, p \in offers : o # p /\ o.qual = Half

-----------------------------------------------------------------------------

\* The handler has yet to make a body.  A header lists an encoding once.
Init ==
    /\ offers \in {o \in SUBSET [alg : Encodings, qual : Qualities] :
                      \A x, y \in o : x.alg = y.alg => x = y}
    /\ kind = "bytes" /\ left = 0 /\ fullSize = 0
    /\ enc = "identity" /\ header = "identity"
    /\ ready = FALSE /\ done = FALSE
    /\ at = "handler"
    /\ sent = 0 /\ due = 0 /\ size = 0

\* Body::empty and From<Bytes>, Body::lazy, Body::stream and From<Incoming>; an
\* Incoming without a Content-Length is like a stream.
Create(k, n) ==
    /\ at = "handler" /\ at' = "app"
    /\ kind' = k
    /\ left' = n /\ due' = n /\ size' = n
    /\ fullSize' = IF k = "bytes" THEN n ELSE 0
    /\ done' = (k = "bytes" /\ n = 0)
    /\ UNCHANGED <<offers, enc, ready, header, sent>>

MakeBody == \E k \in {"bytes", "lazy", "stream", "hyper"}, n \in Sizes : Create(k, n)

\* EncodeResponse::encoded.  A body of bytes is wrapped (InnerBody::wrap) and
\* the header set; a lazy one only notes the encoding; any other is left alone.
EncodeBytes(alg) ==
    /\ kind = "bytes"
    /\ fullSize' = left
    /\ IF alg = "identity"
       THEN UNCHANGED <<kind, left, enc, due, header>>
       ELSE /\ kind' = "compressor" /\ enc' = alg /\ header' = alg
            /\ left' \in 1..(left + Added)
            /\ due' = left'

EncodeLazy(alg) ==
    /\ kind = "lazy" /\ enc = "identity"
    /\ enc' = alg
    /\ UNCHANGED <<kind, left, due, header, fullSize>>

Encoded ==
    /\ at = "app" /\ ~done
    /\ \E alg \in Encodings : FromAccept(alg) /\ (EncodeBytes(alg) \/ EncodeLazy(alg))
    /\ UNCHANGED <<given, ready, done, at, sent>>

\* encoded() panics within the handler, whose answer is catch_unwind's then.
EncodedPanics ==
    /\ at = "app" /\ ~done /\ SortOverflows
    /\ kind = "bytes" \/ (kind = "lazy" /\ enc = "identity")
    /\ at' = "overflowed"
    /\ UNCHANGED <<given, inner, fullSize, done, header, sent, due>>

\* The handler's response reaches hyper.
Respond ==
    /\ at = "app" /\ at' = "hyper"
    /\ UNCHANGED <<given, inner, fullSize, done, header, sent, due>>

-----------------------------------------------------------------------------
(* poll_frame.                                                             *)

\* done not looked at
Bug_PolledWhenDone == at = "hyper"

Polled == at = "hyper" /\ ~done

\* Ready(None), or hyper saw is_end_stream() and did not even ask.
End ==
    /\ at = "hyper" /\ done
    /\ at' = "ended"
    /\ UNCHANGED <<given, inner, fullSize, done, header, sent, due>>

\* Bytes: the whole of it in one frame, None if it is empty.
PollBytes ==
    /\ Polled /\ kind = "bytes"
    /\ done' = TRUE
    /\ sent' = sent + left /\ left' = 0
    /\ at' = IF left = 0 THEN "ended" ELSE at
    /\ UNCHANGED <<given, kind, enc, ready, fullSize, header, due>>

\* a plain subtraction
Bug_ReduceUnderflows(n) == fullSize' = fullSize - n

Reduce(n) == fullSize' = IF fullSize >= n THEN fullSize - n ELSE 0

\* a short read taken for the end; an empty read not taken for the end
Bug_ShortReadEnds ==
    /\ Polled /\ kind = "compressor"
    /\ \E n \in 0..Chunk :
        /\ n <= left
        /\ sent' = sent + n /\ left' = left - n
        /\ Reduce(n)
        /\ done' = (n < Chunk)
    /\ UNCHANGED <<given, kind, enc, ready, header, at, due>>

Bug_EmptyReadGoesOn ==
    /\ Polled /\ kind = "compressor"
    /\ \E n \in 1..Chunk :
        /\ n <= left
        /\ sent' = sent + n /\ left' = left - n
        /\ Reduce(n)
    /\ UNCHANGED <<given, kind, enc, ready, done, header, at, due>>

\* Brotli, Gzip, Zlib: poll_read_buf; reading nothing ends the body.
PollCompressor ==
    /\ Polled /\ kind = "compressor"
    /\ \/ \E n \in 1..Chunk :
            /\ n <= left
            /\ sent' = sent + n /\ left' = left - n
            /\ Reduce(n)
            /\ UNCHANGED <<done, at>>
       \/ left = 0 /\ done' = TRUE /\ at' = "ended" /\ UNCHANGED <<left, sent, fullSize>>
    /\ UNCHANGED <<given, kind, enc, ready, header, due>>

\* Hyper, Streaming: the frames of the body within.
PollStream ==
    /\ Polled /\ kind \in {"stream", "hyper"}
    /\ \/ \E n \in 1..left : sent' = sent + n /\ left' = left - n /\ UNCHANGED <<done, at>>
       \/ left = 0 /\ done' = TRUE /\ at' = "ended" /\ UNCHANGED <<left, sent>>
    /\ UNCHANGED <<given, kind, enc, ready, fullSize, header, due>>

\* done not set
Bug_LazyStaysOpen ==
    /\ Polled /\ kind = "lazy" /\ ~ready /\ enc = "identity"
    /\ ready' = TRUE
    /\ fullSize' = left
    /\ sent' = sent + left /\ left' = 0
    /\ UNCHANGED <<given, kind, enc, done, header, at, due>>

\* Lazy, the future yields bytes, identity: wrapped as Bytes, all in one frame.
PollLazyPlain ==
    /\ Polled /\ kind = "lazy" /\ ~ready /\ enc = "identity"
    /\ ready' = TRUE /\ done' = TRUE
    /\ fullSize' = left
    /\ sent' = sent + left /\ left' = 0
    /\ at' = IF left = 0 THEN "ended" ELSE at
    /\ UNCHANGED <<given, kind, enc, header, due>>

\* Lazy, the future yields bytes, compressed: the compressor is a local
\* variable, of which one frame is read before it is dropped.
PollLazyCompressed ==
    /\ Polled /\ kind = "lazy" /\ ~ready /\ enc # "identity"
    /\ ready' = TRUE
    /\ due' \in 1..(left + Added)
    /\ \E n \in 1..Chunk :
        /\ n <= due'
        /\ sent' = n
        /\ fullSize' = IF left >= n THEN left - n ELSE 0
    /\ left' = 0
    /\ UNCHANGED <<given, kind, enc, done, header, at>>

\* A future that has completed is polled again: an async block panics.
PollLazyAgain ==
    /\ Polled /\ kind = "lazy" /\ ready
    /\ at' = "panicked"
    /\ UNCHANGED <<given, inner, fullSize, done, header, sent, due>>

\* The future, the compressor or the body within yields an error: hyper drops
\* the body.
PollFails ==
    /\ Polled /\ kind # "bytes" /\ ~ready
    /\ at' = "failed"
    /\ UNCHANGED <<given, inner, fullSize, done, header, sent, due>>

Poll ==
    \/ End \/ PollBytes \/ PollCompressor \/ PollStream
    \/ PollLazyPlain \/ PollLazyCompressed \/ PollLazyAgain \/ PollFails

Next == MakeBody \/ Encoded \/ EncodedPanics \/ Respond \/ Poll

Steps == Init /\ [][Next]_vars

\* hyper polls a body until it has ended; futures and streams are not Pending
\* for ever.  That an error comes to end a body which goes on is not assumed.
Spec == Steps /\ WF_vars(Poll /\ at' # "failed")

-----------------------------------------------------------------------------

\* size_hint().upper() and lower(); NoBound stands for None.  hyper counts down
\* what the Content-Length of an Incoming has said.
NoBound == -1

\* no allowance for the compressor
Bug_UpperTight ==
    IF done THEN 0
    ELSE CASE kind \in {"bytes", "hyper"} -> left
           [] kind = "compressor" -> fullSize
           [] OTHER -> NoBound

Upper ==
    IF done THEN 0
    ELSE CASE kind \in {"bytes", "hyper"} -> left
           [] kind = "compressor" -> fullSize + Slack
           [] OTHER -> NoBound

Lower ==
    IF done THEN 0
    ELSE CASE kind \in {"bytes", "hyper"} -> left
           [] kind = "compressor" -> 1
           [] OTHER -> 0

\* A lazy body that encoded() was applied to is not handled as the others are.
LazyCompressed == kind = "lazy" /\ enc # "identity"

\* However a compressor cuts its output into frames, the saturating count in
\* full_size never makes the upper bound of size_hint() smaller than what is
\* still to come, unless the compressor added more to the whole body than it is
\* allowed; and an exact hint, from which hyper computes the
\* Content-Length, is the truth.  The lower bound is too large for a compressor
\* that has been read dry and not yet been asked again, and at no other time.
SizeHintSound ==
    /\ Upper # NoBound => due - sent <= Upper \/ due > size + Slack
    /\ Upper # NoBound /\ Upper = Lower => due - sent = Upper
    /\ Lower > due - sent => kind = "compressor" /\ left = 0

\* A body ends only when hyper has got all of it; is_end_stream() does not
\* claim the end before.
EndsWhole == (done \/ at = "ended") => sent = due

\* A body that said that it ended yields nothing more.
EndIsFinal == [][done => done' /\ sent' = sent /\ at' # "panicked"]_vars

\* Polling panics only for a lazy body that is to be compressed
\* (see EncodedBodyCollects), and sends at most one frame of that.
PanicsOnlyLazy ==
    /\ at = "panicked" => LazyCompressed
    /\ LazyCompressed => sent <= Chunk /\ at # "ended"

\* The Content-Encoding names what was done to the bytes hyper gets, and it is
\* an encoding than which the client wanted none more, also if it gave others a
\* weight so large that the conversions lose it; the lazy body is again the
\* exception.
HeaderTellsEncoding ==
    /\ kind \in {"bytes", "stream", "hyper"} => header = "identity"
    /\ kind = "compressor" => header = enc
    /\ header # "identity" =>
        \E o \in offers : o.alg = header /\ \A p \in offers : p.qual < Half => p.qual <= o.qual

\* Every body hyper polls comes to an end.
BodyEnds == (at = "hyper") ~> (at \in {"ended", "failed", "panicked"})

\* "rsp.into_body().collect().await.unwrap()" and the decoding after it
\* (src/mendes/tests/body.rs:34-47): a response that went through encoded()
\* can be collected, without a panic.
EncodedBodyCollects == at # "panicked"
=============================================================================
