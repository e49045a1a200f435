---------------------------- MODULE RequestBody ----------------------------
(***************************************************************************)
(* How a handler gets at the body of a request with a limit on its size:   *)
(* Application::from_body, Application::body_bytes, to_bytes and           *)
(* deserialize_body! of src/mendes/src/application.rs.                     *)
(*                                                                         *)
(* The frames of the body are hyper's (`Incoming`): with a Content-Length  *)
(* its size hint is exact and it yields that many bytes or an error;       *)
(* without one (chunked) the hint is 0 and no upper bound.  http-body-util *)
(* supplies `Limited`, which refuses the first frame that would exceed the *)
(* limit, and `collect`.                                                   *)
(*                                                                         *)
(* An operator named Bug_... is a broken variant of the definition after   *)
(* it: with it in that definition's place TLC must find a property         *)
(* violated.  No specification uses one.                                   *)
(***************************************************************************)
EXTENDS Integers

CONSTANTS
    Lengths,         \* lengths of request bodies
    Limits           \* values of max_len

ASSUME LengthsAssumption == Lengths \subseteq Nat /\ Limits \subseteq Nat

VARIABLES
    length,          \* bytes the client means to send
    declared,        \* it said so in a Content-Length
    type,            \* the Content-Type, as far as deserialize_body! tells
    maxLen,          \* max_len
    at,              \* the statement that runs
    got,             \* bytes collected
    lost,            \* bytes dropped with the frame that broke the limit
    result           \* what the handler gets

vars == <<length, declared, type, maxLen, at, got, lost, result>>

Types == {"form", "json", "multipart", "unknown", "opaque", "absent"}

Errors == {"BodyTooLarge", "BodyReceive", "BodyNoType", "BodyUnknownType",
           "BodyDecodeForm", "BodyDecodeJson", "BodyDecodeMultipart"}

TypeOK ==
    /\ length \in Lengths /\ maxLen \in Limits
    /\ declared \in BOOLEAN
    /\ type \in Types
    /\ at \in {"hint", "collect", "decode", "done"}
    /\ got \in Nat /\ lost \in Nat
    /\ result \in Errors \cup {"none", "bytes", "value"}

Init ==
    /\ length \in Lengths /\ maxLen \in Limits
    /\ declared \in BOOLEAN
    /\ type \in Types
    /\ at = "hint"
    /\ got = 0 /\ lost = 0
    /\ result = "none"

Return(r) == at' = "done" /\ result' = r

\* size_hint().upper(), or lower() if there is none
ExpectedLen == IF declared THEN length ELSE 0

\* a body of exactly max_len refused
Bug_CheckHintStrict ==
    /\ at = "hint"
    /\ IF ExpectedLen >= maxLen
       THEN Return("BodyTooLarge")
       ELSE at' = "collect" /\ UNCHANGED result
    /\ UNCHANGED <<length, declared, type, maxLen, got, lost>>

CheckHint ==
    /\ at = "hint"
    /\ IF ExpectedLen > maxLen
       THEN Return("BodyTooLarge")
       ELSE at' = "collect" /\ UNCHANGED result
    /\ UNCHANGED <<length, declared, type, maxLen, got, lost>>

\* collected without Limited
Bug_FrameUnlimited(n) ==
    /\ at = "collect" /\ n <= length - got
    /\ got' = got + n
    /\ UNCHANGED <<length, declared, type, maxLen, at, result, lost>>

\* A frame of n bytes passes through Limited.
Frame(n) ==
    /\ at = "collect" /\ n <= length - got
    /\ IF got + n > maxLen
       THEN Return("BodyReceive") /\ lost' = n /\ UNCHANGED got
       ELSE got' = got + n /\ UNCHANGED <<at, result, lost>>
    /\ UNCHANGED <<length, declared, type, maxLen>>

\* The connection breaks before the body is complete.
ReceiveFails ==
    /\ at = "collect"
    /\ Return("BodyReceive")
    /\ UNCHANGED <<length, declared, type, maxLen, got, lost>>

\* a body cut at the limit taken for complete; an empty body never complete
Bug_CollectedAtLimit ==
    /\ at = "collect" /\ (got = length \/ got = maxLen)
    /\ Return("bytes")
    /\ UNCHANGED <<length, declared, type, maxLen, got, lost>>

Bug_CollectedNonEmpty ==
    /\ at = "collect" /\ got = length /\ got > 0
    /\ Return("bytes")
    /\ UNCHANGED <<length, declared, type, maxLen, got, lost>>

\* to_bytes is done: body_bytes returns, from_body goes on to deserialize.
Collected ==
    /\ at = "collect" /\ got = length
    /\ \/ Return("bytes")
       \/ at' = "decode" /\ UNCHANGED result
    /\ UNCHANGED <<length, declared, type, maxLen, got, lost>>

\* deserialize_body!: the type is looked at only now.
DecodeError ==
    [form |-> "BodyDecodeForm", json |-> "BodyDecodeJson", multipart |-> "BodyDecodeMultipart",
     unknown |-> "BodyUnknownType", opaque |-> "BodyUnknownType", absent |-> "BodyNoType"]

\* what has another type taken for a form
Bug_DecodeAnyway ==
    /\ at = "decode"
    /\ \/ type # "absent" /\ Return("value")
       \/ Return(DecodeError[type])
    /\ UNCHANGED <<length, declared, type, maxLen, got, lost>>

Decode ==
    /\ at = "decode"
    /\ \/ type \in {"form", "json", "multipart"} /\ Return("value")
       \/ Return(DecodeError[type])
    /\ UNCHANGED <<length, declared, type, maxLen, got, lost>>

FrameArrives == at = "collect" /\ \E n \in 1..(length - got) : Frame(n)

Next == CheckHint \/ FrameArrives \/ ReceiveFails \/ Collected \/ Decode

\* Frames arrive or the connection breaks; the handler's task is polled.
Spec ==
    /\ Init /\ [][Next]_vars
    /\ WF_vars(CheckHint \/ Collected \/ Decode)
    /\ WF_vars(FrameArrives \/ (got < length /\ ReceiveFails))

-----------------------------------------------------------------------------

\* Never more than max_len bytes are held, whatever the client declares and
\* however the body is cut into frames; and a body that announces itself as too
\* large is refused before a byte of it is collected ("to avoid allocation").
BufferBounded ==
    /\ got <= maxLen
    /\ declared /\ length > maxLen => got = 0

\* The handler is given a body only if it is the whole of what the client sent
\* and within the limit: nothing is cut to fit.
NothingTruncated ==
    result \in {"bytes", "value"} \cup {DecodeError[t] : t \in Types}
        => got = length /\ length <= maxLen

\* A body within the limit is never refused for its size: the check of the hint
\* and the limit on the frames agree at the boundary.
FitsMeansAccepted ==
    length <= maxLen => result # "BodyTooLarge" /\ lost = 0

\* The answer fits what has happened: only a body that was declared too large is
\* said to be; one that turns out to be while its frames come in is said not to
\* be received (application.rs:518-520, another status); and what is said about
\* the contents is said of all of them and of the type that they have.
AnswersHaveCauses ==
    /\ result = "BodyTooLarge" => declared /\ length > maxLen
    /\ lost > 0 => result = "BodyReceive" /\ ~declared /\ length > maxLen
    /\ result = "value" => type \in {"form", "json", "multipart"}
    /\ \A t \in Types : result = DecodeError[t] => got = length /\ result = DecodeError[type]

\* Collecting a body comes to an end.
Answered == <>(at = "done")
=============================================================================
