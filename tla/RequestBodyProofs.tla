------------------------- MODULE RequestBodyProofs -------------------------
(***************************************************************************)
(* The limit on request bodies, proved for every body, limit and way of    *)
(* cutting the body into frames.                                           *)
(***************************************************************************)
EXTENDS RequestBody, TLAPS

\* While frames are collected, and in every answer but an error before the end,
\* what is held is a beginning of the body within the limit; a body that passed
\* the check of its hint is not longer than the limit if it was declared.
Progress ==
    /\ got <= length /\ got <= maxLen
    /\ at = "hint" => got = 0 /\ lost = 0 /\ result = "none"
    /\ at = "collect" => lost = 0 /\ result = "none"
    /\ at = "decode" => got = length /\ lost = 0 /\ result = "none"
    /\ at # "hint" /\ declared /\ length > maxLen => got = 0 /\ at = "done"

\* What the answers say.
Answers ==
    /\ result = "BodyTooLarge" => declared /\ length > maxLen
    /\ lost > 0 => result = "BodyReceive" /\ ~declared /\ length > maxLen
    /\ result \in {"bytes", "value"} \cup {DecodeError[t] : t \in Types} => got = length
    /\ result = "value" => type \in {"form", "json", "multipart"}
    /\ result \in {DecodeError[t] : t \in Types} => result = DecodeError[type]

IInv == TypeOK /\ Progress /\ Answers

\* A request that has just come in satisfies the invariant.
LEMMA InitInv == Init => IInv
  BY LengthsAssumption DEF Init, IInv, TypeOK, Progress, Answers, Types, Errors, DecodeError

\* The codes of deserialize_body! are errors, and none of them is one of size
\* or of transport.
LEMMA DecodeErrors ==
    /\ \A t \in Types : DecodeError[t] \in Errors
    /\ \A t \in Types : DecodeError[t] \notin {"none", "bytes", "value", "BodyTooLarge", "BodyReceive"}
  BY DEF DecodeError, Types, Errors

\* Every statement, and every frame or failure of the connection, keeps it.
LEMMA StepInv == IInv /\ [Next]_vars => IInv'
<1> SUFFICES ASSUME IInv, [Next]_vars PROVE IInv'
  OBVIOUS
<1> USE LengthsAssumption DEF IInv, TypeOK, Progress, Answers
<1>1. CASE CheckHint
  BY <1>1, DecodeErrors DEF CheckHint, Return, ExpectedLen, Errors
<1>2. CASE FrameArrives
  <2>1. PICK n \in 1..(length - got) : Frame(n)
    BY <1>2 DEF FrameArrives
  <2> QED  BY <2>1, DecodeErrors DEF Frame, Return, Errors
<1>3. CASE ReceiveFails
  BY <1>3, DecodeErrors DEF ReceiveFails, Return, Errors
<1>4. CASE Collected
  BY <1>4, DecodeErrors DEF Collected, Return, Errors
<1>5. CASE Decode
  BY <1>5, DecodeErrors DEF Decode, Return, Errors
<1>6. CASE UNCHANGED vars
  BY <1>6 DEF vars
<1> QED  BY <1>1, <1>2, <1>3, <1>4, <1>5, <1>6 DEF Next

\* IInv holds while a body is extracted.
THEOREM Invariance == Spec => []IInv
  BY InitInv, StepInv, PTL DEF Spec

\* The variables keep their types (application.rs:53-96, 485-522).
THEOREM TypeCorrect == Spec => []TypeOK
<1>1. IInv => TypeOK
  BY DEF IInv
<1> QED  BY <1>1, Invariance, PTL

\* to_bytes never holds more than max_len bytes, and nothing of a body that is
\* declared too large.
THEOREM BuffersAreBounded == Spec => []BufferBounded
<1>1. IInv => BufferBounded
  BY LengthsAssumption DEF IInv, TypeOK, Progress, BufferBounded
<1> QED  BY <1>1, Invariance, PTL

\* A handler gets the whole body or an error that is not about decoding.
THEOREM BodiesAreWhole == Spec => []NothingTruncated
<1>1. IInv => NothingTruncated
  BY LengthsAssumption DEF IInv, TypeOK, Progress, Answers, NothingTruncated
<1> QED  BY <1>1, Invariance, PTL

\* The check of the size hint and `Limited` agree about the boundary.
THEOREM LimitsAgree == Spec => []FitsMeansAccepted
<1>1. IInv => FitsMeansAccepted
  <2> SUFFICES ASSUME IInv, length <= maxLen PROVE result # "BodyTooLarge" /\ lost = 0
    BY DEF FitsMeansAccepted
  <2>1. length \in Nat /\ maxLen \in Nat /\ lost \in Nat
    BY LengthsAssumption DEF IInv, TypeOK
  <2>2. ~(length > maxLen)
    BY <2>1
  <2>3. result # "BodyTooLarge" /\ ~(lost > 0)
    BY <2>2 DEF IInv, Answers
  <2> QED  BY <2>1, <2>3
<1> QED  BY <1>1, Invariance, PTL

\* The error that a handler gets tells which of the checks has failed.
THEOREM ErrorsAreExact == Spec => []AnswersHaveCauses
<1>1. IInv => AnswersHaveCauses
  BY DEF IInv, Answers, AnswersHaveCauses
<1> QED  BY <1>1, Invariance, PTL

\* What the handler's task still has to do for the body.
Ahead ==
    CASE at = "hint"    -> length - got + 3
      [] at = "collect" -> length - got + 2
      [] at = "decode"  -> 1
      [] at = "done"    -> 0

\* Whatever the client sends, in frames of whatever size, every step is one
\* nearer to the answer: no frame is waited for that the limit has made useless.
\* This is what Answered rests on apart from the fairness.
EachStepAhead == [][Ahead' < Ahead]_vars

\* Each step leaves less to do, for bodies and frames of every size.
LEMMA AheadFalls == IInv /\ Next => Ahead' < Ahead
<1> SUFFICES ASSUME IInv, Next PROVE Ahead' < Ahead
  OBVIOUS
<1>1. length \in Nat /\ got \in Nat /\ got <= length
  BY LengthsAssumption DEF IInv, TypeOK, Progress
<1>2. CASE CheckHint
  <2>1. Ahead = length - got + 3 /\ Ahead' \in {length - got + 2, 0}
    BY <1>2 DEF CheckHint, Return, Ahead
  <2> QED  BY <1>1, <2>1
<1>3. CASE FrameArrives
  <2>1. PICK n \in 1..(length - got) : Frame(n)
    BY <1>3 DEF FrameArrives
  <2>2. Ahead = length - got + 2
    BY <2>1 DEF Frame, Ahead
  <2>3. Ahead' \in {length - (got + n) + 2, 0}
    BY <2>1 DEF Frame, Return, Ahead
  <2> QED  BY <1>1, <2>2, <2>3
<1>4. CASE ReceiveFails \/ Collected
  <2>1. Ahead = length - got + 2 /\ Ahead' \in {0, 1}
    BY <1>4 DEF ReceiveFails, Collected, Return, Ahead
  <2> QED  BY <1>1, <2>1
<1>5. CASE Decode
  BY <1>5 DEF Decode, Return, Ahead
<1> QED  BY <1>2, <1>3, <1>4, <1>5 DEF Next

\* With the fairness of Spec this is why a handler gets its answer.
THEOREM AnswersComeNearer == Spec => EachStepAhead
<1>1. IInv /\ [Next]_vars => [Ahead' < Ahead]_vars
  BY AheadFalls
<1> QED  BY <1>1, Invariance, PTL DEF Spec, EachStepAhead
=============================================================================
