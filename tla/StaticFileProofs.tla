-------------------------- MODULE StaticFileProofs --------------------------
(***************************************************************************)
(* Theorems about StaticFile, for files and bodies of any size: file() is  *)
(* a handler as Body knows them, so that what is proved of Body holds of   *)
(* the bodies it makes, and the length it announces is wrong for two       *)
(* reasons only.                                                           *)
(***************************************************************************)
EXTENDS StaticFile, BodyProofs

allvars == <<fvars, vars>>

\* What file() has found out, as long as the file system stands still.
Known ==
    /\ stage \in {"stat", "index", "read", "notFound"} => at = "handler"
    /\ stage = "stat" => ~changed
    /\ ~changed =>
        /\ stage = "stat" => target = "path"
        /\ stage = "index" => node["path"] = Directory /\ target = "index"
        /\ stage \in {"read", "served"} =>
              node[target] = Resolved /\ (Resolved \in Sizes => length = Resolved)
        /\ stage = "served" => Resolved \in Sizes
        /\ stage \in {"notFound", "refused"} => Resolved \notin Sizes \/ failed
        /\ stage = "served" =>
              kind = "compressor" \/ (kind = "bytes" /\ due = length)

FIInv == FTypeOK /\ IInv /\ Known

\* Sizes are numbers and none of them is Missing or Directory.
LEMMA Nodes == Missing \notin Sizes /\ Directory \notin Sizes /\ Missing # Directory
  BY BodyAssumption DEF Missing, Directory

\* Before there is a body, encoded() and hyper have nothing to do.
LEMMA NothingToHandle == at = "handler" => ~(Encoded \/ EncodedPanics \/ Respond \/ Poll)
  BY DEF Encoded, EncodedPanics, Respond, Poll, Polled, End, PollBytes, PollCompressor, PollStream,
     PollLazyPlain, PollLazyCompressed, PollLazyAgain, PollFails

\* What becomes of a body of bytes: it keeps its length, or is compressed.
LEMMA BytesStay ==
    ASSUME Encoded \/ EncodedPanics \/ Respond \/ Poll
    PROVE  /\ kind = "bytes" => kind' = "compressor" \/ (kind' = "bytes" /\ due' = due)
           /\ kind = "compressor" => kind' = "compressor"
<1>1. CASE Encoded
  BY <1>1 DEF Encoded, EncodeBytes, EncodeLazy
<1>2. CASE EncodedPanics \/ Respond
  BY <1>2 DEF EncodedPanics, Respond, inner
<1>3. CASE Poll
  BY <1>3 DEF Poll, Polled, End, PollBytes, PollCompressor, PollStream, PollLazyPlain,
     PollLazyCompressed, PollLazyAgain, PollFails, inner
<1> QED BY <1>1, <1>2, <1>3

\* A step of the file server is a step of Body or leaves the body alone.
LEMMA BodyStep == [FNext]_allvars => [Next]_vars
<1> SUFFICES ASSUME [FNext]_allvars PROVE [Next]_vars
  OBVIOUS
<1>1. CASE OtherHandler \/ Refuse
  BY <1>1 DEF OtherHandler, Refuse, Next
<1>2. CASE Stat \/ StatIndex \/ Change
  BY <1>2 DEF Stat, StatIndex, CallFails, NoSuchNode, Change
<1>3. CASE Read
  BY <1>3 DEF Read, CallFails, NoSuchNode, Next, MakeBody
<1>4. CASE (Encoded \/ EncodedPanics \/ Respond \/ Poll) /\ UNCHANGED fvars
  BY <1>4 DEF Next
<1>5. CASE UNCHANGED allvars
  BY <1>5 DEF allvars
<1> QED BY <1>1, <1>2, <1>3, <1>4, <1>5 DEF FNext

\* file() before its first await.
LEMMA FInitIInv == FInit => FIInv
<1> SUFFICES ASSUME FInit PROVE FIInv
  OBVIOUS
<1>1. IInv
  BY InitIInv DEF FInit
<1>2. FTypeOK
  BY <1>1 DEF FInit, FTypeOK, IInv
<1>3. Known
  BY DEF FInit, Init, Known
<1> QED BY <1>1, <1>2, <1>3 DEF FIInv

\* Each of its steps keeps the invariant, and so does what is done to the body.
LEMMA FNextIInv == FIInv /\ [FNext]_allvars => FIInv'
<1> SUFFICES ASSUME FIInv, [FNext]_allvars PROVE FIInv'
  OBVIOUS
<1>1. IInv'
  BY BodyStep, NextIInv DEF FIInv
<1>2. TypeOK'
  BY <1>1 DEF IInv
<1> USE Nodes DEF FIInv
<1>3. ASSUME stage \in {"stat", "index", "read"}, CallFails, UNCHANGED <<node, changed>>
      PROVE  FIInv'
  BY <1>1, <1>2, <1>3 DEF CallFails, vars, given, inner, FTypeOK, Known, Resolved
<1>4. CASE Stat
  <2>1. CASE node["path"] = Missing /\ NoSuchNode
    BY <1>1, <1>2, <1>4, <2>1 DEF Stat, NoSuchNode, vars, given, inner, FTypeOK, Known, Resolved
  <2>2. CASE node["path"] = Directory /\ stage' = "index" /\ target' = "index"
             /\ UNCHANGED <<length, failed, vars>>
    BY <1>1, <1>2, <1>4, <2>2 DEF Stat, vars, given, inner, FTypeOK, Known, Resolved
  <2>3. CASE node["path"] \in Sizes /\ stage' = "read" /\ Announce("path")
             /\ UNCHANGED <<target, failed, vars>>
    BY <1>1, <1>2, <1>4, <2>3
       DEF Stat, Announce, vars, given, inner, FTypeOK, Known, Resolved, Trees
  <2> QED BY <1>3, <1>4, <2>1, <2>2, <2>3 DEF Stat
<1>5. CASE StatIndex
  <2>1. CASE node["index"] = Missing /\ NoSuchNode
    BY <1>1, <1>2, <1>5, <2>1
       DEF StatIndex, NoSuchNode, vars, given, inner, FTypeOK, Known, Resolved
  <2>2. CASE node["index"] # Missing /\ stage' = "read" /\ Announce("index")
             /\ UNCHANGED <<target, failed, vars>>
    BY <1>1, <1>2, <1>5, <2>2
       DEF StatIndex, Announce, vars, given, inner, FTypeOK, Known, Resolved, Trees
  <2> QED BY <1>3, <1>5, <2>1, <2>2 DEF StatIndex
<1>10. CASE Read
  <2>1. CASE node[target] \notin Sizes /\ NoSuchNode
    BY <1>1, <1>2, <1>10, <2>1
       DEF Read, NoSuchNode, vars, given, inner, FTypeOK, Known, Resolved
  <2>2. CASE node[target] \in Sizes /\ stage' = "served" /\ Create("bytes", node[target])
             /\ UNCHANGED <<target, length, failed>>
    BY <1>1, <1>2, <1>10, <2>2 DEF Read, Create, FTypeOK, Known, Resolved
  <2> QED BY <1>3, <1>10, <2>1, <2>2 DEF Read
<1>6. CASE OtherHandler \/ Refuse
  BY <1>1, <1>2, <1>6 DEF OtherHandler, Refuse, history, FTypeOK, Known, Resolved
<1>7. CASE Change
  BY <1>1, <1>2, <1>7 DEF Change, vars, given, inner, FTypeOK, Known
<1>8. CASE (Encoded \/ EncodedPanics \/ Respond \/ Poll) /\ UNCHANGED fvars
  BY <1>1, <1>2, <1>8, BytesStay, NothingToHandle DEF fvars, history, FTypeOK, Known, Resolved
<1>9. CASE UNCHANGED allvars
  BY <1>1, <1>2, <1>9 DEF allvars, fvars, history, vars, given, inner, FTypeOK, Known, Resolved
<1> QED BY <1>4, <1>5, <1>6, <1>7, <1>8, <1>9, <1>10 DEF FNext

\* The invariant holds in every behaviour of the file server.
THEOREM FInvariance == FSpec => []FIInv
  BY FInitIInv, FNextIInv, PTL DEF FSpec, allvars

\* Type correctness of file() and of its response body.
THEOREM FTypeCorrect == FSpec => []FTypeOK
<1>1. FIInv => FTypeOK
  BY DEF FIInv
<1> QED BY <1>1, FInvariance, PTL

\* file() is one of the handlers that Body allows for: it makes one body, and
\* the rest is done by encoded() and hyper.
THEOREM FileIsAHandler == FSpec => Steps
<1>1. FInit => Init
  BY DEF FInit
<1> QED BY <1>1, BodyStep, PTL DEF FSpec, allvars, Steps

\* So the bodies that file() makes are sound in every way that Body's are:
\* hints, ends, panics and labels (body.rs:85-216 and 264-301).
THEOREM FilesAreSoundBodies ==
    FSpec => /\ [](SizeHintSound /\ EndsWhole /\ PanicsOnlyLazy /\ HeaderTellsEncoding)
             /\ EndIsFinal /\ PollsGetOn
  BY FileIsAHandler, SizeHintIsSound, BodiesEndWhole, OnlyLazyPanics, HeaderIsRight,
     EndsAreFinal, BodiesGetOn, PTL

\* A wrong Content-Length has one of the two causes.
THEOREM WrongLengthsHaveCauses == FSpec => []WrongLengthHasCause
<1>1. FIInv => WrongLengthHasCause
  BY DEF FIInv, Known, WrongLengthHasCause, IInv, Choice
<1> QED BY <1>1, FInvariance, PTL

\* While the file system stands still file() serves what is there, and says that
\* there is nothing only if a call failed or there is nothing.
THEOREM FilesAreServed == FSpec => []ServesWhatIsThere
<1>1. FIInv => ServesWhatIsThere
  BY DEF FIInv, Known, ServesWhatIsThere, IInv, Choice
<1> QED BY <1>1, FInvariance, PTL
=============================================================================
