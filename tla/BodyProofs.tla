----------------------------- MODULE BodyProofs -----------------------------
(***************************************************************************)
(* Theorems about Body, for bodies, frames and allowances of any size and  *)
(* any Accept-Encoding.                                                    *)
(***************************************************************************)
EXTENDS Body, TLAPS

\* Where the bytes are.  The compressor that a lazy body throws away is the
\* one place where some are lost.
Accounts ==
    /\ ~(LazyCompressed /\ ready) => due = sent + left
    /\ sent <= due
    /\ kind = "compressor" => left <= fullSize + Slack \/ due > size + Slack
    /\ kind = "bytes" /\ at \in {"handler", "app"} => left = size
    /\ at \in {"handler", "app"} => sent = 0 /\ ~ready
    /\ at = "handler" => kind = "bytes" /\ ~done
    /\ done => left = 0 /\ sent = due /\ ~LazyCompressed
    /\ at = "ended" => done
    /\ at = "panicked" => LazyCompressed /\ ~done
    /\ ready => kind = "lazy"
    /\ ready /\ ~done => LazyCompressed

\* What encoded() has chosen.
Choice ==
    /\ kind \in {"bytes", "stream", "hyper"} => header = "identity" /\ enc = "identity"
    /\ kind = "compressor" => enc # "identity" /\ header = enc /\ FromAccept(enc)
    /\ kind = "lazy" => header = "identity"
    /\ LazyCompressed => sent <= Chunk /\ (~ready => sent = 0)

IInv == TypeOK /\ Accounts /\ Choice

\* The chunk and the allowance are positive.
LEMMA Constants ==
    /\ Chunk \in Nat /\ Chunk >= 1
    /\ Slack \in Nat /\ Slack > 1
    /\ Added \in Nat
  BY BodyAssumption

\* The counters are natural numbers, which is all most steps need of TypeOK.
LEMMA Counts == TypeOK => left \in Nat /\ fullSize \in Nat /\ sent \in Nat /\ due \in Nat
                      /\ size \in Nat
  BY DEF TypeOK

\* Arithmetic with a zero that the prover must be told of.
LEMMA NothingYet == \A s, n \in Int : s = 0 => n = s + n
  OBVIOUS

\* What was sent is a part of the whole.
LEMMA AtMost == \A s, m \in Nat : \A n : n = s + m => s <= n
  OBVIOUS

\* Adding the same number keeps an order that the prover must be told of.
LEMMA Shift == \A m, n, k \in Nat : m < n => m + k < n + k
  OBVIOUS

\* The invariant holds before there is a body.
LEMMA InitIInv == Init => IInv
<1> SUFFICES ASSUME Init PROVE IInv
  OBVIOUS
<1> USE BodyAssumption DEF Init
<1>1. offers \subseteq [alg : Encodings, qual : Qualities]
  OBVIOUS
<1>2. TypeOK
  BY <1>1 DEF TypeOK, Encodings
<1>3. Accounts /\ Choice
  BY DEF Accounts, Choice, LazyCompressed
<1> QED BY <1>2, <1>3 DEF IInv

\* Every new body satisfies it.
LEMMA CreateStep ==
    ASSUME IInv, NEW k \in {"bytes", "lazy", "stream", "hyper"}, NEW n \in Sizes, Create(k, n)
    PROVE  IInv'
<1>1. n \in Nat /\ left' = n /\ due' = n /\ size' = n /\ kind' = k /\ at' = "app"
      /\ done' = (k = "bytes" /\ n = 0)
      /\ fullSize' = (IF k = "bytes" THEN n ELSE 0)
      /\ UNCHANGED <<offers, enc, ready, header, sent>>
  BY BodyAssumption DEF Create
<1>2. at = "handler" /\ kind = "bytes" /\ sent = 0 /\ ~ready
      /\ header = "identity" /\ enc = "identity"
  BY DEF IInv, Create, Accounts, Choice
<1>3. TypeOK'
  BY <1>1, <1>2 DEF IInv, TypeOK
<1>4. due' = sent' + left'
  BY <1>1, <1>2
<1>5. sent' = 0 /\ sent' <= due'
  BY <1>1, <1>2
<1>6. Accounts' /\ Choice'
  BY <1>1, <1>2, <1>4, <1>5 DEF Accounts, Choice, LazyCompressed
<1> QED BY <1>3, <1>6 DEF IInv

\* encoded() and handing the body over keep the invariant.
LEMMA EncodedStep ==
    ASSUME IInv, Encoded
    PROVE  IInv'
<1> USE Constants DEF IInv, LazyCompressed
<1>1. PICK alg \in Encodings : FromAccept(alg) /\ (EncodeBytes(alg) \/ EncodeLazy(alg))
  BY DEF Encoded
<1>2. at = "app" /\ ~done /\ UNCHANGED <<offers, size, ready, done, at, sent>>
  BY DEF Encoded, given
<1>3. FromAccept(alg)'
  BY <1>1, <1>2 DEF FromAccept
<1>4. CASE EncodeBytes(alg)
  <2>1. CASE alg = "identity"
    BY <1>2, <1>4, <2>1 DEF EncodeBytes, TypeOK, Accounts, Choice
  <2>2. CASE alg # "identity"
    <3>1. /\ kind = "bytes" /\ fullSize' = left
          /\ kind' = "compressor" /\ enc' = alg /\ header' = alg
          /\ left' \in 1..(left + Added) /\ due' = left'
      BY <1>4, <2>2 DEF EncodeBytes
    <3>2. TypeOK'
      BY <1>2, <3>1 DEF TypeOK
    <3>3. Accounts'
      <4>1. sent = 0 /\ ~ready
        BY <1>2 DEF Accounts
      <4>2. left \in Nat /\ left' \in 1..(left + Added) /\ due' = left' /\ fullSize' = left
        BY <3>1, Counts
      <4>3. left' \in Int
        BY <4>2
      <4>4. sent' \in Int /\ sent' = 0
        BY <1>2, <4>1
      <4>5. due' = sent' + left'
        BY <4>2, <4>3, <4>4, NothingYet
      <4>6. left' <= fullSize' + Slack \/ due' > size' + Slack
        <5>1. left = size /\ size' = size /\ size \in Nat
          BY <1>2, <3>1, Counts DEF Accounts
        <5> QED BY <4>2, <4>3, <5>1
      <4>7. sent' <= due'
        BY <4>2, <4>4
      <4> QED BY <1>2, <3>1, <4>1, <4>5, <4>6, <4>7 DEF Accounts
    <3>4. FromAccept(enc)'
      BY <1>3, <3>1 DEF FromAccept
    <3>5. Choice'
      BY <2>2, <3>1, <3>4 DEF Choice
    <3> QED BY <3>2, <3>3, <3>5
  <2> QED BY <2>1, <2>2
<1>5. CASE EncodeLazy(alg)
  BY <1>2, <1>5 DEF EncodeLazy, TypeOK, Accounts, Choice
<1> QED BY <1>1, <1>4, <1>5

\* Every outcome of poll_frame() keeps the invariant.
LEMMA PollStep ==
    ASSUME IInv, Poll
    PROVE  IInv'
<1> USE Constants DEF IInv, LazyCompressed, TypeOK, Accounts, Choice, Polled, given, inner
<1>1. FromAccept(enc) /\ enc' = enc /\ offers' = offers => FromAccept(enc)'
  BY DEF FromAccept
<1>2. CASE End
  BY <1>1, <1>2 DEF End
<1>3. CASE PollBytes
  BY <1>1, <1>3 DEF PollBytes
<1>4. CASE PollCompressor
  <2> HIDE DEF TypeOK, Choice
  <2>1. /\ kind = "compressor" /\ ~done /\ at = "hyper"
        /\ UNCHANGED <<offers, size, kind, enc, ready, header, due>>
    BY <1>4 DEF PollCompressor, given
  <2>2. due = sent + left /\ (left <= fullSize + Slack \/ due > size + Slack)
    BY <2>1
  <2>3. ASSUME NEW n \in 1..Chunk, n <= left,
               sent' = sent + n, left' = left - n, Reduce(n), UNCHANGED <<done, at>>
        PROVE  IInv'
    <3>1. fullSize' \in Nat /\ fullSize' >= fullSize - n
      BY <2>3, Counts DEF Reduce
    <3>2. left' \in Nat /\ sent' \in Nat
      BY <2>3, Counts
    <3>3. (left' <= fullSize' + Slack \/ due' > size' + Slack) /\ due' = sent' + left'
      BY <2>1, <2>2, <2>3, <3>1, Counts
    <3>4. TypeOK'
      BY <2>1, <2>3, <3>1, <3>2 DEF TypeOK
    <3>7. sent' <= due'
      BY <3>2, <3>3, AtMost
    <3>5. Accounts'
      BY <2>1, <2>3, <3>3, <3>7
    <3>6. Choice'
      BY <1>1, <2>1 DEF Choice
    <3> QED BY <3>4, <3>5, <3>6
  <2>4. CASE left = 0 /\ done' = TRUE /\ at' = "ended" /\ UNCHANGED <<left, sent, fullSize>>
    BY <1>1, <2>1, <2>2, <2>4, Counts DEF TypeOK, Choice
  <2> QED BY <1>4, <2>3, <2>4 DEF PollCompressor
<1>5. CASE PollStream
  <2> HIDE DEF TypeOK, Choice
  <2>1. /\ kind \in {"stream", "hyper"} /\ ~done /\ at = "hyper" /\ due = sent + left
        /\ UNCHANGED <<offers, size, kind, enc, ready, fullSize, header, due>>
    BY <1>5 DEF PollStream, given
  <2>2. ASSUME NEW n \in 1..left, sent' = sent + n, left' = left - n, UNCHANGED <<done, at>>
        PROVE  IInv'
    <3>1. left' \in Nat /\ sent' \in Nat /\ due' = sent' + left'
      BY <2>1, <2>2, Counts
    <3> QED BY <1>1, <2>1, <2>2, <3>1 DEF TypeOK, Choice
  <2>3. CASE left = 0 /\ done' = TRUE /\ at' = "ended" /\ UNCHANGED <<left, sent>>
    BY <1>1, <2>1, <2>3, Counts DEF TypeOK, Choice
  <2> QED BY <1>5, <2>2, <2>3 DEF PollStream
<1>6. CASE PollLazyPlain
  BY <1>1, <1>6 DEF PollLazyPlain
<1>7. CASE PollLazyCompressed
  BY <1>1, <1>7 DEF PollLazyCompressed
<1>8. CASE PollLazyAgain \/ PollFails
  BY <1>1, <1>8 DEF PollLazyAgain, PollFails
<1> QED BY <1>2, <1>3, <1>4, <1>5, <1>6, <1>7, <1>8 DEF Poll

\* IInv is inductive.
LEMMA NextIInv == IInv /\ [Next]_vars => IInv'
<1>1. IInv /\ (EncodedPanics \/ Respond \/ UNCHANGED vars) => IInv'
  BY DEF EncodedPanics, Respond, vars, given, inner, IInv, TypeOK, Accounts, Choice, LazyCompressed, FromAccept
<1> QED BY <1>1, CreateStep, EncodedStep, PollStep DEF Next, MakeBody

\* IInv holds in every behaviour.
THEOREM Invariance == Steps => []IInv
  BY InitIInv, NextIInv, PTL DEF Steps

\* Type correctness of the body.
THEOREM TypeCorrect == Steps => []TypeOK
<1>1. IInv => TypeOK
  BY DEF IInv
<1> QED BY <1>1, Invariance, PTL

\* size_hint() is right at every moment of every body's life.
THEOREM SizeHintIsSound == Steps => []SizeHintSound
<1>1. ASSUME IInv PROVE SizeHintSound
  <2> USE <1>1, Constants DEF IInv, TypeOK, Accounts, NoBound, LazyCompressed
  <2>1. CASE done
    <3>1. Upper = 0 /\ Lower = 0 /\ due - sent = 0
      BY <2>1 DEF Upper, Lower
    <3> QED BY <3>1 DEF SizeHintSound
  <2>2. CASE ~done /\ kind \in {"bytes", "hyper"}
    <3>1. Upper = left /\ Lower = left /\ due - sent = left
      BY <2>2 DEF Upper, Lower
    <3> QED BY <3>1 DEF SizeHintSound
  <2>3. CASE ~done /\ kind = "compressor"
    <3>1. Upper = fullSize + Slack /\ Lower = 1 /\ due - sent = left
      BY <2>3 DEF Upper, Lower
    <3>2. Upper # Lower \/ due - sent = Upper
      BY <3>1
    <3>3. Lower > due - sent => left = 0
      BY <3>1
    <3> QED BY <2>3, <3>1, <3>2, <3>3 DEF SizeHintSound
  <2>4. CASE ~done /\ kind \in {"lazy", "stream"}
    <3>1. Upper = NoBound /\ Lower = 0
      BY <2>4 DEF Upper, Lower
    <3>2. ~(Lower > due - sent)
      BY <3>1
    <3> QED BY <3>1, <3>2 DEF SizeHintSound
  <2> QED BY <2>1, <2>2, <2>3, <2>4
<1> QED BY <1>1, Invariance, PTL

\* A body that ends has been sent whole.
THEOREM BodiesEndWhole == Steps => []EndsWhole
<1>1. IInv => EndsWhole
  BY DEF IInv, Accounts, EndsWhole
<1> QED BY <1>1, Invariance, PTL

\* Panics come from lazy bodies only.
THEOREM OnlyLazyPanics == Steps => []PanicsOnlyLazy
<1>1. IInv => PanicsOnlyLazy
  BY DEF IInv, Accounts, Choice, PanicsOnlyLazy
<1> QED BY <1>1, Invariance, PTL

\* The Content-Encoding is the one applied, and the client's preferred one.
THEOREM HeaderIsRight == Steps => []HeaderTellsEncoding
<1>1. ASSUME IInv PROVE HeaderTellsEncoding
  <2>1. ASSUME kind = "compressor"
        PROVE  \E o \in offers :
                  o.alg = header /\ \A p \in offers : p.qual < Half => p.qual <= o.qual
    <3>1. PICK o \in offers : o.alg = header /\ \A p \in offers : Before(o, p)
      BY <1>1, <2>1 DEF IInv, Choice, FromAccept
    <3>2. \A p \in offers : p.qual \in Int
      <4>1. \A p \in offers : p \in [alg : Encodings, qual : Qualities]
        BY <1>1 DEF IInv, TypeOK
      <4>2. \A p \in offers : p.qual \in Qualities
        BY <4>1
      <4>3. \A q \in Qualities : q \in Int
        BY BodyAssumption
      <4> QED BY <4>2, <4>3
    <3>3. ASSUME NEW p \in offers, p.qual < Half PROVE p.qual <= o.qual
      <4>1. SortKey(o.qual) <= SortKey(p.qual)
        BY <3>1, <3>2, BodyAssumption DEF Before, SortKey
      <4> QED BY <3>2, <3>3, <4>1, BodyAssumption DEF SortKey
    <3> QED BY <3>1, <3>3
  <2> QED BY <1>1, <2>1 DEF IInv, TypeOK, Choice, HeaderTellsEncoding
<1> QED BY <1>1, Invariance, PTL

\* Nothing follows the end of a body.
THEOREM EndsAreFinal == Steps => EndIsFinal
<1>1. IInv /\ [Next]_vars => [done => done' /\ sent' = sent /\ at' # "panicked"]_vars
  <2> SUFFICES ASSUME IInv, Next, done
               PROVE  done' /\ sent' = sent /\ at' # "panicked"
    OBVIOUS
  <2>1. at # "panicked" /\ at # "handler"
    BY DEF IInv, Accounts
  <2> QED BY <2>1 DEF Next, MakeBody, Create, Encoded, EncodedPanics, Respond, Poll, Polled, End, PollBytes, PollCompressor,
       PollStream, PollLazyPlain, PollLazyCompressed, PollLazyAgain, PollFails
<1> QED BY <1>1, Invariance, PTL DEF Steps, EndIsFinal

\* What is left for hyper to ask for: each byte, the future, the end.
Remaining ==
    CASE at # "hyper" -> 0
      [] at = "hyper" /\ done -> 1
      [] OTHER -> left + (IF kind = "lazy" /\ ~ready THEN 3 ELSE 2)

\* Each answer of poll_frame() takes a body nearer to its end, a frame that was
\* sent before is not sent again, and nobody else delays it: this is what
\* BodyEnds rests on apart from the fairness.
PollsGetOn == [][at = "hyper" => Remaining' < Remaining]_vars

\* Every poll takes the body nearer to its end, for frames of any size; with
\* the fairness of Spec this is why BodyEnds holds.
THEOREM BodiesGetOn == Steps => PollsGetOn
<1>1. ASSUME IInv, Next, at = "hyper" PROVE Remaining' < Remaining
  <2>1. left \in Nat /\ left' \in Nat
    BY <1>1, NextIInv DEF IInv, TypeOK
  <2>2. CASE done
    <3>1. at' = "ended"
      BY <1>1, <2>2 DEF Next, MakeBody, Create, Encoded, EncodedPanics, Respond, Poll, Polled, End, PollBytes,
         PollCompressor, PollStream, PollLazyPlain, PollLazyCompressed, PollLazyAgain, PollFails
    <3> QED BY <1>1, <2>2, <3>1 DEF Remaining
  <2>3. CASE ~done
    <3>1. Remaining = left + (IF kind = "lazy" /\ ~ready THEN 3 ELSE 2)
      BY <1>1, <2>3 DEF Remaining
    <3>2. CASE at' # "hyper" \/ done'
      <4>1. Remaining' \in {0, 1}
        BY <3>2 DEF Remaining
      <4> QED BY <2>1, <3>1, <4>1
    <3>3. CASE at' = "hyper" /\ ~done'
      <4>1. Remaining' = left' + (IF kind' = "lazy" /\ ~ready' THEN 3 ELSE 2)
        BY <3>3 DEF Remaining
      <4>2. /\ kind' = kind
            /\ \/ ready' = ready /\ left' < left
               \/ kind = "lazy" /\ ~ready /\ ready' /\ left' = 0
        BY <1>1, <2>1, <2>3, <3>3, Constants
           DEF Next, MakeBody, Create, Encoded, EncodedPanics, Respond, Poll, Polled, End, PollBytes,
               PollCompressor, PollStream, PollLazyPlain, PollLazyCompressed, PollLazyAgain, PollFails
      <4>3. CASE ready' = ready /\ left' < left
        <5>n. left' < left
          BY <4>3
        <5>1. (kind' = "lazy" /\ ~ready') <=> (kind = "lazy" /\ ~ready)
          BY <4>2, <4>3
        <5>2. CASE kind = "lazy" /\ ~ready
          <6>1. Remaining = left + 3 /\ Remaining' = left' + 3
            BY <3>1, <4>1, <5>1, <5>2
          <6>2. left' + 3 < left + 3
            BY <2>1, <5>n, Shift
          <6> QED BY <6>1, <6>2
        <5>3. CASE ~(kind = "lazy" /\ ~ready)
          <6>1. Remaining = left + 2 /\ Remaining' = left' + 2
            BY <3>1, <4>1, <5>1, <5>3
          <6>2. left' + 2 < left + 2
            BY <2>1, <5>n, Shift
          <6> QED BY <6>1, <6>2
        <5> QED BY <5>2, <5>3
      <4>4. CASE kind = "lazy" /\ ~ready /\ ready' /\ left' = 0
        <5>1. Remaining = left + 3 /\ Remaining' = 2
          BY <3>1, <4>1, <4>4
        <5> QED BY <2>1, <5>1
      <4> QED BY <4>2, <4>3, <4>4
    <3> QED BY <3>2, <3>3
  <2> QED BY <2>2, <2>3
<1>2. IInv /\ [Next]_vars => [at = "hyper" => Remaining' < Remaining]_vars
  BY <1>1
<1> QED BY <1>2, Invariance, PTL DEF Steps, PollsGetOn
=============================================================================
