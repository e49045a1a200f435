-------------------------- MODULE MultipartProofs --------------------------
(***************************************************************************)
(* Theorems about Multipart, for every form, every body and any number of  *)
(* parts.                                                                  *)
(***************************************************************************)
EXTENDS Multipart, FiniteSetTheorems, TLAPS

\* The fields of a File that have been given when the deserialiser is at s.
Given(s) ==
    CASE s = "filename" -> {}
      [] s = "type" -> {"filename"}
      [] s = "data" -> {"filename", "type"}
      [] OTHER -> FileKeys

\* The part that is read belongs to the field of the form whose value is wanted.
AtPart == part \in Parts /\ Suits(part) /\ key.form = part.name

\* Where the deserialiser stands between a key and a value of either map.
AtFormKey   == state = "none"
AtFileKey   == AtPart /\ part.blob /\ state \in FileKeys \cup {"end"} /\ seen.file = Given(state)
AtFormValue == AtPart /\ state = FirstState(part)
AtFileValue ==
    /\ AtPart /\ part.blob
    /\ state \in FileKeys /\ key.file = state
    /\ seen.file = Given(state) \cup {state}

InStep ==
    /\ ~misplaced /\ result \notin Panics
    /\ state = "end" => level = "file" /\ seen.file = FileKeys
    /\ at # "done" => result = "none" /\ Cardinality(seen.form) = count
    /\ result = "value" => ended /\ Cardinality(seen.form) = count
    /\ RejectedForCause
    /\ at = "key" => IF level = "form" THEN AtFormKey ELSE AtFileKey
    /\ at = "value" => IF level = "form" THEN AtFormValue ELSE AtFileValue

\* A value is read for a field and within a part, also when the two do not suit
\* each other.
Positioned ==
    at = "value" => state \in FileKeys /\ (level = "form" => key.form \in Fields)

\* At the closing boundary only the map of the form can still be open.
Closed ==
    ended /\ at # "done" => level = "form" /\ at = "key" /\ state = "none"

IInv == TypeOK /\ Positioned /\ Closed /\ (suited => InStep)

\* Numbers of things that are counted one by one.
LEMMA OneMore ==
    ASSUME TypeOK, NEW f \in Fields, f \notin seen.form
    PROVE  Cardinality(seen.form \cup {f}) = Cardinality(seen.form) + 1
<1>1. IsFiniteSet(seen.form)
  BY FieldsAssumption, FS_Subset DEF TypeOK
<1> QED BY <1>1, FS_AddElement

\* The parser begins in step with the form.
LEMMA InitIInv == Init => IInv
<1> SUFFICES ASSUME Init PROVE IInv
  OBVIOUS
<1>1. TypeOK
  <2>1. count \in 0..MaxParts
    BY FieldsAssumption DEF Init
  <2>2. {ended, suited, misplaced} \subseteq BOOLEAN
    BY DEF Init
  <2>3. /\ key \in [form : Fields \cup {"none"}, file : FileKeys \cup {"none"}]
        /\ seen \in [form : SUBSET Fields, file : SUBSET FileKeys]
    BY DEF Init
  <2> QED BY <2>1, <2>2, <2>3 DEF Init, TypeOK, States
<1>2. Cardinality(seen.form) = count
  BY FS_EmptySet DEF Init
<1> QED
  BY <1>1, <1>2 DEF Init, IInv, Positioned, Closed, InStep, RejectedForCause, AtFormKey, Panics

\* Types are kept by every step, of suited bodies and of others.
LEMMA TypeStep == TypeOK /\ Positioned /\ [Next]_vars => TypeOK' /\ Positioned'
<1> SUFFICES ASSUME TypeOK, Positioned, [Next]_vars PROVE TypeOK' /\ Positioned'
  OBVIOUS
<1> USE FieldsAssumption DEF TypeOK, Positioned, States, Panics, FileKeys, Stop, input
<1>1. ASSUME NEW p \in Parts, KeyOfPart(p) PROVE TypeOK' /\ Positioned'
  BY <1>1 DEF KeyOfPart, TakeKey, Known, FirstState
<1>2. ASSUME NEW how \in {"closed", "missing", "short"}, BodyEnds(how) PROVE TypeOK' /\ Positioned'
  BY <1>2 DEF BodyEnds, EndMap
<1>3. CASE KeyWithinPart
  BY <1>3 DEF KeyWithinPart, TakeKey, Known
<1>4. CASE EndOfPart
  BY <1>4 DEF EndOfPart, EndMap
<1>5. CASE Value
  <2>1. TypeOfValue \in FieldTypes \ {"file"}
    BY <1>5 DEF Value, TypeOfValue, FieldTypes
  <2>2. Reads(TypeOfValue) \in {"ok", "error", "unreachable", "unwrap"}
    BY <2>1 DEF Reads, FieldTypes
  <2>3. StateAfter[state] \in States
    BY <1>5 DEF Value, StateAfter
  <2> QED BY <1>5, <2>2, <2>3 DEF Value
<1>6. CASE FileValue
  BY <1>6 DEF FileValue
<1>7. CASE UNCHANGED vars
  BY <1>7 DEF vars
<1> QED BY <1>1, <1>2, <1>3, <1>4, <1>5, <1>6, <1>7 DEF Next

\* After the closing boundary there is no part and no value.
LEMMA ClosedStep == TypeOK /\ Closed /\ [Next]_vars => Closed'
<1> SUFFICES ASSUME TypeOK, Closed, [Next]_vars PROVE Closed'
  OBVIOUS
<1> USE DEF Closed, Stop, FileKeys, input
<1>1. ASSUME NEW p \in Parts, KeyOfPart(p) PROVE Closed'
  BY <1>1 DEF KeyOfPart
<1>2. ASSUME NEW how \in {"closed", "missing", "short"}, BodyEnds(how) PROVE Closed'
  BY <1>2 DEF TypeOK, BodyEnds, EndMap
<1>3. CASE KeyWithinPart \/ EndOfPart
  BY <1>3 DEF KeyWithinPart, EndOfPart
<1>4. CASE Value \/ FileValue
  BY <1>4 DEF Value, FileValue
<1>5. CASE UNCHANGED vars
  BY <1>5 DEF vars
<1> QED BY <1>1, <1>2, <1>3, <1>4, <1>5 DEF Next

\* A suited body keeps the deserialiser in step with the form.
LEMMA SuitedStep == IInv /\ [Next]_vars /\ suited' => InStep'
<1> SUFFICES ASSUME IInv, [Next]_vars, suited' PROVE InStep'
  OBVIOUS
<1>s. suited
  BY DEF Next, vars, input, KeyOfPart, BodyEnds, KeyWithinPart, EndOfPart, Value, FileValue
<1> USE <1>s, FieldsAssumption DEF IInv, TypeOK, InStep, RejectedForCause, States, Panics, FileKeys, Stop, input
<1>1. ASSUME NEW p \in Parts, KeyOfPart(p) PROVE InStep'
  <2>1. Suits(p) /\ state = "none" /\ at = "key" /\ level = "form" /\ part' = p
        /\ count' = count + 1 /\ types' = types /\ ended' = ended /\ misplaced' = misplaced
    BY <1>1 DEF KeyOfPart, AtFileKey
  <2>2. TakeKey(p.name) /\ state' = FirstState(p) /\ p.name \in Fields
    BY <1>1, <2>1 DEF KeyOfPart, Suits
  <2>3. CASE p.name \in seen.form
    <3>1. at' = "done" /\ result' = "error" /\ UNCHANGED <<level, key, seen>>
      BY <2>1, <2>2, <2>3 DEF TakeKey, Known
    <3>2. Cardinality(seen'.form) < count'
      BY <2>1, <3>1
    <3> QED BY <2>1, <2>2, <3>1, <3>2 DEF FirstState
  <2>4. CASE p.name \notin seen.form
    <3>1. /\ key'.form = p.name /\ seen'.form = seen.form \cup {p.name}
          /\ at' = "value" /\ level' = "form" /\ result' = result
      BY <2>1, <2>2, <2>4 DEF TakeKey, Known
    <3>2. Cardinality(seen'.form) = count'
      BY <2>1, <2>2, <2>4, <3>1, OneMore
    <3>3. AtFormValue'
      BY <2>1, <2>2, <3>1 DEF AtFormValue, AtPart, Suits, FirstState
    <3> QED BY <2>1, <2>2, <3>1, <3>2, <3>3 DEF FirstState
  <2> QED BY <2>3, <2>4
<1>2. ASSUME NEW how \in {"closed", "missing", "short"}, BodyEnds(how) PROVE InStep'
  BY <1>2 DEF BodyEnds, EndMap, AtFileKey
<1>3. CASE KeyWithinPart
  <2>1. level = "file" /\ AtPart /\ part.blob /\ state \notin seen.file /\ seen.file = Given(state)
    BY <1>3 DEF KeyWithinPart, AtFormKey, AtFileKey, Given
  <2>2. TakeKey(state)
    BY <1>3, <2>1 DEF KeyWithinPart
  <2>3. /\ key' = [key EXCEPT !.file = state] /\ seen' = [seen EXCEPT !.file = @ \cup {state}]
        /\ at' = "value" /\ UNCHANGED <<level, result, types, state, part, count, ended, misplaced>>
    BY <1>3, <2>1, <2>2 DEF KeyWithinPart, TakeKey, Known
  <2> QED BY <1>3, <2>1, <2>3 DEF KeyWithinPart, AtFileValue, AtPart, Suits, Given
<1>4. CASE EndOfPart
  BY <1>4 DEF EndOfPart, EndMap, AtFormKey, AtFileKey, Given
<1>5. CASE Value
  <2>1. CASE level = "form"
    <3>1. ~part.blob /\ state = "data" /\ AtPart /\ types[key.form] # "option"
      BY <1>5, <2>1 DEF Value, TypeOfValue, AtFormValue, AtPart, Suits, FirstState
    <3>2. types[key.form] \in {"number", "text", "bytes", "choice"}
      BY <1>5, <2>1, <3>1 DEF Value, TypeOfValue, AtPart, Suits, FieldTypes
    <3>3. /\ Reads(TypeOfValue) = "ok" \/ (Reads(TypeOfValue) = "error" /\ part.content # "good")
          /\ InPlace /\ StateAfter[state] = "none"
      BY <2>1, <3>1, <3>2 DEF TypeOfValue, Reads, Text, InPlace, StateAfter, AtPart
    <3>4. CASE Reads(TypeOfValue) = "ok"
      BY <1>5, <2>1, <3>3, <3>4 DEF Value, AtFormKey
    <3>5. CASE Reads(TypeOfValue) # "ok"
      <4>1. /\ at' = "done" /\ result' = "error"
            /\ UNCHANGED <<level, key, seen, types, state, part, count, ended, misplaced>>
        BY <1>5, <3>3, <3>5 DEF Value
      <4>2. ~part.blob /\ part.content # "good" /\ key.form = part.name
        BY <2>1, <3>3, <3>5 DEF InPlace
      <4> QED BY <1>5, <3>1, <4>1, <4>2 DEF Value
    <3> QED BY <3>4, <3>5
  <2>2. CASE level = "file"
    <3>1. AtFileValue
      BY <1>5, <2>2 DEF Value
    <3>2. Reads(TypeOfValue) = "ok" /\ InPlace
      BY <2>2, <3>1 DEF TypeOfValue, Reads, InPlace, AtFileValue, AtPart
    <3>3. /\ at' = "key" /\ state' = StateAfter[state] /\ ~misplaced'
          /\ UNCHANGED <<level, key, seen, result, types, part, count, ended>>
      BY <1>5, <3>2 DEF Value
    <3>4. /\ state' \in FileKeys \cup {"end"} /\ seen'.file = Given(state')
          /\ state' = "end" => seen'.file = FileKeys
      BY <3>1, <3>3 DEF AtFileValue, StateAfter, Given
    <3> QED BY <1>5, <2>2, <3>1, <3>3, <3>4 DEF Value, AtFileKey, AtFileValue, AtPart, Suits
  <2> QED BY <2>1, <2>2
<1>6. CASE FileValue
  <2>1. level = "form" /\ AtFormValue /\ part.blob
    BY <1>6 DEF FileValue, TypeOfValue, AtFormValue, AtPart, Suits
  <2> QED BY <1>6, <2>1 DEF FileValue, AtFormValue, AtFileKey, AtPart, Suits, FirstState, Given
<1>7. CASE UNCHANGED vars
  BY <1>7 DEF vars, AtFormKey, AtFileKey, AtFormValue, AtFileValue, AtPart, Suits
<1> QED BY <1>1, <1>2, <1>3, <1>4, <1>5, <1>6, <1>7 DEF Next

\* IInv holds while a body is parsed.
THEOREM Invariance == Spec => []IInv
<1>1. IInv /\ [Next]_vars => IInv'
  BY TypeStep, ClosedStep, SuitedStep DEF IInv
<1> QED BY <1>1, InitIInv, PTL DEF Spec

\* The variables keep their types, for all bodies.
THEOREM TypeCorrect == Spec => []TypeOK
<1>1. IInv => TypeOK
  BY DEF IInv
<1> QED BY <1>1, Invariance, PTL

\* A body that suits its form is parsed without a panic.
THEOREM NoPanicOnSuitedBodies == Spec => []SuitedNeverPanics
<1>1. IInv => SuitedNeverPanics
  BY DEF IInv, InStep, SuitedNeverPanics
<1> QED BY <1>1, Invariance, PTL

\* The map of the form and the maps of its files do not get mixed up.
THEOREM MapsStayInStep == Spec => []ValuesInPlace
<1>1. IInv => ValuesInPlace
  BY DEF IInv, InStep, ValuesInPlace
<1> QED BY <1>1, Invariance, PTL

\* An accepted form has had every part of its body.
THEOREM FormsAreWhole == Spec => []FormIsWhole
<1>1. IInv => FormIsWhole
  BY DEF IInv, InStep, FormIsWhole
<1> QED BY <1>1, Invariance, PTL

\* A suited body is refused for a reason that is in the body.
THEOREM RefusalsHaveCauses == Spec => []RejectedForCause
<1>1. IInv => RejectedForCause
  BY DEF IInv, InStep, RejectedForCause
<1> QED BY <1>1, Invariance, PTL

-----------------------------------------------------------------------------
(* The parser gets on with its work.                                       *)

\* The ranks are numbers, and the work counts the parts that may come.
LEMMA RanksAreNumbers ==
    /\ \A s \in States : StateRank[s] \in 0..4
    /\ CallRank \in 0..3
  BY DEF StateRank, States, CallRank

LEMMA WorkLeft ==
    ASSUME TypeOK, at # "done"
    PROVE  Work \in Nat \ {0}
<1>1. count \in Nat /\ count <= MaxParts /\ MaxParts \in Nat
  BY FieldsAssumption DEF TypeOK
<1>2. StateRank[state] \in 0..4 /\ CallRank \in 0..3
  BY RanksAreNumbers DEF TypeOK
<1> QED BY <1>1, <1>2 DEF Work

\* A step that stops has done all the work.
LEMMA StopIsLess ==
    ASSUME TypeOK, at # "done", NEW r, Stop(r)
    PROVE  Work' < Work
<1>1. Work' = 0
  BY DEF Stop, Work
<1> QED BY <1>1, WorkLeft

\* With a key taken, a value is read of the same map.
LEMMA TakeKeyIsLess ==
    ASSUME TypeOK, at = "key", NEW k, TakeKey(k), at' # "done"
    PROVE  CallRank' = CallRank - 1 /\ at' = "value"
<1>1. level' = level /\ at' = "value"
  BY DEF TakeKey, Stop
<1> QED BY <1>1 DEF CallRank, TypeOK

\* Reading a value takes the state at least one further.
LEMMA StateMoves ==
    ASSUME NEW s \in FileKeys
    PROVE  StateRank[StateAfter[s]] \in 0..(StateRank[s] - 1)
  BY DEF StateRank, StateAfter, FileKeys

\* Every call leaves less to do.
LEMMA LessWork == IInv /\ Next => Work' < Work
<1> SUFFICES ASSUME IInv, Next PROVE Work' < Work
  OBVIOUS
<1>t. TypeOK /\ Positioned /\ Closed
  BY DEF IInv
<1>t2. TypeOK'
  BY <1>t, TypeStep
<1>a. at # "done"
  BY DEF Next, KeyOfPart, BodyEnds, KeyWithinPart, EndOfPart, Value, FileValue
<1>n. /\ MaxParts \in Nat
      /\ count \in 0..MaxParts /\ StateRank[state] \in 0..4 /\ CallRank \in 0..3
      /\ count' \in 0..MaxParts /\ StateRank[state]' \in 0..4 /\ CallRank' \in 0..3
  <2>1. StateRank' = StateRank /\ CallRank' \in 0..3
    BY DEF StateRank, CallRank
  <2> QED BY <1>t, <1>t2, <2>1, FieldsAssumption, RanksAreNumbers DEF TypeOK
<1>w. Work = 1 + 20 * (MaxParts - count) + 4 * StateRank[state]
               + (IF ended THEN 0 ELSE 4) + CallRank
  BY <1>a DEF Work
<1>w2. at' # "done" =>
         Work' = 1 + 20 * (MaxParts - count') + 4 * StateRank[state]'
                   + (IF ended' THEN 0 ELSE 4) + CallRank'
  BY DEF Work
<1>s. ASSUME at' = "done" PROVE Work' < Work
  <2>1. Work' = 0
    BY <1>s DEF Work
  <2> QED BY <1>t, <1>a, <2>1, WorkLeft
<1> SUFFICES ASSUME at' # "done" PROVE Work' < Work
  BY <1>s
<1>1. ASSUME NEW p \in Parts, KeyOfPart(p) PROVE Work' < Work
  <2>1. count' = count + 1 /\ state = "none" /\ ended' = ended /\ ~ended
    BY <1>1 DEF KeyOfPart
  <2>2. at = "key" /\ TakeKey(p.name)
    BY <1>1 DEF KeyOfPart, Stop
  <2>3. CallRank' = CallRank - 1
    BY <1>t, <2>2, TakeKeyIsLess
  <2> QED BY <1>n, <1>w, <1>w2, <2>1, <2>3
<1>2. ASSUME NEW how \in {"closed", "missing", "short"}, BodyEnds(how) PROVE Work' < Work
  <2>1. how = "closed" /\ EndMap /\ at = "key" /\ level = "file" /\ level' = "form" /\ at' = "key"
    BY <1>t, <1>2 DEF BodyEnds, EndMap, Stop, TypeOK
  <2>2. ~ended /\ ended' /\ count' = count /\ state' = state
    BY <1>t, <1>2, <2>1 DEF BodyEnds, Closed
  <2>3. CallRank = 1 /\ CallRank' = 3
    BY <2>1 DEF CallRank
  <2>4. StateRank[state]' = StateRank[state]
    BY <2>2 DEF StateRank
  <2> QED BY <1>n, <1>w, <1>w2, <2>2, <2>3, <2>4
<1>3. CASE KeyWithinPart
  <2>1. at = "key" /\ UNCHANGED <<state, count, ended>>
    BY <1>3 DEF KeyWithinPart, input
  <2>2. \E k : TakeKey(k)
    BY <1>3 DEF KeyWithinPart, Stop
  <2>3. CallRank' = CallRank - 1
    BY <1>t, <2>1, <2>2, TakeKeyIsLess
  <2>4. StateRank[state]' = StateRank[state]
    BY <2>1 DEF StateRank
  <2> QED BY <1>n, <1>w, <1>w2, <2>1, <2>3, <2>4
<1>4. CASE EndOfPart
  <2>1. at = "key" /\ level = "file" /\ level' = "form" /\ at' = "key"
    BY <1>t, <1>4 DEF EndOfPart, EndMap, Stop, TypeOK
  <2>2. StateRank[state] = 1 /\ StateRank[state]' = 0 /\ UNCHANGED <<count, ended>>
    BY <1>4 DEF EndOfPart, StateRank, input
  <2>3. CallRank = 1 /\ CallRank' = 3
    BY <2>1 DEF CallRank
  <2> QED BY <1>n, <1>w, <1>w2, <2>2, <2>3
<1>5. CASE Value
  <2>1. /\ at = "value" /\ at' = "key" /\ state' = StateAfter[state]
        /\ UNCHANGED <<level, count, ended>>
    BY <1>5 DEF Value, Stop, input
  <2>2. state \in FileKeys
    BY <1>t, <2>1 DEF Positioned
  <2>3. StateRank[state]' \in 0..(StateRank[state] - 1)
    <3>1. StateRank[state]' = StateRank[StateAfter[state]]
      BY <2>1 DEF StateRank
    <3> QED BY <2>2, <3>1, StateMoves
  <2>4. CallRank' = CallRank + 1
    BY <1>t, <2>1 DEF CallRank, TypeOK
  <2>5. StateRank[state]' <= StateRank[state] - 1
    BY <1>n, <2>3
  <2>6. Work' = 1 + 20 * (MaxParts - count) + 4 * StateRank[state]'
                  + (IF ended THEN 0 ELSE 4) + CallRank + 1
    BY <1>n, <1>w2, <2>1, <2>4
  <2> QED BY <1>n, <1>w, <2>5, <2>6
<1>6. CASE FileValue
  <2>1. at = "value" /\ at' = "key" /\ level' = "file" /\ UNCHANGED <<state, count, ended>>
    BY <1>6 DEF FileValue, input
  <2>2. level = "form"
    BY <1>t, <1>6 DEF FileValue, TypeOfValue, TypeOK
  <2>3. CallRank = 2 /\ CallRank' = 1
    BY <2>1, <2>2 DEF CallRank
  <2>4. StateRank[state]' = StateRank[state]
    BY <2>1 DEF StateRank
  <2> QED BY <1>n, <1>w, <1>w2, <2>1, <2>3, <2>4
<1> QED BY <1>1, <1>2, <1>3, <1>4, <1>5, <1>6 DEF Next

\* from_form_data() comes to its end for every form and every body.
THEOREM ParserComesToItsEnd == Spec => ParsingAdvances
<1>1. IInv /\ [Next]_vars => [Work' < Work]_vars
  BY LessWork
<1> QED BY <1>1, Invariance, PTL DEF Spec, ParsingAdvances
=============================================================================
