----------------------------- MODULE Multipart -----------------------------
(***************************************************************************)
(* The deserialiser for multipart/form-data of src/mendes/src/multipart.rs *)
(* and the code serde derives for the form and for `File`, which drives    *)
(* it: a map is read as an alternation of next_key_seed() and              *)
(* next_value_seed().  Two maps are read with one `state`: the form, whose *)
(* keys are the names of the parts, and within it a File, whose keys are   *)
(* "filename", "type" and "data".                                          *)
(*                                                                         *)
(* The body is unknown until it is parsed: a part is chosen when           *)
(* Part::from_bytes comes to it, so every body is covered, whether or not  *)
(* it suits the form.                                                      *)
(*                                                                         *)
(* An operator named Bug_... is a broken variant of the definition after   *)
(* it: with it in that definition's place TLC must find a property         *)
(* violated.  No specification uses one.                                   *)
(***************************************************************************)
EXTENDS Naturals, FiniteSets

CONSTANTS
    Fields,          \* the fields of the form
    Names,           \* the names that parts may have
    MaxParts         \* bound on the parts of a body

ASSUME FieldsAssumption ==
    /\ Fields \subseteq Names /\ IsFiniteSet(Fields)
    /\ Names \cap {"good", "bad", "none"} = {}
    /\ MaxParts \in Nat

VARIABLES
    types,           \* types[f]: what the form declares field f to be
    state, part,     \* Deserializer.state, whose part is kept after None
    level,           \* the map that is being read
    key,             \* key[l]: the field of map l whose value is read
    seen,            \* seen[l]: the fields of map l that have their value
    at,              \* what serde asks for next
    result,
    count,           \* parts parsed
    ended,           \* the input is at the closing boundary
    suited,          \* history: all of the body so far suits the form
    misplaced        \* history: a field was given what is not meant for it

input == <<count, ended, suited>>
vars  == <<types, state, part, level, key, seen, at, result, input, misplaced>>

FieldTypes == {"number", "text", "bytes", "choice", "option", "file"}
FileKeys   == {"filename", "type", "data"}
States     == {"none", "filename", "type", "data", "end"}
Panics     == {"unreachable", "unimplemented", "unwrap", "slice"}

\* What the text of a part is to its field, or the name of a key of File.
Contents == {"good", "bad", "data"}

\* Part: a Blob has a file name and perhaps a type; `head` says whether the
\* headers parse, fail to, or go on to the end of the body.
Parts ==
    [name : Names, blob : BOOLEAN, typed : BOOLEAN, content : Contents,
     head : {"ok", "bad", "cut"}]

NoPart == [name |-> "none"]

TypeOK ==
    /\ types \in [Fields -> FieldTypes]
    /\ state \in States
    /\ part \in Parts \cup {NoPart}
    /\ level \in {"form", "file"}
    /\ key \in [form : Fields \cup {"none"}, file : FileKeys \cup {"none"}]
    /\ seen \in [form : SUBSET Fields, file : SUBSET FileKeys]
    /\ at \in {"key", "value", "done"}
    /\ result \in {"none", "value", "error"} \cup Panics
    /\ count \in 0..MaxParts
    /\ {ended, suited, misplaced} \subseteq BOOLEAN

\* from_form_data, once the boundary is known
Init ==
    /\ types \in [Fields -> FieldTypes]
    /\ state = "none"
    /\ part = NoPart
    /\ level = "form"
    /\ key = [form |-> "none", file |-> "none"]
    /\ seen = [form |-> {}, file |-> {}]
    /\ at = "key"
    /\ result = "none"
    /\ count = 0
    /\ ended = FALSE /\ suited = TRUE /\ misplaced = FALSE

Stop(r) ==
    /\ at' = "done" /\ result' = r
    /\ UNCHANGED <<level, key, seen>>

-----------------------------------------------------------------------------
(* The derived visitors: what they do with a key, and when a map ends.     *)

\* the keys of a File looked up among the fields of the form
Bug_KnownIsForm == Fields

Known == IF level = "form" THEN Fields ELSE FileKeys

\* An unknown key has its value read as IgnoredAny, which is unimplemented!().
TakeKey(k) ==
    IF k \notin Known THEN Stop("unimplemented")
    ELSE IF k \in seen[level] THEN Stop("error")
    ELSE /\ key' = [key EXCEPT ![level] = k]
         /\ seen' = [seen EXCEPT ![level] = @ \cup {k}]
         /\ at' = "value"
         /\ UNCHANGED <<level, result>>

\* Fields that are an Option may be missing; in File these are all but data.
EndMap ==
    IF level = "form"
    THEN IF \A f \in Fields \ seen.form : types[f] = "option" THEN Stop("value") ELSE Stop("error")
    ELSE IF "data" \in seen.file
         THEN level' = "form" /\ at' = "key" /\ UNCHANGED <<key, seen, result>>
         ELSE Stop("error")

-----------------------------------------------------------------------------
(* MapAccess::next_key_seed.                                               *)

\* The part suits the form: a field takes it, a file if and only if it is one.
\* An Option suits no part (deserialize_option has no case for one).
Suits(p) ==
    /\ p.head = "ok"
    /\ p.name \in Fields
    /\ types[p.name] # "option"
    /\ p.blob <=> types[p.name] = "file"

\* a file begins with its data
Bug_FirstStateData(p) == "data"

FirstState(p) == IF p.blob THEN "filename" ELSE "data"

\* A boundary, and after it a part: Part::from_bytes.
KeyOfPart(p) ==
    /\ at = "key" /\ state = "none" /\ ~ended /\ count < MaxParts
    /\ count' = count + 1
    /\ suited' = (suited /\ Suits(p))
    /\ part' = p
    /\ \/ p.head = "bad" /\ Stop("error") /\ UNCHANGED state
       \/ p.head = "cut" /\ Stop("unreachable") /\ UNCHANGED state
       \/ p.head = "ok" /\ TakeKey(p.name) /\ state' = FirstState(p)
    /\ UNCHANGED <<types, ended, misplaced>>

\* The closing boundary; or the last part ran to the end of the body; or the
\* body ends within four bytes of a boundary.  The closing boundary is not
\* skipped: a map that is still open finds it again.
BodyEnds(how) ==
    /\ at = "key" /\ state = "none"
    /\ ended => how = "closed"
    /\ ended' = (how = "closed")
    /\ suited' = (suited /\ how = "closed")
    /\ IF how = "closed" THEN EndMap
       ELSE Stop(IF how = "missing" THEN "unreachable" ELSE "slice")
    /\ UNCHANGED <<types, state, part, count, misplaced>>

\* deserialize_identifier within a part; of a Text it is the text itself.
KeyWithinPart ==
    /\ at = "key" /\ state \in FileKeys
    /\ IF part.blob THEN TakeKey(state)
       ELSE IF part.content = "bad" THEN Stop("error") ELSE TakeKey(part.content)
    /\ UNCHANGED <<types, state, part, input, misplaced>>

\* state is not reset: the next part is not looked for
Bug_EndOfPart ==
    /\ at = "key" /\ state = "end"
    /\ EndMap
    /\ UNCHANGED <<types, state, part, input, misplaced>>

EndOfPart ==
    /\ at = "key" /\ state = "end"
    /\ state' = "none"
    /\ EndMap
    /\ UNCHANGED <<types, part, input, misplaced>>

-----------------------------------------------------------------------------
(* MapAccess::next_value_seed and the deserialize_... methods.             *)

TypeOfValue ==
    IF level = "form" THEN types[key.form]
    ELSE IF key.file = "data" THEN "bytes" ELSE "option"

Text == state = "data" /\ ~part.blob

\* The outcomes of deserialising type t at this state.
Reads(t) ==
    CASE t = "number" -> IF ~Text THEN "unreachable" ELSE IF part.content = "good" THEN "ok" ELSE "error"
      [] t = "choice" -> IF Text /\ part.content = "good" THEN "ok" ELSE "error"
      [] t = "text"   -> IF state = "type" /\ ~part.typed THEN "unwrap"
                         ELSE IF state = "data" /\ part.content = "bad" THEN "error" ELSE "ok"
      [] t = "bytes"  -> "ok"
      [] t = "option" -> IF state \in {"filename", "type"} THEN "ok" ELSE "unreachable"

\* a Text is not let go of after its data
Bug_TextStays ==
    [filename |-> "type", type |-> "data", data |-> IF part.blob THEN "end" ELSE "data"]

\* the data of a file passed over
Bug_TypeEndsFile ==
    [filename |-> "type", type |-> "end", data |-> IF part.blob THEN "end" ELSE "none"]

StateAfter ==
    [filename |-> "type", type |-> "data", data |-> IF part.blob THEN "end" ELSE "none"]

\* What the state gives is what the field is for.
InPlace ==
    /\ key.form = part.name
    /\ IF level = "form" THEN ~part.blob ELSE part.blob /\ key.file = state

Value ==
    /\ at = "value" /\ TypeOfValue # "file"
    /\ LET r == Reads(TypeOfValue) IN
        IF r = "ok"
        THEN /\ at' = "key"
             /\ state' = StateAfter[state]
             /\ misplaced' = (misplaced \/ ~InPlace)
             /\ UNCHANGED <<level, key, seen, result>>
        ELSE Stop(r) /\ UNCHANGED <<state, misplaced>>
    /\ UNCHANGED <<types, part, input>>

\* deserialize_struct: the map of File begins wherever the state happens to be.
FileValue ==
    /\ at = "value" /\ TypeOfValue = "file"
    /\ level' = "file" /\ at' = "key"
    /\ seen' = [seen EXCEPT !.file = {}]
    /\ UNCHANGED <<types, state, part, key, result, input, misplaced>>

Next ==
    \/ \E p \in Parts : KeyOfPart(p)
    \/ \E how \in {"closed", "missing", "short"} : BodyEnds(how)
    \/ KeyWithinPart \/ EndOfPart \/ Value \/ FileValue

Spec == Init /\ [][Next]_vars

-----------------------------------------------------------------------------

\* A body that suits the form is parsed without a panic, whatever the order of
\* its parts, and also if a part comes twice, is missing or does not parse.
SuitedNeverPanics == suited => result \notin Panics

\* The two maps never get mixed up over a body that suits the form: each field
\* of the form, and each field of a File, gets what its own part has for it,
\* and a File is left only when all three of its fields have been given theirs.
ValuesInPlace ==
    suited =>
        /\ ~misplaced
        /\ state = "end" => level = "file" /\ seen.file = FileKeys

\* A form is accepted only when all of the body was read up to its closing
\* boundary, and every part of it went to a field of its own: the early
\* Ok(None) of next_key_seed() ends a File and never the form.
FormIsWhole ==
    suited /\ result = "value" => ended /\ Cardinality(seen.form) = count

\* A body that suits the form is refused only for a field that comes twice, is
\* missing, or whose text does not parse; never for the order of the parts, nor
\* for what a File or a field read before has left of the state.
RejectedForCause ==
    suited /\ result = "error" =>
        \/ Cardinality(seen.form) < count
        \/ ended /\ \E f \in Fields \ seen.form : types[f] # "option"
        \/ ~part.blob /\ part.content # "good" /\ key.form = part.name

\* What is left to do: the parts to come, the way of the state through the part
\* that is read, the closing boundary, the calls of the map that is open.
StateRank == [filename |-> 4, type |-> 3, data |-> 2, end |-> 1, none |-> 0]

CallRank ==
    IF level = "form" THEN IF at = "key" THEN 3 ELSE 2
                      ELSE IF at = "key" THEN 1 ELSE 0

Work ==
    IF at = "done" THEN 0
    ELSE 1 + 20 * (MaxParts - count) + 4 * StateRank[state]
           + (IF ended THEN 0 ELSE 4) + CallRank

\* No form and no body, suited or not, keeps from_form_data() busy for ever:
\* every key and every value that serde asks for leaves less to do, although a
\* File may be begun at any state and although neither Ok(None) of
\* next_key_seed() moves the input on.
ParsingAdvances == [][Work' < Work]_vars

\* "unreachable!()" (multipart.rs:334, 434, 209, 47): no body and no form leads
\* to one of these branches.
UnreachableIsNotReached == result # "unreachable"
=============================================================================
