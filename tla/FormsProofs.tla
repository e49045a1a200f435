---------------------------- MODULE FormsProofs ----------------------------
(***************************************************************************)
(* The form macro and the forms it makes, proved for structs with any      *)
(* number of fields and groups.                                            *)
(***************************************************************************)
EXTENDS Forms, WellFoundedInduction, TLAPS

\* The fields before n that are the last ones there but for skipped ones, and
\* all of one group.
Run(n) ==
    {f \in 1..(n - 1) :
        /\ ~ast[f].skip /\ ast[f].item # NoGroup
        /\ \A h \in f..(n - 1) : ast[h].skip \/ ast[h].item = ast[f].item}

\* item_state holds the run that is open.
HeldIsRun ==
    /\ held.fields = Run(next)
    /\ \A f \in held.fields : ast[f].item = held.group
    /\ held.fields = {} <=> held.group = NoGroup

\* The other fields that the loop has passed are in the form, where they should be.
Placed(pl, ti, md, fs) ==
    /\ \A f \in Fields : pl[f] # 0 <=> f \in fs /\ ~ast[f].skip
    /\ \A f \in Fields : pl[f] # 0 => ti[f] = ast[f].item /\ pl[f] <= md
    /\ \A f, g \in Fields : f < g /\ pl[f] # 0 /\ pl[g] # 0 =>
          pl[f] <= pl[g] /\ (pl[f] = pl[g] <=> Neighbours(f, g))

MInv ==
    /\ MTypeOK
    /\ stage = "expand" => HeldIsRun /\ Placed(place, title, made, (1..(next - 1)) \ held.fields)
    /\ PlacedOnce

\* A field more: what becomes of the run.
LEMMA RunNext ==
    ASSUME MTypeOK, next \in Fields
    PROVE  Run(next + 1) =
             IF ast[next].skip THEN Run(next)
             ELSE IF ast[next].item = NoGroup THEN {}
             ELSE {f \in Run(next) : ast[f].item = ast[next].item} \cup {next}
<1>1. next \in Nat /\ next >= 1 /\ N \in Nat /\ next <= N /\ (next + 1) - 1 = next
  BY MacroAssumption DEF MTypeOK, Fields
<1>2. \A f \in 1..next : f \in 1..(next - 1) \/ f = next
  BY <1>1
<1>3. \A f \in 1..(next - 1) :
        (\A h \in f..next : ast[h].skip \/ ast[h].item = ast[f].item) <=>
        /\ \A h \in f..(next - 1) : ast[h].skip \/ ast[h].item = ast[f].item
        /\ ast[next].skip \/ ast[next].item = ast[f].item
  BY <1>1
<1>4. \A h \in next..next : h = next
  BY <1>1
<1> QED  BY <1>1, <1>2, <1>3, <1>4 DEF Run

LEMMA MInitInv == MInit => MInv
<1> SUFFICES ASSUME MInit PROVE MInv
  OBVIOUS
<1>1. MTypeOK
  BY MacroAssumption DEF MInit, MTypeOK, Nothing, Fields
<1>2. Run(1) = {} /\ (1..0) \ {} = {}
  BY DEF Run
<1> QED  BY <1>1, <1>2 DEF MInit, MInv, HeldIsRun, Placed, PlacedOnce, Nothing

\* The run is after the other fields, and its fields are neighbours.
LEMMA RunIsLast ==
    ASSUME MTypeOK
    PROVE  /\ Run(next) \subseteq Fields
           /\ \A f \in Run(next), q \in (1..(next - 1)) \ Run(next) :
                  ~ast[q].skip => q < f /\ ~Neighbours(q, f)
           /\ \A f, q \in Run(next) : f < q => Neighbours(f, q)
<1>1. next \in Nat /\ next >= 1 /\ N \in Nat /\ next <= N + 1 /\ Fields = 1..N
  BY MacroAssumption DEF MTypeOK, Fields
<1>2. Run(next) \subseteq Fields
  BY <1>1 DEF Run
<1>3. ASSUME NEW f \in Run(next), NEW q \in (1..(next - 1)) \ Run(next), ~ast[q].skip
      PROVE  q < f /\ ~Neighbours(q, f)
  <2>1. f \in 1..(next - 1) /\ ~ast[f].skip /\ ast[f].item # NoGroup
    BY DEF Run
  <2>2. \A h \in f..(next - 1) : ast[h].skip \/ ast[h].item = ast[f].item
    BY DEF Run
  <2>3. q < f
    <3>1. CASE f <= q
      <4>1. q \in f..(next - 1)
        BY <1>1, <2>1, <3>1
      <4>2. ast[q].item = ast[f].item
        BY <1>3, <2>2, <4>1
      <4>3. \A h \in q..(next - 1) : h \in f..(next - 1)
        BY <1>1, <2>1, <3>1
      <4>4. q \in Run(next)
        BY <1>3, <2>1, <2>2, <4>2, <4>3 DEF Run
      <4> QED  BY <4>4
    <3> QED  BY <1>1, <2>1, <3>1
  <2>4. ASSUME Neighbours(q, f) PROVE FALSE
    <3>1. /\ ast[q].item # NoGroup
          /\ \A h \in Fields : q <= h /\ h <= f => ast[h].skip \/ ast[h].item = ast[q].item
      BY <2>4 DEF Neighbours
    <3>2. ast[f].item = ast[q].item
      BY <1>1, <2>1, <2>3, <3>1
    <3>3. \A h \in q..(next - 1) : h \in Fields /\ (h <= f \/ h \in f..(next - 1))
      BY <1>1, <2>1
    <3>4. q \in Run(next)
      BY <1>3, <2>2, <3>1, <3>2, <3>3 DEF Run
    <3> QED  BY <3>4
  <2> QED  BY <2>3, <2>4
<1>4. ASSUME NEW f \in Run(next), NEW q \in Run(next), f < q PROVE Neighbours(f, q)
  <2>1. /\ f \in 1..(next - 1) /\ q \in 1..(next - 1) /\ ast[f].item # NoGroup
        /\ \A h \in f..(next - 1) : ast[h].skip \/ ast[h].item = ast[f].item
    BY DEF Run
  <2>2. \A h \in Fields : f <= h /\ h <= q => h \in f..(next - 1)
    BY <1>1, <2>1
  <2> QED  BY <2>1, <2>2 DEF Neighbours
<1> QED  BY <1>2, <1>3, <1>4

\* The fields of `new` can have an item of their own after the one that fs ends with.
ItemAfter(fs, new, g) ==
    /\ new \subseteq Fields
    /\ \A f \in new : ~ast[f].skip /\ ast[f].item = g /\ f \notin fs
    /\ \A f \in new, q \in fs : ~ast[q].skip => q < f /\ ~Neighbours(q, f)
    /\ \A f, q \in new : f < q => Neighbours(f, q)

\* pl2 and ti2 are pl and ti with that item.
Adds(pl, ti, md, new, g, pl2, ti2) ==
    /\ pl \in [Fields -> Nat] /\ md \in Nat
    /\ \A f \in Fields : /\ pl2[f] = (IF f \in new THEN md + 1 ELSE pl[f])
                         /\ ti2[f] = (IF f \in new THEN g ELSE ti[f])

\* An item is added after all others.
LEMMA AddPlaced ==
    ASSUME NEW pl, NEW ti, NEW md, NEW fs, NEW new, NEW g, NEW pl2, NEW ti2,
           Placed(pl, ti, md, fs), ItemAfter(fs, new, g), Adds(pl, ti, md, new, g, pl2, ti2)
    PROVE  Placed(pl2, ti2, md + 1, fs \cup new)
<1> USE DEF ItemAfter, Adds
<1>0. Fields \subseteq Nat /\ \A f \in Fields : pl[f] \in Nat
  BY DEF Fields
<1>1. \A f \in Fields :
        /\ f \in new => pl2[f] = md + 1 /\ ti2[f] = g
        /\ f \notin new => pl2[f] = pl[f] /\ ti2[f] = ti[f]
  OBVIOUS
<1>2. ASSUME NEW f \in Fields PROVE pl2[f] # 0 <=> f \in fs \cup new /\ ~ast[f].skip
  BY <1>0, <1>1, <1>2 DEF Placed
<1>3. ASSUME NEW f \in Fields, pl2[f] # 0 PROVE ti2[f] = ast[f].item /\ pl2[f] <= md + 1
  BY <1>0, <1>1, <1>3 DEF Placed
<1>4. ASSUME NEW f \in Fields, NEW q \in Fields, f < q, pl2[f] # 0, pl2[q] # 0
      PROVE  pl2[f] <= pl2[q] /\ (pl2[f] = pl2[q] <=> Neighbours(f, q))
  <2>1. CASE f \in new /\ q \in new
    BY <1>0, <1>1, <1>4, <2>1
  <2>2. CASE f \notin new /\ q \notin new
    BY <1>1, <1>4, <2>2 DEF Placed
  <2>3. CASE f \notin new /\ q \in new
    <3>1. f \in fs /\ ~ast[f].skip /\ pl[f] <= md
      BY <1>1, <1>4, <2>3 DEF Placed
    <3> QED  BY <1>0, <1>1, <1>4, <2>3, <3>1
  <2>4. CASE f \in new /\ q \notin new
    <3>1. q \in fs /\ ~ast[q].skip
      BY <1>1, <1>4, <2>4 DEF Placed
    <3>2. q < f
      BY <2>4, <3>1
    <3> QED  BY <1>0, <1>4, <3>2
  <2> QED  BY <2>1, <2>2, <2>3, <2>4
<1> QED  BY <1>2, <1>3, <1>4 DEF Placed

-----------------------------------------------------------------------------

\* The steps of the loop: what is passed is placed or held.
LEMMA LoopInv ==
    ASSUME MInv,
           Skip \/ Single \/ Close \/ \E g \in Groups : Open(g) \/ Extend(g) \/ Switch(g)
    PROVE  MInv'
<1> DEFINE S == (1..(next - 1)) \ held.fields
<1>1. /\ MTypeOK /\ stage = "expand" /\ next \in Fields /\ HeldIsRun /\ Placed(place, title, made, S)
      /\ next' = next + 1 /\ ast' = ast /\ stage' = stage
  BY DEF MInv, Skip, Single, Close, Open, Extend, Switch, At, Advance
<1>2. /\ next \in Nat /\ next >= 1 /\ N \in Nat /\ next <= N /\ Fields = 1..N /\ (next + 1) - 1 = next
      /\ made \in Nat /\ place \in [Fields -> Nat] /\ title \in [Fields -> Groups \cup {NoGroup}]
      /\ held \in [group : Groups \cup {NoGroup}, fields : SUBSET Fields]
      /\ NoGroup \notin Groups
  BY <1>1, MacroAssumption DEF MTypeOK, Fields
<1>3. /\ held.fields = Run(next) /\ \A f \in held.fields : ast[f].item = held.group
      /\ held.fields = {} <=> held.group = NoGroup
  BY <1>1 DEF HeldIsRun
<1>4. /\ next \notin S /\ next \notin held.fields /\ S \subseteq Fields
      /\ \A q \in S : q < next
      /\ \A f \in held.fields : f \in Fields /\ f \notin S /\ ~ast[f].skip
      /\ S \cup held.fields = 1..(next - 1)
  BY <1>2, <1>3 DEF Run
<1>5. /\ \A f \in held.fields, q \in S : ~ast[q].skip => q < f /\ ~Neighbours(q, f)
      /\ \A f, q \in held.fields : f < q => Neighbours(f, q)
      /\ ItemAfter(S, held.fields, held.group)
  BY <1>1, <1>3, <1>4, RunIsLast DEF ItemAfter
<1>6. Run(next)' = Run(next + 1)
  BY <1>1 DEF Run
<1>7. \A fs : Placed(place, title, made, fs)' <=> Placed(place', title', made', fs)
  BY <1>1 DEF Placed, Neighbours
<1>8. SUFFICES MTypeOK' /\ HeldIsRun' /\ Placed(place', title', made', (1..next) \ held'.fields)
  BY <1>1, <1>2, <1>7 DEF MInv, PlacedOnce
<1>9. CASE Skip
  <2>1. held' = held /\ place' = place /\ title' = title /\ made' = made /\ ast[next].skip
    BY <1>9 DEF Skip
  <2>2. MTypeOK'
    BY <1>1, <1>2, <2>1 DEF MTypeOK
  <2>3. HeldIsRun'
    BY <1>1, <1>3, <1>6, <2>1, RunNext DEF HeldIsRun
  <2>4. Placed(place, title, made, S \cup {next})
    BY <1>1, <1>4, <2>1 DEF Placed
  <2>5. (1..next) \ held.fields = S \cup {next}
    BY <1>2, <1>4
  <2> QED  BY <2>1, <2>2, <2>3, <2>4, <2>5
<1>10. CASE Single
  <2>1. held' = held /\ held = Nothing /\ ~ast[next].skip /\ ast[next].item = NoGroup
        /\ AddItem({next}, NoGroup)
    BY <1>10 DEF Single, At
  <2>2. MTypeOK'
    BY <1>1, <1>2, <2>1 DEF MTypeOK, AddItem
  <2>3. HeldIsRun'
    BY <1>1, <1>3, <1>6, <2>1, RunNext DEF HeldIsRun, Nothing
  <2>4. \A q \in S : ~Neighbours(q, next)
    BY <1>2, <1>4, <2>1 DEF Neighbours
  <2>5. Placed(place', title', made', S \cup {next})
    <3>1. ItemAfter(S, {next}, NoGroup)
      BY <1>1, <1>2, <1>4, <2>1, <2>4 DEF ItemAfter
    <3>2. Adds(place, title, made, {next}, NoGroup, place', title') /\ made' = made + 1
      BY <1>2, <2>1 DEF Adds, AddItem
    <3> QED  BY <1>1, <3>1, <3>2, AddPlaced
  <2>6. (1..next) \ held.fields = S \cup {next}
    BY <1>2, <1>4
  <2> QED  BY <2>1, <2>2, <2>3, <2>5, <2>6
<1>11. ASSUME NEW g \in Groups, Open(g) PROVE MTypeOK' /\ HeldIsRun' /\ Placed(place', title', made', (1..next) \ held'.fields)
  <2>1. /\ held' = [group |-> g, fields |-> {next}] /\ held = Nothing /\ ~ast[next].skip
        /\ ast[next].item = g /\ place' = place /\ title' = title /\ made' = made
    BY <1>11 DEF Open, At
  <2>2. MTypeOK'
    BY <1>1, <1>2, <1>11, <2>1 DEF MTypeOK
  <2>3. HeldIsRun'
    BY <1>1, <1>2, <1>3, <1>6, <1>11, <2>1, RunNext DEF HeldIsRun, Nothing
  <2>4. (1..next) \ {next} = S
    BY <1>2, <1>4, <2>1 DEF Nothing
  <2> QED  BY <1>1, <2>1, <2>2, <2>3, <2>4
<1>12. ASSUME NEW g \in Groups, Extend(g) PROVE MTypeOK' /\ HeldIsRun' /\ Placed(place', title', made', (1..next) \ held'.fields)
  <2>1. /\ held' = [group |-> g, fields |-> held.fields \cup {next}] /\ held.group = g
        /\ ~ast[next].skip /\ ast[next].item = g
        /\ place' = place /\ title' = title /\ made' = made
    BY <1>2, <1>12 DEF Extend, At
  <2>2. MTypeOK'
    BY <1>1, <1>2, <1>12, <2>1 DEF MTypeOK
  <2>3. HeldIsRun'
    BY <1>1, <1>2, <1>3, <1>6, <1>12, <2>1, RunNext DEF HeldIsRun
  <2>4. (1..next) \ (held.fields \cup {next}) = S
    BY <1>2, <1>4
  <2> QED  BY <1>1, <2>1, <2>2, <2>3, <2>4
<1>13. ASSUME NEW g \in Groups, Switch(g) PROVE MTypeOK' /\ HeldIsRun' /\ Placed(place', title', made', (1..next) \ held'.fields)
  <2>1. /\ held' = [group |-> g, fields |-> {next}] /\ held.group # g /\ held.group \in Groups
        /\ ~ast[next].skip /\ ast[next].item = g /\ AddItem(held.fields, held.group)
    BY <1>13 DEF Switch, At, Flush
  <2>2. MTypeOK'
    BY <1>1, <1>2, <1>13, <2>1 DEF MTypeOK, AddItem
  <2>3. HeldIsRun'
    BY <1>1, <1>2, <1>3, <1>6, <1>13, <2>1, RunNext DEF HeldIsRun
  <2>4. Placed(place', title', made', S \cup held.fields)
    <3>1. Adds(place, title, made, held.fields, held.group, place', title') /\ made' = made + 1
      BY <1>2, <2>1 DEF Adds, AddItem
    <3> QED  BY <1>1, <1>5, <3>1, AddPlaced
  <2>5. (1..next) \ {next} = S \cup held.fields
    BY <1>2, <1>4
  <2> QED  BY <2>1, <2>2, <2>3, <2>4, <2>5
<1>14. CASE Close
  <2> DEFINE pl1 == [f \in Fields |-> IF f \in held.fields THEN made + 1 ELSE place[f]]
             ti1 == [f \in Fields |-> IF f \in held.fields THEN held.group ELSE title[f]]
             pl2 == [f \in Fields |-> IF f \in {next} THEN (made + 1) + 1 ELSE pl1[f]]
             ti2 == [f \in Fields |-> IF f \in {next} THEN NoGroup ELSE ti1[f]]
  <2>1. /\ held' = Nothing /\ ~ast[next].skip /\ ast[next].item = NoGroup
        /\ place' = pl2 /\ title' = ti2 /\ made' = (made + 1) + 1
    <3>1. \A f \in held.fields : f # next
      BY <1>4
    <3> QED  BY <1>2, <1>14, <3>1 DEF Close, At
  <2>2. pl1 \in [Fields -> Nat] /\ ti1 \in [Fields -> Groups \cup {NoGroup}]
    BY <1>2
  <2>3. MTypeOK'
    BY <1>1, <1>2, <2>1, <2>2 DEF MTypeOK, Nothing
  <2>4. HeldIsRun'
    BY <1>1, <1>3, <1>6, <2>1, RunNext DEF HeldIsRun, Nothing
  <2>5. Placed(pl1, ti1, made + 1, S \cup held.fields)
    <3>1. Adds(place, title, made, held.fields, held.group, pl1, ti1)
      BY <1>2 DEF Adds
    <3> HIDE DEF pl1, ti1, S
    <3> QED  BY <1>1, <1>5, <3>1, AddPlaced
  <2>6. /\ \A q \in S \cup held.fields : q < next /\ ~Neighbours(q, next)
        /\ next \notin S \cup held.fields
    BY <1>2, <1>4, <2>1 DEF Neighbours
  <2>7. ItemAfter(S \cup held.fields, {next}, NoGroup)
    <3> HIDE DEF S
    <3> QED  BY <1>1, <1>2, <2>1, <2>6 DEF ItemAfter
  <2>8. Placed(pl2, ti2, (made + 1) + 1, (S \cup held.fields) \cup {next})
    <3> HIDE DEF pl1, ti1
    <3>1. Adds(pl1, ti1, made + 1, {next}, NoGroup, pl2, ti2)
      BY <1>2, <2>2 DEF Adds
    <3> HIDE DEF pl2, ti2, S
    <3> QED  BY <2>5, <2>7, <3>1, AddPlaced
  <2>9. (1..next) \ {} = (S \cup held.fields) \cup {next}
    BY <1>2, <1>4
  <2> HIDE DEF pl2, ti2
  <2> QED  BY <2>1, <2>3, <2>4, <2>8, <2>9 DEF Nothing
<1> QED  BY <1>9, <1>10, <1>11, <1>12, <1>13, <1>14

\* The end of the loop: what is still held is in no item.
LEMMA FinishInv == ASSUME MInv, Finish PROVE MInv'
<1>1. /\ MTypeOK /\ HeldIsRun /\ Placed(place, title, made, (1..(next - 1)) \ held.fields)
      /\ next = N + 1 /\ stage' = "code" /\ made' = made + 1 /\ held' = Nothing
      /\ UNCHANGED <<ast, next, place, title>>
  BY DEF MInv, Finish
<1>2. N \in Nat /\ Fields = 1..N /\ next - 1 = N /\ made \in Nat /\ place \in [Fields -> Nat]
  BY <1>1, MacroAssumption DEF MTypeOK, Fields
<1>3. MTypeOK'
  BY <1>1, <1>2 DEF MTypeOK, Nothing
<1>4. \A f \in Fields : InTail(f) <=> f \in held.fields
  <2>1. \A f \in Fields, h \in Fields : f <= h <=> h \in f..N
    BY <1>2
  <2>2. \A f \in Fields : f..N \subseteq Fields
    BY <1>2
  <2>3. held.fields = Run(N + 1) /\ (N + 1) - 1 = N
    BY <1>1, <1>2 DEF HeldIsRun
  <2> QED  BY <1>2, <2>1, <2>2, <2>3 DEF Run, InTail
<1>5. PlacedOnce'
  BY <1>1, <1>2, <1>4 DEF PlacedOnce, Placed, Neighbours, InTail
<1> QED  BY <1>1, <1>3, <1>5 DEF MInv

LEMMA MStepInv == MInv /\ [Expand]_mvars => MInv'
<1> SUFFICES ASSUME MInv, [Expand]_mvars PROVE MInv'
  OBVIOUS
<1>1. CASE UNCHANGED mvars
  BY <1>1 DEF mvars, MInv, MTypeOK, HeldIsRun, Run, Placed, Neighbours, PlacedOnce, InTail
<1> QED  BY <1>1, LoopInv, FinishInv DEF Expand

\* The variables of the macro keep their types (forms.rs:9-108 of mendes-macros).
THEOREM MacroTypes == MSpec => []MTypeOK
<1>1. MInv => MTypeOK
  BY DEF MInv
<1> QED  BY <1>1, MInitInv, MStepInv, PTL DEF MSpec

\* Every field that is neither skipped nor in a group that the struct ends with is
\* in one item, in order, with its neighbours of the same group and no others
\* (forms.rs:74-107 of mendes-macros).
THEOREM FieldsArePlacedOnce == FmSpec => []PlacedOnce
<1>1. FmInit => MInv
  BY MInitInv DEF FmInit
<1>2. [FmNext]_fmvars => [Expand]_mvars
  BY DEF FmNext, fmvars, ToForm, SetIgnored, Set, SetFails, mvars
<1>3. MInv => PlacedOnce
  BY DEF MInv
<1> QED  BY <1>1, <1>2, <1>3, MStepInv, PTL DEF FmSpec

-----------------------------------------------------------------------------

\* What set() was Ok with for a field of the form is a value the field can have,
\* and is in its cell.
Shown(f) ==
    InForm(f) /\ last[f] # Unset =>
        /\ Accepts(f, last[f])
        /\ Kind(f) = "checkbox" => cell[f] = IF last[f] \in True THEN {"true"} ELSE {}
        /\ Kind(f) = "select" /\ ~again[f] => cell[f] = {last[f]}
        /\ Kind(f) = "value" => cell[f] = {last[f]}

\* What decides how a form is submitted: its encoding, and the options marked.
Submittable ==
    /\ phase = "form" => (multipart <=> HasFile)
    /\ \A f \in Fields : Kind(f) = "select" => cell[f] \subseteq Chosen

FmInv ==
    /\ MInv /\ FmTypeOK /\ Submittable
    /\ phase # "none" => stage = "code"
    /\ phase = "none" => last = [f \in Fields |-> Unset]
    /\ \A f \in Fields : Shown(f) /\ (last[f] = Unset => cell[f] = {})

LEMMA Kinds == \A f : Kind(f) \in {"checkbox", "select", "file", "value"}
  BY DEF Kind

LEMMA FmInitInv == FmInit => FmInv
<1> SUFFICES ASSUME FmInit PROVE FmInv
  OBVIOUS
<1>1. MInv
  BY MInitInv DEF FmInit
<1>2. FmTypeOK
  BY <1>1 DEF FmInit, FmTypeOK, MInv
<1> QED  BY <1>1, <1>2 DEF FmInit, FmInv, Shown, Submittable

\* Files stay where they are, and only options of its own are marked in a select.
LEMMA SubmittableStep == FmInv /\ [FmNext]_fmvars => Submittable'
<1> SUFFICES ASSUME FmInv, [FmNext]_fmvars PROVE Submittable'
  OBVIOUS
<1> USE DEF FmInv, Submittable
<1>1. ASSUME UNCHANGED mvars PROVE (HasFile <=> HasFile') /\ \A f : Kind(f)' = Kind(f)
  BY <1>1 DEF mvars, HasFile, InForm, Kind
<1>2. CASE Expand /\ UNCHANGED rvars
  <2>1. stage = "expand" /\ ast' = ast
    BY <1>2 DEF Expand, Skip, Single, Close, Finish, Open, Extend, Switch, At, Advance
  <2> QED  BY <1>2, <2>1 DEF rvars, Kind
<1>3. CASE ToForm
  BY <1>1, <1>3 DEF ToForm
<1>4. ASSUME NEW f \in Fields, NEW v \in Values, Set(f, v) PROVE Submittable'
  <2>1. Kind(f) = "select" => Filled(f, v) \subseteq Chosen
    BY <1>4 DEF Set, Accepts, Filled
  <2>2. \A g \in Fields : cell'[g] = IF g = f THEN Filled(f, v) ELSE cell[g]
    BY <1>4 DEF Set, FmTypeOK
  <2> QED  BY <1>1, <1>4, <2>1, <2>2 DEF Set
<1>5. ASSUME NEW f \in Fields, NEW v \in Values, SetFails(f, v) PROVE Submittable'
  BY <1>1, <1>5 DEF SetFails
<1>6. ASSUME NEW f \in Fields, NEW v \in Values, SetIgnored(f, v) PROVE Submittable'
  BY <1>1, <1>6 DEF SetIgnored
<1>7. CASE UNCHANGED fmvars
  BY <1>1, <1>7 DEF fmvars, rvars
<1> QED  BY <1>2, <1>3, <1>4, <1>5, <1>6, <1>7 DEF FmNext

LEMMA SetInv == ASSUME FmInv, NEW f \in Fields, NEW v \in Values, Set(f, v) PROVE FmInv'
<1>1. /\ phase = "form" /\ InForm(f) /\ Accepts(f, v)
      /\ cell' = [cell EXCEPT ![f] = Filled(f, v)]
      /\ last' = [last EXCEPT ![f] = v]
      /\ again' = [again EXCEPT ![f] = @ \/ last[f] \notin {v, Unset}]
      /\ UNCHANGED <<mvars, phase, multipart>>
  BY DEF Set
<1>2. FmTypeOK /\ MInv /\ stage = "code" /\ v # Unset
  BY <1>1, FormsAssumption DEF FmInv
<1>3. MInv'
  BY <1>1, <1>2, MStepInv DEF mvars
<1>4. Filled(f, v) \in SUBSET (Values \cup {"true"})
  BY <1>2 DEF Filled, FmTypeOK
<1>5. (again[f] \/ last[f] \notin {v, Unset}) \in BOOLEAN
  BY <1>2 DEF FmTypeOK
<1>6. FmTypeOK'
  BY <1>1, <1>2, <1>3, <1>4, <1>5 DEF FmTypeOK, MInv
<1>7. \A g : /\ Kind(g)' = Kind(g) /\ (InForm(g) <=> InForm(g)')
             /\ \A w : Accepts(g, w)' <=> Accepts(g, w)
  BY <1>1 DEF mvars, Kind, InForm, Accepts
<1>8. /\ last'[f] = v /\ cell'[f] = Filled(f, v)
      /\ again'[f] <=> again[f] \/ last[f] \notin {v, Unset}
      /\ \A g \in Fields \ {f} : last'[g] = last[g] /\ cell'[g] = cell[g] /\ again'[g] = again[g]
  BY <1>1, <1>2 DEF FmTypeOK
<1>9. Shown(f)'
  <2>1. last[f] = Unset => cell[f] = {}
    BY DEF FmInv
  <2>2. Shown(f)
    BY DEF FmInv
  <2>3. Kind(f) = "select" /\ ~again'[f] => cell'[f] = {v}
    BY <1>1, <1>8, <2>1, <2>2 DEF Filled, Shown
  <2> QED  BY <1>1, <1>7, <1>8, <2>3 DEF Shown, Filled
<1>10. ASSUME NEW g \in Fields \ {f} PROVE Shown(g)' /\ (last'[g] = Unset => cell'[g] = {})
  <2>1. Shown(g) /\ (last[g] = Unset => cell[g] = {})
    BY DEF FmInv
  <2> QED  BY <1>7, <1>8, <2>1 DEF Shown
<1>11. Submittable'
  BY SubmittableStep DEF FmNext
<1> QED  BY <1>1, <1>2, <1>3, <1>6, <1>8, <1>9, <1>10, <1>11 DEF FmInv, mvars

LEMMA FmStepInv == FmInv /\ [FmNext]_fmvars => FmInv'
<1> SUFFICES ASSUME FmInv, [FmNext]_fmvars PROVE FmInv'
  OBVIOUS
<1> USE SubmittableStep
<1>1. ASSUME UNCHANGED mvars PROVE MInv'
  BY <1>1, MStepInv DEF FmInv
<1>2. CASE Expand /\ UNCHANGED rvars
  <2>1. MInv' /\ stage = "expand"
    BY <1>2, MStepInv DEF FmInv, Expand, Skip, Single, Close, Finish, Open, Extend, Switch, At
  <2>2. phase = "none" /\ \A f \in Fields : last'[f] = Unset /\ cell'[f] = {}
    BY <1>2, <2>1 DEF FmInv, rvars
  <2> QED  BY <1>2, <2>1, <2>2 DEF FmInv, FmTypeOK, MInv, rvars, Shown
<1>3. CASE ToForm
  <2>1. MInv' /\ FmTypeOK'
    BY <1>1, <1>3 DEF ToForm, FmTypeOK, MInv, HasFile
  <2> QED  BY <1>3, <2>1 DEF ToForm, FmInv, Shown, mvars
<1>4. ASSUME NEW f \in Fields, NEW v \in Values, SetFails(f, v) PROVE FmInv'
  <2>1. MInv' /\ FmTypeOK'
    BY <1>1, <1>4 DEF SetFails, FmInv, FmTypeOK, MInv
  <2> QED  BY <1>4, <2>1 DEF SetFails, FmInv, Shown, mvars, Accepts, Kind, InForm
<1>5. ASSUME NEW f \in Fields, NEW v \in Values, SetIgnored(f, v) PROVE FmInv'
  <2>1. MInv' /\ FmTypeOK'
    BY <1>1, <1>5 DEF SetIgnored, FmInv, FmTypeOK, MInv
  <2>2. \A g \in Fields : InForm(g) => last'[g] = last[g]
    BY <1>5 DEF SetIgnored, FmInv, FmTypeOK
  <2>3. last'[f] = v /\ v # Unset /\ \A g \in Fields \ {f} : last'[g] = last[g]
    BY <1>5, FormsAssumption DEF SetIgnored, FmInv, FmTypeOK
  <2> QED  BY <1>5, <2>1, <2>2, <2>3 DEF SetIgnored, FmInv, Shown, mvars, Accepts, Kind, InForm
<1>6. CASE UNCHANGED fmvars
  <2>1. MInv' /\ FmTypeOK'
    BY <1>1, <1>6 DEF fmvars, rvars, FmInv, FmTypeOK, MInv
  <2> QED  BY <1>6, <2>1 DEF fmvars, rvars, FmInv, Shown, mvars, Accepts, Kind, InForm
<1> QED  BY <1>2, <1>3, <1>4, <1>5, <1>6, SetInv DEF FmNext

\* The variables keep their types (forms.rs:26-55 and 109-174).
THEOREM FormTypes == FmSpec => []FmTypeOK
<1>1. FmInv => FmTypeOK
  BY DEF FmInv
<1> QED  BY <1>1, FmInitInv, FmStepInv, PTL DEF FmSpec

\* What set() was Ok with is what a browser sends unless it is lost for one of
\* the three causes that OkMeansShown names (forms.rs:47-54 and 109-174), for any
\* number of fields, options and calls and whatever HTML makes of the texts.
THEOREM OkIsShown == FmSpec => []OkMeansShown
<1>1. ASSUME FmInv PROVE OkMeansShown
  <2> SUFFICES ASSUME NEW f \in Fields, InForm(f), last[f] # Unset,
                      Kind(f) = "select" => ~again[f], Intact(f, last[f])
               PROVE  Sent(f) = Meant(f, last[f])
    BY DEF OkMeansShown
  <2>1. Shown(f) /\ Accepts(f, last[f])
    BY <1>1 DEF FmInv, Shown
  <2>2. CASE Kind(f) = "select"
    <3>1. cell[f] = {last[f]} /\ last[f] \in Chosen
      BY <2>1, <2>2 DEF Shown, Accepts
    <3>2. Len(Variants) \in Nat /\ DOMAIN Variants = 1..Len(Variants)
      BY FormsAssumption
    <3>3. PICK k \in DOMAIN Variants : last[f] = Variants[k]
      BY <3>1 DEF Chosen
    <3>4. \A j \in (k + 1)..Len(Variants) : j \in DOMAIN Variants /\ j # k
      BY <3>2
    <3>5. Selected(f, last[f])
      BY <3>1, <3>3, <3>4, FormsAssumption DEF Selected
    <3>6. \A v : Selected(f, v) => v = last[f]
      BY <3>1 DEF Selected
    <3> QED  BY <2>1, <2>2, <3>1, <3>5, <3>6 DEF Sent, Meant
  <2>3. CASE Kind(f) = "checkbox"
    BY <2>1, <2>3 DEF Shown, Sent, Meant
  <2>4. CASE Kind(f) = "value"
    BY <2>1, <2>4 DEF Shown, Sent, Meant, Intact
  <2> QED  BY <2>1, <2>2, <2>3, <2>4, Kinds DEF Accepts
<1> QED  BY <1>1, FmInitInv, FmStepInv, PTL DEF FmSpec

-----------------------------------------------------------------------------

\* A set of numbers up to n that is not empty has a last one.
LEMMA LastOne ==
    ASSUME NEW n \in Nat, NEW K \in SUBSET (1..n), K # {}
    PROVE  \E k \in K : \A j \in K : j <= k
<1> DEFINE Rest == {n - k : k \in K}
           Less == OpToRel(<, Nat)
<1>1. Rest \subseteq Nat /\ Rest # {}
  <2>1. \A k \in K : n - k \in Nat
    OBVIOUS
  <2> QED  BY <2>1
<1>2. PICK m \in Rest : \A r \in Rest : ~(<<r, m>> \in Less)
  <2> HIDE DEF Rest
  <2> QED  BY <1>1, NatLessThanWellFounded, WFMin
<1>3. PICK k \in K : m = n - k
  OBVIOUS
<1>4. ASSUME NEW j \in K PROVE j <= k
  <2>1. n - j \in Rest /\ n - j \in Nat /\ m \in Nat
    BY <1>1
  <2>2. ~(n - j < m)
    BY <1>2, <2>1 DEF OpToRel
  <2> QED  BY <1>3, <2>2
<1> QED  BY <1>3, <1>4

\* However many options of a select are marked, a browser takes one of them.
LEMMA OneSelected ==
    ASSUME NEW f \in Fields, cell[f] \subseteq Chosen
    PROVE  /\ \E v \in Chosen : Selected(f, v)
           /\ \A v, w : Selected(f, v) /\ Selected(f, w) => v = w
<1> DEFINE K == {k \in DOMAIN Variants : Variants[k] \in cell[f]}
<1>1. Len(Variants) \in Nat /\ DOMAIN Variants = 1..Len(Variants) /\ 1 \in DOMAIN Variants
  BY FormsAssumption
<1>2. CASE cell[f] = {}
  BY <1>1, <1>2 DEF Selected, Chosen
<1>3. CASE cell[f] # {}
  <2>1. K \subseteq 1..Len(Variants) /\ K # {}
    BY <1>1, <1>3 DEF Chosen
  <2>2. PICK k \in K : \A j \in K : j <= k
    <3> HIDE DEF K
    <3> QED  BY <1>1, <2>1, LastOne
  <2>3. \A j \in (k + 1)..Len(Variants) : j \in DOMAIN Variants /\ ~(j <= k)
    BY <1>1
  <2>4. Selected(f, Variants[k]) /\ Variants[k] \in Chosen
    BY <1>3, <2>2, <2>3 DEF Selected, Chosen
  <2>5. ASSUME NEW v, Selected(f, v) PROVE v = Variants[k]
    <3>1. PICK i \in DOMAIN Variants :
             v = Variants[i] /\ v \in cell[f]
             /\ \A j \in (i + 1)..Len(Variants) : Variants[j] \notin cell[f]
      BY <1>3, <2>5 DEF Selected
    <3>2. i \in K /\ i <= k
      BY <2>2, <3>1
    <3>3. ~(i < k)
      BY <1>1, <2>2, <3>1
    <3>4. i = k
      BY <1>1, <3>2, <3>3
    <3> QED  BY <3>1, <3>4
  <2> QED  BY <2>4, <2>5
<1> QED  BY <1>2, <1>3

\* A browser submits exactly one value for each field of the form but checkboxes,
\* and the contents of each file, whatever was set before (forms.rs:26-55,
\* 109-174 and 339-431), for any number of fields, options and calls.
THEOREM FieldsAreSubmitted == FmSpec => []OneValueEach
<1>1. ASSUME FmInv PROVE OneValueEach
  <2> SUFFICES ASSUME phase = "form", NEW f \in Fields, InForm(f)
               PROVE  /\ Kind(f) # "checkbox" => Sent(f) # {} /\ \A v, w \in Sent(f) : v = w
                      /\ Kind(f) = "file" => Sent(f) = {"contents"}
    BY DEF OneValueEach
  <2>1. CASE Kind(f) = "select"
    <3>1. cell[f] \subseteq Chosen
      BY <1>1, <2>1 DEF FmInv, Submittable
    <3>2. Sent(f) = {v \in Chosen : Selected(f, v)}
      BY <2>1 DEF Sent
    <3> QED  BY <2>1, <3>1, <3>2, OneSelected
  <2>2. CASE Kind(f) = "value"
    <3>1. cell[f] = {} \/ \E u : cell[f] = {u}
      BY <1>1, <2>2 DEF FmInv, Shown
    <3>2. CASE cell[f] = {}
      BY <2>2, <3>2 DEF Sent
    <3>3. ASSUME NEW u, cell[f] = {u} PROVE Sent(f) = {Displayed[<<ast[f].ty, u>>]}
      BY <2>2, <3>3 DEF Sent
    <3> QED  BY <2>2, <3>1, <3>2, <3>3
  <2>3. CASE Kind(f) = "file"
    BY <1>1, <2>3 DEF FmInv, Submittable, HasFile, Sent
  <2> QED  BY <2>1, <2>2, <2>3, Kinds
<1> QED  BY <1>1, FmInitInv, FmStepInv, PTL DEF FmSpec
=============================================================================
