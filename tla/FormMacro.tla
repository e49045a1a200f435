----------------------------- MODULE FormMacro -----------------------------
(***************************************************************************)
(* The `form` attribute macro of src/mendes-macros/src/forms.rs: the fold  *)
(* over the fields of a struct that gathers neighbours with the same       *)
(* `item = "..."` into one item of the form.  A field is its position in   *)
(* the struct, an item of the generated form its position in the form.     *)
(* Labels, classes and the other wording of a form are left out.           *)
(*                                                                         *)
(* An operator named Bug_... is a broken variant of the definition after   *)
(* it; no specification uses one.                                          *)
(***************************************************************************)
EXTENDS Naturals

CONSTANTS
    N,               \* the number of named fields of the struct
    Groups,          \* the names that occur in `item = "..."`
    NoGroup,         \* the field has no such parameter
    Types            \* the types of the fields

ASSUME MacroAssumption ==
    /\ N \in Nat
    /\ NoGroup \notin Groups

Fields == 1..N

VARIABLES
    ast,             \* the struct: the attribute and the type of each field
    next,            \* the field the loop looks at
    held,            \* item_state: the group that is open and its fields
    place,           \* place[f]: the item of the form that has f, 0 if none has
    title,           \* title[f]: the label of that item, if it is a group
    made,            \* how many items there are
    stage            \* the macro is at work, or its code is there

mvars == <<ast, next, held, place, title, made, stage>>

\* What form(...) says of a field that matters here.
Decls == [skip : BOOLEAN, item : Groups \cup {NoGroup}, ty : Types]

Nothing == [group |-> NoGroup, fields |-> {}]

MTypeOK ==
    /\ ast \in [Fields -> Decls]
    /\ next \in 1..(N + 1)
    /\ held \in [group : Groups \cup {NoGroup}, fields : SUBSET Fields]
    /\ place \in [Fields -> Nat]
    /\ title \in [Fields -> Groups \cup {NoGroup}]
    /\ made \in Nat
    /\ stage \in {"expand", "code"}

MInit ==
    /\ ast \in [Fields -> Decls]
    /\ next = 1
    /\ held = Nothing
    /\ place = [f \in Fields |-> 0]
    /\ title = [f \in Fields |-> NoGroup]
    /\ made = 0
    /\ stage = "expand"

-----------------------------------------------------------------------------

\* The loop has reached a field with this `item`, and leaves it behind.
At(g) == stage = "expand" /\ next \in Fields /\ ast[next].item = g
Advance == next' = next + 1 /\ UNCHANGED <<ast, stage>>

\* `new` gets an item with these fields.
AddItem(fields, g) ==
    /\ place' = [f \in Fields |-> IF f \in fields THEN made + 1 ELSE place[f]]
    /\ title' = [f \in Fields |-> IF f \in fields THEN g ELSE title[f]]
    /\ made' = made + 1

Flush == AddItem(held.fields, held.group)

Skip ==
    /\ stage = "expand" /\ next \in Fields /\ ast[next].skip
    /\ Advance
    /\ UNCHANGED <<held, place, title, made>>

\* A field of its own, with no group open.
Single ==
    /\ At(NoGroup) /\ ~ast[next].skip /\ held = Nothing
    /\ AddItem({next}, NoGroup)
    /\ Advance
    /\ UNCHANGED held

\* The first field of a group.
Open(g) ==
    /\ At(g) /\ ~ast[next].skip /\ held = Nothing
    /\ held' = [group |-> g, fields |-> {next}]
    /\ Advance
    /\ UNCHANGED <<place, title, made>>

Extend(g) ==
    /\ At(g) /\ ~ast[next].skip /\ held.group = g
    /\ held' = [held EXCEPT !.fields = @ \cup {next}]
    /\ Advance
    /\ UNCHANGED <<place, title, made>>

\* the label of the group that begins
Bug_Switch(g) ==
    /\ At(g) /\ ~ast[next].skip /\ held.group \in Groups \ {g}
    /\ AddItem(held.fields, g)
    /\ held' = [group |-> g, fields |-> {next}]
    /\ Advance

\* Another group: the open one is complete.
Switch(g) ==
    /\ At(g) /\ ~ast[next].skip /\ held.group \in Groups \ {g}
    /\ Flush
    /\ held' = [group |-> g, fields |-> {next}]
    /\ Advance

\* A field of its own ends the open group.
Close ==
    /\ At(NoGroup) /\ ~ast[next].skip /\ held.group \in Groups
    /\ place' = [f \in Fields |-> IF f \in held.fields THEN made + 1
                                  ELSE IF f = next THEN made + 2 ELSE place[f]]
    /\ title' = [f \in Fields |-> IF f \in held.fields THEN held.group
                                  ELSE IF f = next THEN NoGroup ELSE title[f]]
    /\ made' = made + 2
    /\ held' = Nothing
    /\ Advance

\* After the last field comes the item with the submit button, which no field
\* has.  What item_state holds is dropped.
Finish ==
    /\ stage = "expand" /\ next = N + 1
    /\ stage' = "code"
    /\ made' = made + 1
    /\ held' = Nothing
    /\ UNCHANGED <<ast, next, place, title>>

Expand ==
    \/ Skip \/ Single \/ Close \/ Finish
    \/ \E g \in Groups : Open(g) \/ Extend(g) \/ Switch(g)

MSpec == MInit /\ [][Expand]_mvars

-----------------------------------------------------------------------------

\* f and g belong to one group and only skipped fields come between them.
Neighbours(f, g) ==
    /\ ast[f].item # NoGroup
    /\ \A h \in Fields : f <= h /\ h <= g =>
          ast[h].skip \/ ast[h].item = ast[f].item

\* Nothing but its own group and skipped fields follow f: what the code drops.
InTail(f) ==
    /\ ~ast[f].skip /\ ast[f].item # NoGroup
    /\ \A h \in Fields : f <= h => ast[h].skip \/ ast[h].item = ast[f].item

\* The generated form has each field that is neither skipped nor in the tail in
\* exactly one item, in the order of the struct; neighbours of one group, and
\* no others, share an item, and its label is the name of the group.
PlacedOnce ==
    stage = "code" => \A f \in Fields :
        /\ place[f] # 0 <=> ~ast[f].skip /\ ~InTail(f)
        /\ place[f] # 0 => title[f] = ast[f].item /\ place[f] < made
        /\ \A g \in Fields : f < g /\ place[f] # 0 /\ place[g] # 0 =>
              /\ place[f] <= place[g]
              /\ place[f] = place[g] <=> Neighbours(f, g)

\* "A data type that knows how to generate an HTML form for itself"
\* (src/mendes/src/forms.rs:11): a field that is not skipped is in the form.
\* The struct of src/mendes/tests/forms.rs:34-50 has a field behind its group.
EveryFieldInForm ==
    stage = "code" => \A f \in Fields : ast[f].skip \/ place[f] # 0
=============================================================================
