-------------------------------- MODULE Forms --------------------------------
(***************************************************************************)
(* The forms of src/mendes/src/forms.rs, as the `form` macro generates     *)
(* them for a struct (FormMacro): to_form() and prepare(), Form::set() by  *)
(* which an application fills a form in, and what a browser sends of it    *)
(* when it is submitted as it is displayed.                                *)
(*                                                                         *)
(* An operator named Bug_... is a broken variant of the definition after   *)
(* it; no specification uses one.                                          *)
(***************************************************************************)
EXTENDS FormMacro, Sequences

CONSTANTS
    Variants,        \* the variants of the enum that derives ToField, in order
    Values,          \* the texts set() is called with
    Displayed,       \* what a browser makes of value="..." in an input of a type
    Unset            \* set() has not been called

ASSUME FormsAssumption ==
    /\ Types \subseteq {"bool", "enum", "file", "text", "number"}
    /\ DOMAIN Displayed = Types \X Values
    /\ Variants \in Seq(Values) /\ Variants # <<>>
    /\ \A j, k \in DOMAIN Variants : Variants[j] = Variants[k] => j = k
    /\ Unset \notin Values

VARIABLES
    phase,           \* whether the application has a form, or lost it to an error
    multipart,       \* enctype is multipart/form-data
    cell,            \* cell[f]: the values that are checked, selected or filled in
    last, again      \* histories: the last value set, and whether there was another

rvars == <<phase, multipart, cell, last, again>>
fmvars == <<mvars, rvars>>

Chosen == {Variants[k] : k \in DOMAIN Variants}

FmTypeOK ==
    /\ MTypeOK
    /\ phase \in {"none", "form", "failed"}
    /\ multipart \in BOOLEAN
    /\ cell \in [Fields -> SUBSET (Values \cup {"true"})]
    /\ last \in [Fields -> Values \cup {Unset}]
    /\ again \in [Fields -> BOOLEAN]

FmInit ==
    /\ MInit
    /\ phase = "none"
    /\ multipart = FALSE
    /\ cell = [f \in Fields |-> {}]
    /\ last = [f \in Fields |-> Unset]
    /\ again = [f \in Fields |-> FALSE]

-----------------------------------------------------------------------------

\* ToField of bool, of a derived enum, of File, and of the strings ("text"),
\* numbers and dates ("number"), whose inputs all hold a value.
Kind(f) ==
    CASE ast[f].ty = "bool" -> "checkbox"
      [] ast[f].ty = "enum" -> "select"
      [] ast[f].ty = "file" -> "file"
      [] OTHER              -> "value"

InForm(f) == place[f] # 0

\* items in groups not searched
Bug_HasFile == \E f \in Fields : InForm(f) /\ Kind(f) = "file" /\ title[f] = NoGroup

\* Item::multipart, of an item or of one within it.
HasFile == \E f \in Fields : InForm(f) /\ Kind(f) = "file"

\* to_form() and prepare(): an empty form.
ToForm ==
    /\ stage = "code" /\ phase # "form"
    /\ phase' = "form"
    /\ multipart' = HasFile
    /\ cell' = [f \in Fields |-> {}]
    /\ last' = [f \in Fields |-> Unset]
    /\ again' = [f \in Fields |-> FALSE]
    /\ UNCHANGED mvars

True  == {"true", "1"}
False == {"false", "0"}

Accepts(f, v) ==
    CASE Kind(f) = "checkbox" -> v \in True \cup False
      [] Kind(f) = "select"   -> v \in Chosen
      [] Kind(f) = "file"     -> FALSE
      [] OTHER                -> TRUE

\* checked="false", which is checked in HTML
Bug_Filled(f, v) ==
    CASE Kind(f) = "checkbox" -> {IF v \in True THEN "true" ELSE "false"}
      [] Kind(f) = "select"   -> cell[f] \cup {v}
      [] OTHER                -> {v}

\* Item::set of the field: an option stays selected when another one is.
Filled(f, v) ==
    CASE Kind(f) = "checkbox" -> IF v \in True THEN {"true"} ELSE {}
      [] Kind(f) = "select"   -> cell[f] \cup {v}
      [] OTHER                -> {v}

\* No item has a field of that name, which may be skipped or in a group that the
\* macro has lost: set() is Ok with whatever value, and keeps nothing of it.  The
\* error SetUnknownField (forms.rs:582-583) is never made.
SetIgnored(f, v) ==
    /\ phase = "form" /\ ~InForm(f)
    /\ last' = [last EXCEPT ![f] = v]
    /\ UNCHANGED <<mvars, phase, multipart, cell, again>>

Set(f, v) ==
    /\ phase = "form" /\ InForm(f) /\ Accepts(f, v)
    /\ cell' = [cell EXCEPT ![f] = Filled(f, v)]
    /\ last' = [last EXCEPT ![f] = v]
    /\ again' = [again EXCEPT ![f] = @ \/ last[f] \notin {v, Unset}]
    /\ UNCHANGED <<mvars, phase, multipart>>

\* set() takes the form by value: with an error it is gone.
SetFails(f, v) ==
    /\ phase = "form" /\ InForm(f) /\ ~Accepts(f, v)
    /\ phase' = "failed"
    /\ UNCHANGED <<mvars, multipart, cell, last, again>>

FmNext ==
    \/ Expand /\ UNCHANGED rvars
    \/ ToForm
    \/ \E f \in Fields, v \in Values : SetIgnored(f, v) \/ Set(f, v) \/ SetFails(f, v)

FmSpec == FmInit /\ [][FmNext]_fmvars

-----------------------------------------------------------------------------
(* What Display makes of the form, read by a browser.                      *)

\* Of several options with `selected` the last one counts, without any the first.
Selected(f, v) ==
    \E k \in DOMAIN Variants :
        /\ v = Variants[k]
        /\ IF cell[f] = {} THEN k = 1
           ELSE v \in cell[f] /\ \A j \in (k + 1)..Len(Variants) : Variants[j] \notin cell[f]

\* The values submitted for a field: none for an empty checkbox, an empty one
\* for an input without a value.  A text is written into the HTML as it is, so
\* that a browser may see another one, or none if the input is for numbers or
\* dates.  The options of a select are identifiers.  Of a file only a multipart
\* form sends more than the name.
Sent(f) ==
    CASE ~InForm(f)           -> {}
      [] Kind(f) = "checkbox" -> cell[f]
      [] Kind(f) = "select"   -> {v \in Chosen : Selected(f, v)}
      [] Kind(f) = "file"     -> IF multipart THEN {"contents"} ELSE {"name"}
      [] OTHER                -> IF cell[f] = {} THEN {""}
                                 ELSE {Displayed[<<ast[f].ty, v>>] : v \in cell[f]}

\* What the browser should send for a field that set() was called for.
Meant(f, v) ==
    IF Kind(f) # "checkbox" THEN {v} ELSE IF v \in True THEN {"true"} ELSE {}

\* A text that is still the same behind value="..." (forms.rs:298, 437, ...): no
\* character in it means something to HTML, and the type of the input admits it.
Intact(f, v) == Kind(f) = "value" => Displayed[<<ast[f].ty, v>>] = v

\* What set() was Ok with is what a browser sends, the last value if there were
\* several, whatever was set for other fields before and after; it is lost only
\* if no item has the field, for which set() is Ok nevertheless (forms.rs:113),
\* if it is a select of which another option has been set (forms.rs:154), or if
\* the HTML does not keep the text.
OkMeansShown ==
    phase = "form" => \A f \in Fields :
        last[f] # Unset =>
            \/ Sent(f) = Meant(f, last[f])
            \/ ~InForm(f)
            \/ Kind(f) = "select" /\ again[f]
            \/ ~Intact(f, last[f])

\* A browser submits one value for each field of the form but empty checkboxes,
\* and sends the contents of a file, also of one in a group.
OneValueEach ==
    phase = "form" => \A f \in Fields : InForm(f) =>
        /\ Kind(f) # "checkbox" => Sent(f) # {} /\ \A v, w \in Sent(f) : v = w
        /\ Kind(f) = "file" => Sent(f) = {"contents"}
=============================================================================
