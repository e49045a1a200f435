------------------------------ MODULE Routing ------------------------------
(***************************************************************************)
(* From a request path to the call of a handler: the cursor `PathState`    *)
(* and `Context` of src/mendes/src/application.rs, driven by the code that *)
(* the macros route!, #[scope] and #[handler] of                           *)
(* src/mendes-macros/src/route.rs generate.                                *)
(*                                                                         *)
(* The routes of an application are not fixed: wherever a match stands,    *)
(* any arm the macro accepts may be the one that fires, and a handler may  *)
(* have any arguments.  So the module covers every route table, whether or *)
(* not it uses nested matches and scopes.                                  *)
(*                                                                         *)
(* An operator named Bug_... is a broken variant of the definition after   *)
(* it: with it in that definition's place TLC must find a property         *)
(* violated.  No specification uses one.                                   *)
(***************************************************************************)
EXTENDS Naturals, Sequences

CONSTANTS
    Chars,           \* the characters of request paths
    Paths,           \* the request paths
    Slash,           \* the character '/'
    Bad              \* a percent-encoded byte that is not UTF-8

ASSUME PathsAssumption ==
    /\ Paths \subseteq Seq(Chars)
    /\ Slash # Bad

VARIABLES
    path,            \* cx.req.uri.path()
    prev, next,      \* PathState: start of a component, or Nil
    at,              \* the generated code that runs
    body,            \* cx.body is Some
    rested,          \* the handler has had its #[rest] argument
    outcome,         \* the Error returned, or "called"
    mark,            \* history: where what no arm or argument has used begins
    skipped,         \* history: a `_ => match` dropped a component
    strayed          \* history: a `_` arm rewound a path that was used up

cursor  == <<prev, next>>
history == <<mark, skipped, strayed>>
vars    == <<path, prev, next, at, body, rested, outcome, mark, skipped, strayed>>

Nil == 0

\* The component that starts at s ends before e: path[s..].find('/')
Ends(s, e) ==
    /\ \A i \in s..(e - 1) : path[i] # Slash
    /\ e <= Len(path) => path[e] = Slash

TypeOK ==
    /\ path \in Paths
    /\ {prev, next} \subseteq Nil..(Len(path) + 1)
    /\ at \in {"route", "handler", "args", "done"}
    /\ {body, rested, skipped, strayed} \subseteq BOOLEAN
    /\ outcome \in {"none", "called", "panic", "PathNotFound", "MethodNotAllowed",
                    "PathComponentMissing", "PathDecode", "PathParse",
                    "QueryMissing", "QueryDecode"}
    /\ mark \in 1..(Len(path) + 1)

\* PathState::new, Context::new
Start(p) ==
    IF p = <<>> \/ p = <<Slash>> THEN Nil
    ELSE IF p[1] = Slash THEN 2 ELSE 1

Init ==
    /\ path \in Paths
    /\ prev = Nil
    /\ next = Start(path)
    /\ at = "route"
    /\ body = TRUE /\ rested = FALSE
    /\ outcome = "none"
    /\ mark = IF next = Nil THEN Len(path) + 1 ELSE next
    /\ skipped = FALSE /\ strayed = FALSE

-----------------------------------------------------------------------------
(* PathState.                                                              *)

\* There is a component to return (an empty one, if a slash follows at once).
HasComponent == next # Nil /\ next <= Len(path)

\* the last component is taken to end in a slash; the slash is not skipped
Bug_AdvancePastEnd ==
    IF next = Nil THEN UNCHANGED cursor
    ELSE /\ prev' = next
         /\ \E e \in next..(Len(path) + 1) : Ends(next, e) /\ next' = e + 1

Bug_AdvanceToSlash ==
    IF next = Nil THEN UNCHANGED cursor
    ELSE /\ prev' = next
         /\ \E e \in next..(Len(path) + 1) :
                Ends(next, e) /\ next' = IF e <= Len(path) THEN e ELSE Nil

\* PathState::next.  It leaves prev alone when the path is used up.
Advance ==
    IF next = Nil THEN UNCHANGED cursor
    ELSE /\ prev' = next
         /\ \E e \in next..(Len(path) + 1) :
                /\ Ends(next, e)
                /\ next' = IF e <= Len(path) THEN e + 1 ELSE Nil

\* no rewind in the arm
Bug_NoRewind == Advance

\* PathState::next followed by PathState::rewind
AdvanceAndRewind ==
    /\ next' = IF next = Nil THEN prev ELSE next
    /\ prev' = Nil

\* PathState::rest
TakeRest ==
    IF next = Nil THEN UNCHANGED cursor ELSE prev' = next /\ next' = Nil

\* path_str: decode_utf8 of the component that Advance passes, or of the rest
Decodes(upTo(_)) ==
    next # Nil => \E e \in next..(Len(path) + 1) :
                    upTo(e) /\ \A i \in next..(e - 1) : path[i] # Bad

ComponentDecodes == Decodes(LAMBDA e : Ends(next, e))
RestDecodes      == Decodes(LAMBDA e : e = Len(path) + 1)

\* The history: an arm or an argument has used the component at mark.
Use ==
    \E e \in mark..(Len(path) + 1) :
        /\ Ends(mark, e)
        /\ mark' = IF e <= Len(path) THEN e + 1 ELSE e

-----------------------------------------------------------------------------
(* route! and #[scope]: `match cx.path()` and `match cx.method()`.         *)

\* A pattern other than `_` matches: a literal, a binding or None.  The body of
\* the arm is a handler, or a scope or nested match that routes on.
PathArm(body_) ==
    /\ at = "route"
    /\ Advance /\ Use
    /\ at' = body_
    /\ UNCHANGED <<path, body, rested, outcome, skipped, strayed>>

\* `_ => handler`, `_ => scope`: the arm rewinds before it calls.
WildcardArm(body_) ==
    /\ at = "route"
    /\ AdvanceAndRewind
    /\ at' = body_
    /\ strayed' = (strayed \/ (next = Nil /\ prev # Nil))
    /\ UNCHANGED <<path, body, rested, outcome, mark, skipped>>

\* `_ => match ...`: no rewind, the component is gone.
WildcardMatch ==
    /\ at = "route"
    /\ Advance
    /\ skipped' = TRUE
    /\ UNCHANGED <<path, at, body, rested, outcome, mark, strayed>>

MethodArm(body_) ==
    /\ at = "route"
    /\ at' = body_
    /\ UNCHANGED <<path, cursor, body, rested, outcome, history>>

Stop(error) == at' = "done" /\ outcome' = error

\* The arm route! adds when the match has no wildcard.
NoArm ==
    /\ at = "route"
    /\ \/ Advance /\ Stop("PathNotFound")
       \/ UNCHANGED cursor /\ Stop("MethodNotAllowed")
    /\ UNCHANGED <<path, body, rested, history>>

-----------------------------------------------------------------------------
(* #[handler]: the method, then the arguments from left to right.          *)

HandlerMethod ==
    /\ at = "handler"
    /\ \/ at' = "args" /\ UNCHANGED outcome
       \/ Stop("MethodNotAllowed")
    /\ UNCHANGED <<path, cursor, body, rested, history>>

\* How an argument type reads its text: &[u8] as it is, Cow and String decoded,
\* numbers, bool and char parsed (whether they parse is not modelled).
Kinds == {"bytes", "decoded", "parsed"}

Reads(kind, decodes, error) ==
    \/ /\ kind = "decoded" => decodes
       /\ UNCHANGED <<at, outcome>>
    \/ kind = "decoded" /\ ~decodes /\ error = "PathDecode" /\ Stop(error)
    \/ kind = "parsed" /\ error = "PathParse" /\ Stop(error)

\* FromContext of a path component or, if optional, of an Option of one.
PathArg(kind, optional) ==
    /\ at = "args" /\ ~rested
    /\ Advance /\ Use
    /\ IF HasComponent
       THEN \E error \in {"PathDecode", "PathParse"} : Reads(kind, ComponentDecodes, error)
       ELSE IF optional THEN UNCHANGED <<at, outcome>> ELSE Stop("PathComponentMissing")
    /\ UNCHANGED <<path, body, rested, skipped, strayed>>

\* #[rest]: only #[rest] and #[query] arguments may follow.
RestArg(kind) ==
    /\ at = "args" /\ kind # "parsed"
    /\ TakeRest
    /\ mark' = Len(path) + 1
    /\ rested' = TRUE
    /\ Reads(kind, RestDecodes, "PathDecode")
    /\ UNCHANGED <<path, body, skipped, strayed>>

\* #[query]: Application::from_query
QueryArg ==
    /\ at = "args"
    /\ \E error \in {"QueryMissing", "QueryDecode"} : Stop(error)
    /\ UNCHANGED <<path, cursor, body, rested, history>>

\* The body is taken out of the context; a second taker panics.
BodyArg ==
    /\ at = "args" /\ ~rested
    /\ \/ body /\ body' = FALSE /\ UNCHANGED <<at, outcome>>
       \/ ~body /\ UNCHANGED body /\ Stop("panic")
    /\ UNCHANGED <<path, cursor, rested, history>>

Call ==
    /\ at = "args"
    /\ Stop("called")
    /\ UNCHANGED <<path, cursor, body, rested, history>>

RouteNext ==
    \/ WildcardMatch \/ NoArm
    \/ \E b \in {"route", "handler"} : PathArm(b) \/ WildcardArm(b) \/ MethodArm(b)

HandlerNext ==
    \/ HandlerMethod \/ QueryArg \/ BodyArg \/ Call
    \/ \E k \in Kinds : RestArg(k) \/ (\E o \in BOOLEAN : PathArg(k, o))

Next == RouteNext \/ HandlerNext

Spec == Init /\ [][Next]_vars

-----------------------------------------------------------------------------

\* What a #[rest] argument would be given now begins here.
Left == IF next = Nil THEN Len(path) + 1 ELSE next

\* The offsets that next() and rest() slice the path at, also after rewinds,
\* are starts of components within the path, so no slice panics, cuts a
\* component in two or begins with a stray slash; and prev, where rewind() goes
\* back to, is one component before next.
CursorOnComponents ==
    /\ \A s \in {prev, next} \ {Nil} : s = 1 \/ path[s - 1] = Slash
    /\ prev # Nil /\ next # Nil => prev < next /\ Ends(prev, next - 1)

\* However deep the routes are nested, and whichever wildcard arms were tried,
\* what is left for the next match or argument is exactly what no arm matched
\* and no argument was given: nothing is lost and nothing comes twice.  Two
\* exceptions are how the macro is written: a `_ => match` drops a component,
\* and a `_` arm on a used-up path goes astray (see RestIsNotYetConsumed).
NothingLostOrRepeated ==
    /\ at # "done" /\ ~strayed /\ ~skipped => Left = mark
    /\ at # "done" /\ ~strayed => Left >= mark

\* "`#[rest]`: a `&str` representing the part of the request path not yet
\* consumed by routing" (src/mendes-macros/src/lib.rs:65): what a #[rest]
\* argument would be given has not been matched by an arm before.
RestIsNotYetConsumed == at = "args" /\ ~rested => Left >= mark
=============================================================================
