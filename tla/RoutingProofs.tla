--------------------------- MODULE RoutingProofs ---------------------------
(***************************************************************************)
(* Theorems about Routing, for every set of paths and every route table.   *)
(***************************************************************************)
EXTENDS Routing, TLAPS

IInv == TypeOK /\ CursorOnComponents /\ NothingLostOrRepeated

\* Paths are sequences.
LEMMA PathLength == TypeOK => Len(path) \in Nat
  BY PathsAssumption DEF TypeOK

\* The component that begins at a given offset has one end only.
LEMMA OneEnd ==
    ASSUME TypeOK, NEW s \in 1..(Len(path) + 1),
           NEW e \in s..(Len(path) + 1), Ends(s, e),
           NEW f \in s..(Len(path) + 1), Ends(s, f)
    PROVE  e = f
  BY PathLength DEF Ends

\* Components end in the order in which they begin.
LEMMA EndsMonotone ==
    ASSUME TypeOK, NEW s \in 1..(Len(path) + 1), NEW t \in s..(Len(path) + 1),
           NEW e \in s..(Len(path) + 1), Ends(s, e),
           NEW f \in t..(Len(path) + 1), Ends(t, f)
    PROVE  e <= f
  BY PathLength DEF Ends

\* A new PathState satisfies the invariant.
LEMMA InitIInv == Init => IInv
<1> SUFFICES ASSUME Init PROVE IInv
  OBVIOUS
<1>1. path \in Seq(Chars) /\ Len(path) \in Nat
  BY PathsAssumption DEF Init
<1>2. path # <<>> => Len(path) > 0
  BY <1>1
<1>3. next \in {Nil, 1, 2} /\ (next # Nil => next <= Len(path) + 1)
  <2>1. next = Nil \/ (path # <<>> /\ next \in {1, 2})
    BY DEF Init, Start
  <2> QED BY <1>1, <1>2, <2>1 DEF Nil
<1>4. next = 2 => path[1] = Slash
  <2>1. next = Start(path)
    BY DEF Init
  <2>2. CASE path = <<>> \/ path = <<Slash>>
    BY <2>1, <2>2 DEF Start, Nil
  <2>3. CASE ~(path = <<>> \/ path = <<Slash>>)
    <3>1. next = IF path[1] = Slash THEN 2 ELSE 1
      BY <2>1, <2>3, Zenon DEF Start
    <3> QED BY <3>1
  <2> QED BY <2>2, <2>3
<1>5. TypeOK
  <2>1. {prev, next} \subseteq Nil..(Len(path) + 1)
    BY <1>1, <1>3 DEF Init, Nil
  <2>2. mark \in 1..(Len(path) + 1)
    BY <1>1, <1>3 DEF Init, Nil
  <2>3. {body, rested, skipped, strayed} \subseteq BOOLEAN
    BY DEF Init
  <2> QED BY <2>1, <2>2, <2>3 DEF Init, TypeOK
<1>6. CursorOnComponents /\ NothingLostOrRepeated
  BY <1>1, <1>3, <1>4 DEF Init, CursorOnComponents, NothingLostOrRepeated, Nil, Left
<1> QED BY <1>5, <1>6 DEF IInv

\* PathState::next keeps the cursor on components, wherever it is called from.
LEMMA AdvanceKeepsCursor ==
    ASSUME IInv, Advance, path' = path
    PROVE  /\ {prev', next'} \subseteq Nil..(Len(path) + 1)
           /\ CursorOnComponents'
           /\ Left' >= Left /\ Left' \in 1..(Len(path) + 1)
<1> USE PathLength DEF IInv, TypeOK, CursorOnComponents, Nil, Left
<1>1. CASE next = Nil
  BY <1>1 DEF Advance, cursor, Ends
<1>2. CASE next # Nil
  <2>1. PICK e \in next..(Len(path) + 1) :
            Ends(next, e) /\ next' = IF e <= Len(path) THEN e + 1 ELSE Nil
    BY <1>2 DEF Advance
  <2>2. prev' = next
    BY <1>2 DEF Advance
  <2> QED BY <1>2, <2>1, <2>2 DEF Ends
<1> QED BY <1>1, <1>2

\* An arm or an argument uses exactly the component that next() returns.
LEMMA AdvanceUses ==
    ASSUME IInv, Advance, Use, path' = path, at # "done", ~strayed
    PROVE  /\ mark' \in 1..(Len(path) + 1)
           /\ Left' >= mark'
           /\ ~skipped => Left' = mark'
<1> USE PathLength DEF IInv, TypeOK, NothingLostOrRepeated, Nil, Left
<1>1. PICK m \in mark..(Len(path) + 1) :
          Ends(mark, m) /\ mark' = IF m <= Len(path) THEN m + 1 ELSE m
  BY DEF Use
<1>2. CASE next = Nil
  BY <1>1, <1>2 DEF Advance, cursor
<1>3. CASE next # Nil
  <2>1. PICK e \in next..(Len(path) + 1) :
            Ends(next, e) /\ next' = IF e <= Len(path) THEN e + 1 ELSE Nil
    BY <1>3 DEF Advance
  <2>2. m <= e
    BY <1>1, <1>3, <2>1, EndsMonotone
  <2>3. ~skipped => m = e
    BY <1>1, <1>3, <2>1, OneEnd
  <2> QED BY <1>1, <1>3, <2>1, <2>2, <2>3
<1> QED BY <1>2, <1>3

\* The history stays within the path.
LEMMA UseKeepsMark ==
    ASSUME TypeOK, Use
    PROVE  mark' \in 1..(Len(path) + 1)
  BY PathLength DEF Use, TypeOK

\* The code of route! and scope keeps the invariant.
LEMMA RouteStep ==
    ASSUME IInv, RouteNext
    PROVE  IInv'
<1> USE PathLength DEF IInv, history
<1>1. ASSUME NEW b \in {"route", "handler"}, PathArm(b) PROVE IInv'
  <2>1. TypeOK' /\ CursorOnComponents'
    BY <1>1, AdvanceKeepsCursor, UseKeepsMark DEF PathArm, TypeOK
  <2>2. NothingLostOrRepeated'
    BY <1>1, AdvanceUses DEF PathArm, NothingLostOrRepeated, Left, TypeOK
  <2> QED BY <2>1, <2>2
<1>2. ASSUME NEW b \in {"route", "handler"}, WildcardArm(b) PROVE IInv'
  <2>1. TypeOK'
    BY <1>2 DEF WildcardArm, AdvanceAndRewind, TypeOK, Nil
  <2>2. CursorOnComponents'
    BY <1>2 DEF WildcardArm, AdvanceAndRewind, CursorOnComponents, Nil, Ends
  <2>3. ~strayed' => Left' = Left
    BY <1>2 DEF WildcardArm, AdvanceAndRewind, Left, Nil, TypeOK
  <2>4. NothingLostOrRepeated'
    BY <1>2, <2>3 DEF WildcardArm, NothingLostOrRepeated, TypeOK
  <2> QED BY <2>1, <2>2, <2>4
<1>3. CASE WildcardMatch
  <2>1. TypeOK' /\ CursorOnComponents'
    BY <1>3, AdvanceKeepsCursor DEF WildcardMatch, TypeOK
  <2>2. NothingLostOrRepeated'
    BY <1>3, AdvanceKeepsCursor DEF WildcardMatch, NothingLostOrRepeated, TypeOK, Left, Nil
  <2> QED BY <2>1, <2>2
<1>4. CASE NoArm
  <2>1. TypeOK' /\ CursorOnComponents'
    BY <1>4, AdvanceKeepsCursor
    DEF NoArm, Stop, TypeOK, cursor, CursorOnComponents, Ends
  <2>2. NothingLostOrRepeated'
    BY <1>4 DEF NoArm, Stop, NothingLostOrRepeated
  <2> QED BY <2>1, <2>2
<1>5. ASSUME NEW b \in {"route", "handler"}, MethodArm(b) PROVE IInv'
  BY <1>5 DEF MethodArm, cursor, TypeOK, CursorOnComponents, Ends, NothingLostOrRepeated, Left
<1> QED BY <1>1, <1>2, <1>3, <1>4, <1>5 DEF RouteNext

\* The code of handler keeps the invariant.
LEMMA HandlerStep ==
    ASSUME IInv, HandlerNext
    PROVE  IInv'
<1> USE PathLength DEF IInv, history
<1>1. CASE HandlerMethod \/ QueryArg \/ BodyArg \/ Call
  BY <1>1 DEF HandlerMethod, QueryArg, BodyArg, Call, Stop, cursor, TypeOK,
     CursorOnComponents, Ends, NothingLostOrRepeated, Left
<1>2. ASSUME NEW k \in Kinds, NEW o \in BOOLEAN, PathArg(k, o) PROVE IInv'
  <2>1. at' \in {"args", "done"}
        /\ outcome' \in {outcome, "PathDecode", "PathParse", "PathComponentMissing"}
    BY <1>2 DEF PathArg, Reads, Stop
  <2>2. TypeOK' /\ CursorOnComponents'
    BY <1>2, <2>1, AdvanceKeepsCursor, UseKeepsMark DEF PathArg, TypeOK
  <2>3. NothingLostOrRepeated'
    BY <1>2, AdvanceUses DEF PathArg, NothingLostOrRepeated, Left, TypeOK
  <2> QED BY <2>2, <2>3
<1>3. ASSUME NEW k \in Kinds, RestArg(k) PROVE IInv'
  <2>1. at' \in {"args", "done"} /\ outcome' \in {outcome, "PathDecode"}
    BY <1>3 DEF RestArg, Reads, Stop
  <2>2. TypeOK' /\ CursorOnComponents'
    BY <1>3, <2>1
    DEF RestArg, TakeRest, cursor, TypeOK, CursorOnComponents, Ends, Nil
  <2>3. NothingLostOrRepeated'
    BY <1>3 DEF RestArg, TakeRest, cursor, NothingLostOrRepeated, Left, Nil, TypeOK
  <2> QED BY <2>2, <2>3
<1> QED BY <1>1, <1>2, <1>3 DEF HandlerNext

\* IInv holds in every behaviour.
THEOREM Invariance == Spec => []IInv
<1>1. IInv /\ [Next]_vars => IInv'
  <2>1. IInv /\ UNCHANGED vars => IInv'
    BY DEF IInv, vars, TypeOK, CursorOnComponents, Ends, NothingLostOrRepeated, Left
  <2> QED BY <2>1, RouteStep, HandlerStep DEF Next
<1> QED BY <1>1, InitIInv, PTL DEF Spec

\* The variables keep their types.
THEOREM TypeCorrect == Spec => []TypeOK
<1>1. IInv => TypeOK
  BY DEF IInv
<1> QED BY <1>1, Invariance, PTL

\* No slice of the path by PathState panics or cuts a component.
THEOREM CursorIsSound == Spec => []CursorOnComponents
<1>1. IInv => CursorOnComponents
  BY DEF IInv
<1> QED BY <1>1, Invariance, PTL

\* Routing hands out each component once and in order (with the exceptions the
\* definition names).
THEOREM RoutingIsExact == Spec => []NothingLostOrRepeated
<1>1. IInv => NothingLostOrRepeated
  BY DEF IInv
<1> QED BY <1>1, Invariance, PTL
=============================================================================
