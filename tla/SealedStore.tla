---------------------------- MODULE SealedStore ----------------------------
(***************************************************************************)
(* What an application can rely on when it keeps data in cookies: its      *)
(* clients hold sealed values for it and may forget them, and cookie()     *)
(* answers with a value that is held, was sealed for the name asked for    *)
(* under the current key and has not expired, or with nothing.  Browsers,  *)
(* paths, headers, requests and responses do not occur.                    *)
(***************************************************************************)
EXTENDS Naturals

CONSTANTS Names, Data, NoCookie

VARIABLES
    held,            \* the sealed values that somebody has
    answer,          \* what the last step returned, if it was a call of cookie()
    now, key         \* the time, and the generation of the key

vars == <<held, answer, now, key>>

Quiet == [name |-> NoCookie, value |-> NoCookie]

Init ==
    /\ held = {}
    /\ answer = Quiet
    /\ now \in Nat /\ key \in Nat

Sealed == [name : Names, data : Data, key : {key}, expires : Nat]

Issue ==
    /\ \E t \in held' : t \in Sealed /\ held' \subseteq held \cup {t}
    /\ answer' = Quiet
    /\ UNCHANGED <<now, key>>

Answer ==
    /\ \E n \in Names, v \in held \cup {NoCookie} :
          /\ v # NoCookie => v.name = n /\ v.key = key /\ now < v.expires
          /\ answer' = [name |-> n, value |-> v]
    /\ UNCHANGED <<held, now, key>>

Forget == held' \subseteq held /\ answer' = Quiet /\ UNCHANGED <<now, key>>

\* The clock goes on, or the application is started again with another key.
Tick == now' > now /\ held' \subseteq held /\ answer' = Quiet /\ UNCHANGED key
Rotate == key' > key /\ held' \subseteq held /\ answer' = Quiet /\ UNCHANGED now

Next == Issue \/ Answer \/ Forget \/ Tick \/ Rotate

Spec == Init /\ [][Next]_vars
=============================================================================
