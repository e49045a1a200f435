------------------------------ MODULE MCForms ------------------------------
(* Instances of Forms for TLC. *)
EXTENDS Forms

MCVariants == <<"a", "b">>

\* An input for numbers does not take another text, and is then empty.
MCDisplayed ==
    [p \in Types \X Values |->
        IF p[1] = "number" /\ p[2] \notin {"0", "1"} THEN "" ELSE p[2]]
=============================================================================
