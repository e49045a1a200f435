----------------------------- MODULE MCCookies -----------------------------
(* An instance of Cookies for TLC. *)
EXTENDS Cookies, TLC

CONSTANTS r1, r2, r3, n1

\* #[cookie], and lists that make cookies browsers refuse, and the macro refuses.
MCParams ==
    {[max_age |-> Absent, path |-> Absent, same_site |-> Absent, secure |-> Absent],
     [max_age |-> Absent, path |-> Absent, same_site |-> Absent, secure |-> FALSE],
     [max_age |-> Absent, path |-> Absent, same_site |-> "Strict", secure |-> FALSE]}

MCOthers == {<<<<n1, 2>>, Binary>>}

MCSymmetry == Permutations(Requests)
=============================================================================
