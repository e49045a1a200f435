------------------------------ MODULE MCServer ------------------------------
(* Instances of Server for TLC. *)
EXTENDS Server, TLC

CONSTANTS a, b, m            \* connections; m is the HTTP/2 one in the cfgs

\* a and b are interchangeable HTTP/1 clients (safety runs only)
Symmetry == Permutations({a, b})
=============================================================================
