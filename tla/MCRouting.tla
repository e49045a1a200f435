----------------------------- MODULE MCRouting -----------------------------
(* Instances of Routing for TLC: all paths up to a length. *)
EXTENDS Routing

CONSTANT MaxLen              \* bound on the length of a path

\* What http::Uri::path() can return: it is empty, is "*" or begins with a slash
MCPaths ==
    {<<>>} \cup {<<c>> : c \in Chars \ {Slash, Bad}} \cup
    UNION {{<<Slash>> \o s : s \in [1..n -> Chars]} : n \in 0..(MaxLen - 1)}
=============================================================================
