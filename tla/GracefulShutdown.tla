-------------------------- MODULE GracefulShutdown --------------------------
(***************************************************************************)
(* What `Server::serve` promises (src/mendes/src/hyper.rs): connections    *)
(* are served until the shutdown signal fires and serve() takes notice of  *)
(* it, from then on no connection is taken in, the ones being served       *)
(* finish, and only after the last of them does `serve` return.  The       *)
(* caller may drop the `serve` future earlier; the connections outlive it  *)
(* and are drained all the same.                                           *)
(***************************************************************************)

CONSTANT Conns       \* the connections clients may open

VARIABLES
    mode,            \* what the caller of serve() sees of it
    signalled,       \* the future given to with_graceful_shutdown() ended
    live             \* the connections being served

avars == <<mode, signalled, live>>

AInit == mode = "serving" /\ ~signalled /\ live = {}

AAccept(c) ==
    /\ mode = "serving"
    /\ c \notin live
    /\ live' = live \cup {c}
    /\ UNCHANGED <<mode, signalled>>

AFinish(c) ==
    /\ c \in live
    /\ live' = live \ {c}
    /\ UNCHANGED <<mode, signalled>>

ASignal == ~signalled /\ signalled' = TRUE /\ UNCHANGED <<mode, live>>

AStop ==
    /\ mode = "serving" /\ signalled
    /\ mode' = "draining"
    /\ UNCHANGED <<signalled, live>>

AReturn ==
    /\ mode = "draining" /\ live = {}
    /\ mode' = "returned"
    /\ UNCHANGED <<signalled, live>>

ADrop ==
    /\ mode \in {"serving", "draining"}
    /\ mode' = "dropped"
    /\ UNCHANGED <<signalled, live>>

ANext ==
    \/ ASignal \/ AStop \/ AReturn \/ ADrop
    \/ \E c \in Conns : AAccept(c) \/ AFinish(c)

\* A connection may last as long as its client wants, until the signal.
AFairness ==
    /\ WF_avars(AStop)
    /\ WF_avars(AReturn)
    /\ \A c \in Conns : WF_avars(signalled /\ AFinish(c))

ASpec == AInit /\ [][ANext]_avars /\ AFairness
=============================================================================
