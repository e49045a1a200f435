------------------------------- MODULE Server -------------------------------
(***************************************************************************)
(* The accept loop, the connection tasks and the graceful shutdown of      *)
(* src/mendes/src/hyper.rs.                                                *)
(*                                                                         *)
(* Three kinds of task run: the future of `Server::serve` (the listener),  *)
(* one `Connection::run` per accepted connection, and the task `states`    *)
(* spawns around the user's shutdown future.  They share two watch         *)
(* channels whose values are never sent; only the number of receivers      *)
(* matters.  The receiver of the first lives in the signal task: no        *)
(* receiver left means "shutting down".  The receivers of the second, the  *)
(* `_task_done` clones, live in ConnectionState: no receiver left means    *)
(* "every connection has finished".                                        *)
(*                                                                         *)
(* hyper's connection future is modelled from how run() uses it: a request *)
(* becomes a call of the service, graceful_shutdown() lets the calls in    *)
(* progress end, and an HTTP/1 body is polled by the connection's own task *)
(* while an HTTP/2 stream has a task of its own.                           *)
(*                                                                         *)
(* An operator named Bug_... is a broken variant of the definition after   *)
(* it: with it in that definition's place TLC must find a property         *)
(* violated.  No specification uses one.                                   *)
(***************************************************************************)
EXTENDS Naturals

CONSTANTS
    Conns,           \* the connections clients may open
    H2,              \* those whose client speaks HTTP/2
    Streams,         \* request slots of a connection (HTTP/1 uses one at a time)
    Listener         \* holder of the ConnectionState that serve() clones

ASSUME ConnsAssumption ==
    /\ H2 \subseteq Conns
    /\ Listener \notin Conns

VARIABLES
    pc,              \* where the future of serve() stands
    signal,          \* the task around the user's shutdown future, if one was given
    taskDone,        \* who holds a receiver of the task monitor
    task,            \* task[c]: how far the connection got on the server
    told,            \* told[c]: run()'s fused shutting_down has fired
    phase,           \* phase[c]: state of hyper's connection future
    stream,          \* stream[c][s]: the request in slot s
    gone             \* gone[c]: the client has closed or vanished

lvars == <<pc, signal, taskDone>>
cvars == <<task, told, phase, stream, gone>>
vars  == <<pc, signal, taskDone, task, told, phase, stream, gone>>

Idle == [s \in Streams |-> "free"]
Busy(c) == \E s \in Streams : stream[c][s] # "free"

\* with_graceful_shutdown() was called
Graceful == signal # "absent"

\* The user's future has ended, whether or not its task has been cleaned up.
Signalled == signal \in {"ended", "dropped"}

\* None is taken for "closed"
Bug_NoneIsClosed == ~Graceful \/ signal = "dropped"

\* `shutting_down.closed()` resolves: there is a channel and its receiver is gone
ShuttingDown == Graceful /\ signal = "dropped"

TypeOK ==
    /\ pc \in {"select", "sleep", "draining", "returned", "dropped"}
    /\ signal \in {"absent", "pending", "ended", "dropped"}
    /\ taskDone \subseteq Conns \cup {Listener}
    /\ task \in [Conns -> {"none", "backlog", "running", "finished", "refused"}]
    /\ told \in [Conns -> BOOLEAN]
    /\ phase \in [Conns -> {"open", "goaway", "closing", "upgraded", "failed", "panicked"}]
    /\ stream \in [Conns -> [Streams -> {"free", "handling", "answering", "caught"}]]
    /\ gone \in [Conns -> BOOLEAN]

Init ==
    /\ pc = "select"
    /\ signal \in {"absent", "pending"}
    /\ taskDone = IF Graceful THEN {Listener} ELSE {}
    /\ task = [c \in Conns |-> "none"]
    /\ told = [c \in Conns |-> FALSE]
    /\ phase = [c \in Conns |-> "open"]
    /\ stream = [c \in Conns |-> Idle]
    /\ gone = [c \in Conns |-> FALSE]

-----------------------------------------------------------------------------
(* The clients and the kernel's accept queue.                              *)

Connect(c) ==
    /\ task[c] = "none"
    /\ pc \in {"select", "sleep"}
    /\ task' = [task EXCEPT ![c] = "backlog"]
    /\ UNCHANGED <<lvars, told, phase, stream, gone>>

ClientGone(c) ==
    /\ task[c] \in {"backlog", "running"} /\ ~gone[c]
    /\ gone' = [gone EXCEPT ![c] = TRUE]
    /\ UNCHANGED <<lvars, task, told, phase, stream>>

\* the listener stays open while the server drains
Bug_ListenerKept == UNCHANGED task

\* Closing the listening socket resets what is still queued on it.
RefuseBacklog ==
    task' = [c \in Conns |-> IF task[c] = "backlog" THEN "refused" ELSE task[c]]

-----------------------------------------------------------------------------
(* Server::serve.  select! polls its branches in random order, so accept() *)
(* may win against a shutting_down that is ready as well.                  *)

\* the connection gets no clone of _task_done
Bug_AcceptUncounted(c) ==
    /\ pc = "select"
    /\ task[c] = "backlog"
    /\ task' = [task EXCEPT ![c] = "running"]
    /\ UNCHANGED <<lvars, told, phase, stream, gone>>

Accept(c) ==
    /\ pc = "select"
    /\ task[c] = "backlog"
    /\ task' = [task EXCEPT ![c] = "running"]
    /\ taskDone' = IF Graceful THEN taskDone \cup {c} ELSE taskDone
    /\ UNCHANGED <<pc, signal, told, phase, stream, gone>>

\* ConnectionRefused, ConnectionAborted, ConnectionReset: the loop continues.
AcceptTransientError(c) ==
    /\ pc = "select"
    /\ task[c] = "backlog" /\ gone[c]
    /\ task' = [task EXCEPT ![c] = "refused"]
    /\ UNCHANGED <<lvars, told, phase, stream, gone>>

\* Any other error: the loop sleeps a second and sees nothing meanwhile.
AcceptError ==
    /\ pc = "select" /\ pc' = "sleep"
    /\ UNCHANGED <<signal, taskDone, cvars>>

Wake ==
    /\ pc = "sleep" /\ pc' = "select"
    /\ UNCHANGED <<signal, taskDone, cvars>>

\* drop(conn_state) forgotten: the listener waits for its own receiver
Bug_BreakKeepsState ==
    /\ pc = "select" /\ ShuttingDown
    /\ pc' = "draining"
    /\ RefuseBacklog
    /\ UNCHANGED <<signal, taskDone, told, phase, stream, gone>>

\* break, drop(conn_state), drop(listener): no await separates them.
Break ==
    /\ pc = "select" /\ ShuttingDown
    /\ pc' = "draining"
    /\ taskDone' = taskDone \ {Listener}
    /\ RefuseBacklog
    /\ UNCHANGED <<signal, told, phase, stream, gone>>

\* task_monitor.closed() not awaited
Bug_ReturnAtOnce ==
    /\ pc = "draining"
    /\ pc' = "returned"
    /\ UNCHANGED <<signal, taskDone, cvars>>

Return ==
    /\ pc = "draining" /\ taskDone = {}
    /\ pc' = "returned"
    /\ UNCHANGED <<signal, taskDone, cvars>>

\* The caller drops the future at one of its awaits (tests/hyper.rs aborts it).
Abort ==
    /\ pc \in {"select", "sleep", "draining"}
    /\ pc' = "dropped"
    /\ taskDone' = taskDone \ {Listener}
    /\ RefuseBacklog
    /\ UNCHANGED <<signal, told, phase, stream, gone>>

-----------------------------------------------------------------------------
(* The task states() spawns: future.await (it may also panic), then the    *)
(* receiver is dropped.  It is not tied to the future of serve().          *)

SignalEnds ==
    /\ signal = "pending"
    /\ signal' = "ended"
    /\ UNCHANGED <<pc, taskDone, cvars>>

DropSignal ==
    /\ signal = "ended" /\ signal' = "dropped"
    /\ UNCHANGED <<pc, taskDone, cvars>>

-----------------------------------------------------------------------------
(* Connection::run.                                                        *)

\* graceful_shutdown() not called
Bug_TellNobody(c) ==
    /\ task[c] = "running" /\ ~told[c] /\ ShuttingDown
    /\ told' = [told EXCEPT ![c] = TRUE]
    /\ UNCHANGED <<lvars, task, phase, stream, gone>>

TellShutdown(c) ==
    /\ task[c] = "running" /\ ~told[c] /\ ShuttingDown
    /\ told' = [told EXCEPT ![c] = TRUE]
    /\ phase' = [phase EXCEPT ![c] =
                    IF @ # "open" THEN @ ELSE IF c \in H2 THEN "goaway" ELSE "closing"]
    /\ UNCHANGED <<lvars, task, stream, gone>>

\* run() leaves its loop once it has called graceful_shutdown()
Bug_ReadyWhenTold(c) ==
    gone[c] \/ phase[c] \in {"upgraded", "failed", "panicked", "closing"}

\* hyper's future is ready; an error in it is only logged.
ConnReady(c) ==
    \/ gone[c]
    \/ phase[c] \in {"upgraded", "failed", "panicked"}
    \/ phase[c] = "closing" /\ ~Busy(c)

\* run() ends, or unwinds: either way its locals, _task_done last, are dropped.
\* An HTTP/1 handler goes with the connection, an HTTP/2 one has its own task.
Finish(c) ==
    /\ task[c] = "running" /\ ConnReady(c)
    /\ task' = [task EXCEPT ![c] = "finished"]
    /\ taskDone' = taskDone \ {c}
    /\ stream' = IF c \in H2 THEN stream ELSE [stream EXCEPT ![c] = Idle]
    /\ UNCHANGED <<pc, signal, told, phase, gone>>

-----------------------------------------------------------------------------
(* ConnectionService::call, the future it returns, and hyper around them.  *)

Call(c, s) ==
    /\ task[c] = "running" /\ phase[c] \in {"open", "goaway"} /\ ~gone[c]
    /\ stream[c][s] = "free"
    /\ c \notin H2 => ~Busy(c)
    /\ stream' = [stream EXCEPT ![c][s] = "handling"]
    /\ UNCHANGED <<lvars, task, told, phase, gone>>

HandlerReturns(c, s) ==
    /\ stream[c][s] = "handling"
    /\ stream' = [stream EXCEPT ![c][s] = "answering"]
    /\ UNCHANGED <<lvars, task, told, phase, gone>>

\* no catch_unwind
Bug_PanicUnwinds(c, s) ==
    /\ stream[c][s] = "handling"
    /\ stream' = [stream EXCEPT ![c][s] = "free"]
    /\ phase' = [phase EXCEPT ![c] = "panicked"]
    /\ UNCHANGED <<lvars, task, told, gone>>

\* catch_unwind and panic_response: a 500 with a static body.
HandlerPanics(c, s) ==
    /\ stream[c][s] = "handling"
    /\ stream' = [stream EXCEPT ![c][s] = "caught"]
    /\ UNCHANGED <<lvars, task, told, phase, gone>>

Sending(c, s) == task[c] = "running" /\ stream[c][s] \in {"answering", "caught"}

\* the slot of an answered request is never given back
Bug_SlotKept(c, s) == stream' = [stream EXCEPT ![c][s] = "sent"]

Release(c, s) == stream' = [stream EXCEPT ![c][s] = "free"]

ResponseSent(c, s) ==
    /\ Sending(c, s) /\ ~gone[c]
    /\ Release(c, s)
    /\ UNCHANGED <<lvars, task, told, phase, gone>>

\* The response body yields an error (outcome "failed") or panics in
\* poll_frame, which no catch_unwind guards.  In HTTP/1 that is the end of
\* the connection, in HTTP/2 of the stream.
BodyBreaks(c, s, outcome) ==
    /\ Sending(c, s) /\ stream[c][s] = "answering"
    /\ c \notin H2 => phase[c] \in {"open", "closing"}
    /\ Release(c, s)
    /\ phase' = IF c \in H2 THEN phase ELSE [phase EXCEPT ![c] = outcome]
    /\ UNCHANGED <<lvars, task, told, gone>>

\* serve_connection_with_upgrades: the handler answered 101.
Upgrade(c, s) ==
    /\ c \notin H2 /\ Sending(c, s) /\ stream[c][s] = "answering"
    /\ phase[c] \in {"open", "closing"}
    /\ Release(c, s)
    /\ phase' = [phase EXCEPT ![c] = "upgraded"]
    /\ UNCHANGED <<lvars, task, told, gone>>

\* HTTP/2 graceful shutdown: new streams come in until the client has seen
\* the first GOAWAY.
GoawayAcked(c) ==
    /\ task[c] = "running" /\ phase[c] = "goaway"
    /\ phase' = [phase EXCEPT ![c] = "closing"]
    /\ UNCHANGED <<lvars, task, told, stream, gone>>

\* The task of an HTTP/2 stream notices that its connection is gone.
StreamCancelled(c, s) ==
    /\ task[c] = "finished" /\ stream[c][s] # "free"
    /\ Release(c, s)
    /\ UNCHANGED <<lvars, task, told, phase, gone>>

-----------------------------------------------------------------------------
\* serve() is over and nothing of it is left.
Terminating ==
    /\ pc \in {"returned", "dropped"}
    /\ \A c \in Conns : task[c] # "running" /\ ~Busy(c)
    /\ UNCHANGED vars

ListenerNext ==
    \/ AcceptError \/ Wake \/ Break \/ Return \/ Abort \/ SignalEnds \/ DropSignal
    \/ \E c \in Conns : Accept(c) \/ AcceptTransientError(c)

HandlerEnds(c, s) == HandlerReturns(c, s) \/ HandlerPanics(c, s)

StreamNext(c, s) ==
    \/ Call(c, s) \/ HandlerEnds(c, s) \/ ResponseSent(c, s)
    \/ Upgrade(c, s) \/ StreamCancelled(c, s)
    \/ \E outcome \in {"failed", "panicked"} : BodyBreaks(c, s, outcome)

ConnNext(c) ==
    \/ Connect(c) \/ ClientGone(c) \/ TellShutdown(c) \/ GoawayAcked(c) \/ Finish(c)
    \/ \E s \in Streams : StreamNext(c, s)

Next == ListenerNext \/ (\E c \in Conns : ConnNext(c)) \/ Terminating

\* tokio polls every task that was woken and select! is random, so a branch
\* that is ready again and again wins once.  Accept errors clear.  Handlers
\* end, clients read the response and acknowledge a GOAWAY (or vanish).
Fairness ==
    /\ WF_vars(Wake) /\ WF_vars(Return) /\ WF_vars(DropSignal)
    /\ SF_vars(Break)
    /\ \A c \in Conns :
        /\ SF_vars(Accept(c))
        /\ WF_vars(TellShutdown(c)) /\ WF_vars(Finish(c)) /\ WF_vars(GoawayAcked(c))
        /\ \A s \in Streams :
            /\ WF_vars(HandlerEnds(c, s))
            /\ WF_vars(ResponseSent(c, s))
            /\ WF_vars(StreamCancelled(c, s))

Spec == Init /\ [][Next]_vars /\ Fairness

-----------------------------------------------------------------------------
(* Safety.                                                                 *)

\* "receiver_count() can be used whether any connections are still going"
\* (hyper.rs:167): the receivers of the task monitor are those of the running
\* connection tasks, plus the listener's own until it leaves its loop.  One
\* receiver too many and serve() never returns, one too few and it returns early.
MonitorCountsConnections ==
    Graceful =>
        taskDone = {c \in Conns : task[c] = "running"}
                   \cup (IF pc \in {"select", "sleep"} THEN {Listener} ELSE {})

\* serve() returns only after every connection it ever accepted has finished
\* and none is left waiting in the accept queue; a handler still running then
\* belongs to an HTTP/2 client that broke its connection.
ReturnMeansDrained ==
    pc = "returned" =>
        \A c \in Conns :
            /\ task[c] \notin {"running", "backlog"}
            /\ Busy(c) => c \in H2 /\ gone[c]

\* The server leaves its loop, and a connection is told to close, only after
\* the user's shutdown future has ended.
ShutdownOnlyOnSignal ==
    (pc \in {"draining", "returned"} \/ \E c \in Conns : told[c])
        => Signalled

\* A shutdown (or anything else the server does) never ends a connection that
\* still has a request to answer: only the client leaving, or the response
\* body breaking an HTTP/1 connection, does.
InFlightNotCut ==
    [][\A c \in Conns :
        task[c] = "running" /\ task'[c] = "finished" /\ Busy(c) => gone[c]]_vars

\* A handler that was started is answered unless its client left, and a panic
\* in a handler costs neither the connection nor another stream: whatever
\* becomes of a handler, no connection fails in that step.
HandlersAreContained ==
    [][\A c \in Conns, s \in Streams :
        stream[c][s] = "handling" /\ stream'[c][s] # "handling"
            => \/ stream'[c][s] \in {"answering", "caught"} /\ phase' = phase
               \/ gone[c]]_vars

\* How much a connection, and a request in one of its slots, still has before it.
PhaseRank   == [open |-> 3, goaway |-> 2, closing |-> 1, upgraded |-> 0, failed |-> 0, panicked |-> 0]
RequestRank == [free |-> 0, answering |-> 1, caught |-> 1, handling |-> 2]

\* A shutdown under way never turns back, whatever clients, handlers and bodies
\* do meanwhile: the channel stays closed, nothing joins those that serve()
\* waits for, a connection that was told takes in no more requests (over HTTP/2
\* once its client has acknowledged the GOAWAY), and what it has left to do only
\* shrinks, so what it waits for happens once and stays so.
DrainNeverTurnsBack ==
    [][ /\ ShuttingDown => ShuttingDown'
        /\ pc \notin {"select", "sleep"} => taskDone' \subseteq taskDone
        /\ \A c \in Conns : told[c] /\ task[c] = "running" =>
            /\ phase[c] # "open" /\ told'[c] /\ task'[c] \in {"running", "finished"}
            /\ PhaseRank[phase'[c]] <= PhaseRank[phase[c]]
            /\ PhaseRank[phase[c]] < PhaseRank["goaway"] =>
                \A s \in Streams : RequestRank[stream'[c][s]] <= RequestRank[stream[c][s]]
            /\ ConnReady(c) => task'[c] = "finished" \/ ConnReady(c)'
      ]_vars

-----------------------------------------------------------------------------
(* Liveness.                                                               *)

\* Once the shutdown future has ended serve() returns, unless it was dropped.
ShutdownCompletes == Signalled ~> (pc \in {"returned", "dropped"})

\* Once the shutdown future has ended every connection ends, also when the
\* future of serve() is no longer there to wait for it.
ConnectionsDrain ==
    \A c \in Conns :
        (Signalled /\ task[c] = "running") ~> (task[c] = "finished")

\* No client is left in the accept queue, whatever accept errors occur and
\* however the server stops.
NobodyLeftWaiting == \A c \in Conns : (task[c] = "backlog") ~> (task[c] # "backlog")

-----------------------------------------------------------------------------
(* The server implements what it promises.                                 *)

Promise == INSTANCE GracefulShutdown WITH
    mode <- IF pc \in {"select", "sleep"} THEN "serving" ELSE pc,
    signalled <- Signalled,
    live <- {c \in Conns : task[c] = "running"}

PromiseKept == Promise!ASpec
=============================================================================
