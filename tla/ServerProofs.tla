---------------------------- MODULE ServerProofs ----------------------------
(***************************************************************************)
(* Theorems about Server, for any set of connections of either protocol    *)
(* and any number of request slots.                                        *)
(***************************************************************************)
EXTENDS Server, TLAPS

\* What ties the requests in progress to the connection they came over: an
\* HTTP/1 connection has one at a time and none once its future is ready.
StreamsFollowConn ==
    \A c \in Conns :
        /\ task[c] \in {"none", "backlog", "refused"} => ~Busy(c)
        /\ task[c] = "finished" /\ Busy(c) => c \in H2 /\ gone[c]
        /\ phase[c] \in {"upgraded", "failed", "panicked"} => c \notin H2 /\ ~Busy(c)
        /\ c \notin H2 => \A s, t \in Streams :
                            stream[c][s] # "free" /\ stream[c][t] # "free" => s = t

\* The accept queue dies with the listener.
QueueClosed ==
    pc \notin {"select", "sleep"} => \A c \in Conns : task[c] # "backlog"

IInv ==
    /\ TypeOK
    /\ MonitorCountsConnections
    /\ ShutdownOnlyOnSignal
    /\ QueueClosed
    /\ pc = "returned" => \A c \in Conns : task[c] # "running"
    /\ StreamsFollowConn

\* What IInv says of the accept queue and of streams implies ReturnMeansDrained.
LEMMA ReturnedFromIInv == IInv => ReturnMeansDrained
  BY DEF IInv, TypeOK, ReturnMeansDrained, QueueClosed, StreamsFollowConn

\* A new server satisfies the invariant.
LEMMA InitIInv == Init => IInv
  BY ConnsAssumption
  DEF Init, IInv, TypeOK, MonitorCountsConnections, ShutdownOnlyOnSignal,
      QueueClosed, StreamsFollowConn, Busy, Idle, Graceful, Signalled

\* The steps of serve() and of the signal task.
LEMMA ListenerStep ==
    ASSUME IInv, ListenerNext
    PROVE  IInv'
<1> USE ConnsAssumption DEF IInv, lvars, cvars, Graceful, Signalled
<1>1. CASE AcceptError \/ Wake \/ SignalEnds \/ DropSignal
  BY <1>1 DEF AcceptError, Wake, SignalEnds, DropSignal, TypeOK, MonitorCountsConnections,
     ShutdownOnlyOnSignal, QueueClosed, StreamsFollowConn, Busy
<1>2. CASE Break \/ Abort
  <2>1. TypeOK'
    BY <1>2 DEF Break, Abort, RefuseBacklog, TypeOK
  <2>2. \A c \in Conns : task'[c] = IF task[c] = "backlog" THEN "refused" ELSE task[c]
    BY <1>2 DEF Break, Abort, RefuseBacklog
  <2>3. MonitorCountsConnections'
    BY <1>2, <2>2 DEF Break, Abort, MonitorCountsConnections, TypeOK
  <2>4. ShutdownOnlyOnSignal'
    BY <1>2 DEF Break, Abort, ShutdownOnlyOnSignal, ShuttingDown
  <2>5. QueueClosed' /\ (pc = "returned" => \A c \in Conns : task[c] # "running")'
    BY <1>2, <2>2 DEF Break, Abort, QueueClosed
  <2>6. StreamsFollowConn'
    BY <1>2, <2>2 DEF Break, Abort, StreamsFollowConn, Busy, TypeOK
  <2> QED BY <2>1, <2>3, <2>4, <2>5, <2>6
<1>3. CASE Return
  <2>1. Graceful
    BY <1>3 DEF Return, ShutdownOnlyOnSignal
  <2>2. \A c \in Conns : task[c] # "running"
    BY <1>3, <2>1 DEF Return, MonitorCountsConnections
  <2> QED
    BY <1>3, <2>2 DEF Return, TypeOK, MonitorCountsConnections, ShutdownOnlyOnSignal,
       QueueClosed, StreamsFollowConn, Busy
<1>4. ASSUME NEW c \in Conns, Accept(c) \/ AcceptTransientError(c)
      PROVE  IInv'
  <2>1. TypeOK'
    BY <1>4 DEF Accept, AcceptTransientError, TypeOK
  <2>2. MonitorCountsConnections'
    BY <1>4 DEF Accept, AcceptTransientError, MonitorCountsConnections, TypeOK
  <2>3. ShutdownOnlyOnSignal' /\ QueueClosed'
        /\ (pc = "returned" => \A d \in Conns : task[d] # "running")'
    BY <1>4 DEF Accept, AcceptTransientError, ShutdownOnlyOnSignal, QueueClosed, TypeOK
  <2>4. StreamsFollowConn'
    BY <1>4 DEF Accept, AcceptTransientError, StreamsFollowConn, Busy, TypeOK
  <2> QED BY <2>1, <2>2, <2>3, <2>4
<1> QED BY <1>1, <1>2, <1>3, <1>4 DEF ListenerNext

\* The steps of a connection that leave the requests in its slots alone.
LEMMA ConnStep ==
    ASSUME IInv, NEW c \in Conns,
           Connect(c) \/ ClientGone(c) \/ TellShutdown(c) \/ GoawayAcked(c) \/ Finish(c)
    PROVE  IInv'
<1> USE ConnsAssumption DEF IInv, lvars, cvars, Graceful, Signalled
<1>1. CASE Connect(c) \/ ClientGone(c)
  <2>1. TypeOK'
    BY <1>1 DEF Connect, ClientGone, TypeOK
  <2>2. MonitorCountsConnections'
    BY <1>1 DEF Connect, ClientGone, MonitorCountsConnections, TypeOK
  <2>3. /\ ShutdownOnlyOnSignal' /\ QueueClosed'
        /\ (pc = "returned" => \A d \in Conns : task[d] # "running")'
    BY <1>1 DEF Connect, ClientGone, ShutdownOnlyOnSignal, QueueClosed, TypeOK
  <2>4. StreamsFollowConn'
    BY <1>1 DEF Connect, ClientGone, StreamsFollowConn, Busy, TypeOK
  <2> QED BY <2>1, <2>2, <2>3, <2>4
<1>2. CASE TellShutdown(c)
  <2>1. TypeOK'
    BY <1>2 DEF TellShutdown, TypeOK
  <2>2. MonitorCountsConnections' /\ QueueClosed'
        /\ (pc = "returned" => \A d \in Conns : task[d] # "running")'
    BY <1>2 DEF TellShutdown, MonitorCountsConnections, QueueClosed
  <2>3. ShutdownOnlyOnSignal'
    BY <1>2 DEF TellShutdown, ShutdownOnlyOnSignal, ShuttingDown
  <2>4. StreamsFollowConn'
    BY <1>2 DEF TellShutdown, StreamsFollowConn, Busy, TypeOK
  <2> QED BY <2>1, <2>2, <2>3, <2>4
<1>3. CASE GoawayAcked(c)
  BY <1>3 DEF GoawayAcked, TypeOK, MonitorCountsConnections, ShutdownOnlyOnSignal,
     QueueClosed, StreamsFollowConn, Busy
<1>4. CASE Finish(c)
  <2>1. TypeOK'
    BY <1>4 DEF Finish, TypeOK, Idle
  <2>2. MonitorCountsConnections'
    BY <1>4 DEF Finish, MonitorCountsConnections, TypeOK
  <2>3. ShutdownOnlyOnSignal' /\ QueueClosed'
        /\ (pc = "returned" => \A d \in Conns : task[d] # "running")'
    BY <1>4 DEF Finish, ShutdownOnlyOnSignal, QueueClosed, TypeOK
  <2>4. StreamsFollowConn'
    <3>1. c \in H2 => ~Busy(c) \/ gone[c]
      BY <1>4 DEF Finish, ConnReady, StreamsFollowConn
    <3> QED BY <1>4, <3>1 DEF Finish, StreamsFollowConn, Busy, TypeOK, Idle
  <2> QED BY <2>1, <2>2, <2>3, <2>4
<1> QED BY <1>1, <1>2, <1>3, <1>4

\* The steps of one request: they change nothing of the listener or the tasks.
LEMMA StreamStep ==
    ASSUME IInv, NEW c \in Conns, NEW s \in Streams, StreamNext(c, s)
    PROVE  IInv'
<1> USE ConnsAssumption DEF IInv, lvars, Graceful, Signalled
<1>1. /\ UNCHANGED <<pc, signal, taskDone, task, told, gone>>
      /\ \E v \in {"free", "handling", "answering", "caught"} :
            stream' = [stream EXCEPT ![c][s] = v]
  BY DEF StreamNext, Call, HandlerEnds, HandlerReturns, HandlerPanics, ResponseSent,
     BodyBreaks, Upgrade, StreamCancelled, Release
<1>2. \/ phase' = phase
      \/ /\ c \notin H2 /\ stream[c][s] # "free" /\ stream'[c][s] = "free"
         /\ \E p \in {"upgraded", "failed", "panicked"} : phase' = [phase EXCEPT ![c] = p]
  BY DEF StreamNext, Call, HandlerEnds, HandlerReturns, HandlerPanics, ResponseSent,
     BodyBreaks, Upgrade, StreamCancelled, Release, TypeOK, Sending
<1>3. stream[c][s] = "free" /\ stream'[c][s] # "free"
        => /\ task[c] = "running" /\ phase[c] \in {"open", "goaway"}
           /\ c \notin H2 => ~Busy(c)
  BY DEF StreamNext, Call, HandlerEnds, HandlerReturns, HandlerPanics, ResponseSent,
     BodyBreaks, Upgrade, StreamCancelled, Release, TypeOK, Sending
<1>4. TypeOK'
  BY <1>1, <1>2 DEF TypeOK
<1>5. /\ MonitorCountsConnections' /\ ShutdownOnlyOnSignal' /\ QueueClosed'
      /\ (pc = "returned" => \A d \in Conns : task[d] # "running")'
  BY <1>1 DEF MonitorCountsConnections, ShutdownOnlyOnSignal, QueueClosed
<1>6. StreamsFollowConn'
  <2>1. \A d \in Conns, t \in Streams :
           (d # c \/ t # s) => stream'[d][t] = stream[d][t]
    BY <1>1 DEF TypeOK
  <2>2. \A d \in Conns : d # c => phase'[d] = phase[d] /\ (Busy(d)' <=> Busy(d))
    BY <1>2, <2>1 DEF TypeOK, Busy
  <2>3. Busy(c)' => \/ Busy(c)
                    \/ task[c] = "running" /\ phase[c] \in {"open", "goaway"}
    <3>1. CASE stream[c][s] # "free"
      BY <3>1 DEF Busy
    <3>2. CASE stream'[c][s] = "free"
      BY <3>2, <2>1 DEF Busy
    <3> QED BY <3>1, <3>2, <1>3
  <2>4. c \notin H2 => \A t, u \in Streams :
                          stream'[c][t] # "free" /\ stream'[c][u] # "free" => t = u
    BY <1>3, <2>1 DEF StreamsFollowConn, Busy
  <2>5. phase'[c] \in {"upgraded", "failed", "panicked"} => c \notin H2 /\ ~Busy(c)'
    <3>1. CASE phase' = phase
      BY <3>1, <2>3 DEF StreamsFollowConn
    <3>2. CASE phase' # phase
      <4>1. c \notin H2 /\ stream[c][s] # "free" /\ stream'[c][s] = "free"
        BY <1>2, <3>2
      <4>2. \A t \in Streams : t # s => stream[c][t] = "free"
        BY <4>1 DEF StreamsFollowConn
      <4>3. ~Busy(c)'
        BY <4>1, <4>2, <2>1 DEF Busy
      <4> QED BY <4>1, <4>3
    <3> QED BY <3>1, <3>2
  <2>6. \A d \in Conns : d # c => (
           /\ task[d] \in {"none", "backlog", "refused"} => ~Busy(d)
           /\ task[d] = "finished" /\ Busy(d) => d \in H2 /\ gone[d]
           /\ phase[d] \in {"upgraded", "failed", "panicked"} => d \notin H2 /\ ~Busy(d)
           /\ d \notin H2 => \A t, u \in Streams :
                   stream[d][t] # "free" /\ stream[d][u] # "free" => t = u)'
    BY <1>1, <2>1, <2>2 DEF StreamsFollowConn
  <2>7. (/\ task[c] \in {"none", "backlog", "refused"} => ~Busy(c)
         /\ task[c] = "finished" /\ Busy(c) => c \in H2 /\ gone[c])'
    BY <1>1, <2>3 DEF StreamsFollowConn
  <2> QED BY <2>4, <2>5, <2>6, <2>7 DEF StreamsFollowConn
<1> QED BY <1>4, <1>5, <1>6

\* IInv is inductive.
LEMMA NextIInv == IInv /\ [Next]_vars => IInv'
<1> SUFFICES ASSUME IInv, [Next]_vars PROVE IInv'
  OBVIOUS
<1>1. CASE ListenerNext
  BY <1>1, ListenerStep
<1>2. ASSUME NEW c \in Conns, ConnNext(c) PROVE IInv'
  BY <1>2, ConnStep, StreamStep DEF ConnNext
<1>3. CASE UNCHANGED vars
  BY <1>3 DEF vars, IInv, TypeOK, MonitorCountsConnections, ShutdownOnlyOnSignal,
     QueueClosed, StreamsFollowConn, Busy, Graceful, Signalled
<1> QED BY <1>1, <1>2, <1>3 DEF Next, Terminating

\* Every reachable state satisfies the inductive invariant.
THEOREM Invariance == Spec => []IInv
  BY InitIInv, NextIInv, PTL DEF Spec

\* Type correctness of the listener, the signal task and the connections.
THEOREM TypeCorrect == Spec => []TypeOK
<1>1. IInv => TypeOK
  BY DEF IInv
<1> QED BY <1>1, Invariance, PTL

\* The task monitor's receivers are exactly the running connections and the
\* listener: what Server::serve awaits at its end is what the comment says.
THEOREM MonitorIsExact == Spec => []MonitorCountsConnections
<1>1. IInv => MonitorCountsConnections
  BY DEF IInv
<1> QED BY <1>1, Invariance, PTL

\* serve() never returns before the last connection it accepted has finished.
THEOREM ServeReturnsDrained == Spec => []ReturnMeansDrained
  BY ReturnedFromIInv, Invariance, PTL

\* Nothing but the end of the user's future makes the server shut down.
THEOREM NoSpontaneousShutdown == Spec => []ShutdownOnlyOnSignal
<1>1. IInv => ShutdownOnlyOnSignal
  BY DEF IInv
<1> QED BY <1>1, Invariance, PTL
-----------------------------------------------------------------------------
(* What a step may not do.                                                 *)

\* A connection task ends in Finish only.
LEMMA OnlyFinishEnds ==
    ASSUME TypeOK, Next, NEW c \in Conns, task[c] = "running", task'[c] # "running"
    PROVE  Finish(c)
<1> USE DEF lvars, cvars
<1>1. CASE ListenerNext
  BY <1>1 DEF ListenerNext, AcceptError, Wake, Break, Return, Abort, SignalEnds, DropSignal,
     Accept, AcceptTransientError, RefuseBacklog, TypeOK
<1>2. CASE Terminating
  BY <1>2 DEF Terminating, vars
<1>3. ASSUME NEW d \in Conns, NEW s \in Streams, StreamNext(d, s) PROVE FALSE
  BY <1>3 DEF StreamNext, Call, HandlerEnds, HandlerReturns, HandlerPanics, ResponseSent,
     BodyBreaks, Upgrade, StreamCancelled
<1>4. ASSUME NEW d \in Conns,
             Connect(d) \/ ClientGone(d) \/ TellShutdown(d) \/ GoawayAcked(d) \/ Finish(d)
      PROVE  Finish(c)
  <2>1. CASE Connect(d)
    BY <1>4, <2>1 DEF Connect, TypeOK
  <2>2. CASE ClientGone(d) \/ TellShutdown(d) \/ GoawayAcked(d)
    BY <2>2 DEF ClientGone, TellShutdown, GoawayAcked
  <2>3. CASE Finish(d)
    <3>1. d = c
      BY <2>3 DEF Finish, TypeOK
    <3> QED BY <2>3, <3>1
  <2> QED BY <1>4, <2>1, <2>2, <2>3
<1> QED BY <1>1, <1>2, <1>3, <1>4 DEF Next, ConnNext

\* A request in progress is never cut off by the server: neither the shutdown
\* nor the failure of an earlier response ends its connection.
THEOREM NothingInFlightIsCut == Spec => InFlightNotCut
<1>1. ASSUME IInv, [Next]_vars
      PROVE  [\A c \in Conns : task[c] = "running" /\ task'[c] = "finished" /\ Busy(c)
                => gone[c]]_vars
  <2> SUFFICES ASSUME Next, NEW c \in Conns,
                      task[c] = "running", task'[c] = "finished", Busy(c)
               PROVE  gone[c]
    BY <1>1
  <2>1. ConnReady(c)
    BY <1>1, OnlyFinishEnds DEF IInv, Finish
  <2> QED BY <1>1, <2>1 DEF ConnReady, IInv, StreamsFollowConn
<1> QED BY <1>1, Invariance, PTL DEF Spec, InFlightNotCut

\* A handler that was started is answered unless its client left; its panic
\* fails no connection.
THEOREM HandlerPanicsAreContained == Spec => HandlersAreContained
<1> DEFINE Contained(c, s) ==
       \/ stream'[c][s] \in {"answering", "caught"} /\ phase' = phase
       \/ gone[c]
<1>1. ASSUME IInv, [Next]_vars
      PROVE  [\A c \in Conns, s \in Streams :
                stream[c][s] = "handling" /\ stream'[c][s] # "handling"
                    => \/ stream'[c][s] \in {"answering", "caught"} /\ phase' = phase
                       \/ gone[c]]_vars
  <2> SUFFICES ASSUME Next, NEW c \in Conns, NEW s \in Streams,
                      stream[c][s] = "handling", stream'[c][s] # "handling"
               PROVE  Contained(c, s)
    BY <1>1
  <2> USE <1>1 DEF lvars, cvars, IInv
  <2>1. CASE ListenerNext
    BY <2>1 DEF ListenerNext, AcceptError, Wake, Break, Return, Abort, SignalEnds,
       DropSignal, Accept, AcceptTransientError
  <2>2. CASE Terminating
    BY <2>2 DEF Terminating, vars
  <2>3. ASSUME NEW d \in Conns,
               Connect(d) \/ ClientGone(d) \/ TellShutdown(d) \/ GoawayAcked(d)
        PROVE  FALSE
    BY <2>3 DEF Connect, ClientGone, TellShutdown, GoawayAcked
  <2>4. ASSUME NEW d \in Conns, Finish(d)
        PROVE  Contained(c, s)
    <3>1. d = c /\ Busy(c)
      BY <2>4 DEF Finish, TypeOK, Busy
    <3> QED BY <2>4, <3>1 DEF Finish, ConnReady, StreamsFollowConn
  <2>5. ASSUME NEW d \in Conns, NEW t \in Streams, StreamNext(d, t)
        PROVE  Contained(c, s)
    <3>1. d = c /\ t = s
      BY <2>5 DEF TypeOK, StreamNext, Call, HandlerEnds, HandlerReturns, HandlerPanics,
         ResponseSent, BodyBreaks, Upgrade, StreamCancelled, Release
    <3>2. CASE HandlerEnds(c, s)
      BY <3>2 DEF HandlerEnds, HandlerReturns, HandlerPanics, TypeOK
    <3>3. CASE StreamCancelled(c, s)
      BY <3>3 DEF StreamCancelled, StreamsFollowConn, Busy
    <3>4. CASE ~HandlerEnds(c, s) /\ ~StreamCancelled(c, s)
      BY <2>5, <3>1, <3>4 DEF StreamNext, Call, ResponseSent, BodyBreaks, Upgrade, Sending
    <3> QED BY <3>2, <3>3, <3>4
  <2> QED BY <2>1, <2>2, <2>3, <2>4, <2>5 DEF Next, ConnNext
<1> QED BY <1>1, Invariance, PTL DEF Spec, HandlersAreContained

-----------------------------------------------------------------------------
(* A shutdown under way: the part of its liveness that is safety.          *)

\* A connection that was told has had graceful_shutdown() called on it.
ToldIsClosing == \A c \in Conns : told[c] => phase[c] # "open"

\* Nothing opens a connection again.
LEMMA ToldStep == TypeOK /\ ToldIsClosing /\ [Next]_vars => ToldIsClosing'
<1> SUFFICES ASSUME TypeOK, ToldIsClosing, [Next]_vars, NEW c \in Conns, told'[c]
             PROVE  phase'[c] # "open"
  BY DEF ToldIsClosing
<1> USE DEF lvars, cvars, TypeOK, ToldIsClosing
<1>1. CASE ListenerNext
  BY <1>1 DEF ListenerNext, AcceptError, Wake, Break, Return, Abort, SignalEnds, DropSignal,
     Accept, AcceptTransientError
<1>2. CASE Terminating \/ UNCHANGED vars
  BY <1>2 DEF Terminating, vars
<1>3. ASSUME NEW d \in Conns,
             Connect(d) \/ ClientGone(d) \/ TellShutdown(d) \/ GoawayAcked(d) \/ Finish(d)
      PROVE  phase'[c] # "open"
  <2>1. CASE TellShutdown(d)
    BY <2>1 DEF TellShutdown
  <2>2. CASE ~TellShutdown(d)
    BY <1>3, <2>2 DEF Connect, ClientGone, GoawayAcked, Finish
  <2> QED BY <2>1, <2>2
<1>4. ASSUME NEW d \in Conns, NEW s \in Streams, StreamNext(d, s) PROVE phase'[c] # "open"
  BY <1>4 DEF StreamNext, Call, HandlerEnds, HandlerReturns, HandlerPanics, ResponseSent,
     BodyBreaks, Upgrade, StreamCancelled
<1> QED BY <1>1, <1>2, <1>3, <1>4 DEF Next, ConnNext

\* What a step does to a connection that was told and is still running.
ShrinksOnly(c) ==
    /\ phase[c] # "open" /\ told'[c] /\ task'[c] \in {"running", "finished"}
    /\ PhaseRank[phase'[c]] <= PhaseRank[phase[c]]
    /\ PhaseRank[phase[c]] < PhaseRank["goaway"] =>
        \A s \in Streams : RequestRank[stream'[c][s]] <= RequestRank[stream[c][s]]
    /\ ConnReady(c) => task'[c] = "finished" \/ ConnReady(c)'

\* A step that leaves the connection as it is.
LEMMA UntouchedShrinks ==
    ASSUME TypeOK, ToldIsClosing, NEW c \in Conns, told[c], task[c] = "running",
           task'[c] = task[c], told'[c] = told[c], phase'[c] = phase[c],
           stream'[c] = stream[c], gone[c] => gone'[c]
    PROVE  ShrinksOnly(c)
<1>1. PhaseRank[phase[c]] \in Nat /\ \A s \in Streams : RequestRank[stream[c][s]] \in Nat
  BY DEF TypeOK, PhaseRank, RequestRank
<1>2. Busy(c)' <=> Busy(c)
  BY DEF Busy
<1>3. ConnReady(c) => ConnReady(c)'
  BY <1>2 DEF ConnReady
<1> QED BY <1>1, <1>3 DEF ShrinksOnly, ToldIsClosing

\* A step of one of its own requests.
LEMMA RequestShrinks ==
    ASSUME IInv, ToldIsClosing, NEW c \in Conns, NEW s \in Streams, StreamNext(c, s),
           told[c], task[c] = "running"
    PROVE  ShrinksOnly(c)
<1> USE DEF IInv, TypeOK, lvars
<1>1. /\ UNCHANGED <<task, told, gone>>
      /\ \A t \in Streams : t # s => stream'[c][t] = stream[c][t]
      /\ stream'[c][s] \in {"free", "handling", "answering", "caught"}
  BY DEF StreamNext, Call, HandlerEnds, HandlerReturns, HandlerPanics, ResponseSent,
     BodyBreaks, Upgrade, StreamCancelled, Release
<1>2. phase[c] # "open"
  BY DEF ToldIsClosing
<1>3. \/ phase' = phase
      \/ phase[c] = "closing" /\ phase'[c] \in {"upgraded", "failed", "panicked"}
  BY <1>2 DEF StreamNext, Call, HandlerEnds, HandlerReturns, HandlerPanics, ResponseSent,
     BodyBreaks, Upgrade, StreamCancelled
<1>4. PhaseRank[phase'[c]] <= PhaseRank[phase[c]]
  BY <1>3 DEF PhaseRank
<1>5. PhaseRank[phase[c]] < PhaseRank["goaway"] =>
        RequestRank[stream'[c][s]] <= RequestRank[stream[c][s]]
  <2>1. PhaseRank[phase[c]] < PhaseRank["goaway"] => phase[c] # "goaway"
    BY DEF PhaseRank
  <2> QED
    BY <1>2, <2>1 DEF StreamNext, Call, HandlerEnds, HandlerReturns, HandlerPanics, ResponseSent,
       BodyBreaks, Upgrade, StreamCancelled, Release, Sending, RequestRank
<1>6. \A t \in Streams : RequestRank[stream[c][t]] \in Nat
  BY DEF RequestRank
<1>7. ConnReady(c) => ConnReady(c)'
  <2>1. CASE gone[c]
    BY <1>1, <2>1 DEF ConnReady
  <2>2. CASE phase[c] \in {"upgraded", "failed", "panicked"}
    BY <1>3, <2>2 DEF ConnReady
  <2>3. CASE phase[c] = "closing" /\ ~Busy(c)
    <3>1. stream[c][s] = "free"
      BY <2>3 DEF Busy
    <3>2. FALSE
      BY <2>3, <3>1 DEF StreamNext, Call, HandlerEnds, HandlerReturns, HandlerPanics,
         ResponseSent, BodyBreaks, Upgrade, StreamCancelled, Sending
    <3> QED BY <3>2
  <2> QED BY <2>1, <2>2, <2>3 DEF ConnReady
<1> QED BY <1>1, <1>2, <1>4, <1>5, <1>6, <1>7 DEF ShrinksOnly

\* Its own last step, and what else can happen to it.
LEMMA ConnShrinks ==
    ASSUME IInv, ToldIsClosing, NEW c \in Conns, told[c], task[c] = "running",
           TellShutdown(c) \/ Connect(c) \/ ClientGone(c) \/ GoawayAcked(c) \/ Finish(c)
    PROVE  ShrinksOnly(c)
<1> USE DEF IInv, TypeOK, lvars
<1>1. CASE ClientGone(c)
  BY <1>1, UntouchedShrinks DEF ClientGone
<1>2. CASE GoawayAcked(c)
  <2>1. /\ phase[c] = "goaway" /\ phase'[c] = "closing"
        /\ UNCHANGED <<task, told, stream, gone>>
    BY <1>2 DEF GoawayAcked
  <2>2. ConnReady(c) => ConnReady(c)'
    BY <2>1 DEF ConnReady
  <2> QED BY <2>1, <2>2 DEF ShrinksOnly, PhaseRank
<1>3. CASE Finish(c)
  <2>1. task'[c] = "finished" /\ phase'[c] = phase[c] /\ told' = told
        /\ \A s \in Streams : stream'[c][s] \in {stream[c][s], "free"}
    BY <1>3 DEF Finish, Idle
  <2>2. PhaseRank[phase[c]] \in Nat
        /\ \A s \in Streams : RequestRank[stream[c][s]] \in Nat /\ RequestRank["free"] = 0
    BY DEF PhaseRank, RequestRank
  <2> QED BY <2>1, <2>2 DEF ShrinksOnly, ToldIsClosing
<1> QED BY <1>1, <1>2, <1>3 DEF TellShutdown, Connect

\* Every step, seen from a connection that was told.
LEMMA StepShrinks ==
    ASSUME IInv, ToldIsClosing, Next, NEW c \in Conns, told[c], task[c] = "running"
    PROVE  ShrinksOnly(c)
<1> USE DEF IInv, TypeOK, lvars, cvars
<1>1. CASE ListenerNext
  BY <1>1, UntouchedShrinks DEF ListenerNext, AcceptError, Wake, Break, Return, Abort,
     SignalEnds, DropSignal, Accept, AcceptTransientError, RefuseBacklog
<1>2. CASE Terminating
  BY <1>2, UntouchedShrinks DEF Terminating, vars
<1>3. ASSUME NEW d \in Conns \ {c},
             Connect(d) \/ ClientGone(d) \/ TellShutdown(d) \/ GoawayAcked(d) \/ Finish(d)
      PROVE  ShrinksOnly(c)
  BY <1>3, UntouchedShrinks DEF Connect, ClientGone, TellShutdown, GoawayAcked, Finish
<1>4. ASSUME NEW d \in Conns \ {c}, NEW s \in Streams, StreamNext(d, s) PROVE ShrinksOnly(c)
  BY <1>4, UntouchedShrinks DEF StreamNext, Call, HandlerEnds, HandlerReturns, HandlerPanics,
     ResponseSent, BodyBreaks, Upgrade, StreamCancelled, Release
<1> QED BY <1>1, <1>2, <1>3, <1>4, ConnShrinks, RequestShrinks DEF Next, ConnNext

\* The channels: the first stays closed, and the second loses receivers only once
\* nothing is accepted any more.
LEMMA ChannelsShrink ==
    ASSUME IInv, Next
    PROVE  /\ ShuttingDown => ShuttingDown'
           /\ pc \notin {"select", "sleep"} => taskDone' \subseteq taskDone
<1> USE DEF lvars, cvars, ShuttingDown, Graceful
<1>1. CASE ListenerNext
  BY <1>1 DEF ListenerNext, AcceptError, Wake, Break, Return, Abort, SignalEnds, DropSignal,
     Accept, AcceptTransientError
<1>2. CASE Terminating
  BY <1>2 DEF Terminating, vars
<1>3. ASSUME NEW d \in Conns, ConnNext(d)
      PROVE  signal' = signal /\ taskDone' \subseteq taskDone
  BY <1>3 DEF ConnNext, Connect, ClientGone, TellShutdown, GoawayAcked, Finish, StreamNext,
     Call, HandlerEnds, HandlerReturns, HandlerPanics, ResponseSent, BodyBreaks, Upgrade,
     StreamCancelled
<1> QED BY <1>1, <1>2, <1>3 DEF Next

\* A connection that was told of the shutdown is on its way to the end.
LEMMA ToldAreClosing == Spec => []ToldIsClosing
<1>1. Init => ToldIsClosing
  BY DEF Init, ToldIsClosing
<1>2. IInv /\ ToldIsClosing /\ [Next]_vars => ToldIsClosing'
  BY ToldStep DEF IInv
<1> QED BY <1>1, <1>2, Invariance, PTL DEF Spec

\* A shutdown under way never turns back (hyper.rs:99-106 and 186-225): with the
\* fairness of Spec this is why it ends, for any connections and requests.
THEOREM ShutdownOnlyProgresses == Spec => DrainNeverTurnsBack
<1>1. ASSUME IInv, ToldIsClosing, [Next]_vars
      PROVE  [/\ ShuttingDown => ShuttingDown'
              /\ pc \notin {"select", "sleep"} => taskDone' \subseteq taskDone
              /\ \A c \in Conns : told[c] /\ task[c] = "running" => ShrinksOnly(c)]_vars
  BY <1>1, ChannelsShrink, StepShrinks
<1> QED BY <1>1, Invariance, ToldAreClosing, PTL DEF Spec, DrainNeverTurnsBack, ShrinksOnly

-----------------------------------------------------------------------------
(* The detailed server implements GracefulShutdown.                        *)

\* Safety part of PromiseKept: each step of the server is a step of the
\* promise or leaves what the promise speaks of unchanged.
THEOREM PromiseKeptSafely ==
    Spec => Promise!AInit /\ [][Promise!ANext]_(Promise!avars)
<1> USE DEF lvars, cvars, Graceful, Signalled
<1> DEFINE Live == {c \in Conns : task[c] = "running"}
<1>1. Init => Promise!AInit
  BY DEF Init, Promise!AInit
<1>2. ASSUME IInv, [Next]_vars
      PROVE  [Promise!ANext]_(Promise!avars)
  <2> USE <1>2 DEF Promise!avars
  <2>1. CASE UNCHANGED vars
    BY <2>1 DEF vars
  <2>2. CASE AcceptError \/ Wake \/ DropSignal
    BY <2>2 DEF AcceptError, Wake, DropSignal
  <2>3. CASE SignalEnds
    <3>1. Promise!ASignal
      BY <2>3 DEF SignalEnds, Promise!ASignal
    <3> QED BY <3>1 DEF Promise!ANext
  <2>4. CASE Break \/ Abort
    <3>1. Live' = Live
      BY <2>4 DEF Break, Abort, RefuseBacklog
    <3>2. Promise!AStop \/ Promise!ADrop
      BY <2>4, <3>1 DEF Break, Abort, ShuttingDown, Promise!AStop, Promise!ADrop
    <3> QED BY <3>2 DEF Promise!ANext
  <2>5. CASE Return
    <3>1. Live = {}
      BY <2>5 DEF Return, IInv, ShutdownOnlyOnSignal, MonitorCountsConnections
    <3>2. Promise!AReturn
      BY <2>5, <3>1 DEF Return, Promise!AReturn
    <3> QED BY <3>2 DEF Promise!ANext
  <2>6. ASSUME NEW c \in Conns, Accept(c) PROVE Promise!ANext
    <3>1. c \notin Live /\ Live' = Live \cup {c}
      BY <2>6 DEF Accept, IInv, TypeOK
    <3>2. Promise!AAccept(c)
      BY <2>6, <3>1 DEF Accept, Promise!AAccept
    <3> QED BY <3>2 DEF Promise!ANext
  <2>7. ASSUME NEW c \in Conns, Finish(c) PROVE Promise!ANext
    <3>1. c \in Live /\ Live' = Live \ {c}
      BY <2>7 DEF Finish, IInv, TypeOK
    <3>2. Promise!AFinish(c)
      BY <2>7, <3>1 DEF Finish, Promise!AFinish
    <3> QED BY <3>2 DEF Promise!ANext
  <2>8. ASSUME NEW c \in Conns,
               \/ AcceptTransientError(c) \/ Connect(c) \/ ClientGone(c)
               \/ TellShutdown(c) \/ GoawayAcked(c)
               \/ \E s \in Streams : StreamNext(c, s)
        PROVE  UNCHANGED Promise!avars
    <3>1. UNCHANGED <<pc, signal>>
      BY <2>8 DEF AcceptTransientError, Connect, ClientGone, TellShutdown, GoawayAcked,
         StreamNext, Call, HandlerEnds, HandlerReturns, HandlerPanics, ResponseSent,
         BodyBreaks, Upgrade, StreamCancelled
    <3>2. \/ task' = task
          \/ task[c] \in {"none", "backlog"}
             /\ \E v \in {"backlog", "refused"} : task' = [task EXCEPT ![c] = v]
      BY <2>8 DEF AcceptTransientError, Connect, ClientGone, TellShutdown, GoawayAcked,
         StreamNext, Call, HandlerEnds, HandlerReturns, HandlerPanics, ResponseSent,
         BodyBreaks, Upgrade, StreamCancelled
    <3>3. Live' = Live
      BY <3>2 DEF IInv, TypeOK
    <3> QED BY <3>1, <3>3
  <2> QED BY <2>1, <2>2, <2>3, <2>4, <2>5, <2>6, <2>7, <2>8
          DEF Next, ListenerNext, ConnNext, Terminating
<1> QED BY <1>1, <1>2, Invariance, PTL DEF Spec
=============================================================================
