----------------------------- MODULE NodeClient -----------------------------
(***************************************************************************)
(* The WebSocket connection of one node: the Client of the node with its   *)
(* reconnect loops and pumps, the dashboard's reconnect button, Start and  *)
(* Stop, and what the server's registry does about it.                     *)
(*                                                                         *)
(* Connections are drawn from a finite set and reused when nothing refers  *)
(* to them any more.  The reconnect loop that the loss of connection c     *)
(* starts is named c: c is lost once.  There is no time: delays, sleeps    *)
(* and read deadlines end at any moment.  The process ends after Close, or *)
(* when its first dial has failed; the model lets its goroutines go on.    *)
(***************************************************************************)
EXTENDS Naturals, FiniteSets

CONSTANTS
  Conn, NoConn,  \* connections
  Click,         \* calls of Reconnect, by the dashboard
  Main,          \* the goroutine of main
  Msg,           \* messages the node may have under way
  SendBuffer,    \* capacity of a send channel
  MaxEvents      \* bound of the model: cuts, failed dials, restarts, clicks

ASSUME ConnAssumption == NoConn \notin Conn
ASSUME CallerAssumption == Conn \cap Click = {} /\ Main \notin Conn \cup Click
ASSUME BoundAssumption == SendBuffer \in Nat /\ MaxEvents \in Nat

VARIABLES
  conn,           \* Client.conn
  send,           \* Client.send, named by the connection it belongs to
  connCancel,     \* Client.connCancel, named by the connection it cancels
  stopReconnect,  \* Client.stopReconnect, named by the loop it cancels
  pc,             \* pc[p]: where p is in connect, or in the loop before it
  got,            \* got[p]: the connection p has dialed
  stopped,        \* the loops whose context is cancelled
  cancelled,      \* the connections whose context is cancelled
  fired,          \* the connections whose onDisconnect has run
  reading,        \* the connections with a running readPump
  writing,        \* the connections with a running writePump
  up,             \* the connections that carry data both ways
  srv,            \* srv[c]: the server's end
  registered,     \* Hub.clients for this node
  msg,            \* msg[m]: the connection in whose channel m is, if any
  stage,          \* of the node process
  events

client == <<conn, send, connCancel, stopReconnect>>
callers == <<pc, got, stopped>>
pumps == <<cancelled, fired, reading, writing>>
server == <<srv, registered>>
vars == <<client, callers, pumps, up, server, msg, stage, events>>

Caller == Conn \cup Click \cup {Main}
PC == {"idle", "waiting", "dialing", "dialed", "done", "failed"}

Init ==
  /\ conn = NoConn /\ send = NoConn /\ connCancel = NoConn /\ stopReconnect = NoConn
  /\ pc = [p \in Caller |-> IF p = Main THEN "dialing" ELSE "idle"]
  /\ got = [p \in Caller |-> NoConn]
  /\ stopped = {} /\ cancelled = {} /\ fired = {}
  /\ reading = {} /\ writing = {} /\ up = {}
  /\ srv = [c \in Conn |-> "none"] /\ registered = NoConn
  /\ msg = [m \in Msg |-> NoConn]
  /\ stage = "starting"
  /\ events = 0

\* parentCtx is cancelled.
ParentDone == stage \in {"stopping", "closed"}

Event == events < MaxEvents /\ events' = events + 1
Goto(p, l) == pc' = [pc EXCEPT ![p] = l]

-----------------------------------------------------------------------------
(* connect, by main, by a reconnect loop or by Reconnect.                  *)

\* Nothing refers to c: its identity can be used again.
Free(c) ==
  /\ c \notin {conn, send, connCancel, stopReconnect}
  /\ c \notin up \cup reading \cup writing
  /\ pc[c] = "idle" /\ srv[c] = "none"
  /\ \A p \in Caller : got[p] # c

\* The server has accepted the upgrade of a new connection c.
Open(c) ==
  /\ Free(c) /\ c = CHOOSE d \in Conn : Free(d)
  /\ srv' = [srv EXCEPT ![c] = "accepted"]
  /\ stopped' = stopped \ {c}
  /\ cancelled' = cancelled \ {c}
  /\ fired' = fired \ {c}
  /\ msg' = [m \in Msg |-> IF msg[m] = c THEN NoConn ELSE msg[m]]
  /\ UNCHANGED <<reading, writing, registered>>

Dial(p) ==
  /\ pc[p] = "dialing"
  /\ \E c \in Conn : Open(c) /\ up' = up \cup {c} /\ got' = [got EXCEPT ![p] = c]
  /\ Goto(p, "dialed")
  /\ UNCHANGED <<client, stage, events>>

\* A mutant of DialFails: the loop gives up.
DialFailsForGood(p) ==
  /\ pc[p] = "dialing" /\ Event
  /\ \/ \E c \in Conn : Open(c)
     \/ UNCHANGED <<stopped, pumps, server, msg>>
  /\ Goto(p, IF p \in Conn THEN "idle" ELSE "failed")
  /\ UNCHANGED <<client, got, up, stage>>

\* The server does not answer, or its answer is lost.  A loop tries again.
DialFails(p) ==
  /\ pc[p] = "dialing" /\ Event
  /\ \/ \E c \in Conn : Open(c)
     \/ UNCHANGED <<stopped, pumps, server, msg>>
  /\ Goto(p, IF p \in Conn THEN "waiting" ELSE "failed")
  /\ UNCHANGED <<client, got, up, stage>>

\* A mutant of StopLoop: the loop goes on.
ForgetLoop ==
  /\ UNCHANGED stopped
  /\ stopReconnect' = NoConn

StopLoop ==
  /\ stopped' = stopped \cup ({stopReconnect} \ {NoConn})
  /\ stopReconnect' = NoConn

\* The rest of connect: the new state under the mutex, then the pumps, which
\* may be scheduled any time later.
Establish(p) ==
  /\ pc[p] = "dialed"
  /\ StopLoop
  /\ conn' = got[p] /\ send' = got[p] /\ connCancel' = got[p]
  /\ reading' = reading \cup {got[p]}
  /\ writing' = writing \cup {got[p]}
  /\ got' = [got EXCEPT ![p] = NoConn]
  /\ Goto(p, IF p \in Conn THEN "idle" ELSE "done")
  /\ stage' = IF p = Main THEN "running" ELSE stage
  /\ UNCHANGED <<cancelled, fired, up, server, msg, events>>

-----------------------------------------------------------------------------
(* The pumps and the end of a connection.                                  *)

\* A mutant of OnDisconnect: the socket stays open.
OnDisconnectNoClose(c) ==
  /\ fired' = fired \cup {c}
  /\ cancelled' = cancelled \cup {c}
  /\ UNCHANGED up
  /\ IF c \notin fired /\ conn = c
     THEN /\ conn' = NoConn
          /\ IF ParentDone THEN UNCHANGED <<stopReconnect, pc>>
             ELSE stopReconnect' = c /\ Goto(c, "waiting")
     ELSE UNCHANGED <<conn, stopReconnect, pc>>

\* Once for each connection; only the current one is reconnected.
OnDisconnect(c) ==
  /\ fired' = fired \cup {c}
  /\ cancelled' = cancelled \cup {c}
  /\ up' = up \ {c}
  /\ IF c \notin fired /\ conn = c
     THEN /\ conn' = NoConn
          /\ IF ParentDone THEN UNCHANGED <<stopReconnect, pc>>
             ELSE stopReconnect' = c /\ Goto(c, "waiting")
     ELSE UNCHANGED <<conn, stopReconnect, pc>>

ReadPumpEnds(c) ==
  /\ c \in reading \ up
  /\ reading' = reading \ {c}
  /\ OnDisconnect(c)
  /\ UNCHANGED <<send, connCancel, got, stopped, writing, server, msg, stage, events>>

\* A mutant of WritePumpEnds: the pump does not listen to its context.
WritePumpIgnoresContext(c) ==
  /\ c \in writing \ up
  /\ writing' = writing \ {c}
  /\ OnDisconnect(c)
  /\ UNCHANGED <<send, connCancel, got, stopped, reading, server, msg, stage, events>>

WritePumpEnds(c) ==
  /\ c \in writing /\ (c \notin up \/ c \in cancelled \/ ParentDone)
  /\ writing' = writing \ {c}
  /\ OnDisconnect(c)
  /\ UNCHANGED <<send, connCancel, got, stopped, reading, server, msg, stage, events>>

\* A reconnect loop looks at its context before and while it waits.
WaitEnds(c) ==
  /\ pc[c] = "waiting"
  /\ Goto(c, IF ParentDone \/ c \in stopped THEN "idle" ELSE "dialing")
  /\ UNCHANGED <<client, got, stopped, pumps, up, server, msg, stage, events>>

\* What Reconnect and Close do to the current connection.
DropConn ==
  /\ StopLoop
  /\ cancelled' = cancelled \cup ({connCancel} \ {NoConn})
  /\ up' = up \ {conn}
  /\ conn' = NoConn

Reconnect(k) ==
  /\ pc[k] = "idle" /\ stage \in {"starting", "running"} /\ pc[Main] # "failed"
  /\ Event
  /\ DropConn
  /\ Goto(k, "dialing")
  /\ UNCHANGED <<send, connCancel, got, fired, reading, writing, server, msg, stage>>

\* main: a signal cancels the context; Stop then closes the client.
Shutdown ==
  /\ stage = "running"
  /\ stage' = "stopping"
  /\ UNCHANGED <<client, callers, pumps, up, server, msg, events>>

Close ==
  /\ stage = "stopping"
  /\ stage' = "closed"
  /\ DropConn
  /\ connCancel' = NoConn
  /\ UNCHANGED <<send, pc, got, fired, reading, writing, server, msg, events>>

-----------------------------------------------------------------------------
(* Messages to the server.                                                 *)

\* The channel is the one of the last connection, whatever became of it; a
\* message that finds it full, or no channel, is refused.
SendJSON(m) ==
  /\ msg[m] = NoConn /\ send # NoConn
  /\ Cardinality({n \in Msg : msg[n] = send}) < SendBuffer
  /\ msg' = [msg EXCEPT ![m] = send]
  /\ UNCHANGED <<client, callers, pumps, up, server, stage, events>>

\* The write pump and the server's read pump.
Deliver(m) ==
  /\ msg[m] \in writing \cap up /\ srv[msg[m]] = "serving"
  /\ msg' = [msg EXCEPT ![m] = NoConn]
  /\ UNCHANGED <<client, callers, pumps, up, server, stage, events>>

-----------------------------------------------------------------------------
(* The server and the network.                                             *)

\* A mutant of Register: the newer connection replaces the older.
RegisterReplaces(c) ==
  /\ srv[c] = "accepted"
  /\ registered' = c /\ srv' = [srv EXCEPT ![c] = "serving"]
  /\ UNCHANGED <<client, callers, pumps, up, msg, stage, events>>

Register(c) ==
  /\ srv[c] = "accepted"
  /\ \/ /\ registered = NoConn
        /\ registered' = c /\ srv' = [srv EXCEPT ![c] = "serving"]
        /\ UNCHANGED up
     \/ /\ registered # NoConn
        /\ up' = up \ {c} /\ srv' = [srv EXCEPT ![c] = "none"]
        /\ UNCHANGED registered
  /\ UNCHANGED <<client, callers, pumps, msg, stage, events>>

\* A mutant of Unregister: the entry stays.
UnregisterNothing(c) ==
  /\ srv[c] = "serving" /\ c \notin up
  /\ srv' = [srv EXCEPT ![c] = "none"]
  /\ UNCHANGED <<registered, client, callers, pumps, up, msg, stage, events>>

\* The server's read pump has ended; the entry is deleted by node id.
Unregister(c) ==
  /\ srv[c] = "serving" /\ c \notin up
  /\ registered' = NoConn /\ srv' = [srv EXCEPT ![c] = "none"]
  /\ UNCHANGED <<client, callers, pumps, up, msg, stage, events>>

Cut(c) ==
  /\ c \in up /\ Event
  /\ up' = up \ {c}
  /\ UNCHANGED <<client, callers, pumps, server, msg, stage>>

ServerRestart ==
  /\ Event
  /\ up' = {}
  /\ srv' = [c \in Conn |-> "none"] /\ registered' = NoConn
  /\ UNCHANGED <<client, callers, pumps, msg, stage>>

-----------------------------------------------------------------------------

Connect(p) == Dial(p) \/ Establish(p)

Next ==
  \/ \E p \in Caller : Connect(p) \/ DialFails(p)
  \/ \E c \in Conn : \/ ReadPumpEnds(c) \/ WritePumpEnds(c) \/ WaitEnds(c)
                     \/ Register(c) \/ Unregister(c) \/ Cut(c)
  \/ \E k \in Click : Reconnect(k)
  \/ \E m \in Msg : SendJSON(m) \/ Deliver(m)
  \/ Shutdown \/ Close
  \/ ServerRestart

Spec == Init /\ [][Next]_vars

\* Goroutines go on and the server notices a dead connection by its read
\* deadline.  Nothing is assumed of clicks, signals and faults.
Fairness ==
  /\ \A p \in Caller : WF_vars(Connect(p))
  /\ \A c \in Conn : /\ WF_vars(ReadPumpEnds(c)) /\ WF_vars(WritePumpEnds(c))
                     /\ WF_vars(WaitEnds(c))
                     /\ WF_vars(Register(c)) /\ WF_vars(Unregister(c))
  /\ \A m \in Msg : WF_vars(Deliver(m))

FairSpec == Spec /\ Fairness

-----------------------------------------------------------------------------
(* Properties.                                                             *)

\* Every variable has its type.
TypeOK ==
  /\ {conn, send, connCancel, stopReconnect, registered} \subseteq Conn \cup {NoConn}
  /\ pc \in [Caller -> PC]
  /\ got \in [Caller -> Conn \cup {NoConn}]
  /\ stopped \cup cancelled \cup fired \cup reading \cup writing \cup up \subseteq Conn
  /\ srv \in [Conn -> {"none", "accepted", "serving"}]
  /\ msg \in [Msg -> Conn \cup {NoConn}]
  /\ stage \in {"starting", "running", "stopping", "closed"}
  /\ events \in 0..MaxEvents

LoopRuns(c) == pc[c] \in {"waiting", "dialing", "dialed"}

\* At most one reconnect loop runs that has not been told to stop, it is the
\* one that stopReconnect would stop, and no connection is current meanwhile.
OneLoop ==
  \A c \in Conn \ stopped : LoopRuns(c) => stopReconnect = c /\ conn = NoConn

\* The server's registry names the connection it serves, and no other is
\* served: the end of one connection never removes the entry of another.
RegistryMatches ==
  \A c \in Conn : srv[c] = "serving" <=> registered = c

\* A running node is connected and will notice the end of its connection, or
\* somebody is connecting it, unless a dial of Reconnect has failed.
NeverIdle ==
  stage = "running" /\ (\A k \in Click : pc[k] # "failed") =>
    \/ conn \in (reading \cup writing) \ fired
    \/ \E c \in Conn \ stopped : LoopRuns(c)
    \/ \E k \in Click : pc[k] \in {"dialing", "dialed"}

Online == conn # NoConn /\ send = conn /\ registered = conn /\ conn \in up

\* A running node is online at last and stays so, when nothing is cut any
\* more: the server serves the connection the node sends on.
BackOnline == <>[](Online \/ stage # "running")

\* So it is if nobody uses the dashboard's button.
BackOnlineAlone == [](\A k \in Click : pc[k] = "idle") => BackOnline

\* "Reconnect closes the current connection and establishes a new one": so it
\* would be if the button is used and no dial of it fails.  But it may race
\* with a reconnect loop that it has stopped too late: two connections, of
\* which the server serves the one that the node does not send on.
BackOnlineClicked == [](\A k \in Click : pc[k] # "failed") => BackOnline

\* After a shutdown every connection is closed, whoever was dialing.
ClosesAtLast == [](ParentDone => <>(up = {}))

\* A message the channel of a connection has accepted is delivered, unless
\* that connection ends.
AcceptedIsDelivered ==
  \A m \in Msg, c \in Conn : (msg[m] = c /\ c \in up) ~> (msg[m] # c \/ c \notin up)
=============================================================================
