-------------------------- MODULE NodeClientProofs --------------------------
(***************************************************************************)
(* Theorems about a node's connection, for any number of connections,      *)
(* clicks and faults.                                                      *)
(***************************************************************************)
EXTENDS NodeClient, TLAPS

\* A connection that a caller has dialed is nobody else's, and new.
DialedIsNew ==
  \A p \in Caller :
    /\ got[p] # NoConn <=> pc[p] = "dialed"
    /\ got[p] # NoConn => /\ got[p] \notin fired \cup reading \cup writing
                          /\ \A q \in Caller : got[q] = got[p] => q = p

\* A loop is stopped, or can be, only after its connection was lost.
StopAfterLoss ==
  /\ stopped \subseteq fired
  /\ stopReconnect \in fired \cup {NoConn}

CurrentIsWatched == conn # NoConn => conn \in (reading \cup writing) \ fired

NodeInv ==
  /\ TypeOK
  /\ OneLoop
  /\ RegistryMatches
  /\ DialedIsNew
  /\ StopAfterLoss
  /\ CurrentIsWatched
  /\ NeverIdle

USE ConnAssumption, CallerAssumption, BoundAssumption
    DEF client, callers, pumps, server, Caller, PC

LEMMA NodeInvInit == Init => NodeInv
  BY DEF Init, NodeInv, TypeOK, OneLoop, LoopRuns, RegistryMatches, DialedIsNew,
         StopAfterLoss, CurrentIsWatched, NeverIdle

\* A dial that succeeds, with a connection nothing refers to.
LEMMA DialKeeps ==
  ASSUME NodeInv, NEW p \in Caller, Dial(p)
  PROVE  NodeInv'
  <1> USE DEF Dial, Open, Free, Goto
  <1>1. TypeOK'
    BY DEF NodeInv, TypeOK
  <1>2. OneLoop'
    BY DEF NodeInv, TypeOK, OneLoop, LoopRuns
  <1>3. RegistryMatches'
    BY DEF NodeInv, TypeOK, RegistryMatches
  <1>4. DialedIsNew'
    BY DEF NodeInv, TypeOK, DialedIsNew
  <1>5. StopAfterLoss'
    BY DEF NodeInv, TypeOK, StopAfterLoss
  <1>6. CurrentIsWatched'
    BY DEF NodeInv, TypeOK, CurrentIsWatched
  <1>7. NeverIdle'
    BY DEF NodeInv, TypeOK, NeverIdle, LoopRuns
  <1> QED
    BY <1>1, <1>2, <1>3, <1>4, <1>5, <1>6, <1>7 DEF NodeInv

\* A dial that fails, accepted by the server or not.
LEMMA DialFailsKeeps ==
  ASSUME NodeInv, NEW p \in Caller, DialFails(p)
  PROVE  NodeInv'
  <1> USE DEF DialFails, Open, Free, Goto, Event
  <1>1. TypeOK'
    BY DEF NodeInv, TypeOK
  <1>2. OneLoop'
    BY DEF NodeInv, TypeOK, OneLoop, LoopRuns
  <1>3. RegistryMatches'
    BY DEF NodeInv, TypeOK, RegistryMatches
  <1>4. DialedIsNew'
    BY DEF NodeInv, TypeOK, DialedIsNew
  <1>5. StopAfterLoss'
    BY DEF NodeInv, TypeOK, StopAfterLoss
  <1>6. CurrentIsWatched'
    BY DEF NodeInv, TypeOK, CurrentIsWatched
  <1>7. NeverIdle'
    BY DEF NodeInv, TypeOK, NeverIdle, LoopRuns
  <1> QED
    BY <1>1, <1>2, <1>3, <1>4, <1>5, <1>6, <1>7 DEF NodeInv

\* The loop that could be stopped is, and the new connection is current.
LEMMA EstablishKeeps ==
  ASSUME NodeInv, NEW p \in Caller, Establish(p)
  PROVE  NodeInv'
  <1> USE DEF Establish, StopLoop, Goto
  <1>1. TypeOK'
    BY DEF NodeInv, TypeOK, DialedIsNew
  <1>2. OneLoop'
    BY DEF NodeInv, TypeOK, OneLoop, LoopRuns
  <1>3. RegistryMatches'
    BY DEF NodeInv, TypeOK, RegistryMatches
  <1>4. DialedIsNew'
    BY DEF NodeInv, TypeOK, DialedIsNew
  <1>5. StopAfterLoss'
    BY DEF NodeInv, TypeOK, StopAfterLoss
  <1>6. CurrentIsWatched'
    BY DEF NodeInv, TypeOK, CurrentIsWatched, DialedIsNew
  <1>7. NeverIdle'
    BY DEF NodeInv, TypeOK, NeverIdle, LoopRuns, DialedIsNew
  <1> QED
    BY <1>1, <1>2, <1>3, <1>4, <1>5, <1>6, <1>7 DEF NodeInv

\* If the lost connection is the current one, it had no loop, and gets one.
LEMMA ReadPumpKeeps ==
  ASSUME NodeInv, NEW c \in Conn, ReadPumpEnds(c)
  PROVE  NodeInv'
  <1> USE DEF ReadPumpEnds, OnDisconnect, ParentDone, Goto
  <1>1. TypeOK'
    BY DEF NodeInv, TypeOK
  <1>2. OneLoop'
    BY DEF NodeInv, TypeOK, OneLoop, LoopRuns
  <1>3. RegistryMatches'
    BY DEF NodeInv, TypeOK, RegistryMatches
  <1>4. DialedIsNew'
    BY DEF NodeInv, TypeOK, DialedIsNew, OneLoop, LoopRuns, StopAfterLoss
  <1>5. StopAfterLoss'
    BY DEF NodeInv, TypeOK, StopAfterLoss
  <1>6. CurrentIsWatched'
    BY DEF NodeInv, TypeOK, CurrentIsWatched
  <1>7. NeverIdle'
    BY DEF NodeInv, TypeOK, NeverIdle, LoopRuns, OneLoop, StopAfterLoss, CurrentIsWatched
  <1> QED
    BY <1>1, <1>2, <1>3, <1>4, <1>5, <1>6, <1>7 DEF NodeInv

LEMMA WritePumpKeeps ==
  ASSUME NodeInv, NEW c \in Conn, WritePumpEnds(c)
  PROVE  NodeInv'
  <1> USE DEF WritePumpEnds, OnDisconnect, ParentDone, Goto
  <1>1. TypeOK'
    BY DEF NodeInv, TypeOK
  <1>2. OneLoop'
    BY DEF NodeInv, TypeOK, OneLoop, LoopRuns
  <1>3. RegistryMatches'
    BY DEF NodeInv, TypeOK, RegistryMatches
  <1>4. DialedIsNew'
    BY DEF NodeInv, TypeOK, DialedIsNew, OneLoop, LoopRuns, StopAfterLoss
  <1>5. StopAfterLoss'
    BY DEF NodeInv, TypeOK, StopAfterLoss
  <1>6. CurrentIsWatched'
    BY DEF NodeInv, TypeOK, CurrentIsWatched
  <1>7. NeverIdle'
    BY DEF NodeInv, TypeOK, NeverIdle, LoopRuns, OneLoop, StopAfterLoss, CurrentIsWatched
  <1> QED
    BY <1>1, <1>2, <1>3, <1>4, <1>5, <1>6, <1>7 DEF NodeInv

LEMMA WaitKeeps ==
  ASSUME NodeInv, NEW c \in Conn, WaitEnds(c)
  PROVE  NodeInv'
  <1> USE DEF WaitEnds, ParentDone, Goto
  <1>1. TypeOK'
    BY DEF NodeInv, TypeOK
  <1>2. OneLoop'
    BY DEF NodeInv, TypeOK, OneLoop, LoopRuns
  <1>3. RegistryMatches'
    BY DEF NodeInv, TypeOK, RegistryMatches
  <1>4. DialedIsNew'
    BY DEF NodeInv, TypeOK, DialedIsNew
  <1>5. StopAfterLoss'
    BY DEF NodeInv, TypeOK, StopAfterLoss
  <1>6. CurrentIsWatched'
    BY DEF NodeInv, TypeOK, CurrentIsWatched
  <1>7. NeverIdle'
    BY DEF NodeInv, TypeOK, NeverIdle, LoopRuns
  <1> QED
    BY <1>1, <1>2, <1>3, <1>4, <1>5, <1>6, <1>7 DEF NodeInv

\* Nobody is connected any more, but the click is on its way.
LEMMA ReconnectKeeps ==
  ASSUME NodeInv, NEW k \in Click, Reconnect(k)
  PROVE  NodeInv'
  <1> USE DEF Reconnect, DropConn, StopLoop, Goto, Event
  <1>1. TypeOK'
    BY DEF NodeInv, TypeOK
  <1>2. OneLoop'
    BY DEF NodeInv, TypeOK, OneLoop, LoopRuns
  <1>3. RegistryMatches'
    BY DEF NodeInv, TypeOK, RegistryMatches
  <1>4. DialedIsNew'
    BY DEF NodeInv, TypeOK, DialedIsNew
  <1>5. StopAfterLoss'
    BY DEF NodeInv, TypeOK, StopAfterLoss
  <1>6. CurrentIsWatched'
    BY DEF NodeInv, TypeOK, CurrentIsWatched
  <1>7. NeverIdle'
    BY DEF NodeInv, TypeOK, NeverIdle, LoopRuns
  <1> QED
    BY <1>1, <1>2, <1>3, <1>4, <1>5, <1>6, <1>7 DEF NodeInv

LEMMA CloseKeeps ==
  ASSUME NodeInv, Close
  PROVE  NodeInv'
  <1> USE DEF Close, DropConn, StopLoop
  <1>1. TypeOK'
    BY DEF NodeInv, TypeOK
  <1>2. OneLoop'
    BY DEF NodeInv, TypeOK, OneLoop, LoopRuns
  <1>3. RegistryMatches'
    BY DEF NodeInv, TypeOK, RegistryMatches
  <1>4. DialedIsNew'
    BY DEF NodeInv, TypeOK, DialedIsNew
  <1>5. StopAfterLoss'
    BY DEF NodeInv, TypeOK, StopAfterLoss
  <1>6. CurrentIsWatched'
    BY DEF NodeInv, TypeOK, CurrentIsWatched
  <1>7. NeverIdle'
    BY DEF NodeInv, TypeOK, NeverIdle, LoopRuns
  <1> QED
    BY <1>1, <1>2, <1>3, <1>4, <1>5, <1>6, <1>7 DEF NodeInv

LEMMA RegisterKeeps ==
  ASSUME NodeInv, NEW c \in Conn, Register(c)
  PROVE  NodeInv'
  <1> USE DEF Register
  <1>1. TypeOK'
    BY DEF NodeInv, TypeOK
  <1>2. OneLoop'
    BY DEF NodeInv, TypeOK, OneLoop, LoopRuns
  <1>3. RegistryMatches'
    BY DEF NodeInv, TypeOK, RegistryMatches
  <1>4. DialedIsNew'
    BY DEF NodeInv, TypeOK, DialedIsNew
  <1>5. StopAfterLoss'
    BY DEF NodeInv, TypeOK, StopAfterLoss
  <1>6. CurrentIsWatched'
    BY DEF NodeInv, TypeOK, CurrentIsWatched
  <1>7. NeverIdle'
    BY DEF NodeInv, TypeOK, NeverIdle, LoopRuns
  <1> QED
    BY <1>1, <1>2, <1>3, <1>4, <1>5, <1>6, <1>7 DEF NodeInv

LEMMA UnregisterKeeps ==
  ASSUME NodeInv, NEW c \in Conn, Unregister(c)
  PROVE  NodeInv'
  <1> USE DEF Unregister
  <1>1. TypeOK'
    BY DEF NodeInv, TypeOK
  <1>2. OneLoop'
    BY DEF NodeInv, TypeOK, OneLoop, LoopRuns
  <1>3. RegistryMatches'
    BY DEF NodeInv, TypeOK, RegistryMatches
  <1>4. DialedIsNew'
    BY DEF NodeInv, TypeOK, DialedIsNew
  <1>5. StopAfterLoss'
    BY DEF NodeInv, TypeOK, StopAfterLoss
  <1>6. CurrentIsWatched'
    BY DEF NodeInv, TypeOK, CurrentIsWatched
  <1>7. NeverIdle'
    BY DEF NodeInv, TypeOK, NeverIdle, LoopRuns
  <1> QED
    BY <1>1, <1>2, <1>3, <1>4, <1>5, <1>6, <1>7 DEF NodeInv

\* The other steps touch nothing the invariant speaks of but its types.
LEMMA OtherStepKeeps ==
  ASSUME NodeInv,
         \/ UNCHANGED vars
         \/ Shutdown \/ ServerRestart
         \/ \E c \in Conn : Cut(c)
         \/ \E m \in Msg : SendJSON(m) \/ Deliver(m)
  PROVE  NodeInv'
  <1> USE DEF Shutdown, ServerRestart, Cut, SendJSON, Deliver, Event, vars
  <1>1. TypeOK'
    <2>1. CASE \E m \in Msg : SendJSON(m)
      BY <2>1 DEF NodeInv, TypeOK
    <2>2. CASE \E m \in Msg : Deliver(m)
      BY <2>2 DEF NodeInv, TypeOK
    <2>3. CASE ServerRestart
      BY <2>3 DEF NodeInv, TypeOK
    <2>4. CASE UNCHANGED vars \/ Shutdown \/ \E c \in Conn : Cut(c)
      BY <2>4 DEF NodeInv, TypeOK
    <2> QED
      BY <2>1, <2>2, <2>3, <2>4
  <1>2. OneLoop'
    BY DEF NodeInv, TypeOK, OneLoop, LoopRuns
  <1>3. RegistryMatches'
    BY DEF NodeInv, TypeOK, RegistryMatches
  <1>4. DialedIsNew'
    BY DEF NodeInv, TypeOK, DialedIsNew
  <1>5. StopAfterLoss'
    BY DEF NodeInv, TypeOK, StopAfterLoss
  <1>6. CurrentIsWatched'
    BY DEF NodeInv, TypeOK, CurrentIsWatched
  <1>7. NeverIdle'
    BY DEF NodeInv, TypeOK, NeverIdle, LoopRuns
  <1> QED
    BY <1>1, <1>2, <1>3, <1>4, <1>5, <1>6, <1>7 DEF NodeInv

\* NodeInv is inductive.  The parts need each other: that the loss of the
\* current connection starts the only loop rests on there being none while a
\* connection is current.
THEOREM NodeInvariant == Spec => []NodeInv
  <1>1. ASSUME NodeInv, [Next]_vars PROVE NodeInv'
    BY <1>1, DialKeeps, DialFailsKeeps, EstablishKeeps, ReadPumpKeeps, WritePumpKeeps,
       WaitKeeps, ReconnectKeeps, CloseKeeps, RegisterKeeps, UnregisterKeeps,
       OtherStepKeeps
       DEF Next, Connect
  <1> QED
    BY NodeInvInit, <1>1, PTL DEF Spec

\* Every variable of the connection keeps its type, for any number of
\* connections, clicks and faults.
THEOREM NodeTypes == Spec => []TypeOK
  <1>1. NodeInv => TypeOK
    BY DEF NodeInv
  <1> QED
    BY NodeInvariant, <1>1, PTL

\* Client.connect, onDisconnect and Reconnect never leave two reconnect loops
\* running that have not been told to stop.
THEOREM OneLoopAtATime == Spec => []OneLoop
  <1>1. NodeInv => OneLoop
    BY DEF NodeInv
  <1> QED
    BY NodeInvariant, <1>1, PTL

\* Hub.Unregister deletes by node id, but never another connection's entry.
THEOREM RegistryIsExact == Spec => []RegistryMatches
  <1>1. NodeInv => RegistryMatches
    BY DEF NodeInv
  <1> QED
    BY NodeInvariant, <1>1, PTL

\* A running node is never without a connection and without somebody who
\* connects it, unless a click has failed.
THEOREM NodeIsNeverIdle == Spec => []NeverIdle
  <1>1. NodeInv => NeverIdle
    BY DEF NodeInv
  <1> QED
    BY NodeInvariant, <1>1, PTL
=============================================================================
