--------------------------- MODULE SessionProofs ----------------------------
(***************************************************************************)
(* The server against clients that do what they like, for any number of    *)
(* connections and addresses and any limit: its type, the write lock, the  *)
(* count of connections, and what Stop leaves in the file; then, from      *)
(* "Clients of the repository" on, the clients the connector has.          *)
(***************************************************************************)
EXTENDS Session, SequenceTheorems, FiniteSetTheorems, TLAPS

Message == [type : {"answer"}, ok : BOOLEAN] \union [type : {"request"}, req : Request]

(* Phases before a connection is stored in the map, and those in which a   *)
(* goroutine has a request.                                                *)
Unstored == {"new", "queued", "counted", "refused", "started"}
Holding == {"ready", "running", "replying"}

(* An entry of the map is under its connection's own address, and its      *)
(* goroutine has stored it and not yet ended.                              *)
Entries(m) == \A a \in Addr : m[a] # None => addr[m[a]] = a /\ phase[m[a]] \notin Unstored \union {"done"}

(* TypeOK with what it rests on: what is on the way to the server, and     *)
(* that a connection has an address from its dialling on.                  *)
ServerType ==
    /\ phase \in [Conn -> Phase]
    /\ up \in [Conn -> Seq(Message)]
    /\ addr \in [Conn -> Addr \union {None}]
    /\ \A c \in Conn : phase[c] # "new" => addr[c] \in Addr
    /\ cur \in [Conn -> Request \union {None}]
    /\ \A c \in Conn : cur[c] # None <=> phase[c] \in Holding
    /\ writer \in Conn \union {None}
    /\ count \in Int /\ seen \in Int /\ limit \in Nat
    /\ conns \in [Addr -> Conn \union {None}]
    /\ Entries(conns)
    /\ main \in {"top", "accept", "counted", "returned"}
    /\ mem \subseteq Request /\ disk \subseteq Request /\ acked \subseteq Request

(* The lock is held by who carries out a request that is not taken for     *)
(* read-only, and by nobody else.                                          *)
LockHeld == \A c \in Conn : writer = c <=> phase[c] = "running" /\ TakesLock(cur[c])

(* Between raising the count and comparing it at most one connection is    *)
(* neither served nor refused, and the count can only fall meanwhile.      *)
SlotsInv ==
    /\ count = Cardinality(Counted) /\ Cardinality(Served) <= limit
    /\ \A c \in Conn : phase[c] = "counted" => main = "counted"
    /\ \A c, d \in Conn : phase[c] = "counted" /\ phase[d] = "counted" => c = d
    /\ seen \in Nat /\ (main = "counted" => count <= seen)

(* What Stop relies on.  Connections to be closed have been stored.  One   *)
(* that is closed here had been stored or refused.  Of two connections     *)
(* with one address one is closed.                                         *)
VisitStored == visit \subseteq Conn /\ \A c \in visit : phase[c] \notin Unstored
ClosedStarted == Running => \A c \in srvClosed : phase[c] \notin Unstored \ {"refused"}
OneOpen ==
    \A c, d \in Conn : c # d /\ addr[c] = addr[d] /\ addr[c] # None => c \in srvClosed \/ d \in srvClosed

(* An open connection that has been stored is in the map.                  *)
OpenIsEntry ==
    Running /\ ~crossed =>
        \A c \in Conn : phase[c] \notin Unstored \union {"done"} /\ c \notin srvClosed => conns[addr[c]] = c

(* What is answered has been carried out.  From Range on, whoever reads or *)
(* has a request is closed or about to be.  From FlushAll on, what is      *)
(* answered is in the file.                                                *)
AckedIsDone == acked \subseteq mem /\ \A c \in Conn : phase[c] = "replying" => Done(c) \subseteq mem
NoneMissed ==
    Running /\ stopper \in {"ranging", "flushing"} /\ ~crossed =>
        \A c \in Conn : phase[c] \in Holding \union {"reading"} => c \in srvClosed \union visit
Flushed ==
    /\ Running /\ stopper = "flushing" => visit = {}
    /\ (stopper = "flushing" \/ exit = "stop") /\ ~crossed => acked \subseteq disk

FlushInv ==
    VisitStored /\ ClosedStarted /\ OneOpen /\ OpenIsEntry /\ AckedIsDone /\ NoneMissed /\ Flushed

ServerInv == ServerType /\ LockHeld /\ SlotsInv /\ FlushInv

-----------------------------------------------------------------------------
LEMMA TypeInit == Init => ServerType
  BY ServerAssumption DEF Init, ServerType, Phase, Holding, Entries

LEMMA TypeStep == ServerType /\ [Next]_vars => ServerType'
<1> SUFFICES ASSUME ServerType, [Next]_vars PROVE ServerType'
  OBVIOUS
<1> USE ServerAssumption DEF Unstored, Holding, Phase, Go, Running, wire, work, slots, registry, stopVars,
      data, Shut, Stopping, Exit, Written, TakesLock, Message
<1>1. ASSUME NEW c \in Conn, Accept(c) PROVE ServerType'
  BY <1>1 DEF ServerType, Entries, Accept
<1>2. ASSUME NEW c \in Conn, Refuse(c) PROVE ServerType'
  BY <1>2 DEF ServerType, Entries, Refuse
<1>3. ASSUME NEW c \in Conn, Spawn(c) PROVE ServerType'
  BY <1>3 DEF ServerType, Entries, Spawn
<1>4. ASSUME NEW c \in Conn, Register(c) PROVE ServerType'
  BY <1>4 DEF ServerType, Entries, Register
<1>5. ASSUME NEW c \in Conn, Greet(c) PROVE ServerType'
  BY <1>5 DEF ServerType, Entries, Greet
<1>6. ASSUME NEW c \in Conn, CheckAnswer(c) PROVE ServerType'
  BY <1>6 DEF ServerType, Entries, CheckAnswer
<1>7. ASSUME NEW c \in Conn, CheckContext(c) PROVE ServerType'
  BY <1>7 DEF ServerType, Entries, CheckContext
<1>8. ASSUME NEW c \in Conn, ReadRequest(c) PROVE ServerType'
  <2> DEFINE m == Head(up[c])
  <2>1. up[c] \in Seq(Message) /\ up[c] # << >>
    BY <1>8 DEF ServerType, ReadRequest
  <2>2. m \in Message /\ Tail(up[c]) \in Seq(Message)
    BY <2>1, HeadTailProperties
  <2>3. CASE m.type = "request" /\ ~Empty(m.req)
    <3>1. m.req \in Request
      <4> HIDE DEF m
      <4> QED BY <2>2, <2>3
    <3>2. cur' = [cur EXCEPT ![c] = m.req] /\ phase[c] = "reading" /\ phase' = [phase EXCEPT ![c] = "ready"]
      BY <1>8, <2>3 DEF ReadRequest
    <3>3. up' = [up EXCEPT ![c] = Tail(@)] /\ UNCHANGED <<addr, writer, slots, registry, stopVars, data>>
      BY <1>8 DEF ReadRequest
    <3> HIDE DEF m
    <3> QED BY <2>2, <3>1, <3>2, <3>3 DEF ServerType, Entries
  <2>4. CASE ~(m.type = "request" /\ ~Empty(m.req))
    <3>1. UNCHANGED cur /\ phase[c] = "reading" /\ phase' = [phase EXCEPT ![c] = "loop"]
      BY <1>8, <2>4 DEF ReadRequest
    <3>2. up' = [up EXCEPT ![c] = Tail(@)] /\ UNCHANGED <<addr, writer, slots, registry, stopVars, data>>
      BY <1>8 DEF ReadRequest
    <3> QED BY <2>2, <3>1, <3>2 DEF ServerType, Entries
  <2> QED BY <2>3, <2>4
<1>9. ASSUME NEW c \in Conn, ConnFails(c) PROVE ServerType'
  BY <1>9 DEF ServerType, Entries, ConnFails
<1>10. ASSUME NEW c \in Conn, StartReadOnly(c) PROVE ServerType'
  BY <1>10 DEF ServerType, Entries, StartReadOnly
<1>11. ASSUME NEW c \in Conn, Lock(c) PROVE ServerType'
  BY <1>11 DEF ServerType, Entries, Lock
<1>12. ASSUME NEW c \in Conn, Execute(c) PROVE ServerType'
  BY <1>12 DEF ServerType, Entries, Execute, Done
<1>13. ASSUME NEW c \in Conn, Respond(c) PROVE ServerType'
  BY <1>13 DEF ServerType, Entries, Respond, Done
<1>14. ASSUME NEW c \in Conn, Close(c) PROVE ServerType'
  BY <1>14 DEF ServerType, Entries, Close
<1>15. ASSUME NEW c \in Conn, Uncount(c) PROVE ServerType'
  BY <1>15 DEF ServerType, Entries, Uncount
<1>16. ASSUME NEW c \in Conn, Unregister(c) PROVE ServerType'
  BY <1>16 DEF ServerType, Entries, Unregister
<1>17. ASSUME NEW c \in Conn, Receive(c) PROVE ServerType'
  BY <1>17 DEF ServerType, Entries, Receive
<1>18. ASSUME NEW c \in Conn, Hangup(c) PROVE ServerType'
  BY <1>18 DEF ServerType, Entries, Hangup
<1>19. ASSUME NEW c \in Conn, CloseConn(c) PROVE ServerType'
  BY <1>19 DEF ServerType, Entries, CloseConn
<1>20. CASE AcceptNext
  BY <1>20 DEF ServerType, Entries, AcceptNext
<1>21. CASE StartReturns
  BY <1>21 DEF ServerType, Entries, StartReturns
<1>22. CASE Cancel
  BY <1>22 DEF ServerType, Entries, Cancel
<1>23. CASE CloseListener
  BY <1>23 DEF ServerType, Entries, CloseListener
<1>24. CASE RangeConns
  BY <1>24 DEF ServerType, Entries, RangeConns
<1>25. CASE FlushAll
  BY <1>25 DEF ServerType, Entries, FlushAll
<1>26. CASE ExitProcess
  BY <1>26 DEF ServerType, Entries, ExitProcess
<1>27. ASSUME NEW c \in Conn, NEW a \in Addr, Dial(c, a) PROVE ServerType'
  BY <1>27 DEF ServerType, Entries, Dial
<1>28. ASSUME NEW c \in Conn, NEW m \in Message, Send(c, m) PROVE ServerType'
  BY <1>28 DEF ServerType, Entries, Send
<1>29. CASE UNCHANGED vars
  BY <1>29 DEF ServerType, Entries, vars
<1> QED BY <1>1, <1>2, <1>3, <1>4, <1>5, <1>6, <1>7, <1>8, <1>9, <1>10, <1>11, <1>12, <1>13, <1>14, <1>15,
           <1>16, <1>17, <1>18, <1>19, <1>20, <1>21, <1>22, <1>23, <1>24, <1>25, <1>26, <1>27, <1>28,
           <1>29 DEF Next, Serve, Start, Stop, Handler, Peer, Answer, Ask

-----------------------------------------------------------------------------
(* What the invariants below need to know of reading a request.            *)
LEMMA ReadRequestMoves ==
    ASSUME ServerType, NEW c \in Conn, ReadRequest(c)
    PROVE  /\ Running /\ phase[c] = "reading" /\ \E to \in {"loop", "ready"} : phase' = [phase EXCEPT ![c] = to]
           /\ \A d \in Conn \ {c} : cur'[d] = cur[d]
           /\ UNCHANGED <<srvClosed, addr, writer, slots, registry, stopVars, data>>
<1>1. Running /\ phase[c] = "reading" /\ UNCHANGED <<srvClosed, addr, writer, slots, registry, stopVars, data>>
  BY DEF ReadRequest, Go
<1>2. CASE phase' = [phase EXCEPT ![c] = "ready"] /\ cur' = [cur EXCEPT ![c] = Head(up[c]).req]
  BY <1>1, <1>2 DEF ServerType
<1>3. CASE phase' = [phase EXCEPT ![c] = "loop"] /\ UNCHANGED cur
  BY <1>1, <1>3
<1> QED BY <1>2, <1>3 DEF ReadRequest, Go

LEMMA LockStep == ServerType /\ ServerType' /\ LockHeld /\ [Next]_vars => LockHeld'
<1> SUFFICES ASSUME ServerType, ServerType', LockHeld, [Next]_vars PROVE LockHeld'
  OBVIOUS
<1> USE ServerAssumption DEF Unstored, Holding, Phase, Go, Running, wire, work, slots, registry, stopVars,
      data, Shut, Stopping, Exit, Written, TakesLock, Done, Cancelled
<1>1. ASSUME NEW c \in Conn, Accept(c) PROVE LockHeld'
  BY <1>1 DEF ServerType, LockHeld, Accept
<1>2. ASSUME NEW c \in Conn, Refuse(c) PROVE LockHeld'
  BY <1>2 DEF ServerType, LockHeld, Refuse
<1>3. ASSUME NEW c \in Conn, Spawn(c) PROVE LockHeld'
  BY <1>3 DEF ServerType, LockHeld, Spawn
<1>4. ASSUME NEW c \in Conn, Register(c) PROVE LockHeld'
  BY <1>4 DEF ServerType, LockHeld, Register
<1>5. ASSUME NEW c \in Conn, Greet(c) PROVE LockHeld'
  BY <1>5 DEF ServerType, LockHeld, Greet
<1>6. ASSUME NEW c \in Conn, CheckAnswer(c) PROVE LockHeld'
  BY <1>6 DEF ServerType, LockHeld, CheckAnswer
<1>7. ASSUME NEW c \in Conn, CheckContext(c) PROVE LockHeld'
  BY <1>7 DEF ServerType, LockHeld, CheckContext
<1>8. ASSUME NEW c \in Conn, ReadRequest(c) PROVE LockHeld'
  <2>1. PICK to \in {"loop", "ready"} : phase' = [phase EXCEPT ![c] = to]
    BY <1>8, ReadRequestMoves
  <2>2. /\ Running /\ phase[c] = "reading" /\ \A d \in Conn \ {c} : cur'[d] = cur[d]
        /\ UNCHANGED <<srvClosed, addr, writer, slots, registry, stopVars, data>>
    BY <1>8, ReadRequestMoves
  <2> QED BY <2>1, <2>2 DEF ServerType, LockHeld
<1>9. ASSUME NEW c \in Conn, ConnFails(c) PROVE LockHeld'
  BY <1>9 DEF ServerType, LockHeld, ConnFails
<1>10. ASSUME NEW c \in Conn, StartReadOnly(c) PROVE LockHeld'
  BY <1>10 DEF ServerType, LockHeld, StartReadOnly
<1>11. ASSUME NEW c \in Conn, Lock(c) PROVE LockHeld'
  BY <1>11 DEF ServerType, LockHeld, Lock
<1>12. ASSUME NEW c \in Conn, Execute(c) PROVE LockHeld'
  BY <1>12 DEF ServerType, LockHeld, Execute
<1>13. ASSUME NEW c \in Conn, Respond(c) PROVE LockHeld'
  BY <1>13 DEF ServerType, LockHeld, Respond
<1>14. ASSUME NEW c \in Conn, Close(c) PROVE LockHeld'
  BY <1>14 DEF ServerType, LockHeld, Close
<1>15. ASSUME NEW c \in Conn, Uncount(c) PROVE LockHeld'
  BY <1>15 DEF ServerType, LockHeld, Uncount
<1>16. ASSUME NEW c \in Conn, Unregister(c) PROVE LockHeld'
  BY <1>16 DEF ServerType, LockHeld, Unregister
<1>17. ASSUME NEW c \in Conn, Receive(c) PROVE LockHeld'
  BY <1>17 DEF ServerType, LockHeld, Receive
<1>18. ASSUME NEW c \in Conn, Hangup(c) PROVE LockHeld'
  BY <1>18 DEF ServerType, LockHeld, Hangup
<1>19. ASSUME NEW c \in Conn, CloseConn(c) PROVE LockHeld'
  BY <1>19 DEF ServerType, LockHeld, CloseConn
<1>20. CASE AcceptNext
  BY <1>20 DEF ServerType, LockHeld, AcceptNext
<1>21. CASE StartReturns
  BY <1>21 DEF ServerType, LockHeld, StartReturns
<1>22. CASE Cancel
  BY <1>22 DEF ServerType, LockHeld, Cancel
<1>23. CASE CloseListener
  BY <1>23 DEF ServerType, LockHeld, CloseListener
<1>24. CASE RangeConns
  BY <1>24 DEF ServerType, LockHeld, RangeConns
<1>25. CASE FlushAll
  BY <1>25 DEF ServerType, LockHeld, FlushAll
<1>26. CASE ExitProcess
  BY <1>26 DEF ServerType, LockHeld, ExitProcess
<1>27. ASSUME NEW c \in Conn, NEW a \in Addr, Dial(c, a) PROVE LockHeld'
  BY <1>27 DEF ServerType, LockHeld, Dial
<1>28. ASSUME NEW c \in Conn, NEW m, Send(c, m) PROVE LockHeld'
  BY <1>28 DEF ServerType, LockHeld, Send
<1>29. CASE UNCHANGED vars
  BY <1>29 DEF ServerType, LockHeld, vars
<1> QED BY <1>1, <1>2, <1>3, <1>4, <1>5, <1>6, <1>7, <1>8, <1>9, <1>10, <1>11, <1>12, <1>13, <1>14, <1>15,
           <1>16, <1>17, <1>18, <1>19, <1>20, <1>21, <1>22, <1>23, <1>24, <1>25, <1>26, <1>27, <1>28,
           <1>29 DEF Next, Serve, Start, Stop, Handler, Peer

-----------------------------------------------------------------------------
LEMMA CountedFinite ==
    /\ IsFiniteSet(Counted) /\ IsFiniteSet(Served)
    /\ Cardinality(Counted) \in Nat /\ Cardinality(Served) \in Nat
<1>1. Counted \subseteq Conn /\ Served \subseteq Conn
  BY DEF Counted, Served
<1> QED BY <1>1, ServerAssumption, FS_Subset, FS_CardinalityType

LEMMA StillCounted ==
    ASSUME SlotsInv, Counted' = Counted, Served' = Served, UNCHANGED <<limit, count, seen, main>>,
           \A c \in Conn : phase'[c] = "counted" => phase[c] = "counted"
    PROVE  SlotsInv'
  BY DEF SlotsInv

LEMMA SlotsStep == ServerType /\ ServerType' /\ SlotsInv /\ [Next]_vars => SlotsInv'
<1> SUFFICES ASSUME ServerType, ServerType', SlotsInv, [Next]_vars PROVE SlotsInv'
  OBVIOUS
<1> USE ServerAssumption DEF Unstored, Holding, Phase, Go, Running, wire, work, slots, registry, stopVars,
      data, Shut, Stopping, Exit, Written, TakesLock, Done, Cancelled
<1>1. ASSUME NEW c \in Conn, Accept(c) PROVE SlotsInv'
  <2>1. phase[c] = "queued" /\ phase' = [phase EXCEPT ![c] = "counted"] /\ main = "accept" /\ main' = "counted"
        /\ count' = count + 1 /\ seen' = count + 1 /\ UNCHANGED limit
    BY <1>1 DEF Accept
  <2>2. Counted' = Counted \union {c} /\ c \notin Counted /\ Served' = Served
    BY <2>1 DEF ServerType, SlotsInv, Counted, Served
  <2>3. Cardinality(Counted') = Cardinality(Counted) + 1
    BY <2>2, CountedFinite, FS_AddElement
  <2>4. \A d \in Conn : phase[d] # "counted"
    BY <2>1 DEF SlotsInv
  <2> QED BY <2>1, <2>2, <2>3, <2>4, CountedFinite DEF ServerType, SlotsInv
<1>2. ASSUME NEW c \in Conn, Refuse(c) PROVE SlotsInv'
  <2>1. phase[c] = "counted" /\ phase' = [phase EXCEPT ![c] = "refused"] /\ main' = "top" /\ seen' = 0
        /\ count' = count - 1 /\ UNCHANGED limit
    BY <1>2 DEF Refuse
  <2>2. Counted' = Counted \ {c} /\ c \in Counted /\ Served' = Served
    BY <2>1 DEF ServerType, Counted, Served
  <2>3. Cardinality(Counted') = Cardinality(Counted) - 1
    BY <2>2, CountedFinite, FS_RemoveElement
  <2>4. \A d \in Conn : phase'[d] # "counted"
    BY <2>1 DEF ServerType, SlotsInv
  <2> QED BY <2>1, <2>2, <2>3, <2>4 DEF SlotsInv
<1>3. ASSUME NEW c \in Conn, Spawn(c) PROVE SlotsInv'
  <2>1. phase[c] = "counted" /\ phase' = [phase EXCEPT ![c] = "started"] /\ main = "counted" /\ main' = "top" /\ seen' = 0
        /\ seen <= limit /\ UNCHANGED <<limit, count>>
    BY <1>3 DEF Spawn
  <2>2. \A d \in Conn : phase'[d] # "counted"
    BY <2>1 DEF ServerType, SlotsInv
  <2>3. Counted' = Counted /\ Served' = Counted
    BY <2>1, <2>2 DEF ServerType, Counted, Served
  <2> QED BY <2>1, <2>2, <2>3, CountedFinite DEF ServerType, SlotsInv
<1>4. ASSUME NEW c \in Conn, Register(c) PROVE SlotsInv'
  BY <1>4, StillCounted DEF ServerType, Counted, Served, Register
<1>5. ASSUME NEW c \in Conn, Greet(c) PROVE SlotsInv'
  BY <1>5, StillCounted DEF ServerType, Counted, Served, Greet
<1>6. ASSUME NEW c \in Conn, CheckAnswer(c) PROVE SlotsInv'
  BY <1>6, StillCounted DEF ServerType, Counted, Served, CheckAnswer
<1>7. ASSUME NEW c \in Conn, CheckContext(c) PROVE SlotsInv'
  BY <1>7, StillCounted DEF ServerType, Counted, Served, CheckContext
<1>8. ASSUME NEW c \in Conn, ReadRequest(c) PROVE SlotsInv'
  BY <1>8, StillCounted DEF ServerType, Counted, Served, ReadRequest
<1>9. ASSUME NEW c \in Conn, ConnFails(c) PROVE SlotsInv'
  BY <1>9, StillCounted DEF ServerType, Counted, Served, ConnFails
<1>10. ASSUME NEW c \in Conn, StartReadOnly(c) PROVE SlotsInv'
  BY <1>10, StillCounted DEF ServerType, Counted, Served, StartReadOnly
<1>11. ASSUME NEW c \in Conn, Lock(c) PROVE SlotsInv'
  BY <1>11, StillCounted DEF ServerType, Counted, Served, Lock
<1>12. ASSUME NEW c \in Conn, Execute(c) PROVE SlotsInv'
  BY <1>12, StillCounted DEF ServerType, Counted, Served, Execute
<1>13. ASSUME NEW c \in Conn, Respond(c) PROVE SlotsInv'
  BY <1>13, StillCounted DEF ServerType, Counted, Served, Respond
<1>14. ASSUME NEW c \in Conn, Close(c) PROVE SlotsInv'
  BY <1>14, StillCounted DEF ServerType, Counted, Served, Close
<1>15. ASSUME NEW c \in Conn, Uncount(c) PROVE SlotsInv'
  <2>1. phase[c] = "counting" /\ phase' = [phase EXCEPT ![c] = "deleting"]
        /\ count' = count - 1 /\ UNCHANGED <<limit, seen, main>>
    BY <1>15 DEF Uncount
  <2>2. Counted' = Counted \ {c} /\ c \in Counted /\ Served' \subseteq Served
    BY <2>1 DEF ServerType, Counted, Served
  <2>3. Cardinality(Counted') = Cardinality(Counted) - 1 
    BY <2>2, CountedFinite, FS_RemoveElement
  <2>5. Cardinality(Served') <= Cardinality(Served) /\ Cardinality(Served') \in Nat
    BY <2>2, CountedFinite, FS_Subset, FS_CardinalityType
  <2>4. \A d \in Conn : phase'[d] = "counted" => phase[d] = "counted"
    BY <2>1 DEF ServerType
  <2> QED BY <2>1, <2>2, <2>3, <2>4, <2>5, CountedFinite DEF ServerType, SlotsInv
<1>16. ASSUME NEW c \in Conn, Unregister(c) PROVE SlotsInv'
  BY <1>16, StillCounted DEF ServerType, Counted, Served, Unregister
<1>17. ASSUME NEW c \in Conn, Receive(c) PROVE SlotsInv'
  BY <1>17, StillCounted DEF Counted, Served, Receive
<1>18. ASSUME NEW c \in Conn, Hangup(c) PROVE SlotsInv'
  BY <1>18, StillCounted DEF Counted, Served, Hangup
<1>19. ASSUME NEW c \in Conn, CloseConn(c) PROVE SlotsInv'
  BY <1>19, StillCounted DEF Counted, Served, CloseConn
<1>20. CASE AcceptNext
  BY <1>20 DEF AcceptNext, SlotsInv, Counted, Served
<1>21. CASE StartReturns
  <2>1. Counted' = {} /\ Served' = {} /\ count' = 0 /\ seen' = 0 /\ UNCHANGED limit
    BY <1>21 DEF StartReturns, Counted, Served
  <2>2. \A d \in Conn : phase'[d] # "counted"
    BY <1>21 DEF StartReturns
  <2> QED BY <2>1, <2>2, FS_EmptySet DEF ServerType, SlotsInv
<1>22. CASE Cancel
  BY <1>22, StillCounted DEF Counted, Served, Cancel
<1>23. CASE CloseListener
  BY <1>23, StillCounted DEF Counted, Served, CloseListener
<1>24. CASE RangeConns
  BY <1>24, StillCounted DEF Counted, Served, RangeConns
<1>25. CASE FlushAll
  BY <1>25, StillCounted DEF Counted, Served, FlushAll
<1>26. CASE ExitProcess
  <2>1. Counted' = {} /\ Served' = {} /\ count' = 0 /\ seen' = 0 /\ UNCHANGED limit
    BY <1>26 DEF ExitProcess, Counted, Served
  <2>2. \A d \in Conn : phase'[d] # "counted"
    BY <1>26 DEF ExitProcess
  <2> QED BY <2>1, <2>2, FS_EmptySet DEF ServerType, SlotsInv
<1>27. ASSUME NEW c \in Conn, NEW a \in Addr, Dial(c, a) PROVE SlotsInv'
  BY <1>27, StillCounted DEF ServerType, Counted, Served, Dial
<1>28. ASSUME NEW c \in Conn, NEW m, Send(c, m) PROVE SlotsInv'
  BY <1>28, StillCounted DEF Counted, Served, Send
<1>29. CASE UNCHANGED vars
  BY <1>29 DEF ServerType, SlotsInv, Counted, Served, vars
<1> QED BY <1>1, <1>2, <1>3, <1>4, <1>5, <1>6, <1>7, <1>8, <1>9, <1>10, <1>11, <1>12, <1>13, <1>14, <1>15,
           <1>16, <1>17, <1>18, <1>19, <1>20, <1>21, <1>22, <1>23, <1>24, <1>25, <1>26, <1>27, <1>28,
           <1>29 DEF Next, Serve, Start, Stop, Handler, Peer

-----------------------------------------------------------------------------
LEMMA FlushStep == ServerType /\ ServerType' /\ FlushInv /\ [Next]_vars => FlushInv'
<1> SUFFICES ASSUME ServerType, ServerType', FlushInv, [Next]_vars PROVE FlushInv'
  OBVIOUS
<1> USE ServerAssumption DEF Free, Unstored, Holding, Phase, Go, Running, wire, work, slots, registry,
      stopVars, data, Shut, Stopping, Exit, Written, TakesLock, Done, Cancelled
<1>1. ASSUME NEW c \in Conn, Accept(c) PROVE FlushInv'
  BY <1>1 DEF ServerType, FlushInv, VisitStored, ClosedStarted, OneOpen, OpenIsEntry, AckedIsDone, NoneMissed,
     Flushed, Accept
<1>2. ASSUME NEW c \in Conn, Refuse(c) PROVE FlushInv'
  BY <1>2 DEF ServerType, FlushInv, VisitStored, ClosedStarted, OneOpen, OpenIsEntry, AckedIsDone, NoneMissed,
     Flushed, Refuse
<1>3. ASSUME NEW c \in Conn, Spawn(c) PROVE FlushInv'
  BY <1>3 DEF ServerType, FlushInv, VisitStored, ClosedStarted, OneOpen, OpenIsEntry, AckedIsDone, NoneMissed,
     Flushed, Spawn
<1>4. ASSUME NEW c \in Conn, Register(c) PROVE FlushInv'
  <2>1. VisitStored' /\ ClosedStarted' /\ OneOpen' /\ AckedIsDone' /\ NoneMissed' /\ Flushed'
    BY <1>4 DEF ServerType, FlushInv, VisitStored, ClosedStarted, OneOpen, OpenIsEntry, AckedIsDone,
       NoneMissed, Flushed, Register
  <2>2. OpenIsEntry'
    <3> SUFFICES ASSUME Running', ~crossed', NEW d \in Conn,
                        phase'[d] \notin Unstored \union {"done"}, d \notin srvClosed'
                 PROVE  conns'[addr'[d]] = d
      BY DEF OpenIsEntry
    <3>1. c \notin srvClosed /\ addr[c] \in Addr /\ conns' = [conns EXCEPT ![addr[c]] = c]
      BY <1>4 DEF ServerType, FlushInv, ClosedStarted, Register
    <3>2. CASE d = c
      BY <3>1, <3>2, <1>4 DEF ServerType, Register
    <3>3. CASE d # c
      <4>1. addr[d] \in Addr /\ conns[addr[d]] = d
        BY <3>3, <1>4 DEF ServerType, FlushInv, OpenIsEntry, Register
      <4>2. addr[d] # addr[c]
        BY <3>1, <3>3, <1>4 DEF ServerType, FlushInv, OneOpen, Register
      <4> QED BY <3>1, <4>1, <4>2, <1>4 DEF ServerType, Register
    <3> QED BY <3>2, <3>3
  <2> QED BY <2>1, <2>2 DEF FlushInv
<1>5. ASSUME NEW c \in Conn, Greet(c) PROVE FlushInv'
  BY <1>5 DEF ServerType, FlushInv, VisitStored, ClosedStarted, OneOpen, OpenIsEntry, AckedIsDone, NoneMissed,
     Flushed, Greet
<1>6. ASSUME NEW c \in Conn, CheckAnswer(c) PROVE FlushInv'
  BY <1>6 DEF ServerType, FlushInv, VisitStored, ClosedStarted, OneOpen, OpenIsEntry, AckedIsDone, NoneMissed,
     Flushed, CheckAnswer
<1>7. ASSUME NEW c \in Conn, CheckContext(c) PROVE FlushInv'
  BY <1>7 DEF ServerType, FlushInv, VisitStored, ClosedStarted, OneOpen, OpenIsEntry, AckedIsDone, NoneMissed,
     Flushed, CheckContext
<1>8. ASSUME NEW c \in Conn, ReadRequest(c) PROVE FlushInv'
  <2>1. PICK to \in {"loop", "ready"} : phase' = [phase EXCEPT ![c] = to]
    BY <1>8, ReadRequestMoves
  <2>2. /\ Running /\ phase[c] = "reading" /\ \A d \in Conn \ {c} : cur'[d] = cur[d]
        /\ UNCHANGED <<srvClosed, addr, writer, slots, registry, stopVars, data>>
    BY <1>8, ReadRequestMoves
  <2> QED BY <2>1, <2>2 DEF ServerType, FlushInv, VisitStored, ClosedStarted, OneOpen, OpenIsEntry,
             AckedIsDone, NoneMissed, Flushed
<1>9. ASSUME NEW c \in Conn, ConnFails(c) PROVE FlushInv'
  BY <1>9 DEF ServerType, FlushInv, VisitStored, ClosedStarted, OneOpen, OpenIsEntry, AckedIsDone, NoneMissed,
     Flushed, ConnFails
<1>10. ASSUME NEW c \in Conn, StartReadOnly(c) PROVE FlushInv'
  BY <1>10 DEF ServerType, FlushInv, VisitStored, ClosedStarted, OneOpen, OpenIsEntry, AckedIsDone,
     NoneMissed, Flushed, StartReadOnly
<1>11. ASSUME NEW c \in Conn, Lock(c) PROVE FlushInv'
  BY <1>11 DEF ServerType, FlushInv, VisitStored, ClosedStarted, OneOpen, OpenIsEntry, AckedIsDone,
     NoneMissed, Flushed, Lock
<1>12. ASSUME NEW c \in Conn, Execute(c) PROVE FlushInv'
  BY <1>12 DEF ServerType, FlushInv, VisitStored, ClosedStarted, OneOpen, OpenIsEntry, AckedIsDone,
     NoneMissed, Flushed, Execute
<1>13. ASSUME NEW c \in Conn, Respond(c) PROVE FlushInv'
  BY <1>13 DEF ServerType, FlushInv, VisitStored, ClosedStarted, OneOpen, OpenIsEntry, AckedIsDone,
     NoneMissed, Flushed, Respond
<1>14. ASSUME NEW c \in Conn, Close(c) PROVE FlushInv'
  BY <1>14 DEF ServerType, FlushInv, VisitStored, ClosedStarted, OneOpen, OpenIsEntry, AckedIsDone,
     NoneMissed, Flushed, Close
<1>15. ASSUME NEW c \in Conn, Uncount(c) PROVE FlushInv'
  BY <1>15 DEF ServerType, FlushInv, VisitStored, ClosedStarted, OneOpen, OpenIsEntry, AckedIsDone,
     NoneMissed, Flushed, Uncount
<1>16. ASSUME NEW c \in Conn, Unregister(c) PROVE FlushInv'
  <2>1. VisitStored' /\ ClosedStarted' /\ OneOpen'
    BY <1>16 DEF ServerType, FlushInv, VisitStored, ClosedStarted, OneOpen, OpenIsEntry, AckedIsDone,
       NoneMissed, Flushed, Unregister
  <2>2. Flushed'
    BY <1>16 DEF ServerType, FlushInv, Flushed, Unregister
  <2>3. NoneMissed'
    BY <1>16 DEF ServerType, FlushInv, NoneMissed, Unregister
  <2>4. AckedIsDone'
    BY <1>16 DEF ServerType, FlushInv, AckedIsDone, Unregister
  <2>5. OpenIsEntry'
    <3> SUFFICES ASSUME Running', ~crossed', NEW d \in Conn,
                        phase'[d] \notin Unstored \union {"done"}, d \notin srvClosed'
                 PROVE  conns'[addr'[d]] = d
      BY DEF OpenIsEntry
    <3>1. d # c /\ addr[d] \in Addr /\ conns[addr[d]] = d
      BY <1>16 DEF ServerType, FlushInv, OpenIsEntry, Unregister
    <3>2. conns[addr[c]] \in {c, None}
      <4>1. crossed' = (crossed \/ conns[addr[c]] \notin {c, None})
        BY <1>16 DEF Unregister
      <4> QED BY <4>1
    <3>3. addr[d] # addr[c]
      BY <3>1, <3>2
    <3> QED BY <3>1, <3>3, <1>16 DEF ServerType, Unregister
  <2> QED BY <2>1, <2>2, <2>3, <2>4, <2>5 DEF FlushInv
<1>17. ASSUME NEW c \in Conn, Receive(c) PROVE FlushInv'
  BY <1>17 DEF ServerType, FlushInv, VisitStored, ClosedStarted, OneOpen, OpenIsEntry, AckedIsDone,
     NoneMissed, Flushed, Receive
<1>18. ASSUME NEW c \in Conn, Hangup(c) PROVE FlushInv'
  BY <1>18 DEF ServerType, FlushInv, VisitStored, ClosedStarted, OneOpen, OpenIsEntry, AckedIsDone,
     NoneMissed, Flushed, Hangup
<1>19. ASSUME NEW c \in Conn, CloseConn(c) PROVE FlushInv'
  BY <1>19 DEF ServerType, FlushInv, VisitStored, ClosedStarted, OneOpen, OpenIsEntry, AckedIsDone,
     NoneMissed, Flushed, CloseConn
<1>20. CASE AcceptNext
  BY <1>20 DEF ServerType, FlushInv, VisitStored, ClosedStarted, OneOpen, OpenIsEntry, AckedIsDone,
     NoneMissed, Flushed, AcceptNext
<1>21. CASE StartReturns
  BY <1>21 DEF ServerType, FlushInv, VisitStored, ClosedStarted, OneOpen, OpenIsEntry, AckedIsDone,
     NoneMissed, Flushed, StartReturns
<1>22. CASE Cancel
  BY <1>22 DEF ServerType, FlushInv, VisitStored, ClosedStarted, OneOpen, OpenIsEntry, AckedIsDone,
     NoneMissed, Flushed, Cancel
<1>23. CASE CloseListener
  BY <1>23 DEF ServerType, FlushInv, VisitStored, ClosedStarted, OneOpen, OpenIsEntry, AckedIsDone,
     NoneMissed, Flushed, CloseListener
<1>24. CASE RangeConns
  <2>1. ClosedStarted' /\ OneOpen' /\ OpenIsEntry' /\ AckedIsDone' /\ Flushed'
    BY <1>24 DEF ServerType, FlushInv, VisitStored, ClosedStarted, OneOpen, OpenIsEntry, AckedIsDone,
       NoneMissed, Flushed, RangeConns
  <2>2. NoneMissed'
    <3> SUFFICES ASSUME ~crossed, NEW c \in Conn, phase[c] \in Holding \union {"reading"}, c \notin srvClosed
                 PROVE  c \in visit'
      BY <1>24 DEF NoneMissed, RangeConns
    <3>1. addr[c] \in Addr /\ conns[addr[c]] = c
      BY <1>24 DEF ServerType, FlushInv, OpenIsEntry, RangeConns
    <3> QED BY <3>1, <1>24 DEF RangeConns
  <2>3. VisitStored'
    <3> SUFFICES ASSUME NEW c \in visit' PROVE c \in Conn /\ phase[c] \notin Unstored
      BY <1>24 DEF VisitStored, RangeConns
    <3>1. PICK a \in Addr : c = conns[a] /\ c # None
      BY <1>24 DEF RangeConns
    <3> QED BY <3>1 DEF ServerType, Entries
  <2> QED BY <2>1, <2>2, <2>3 DEF FlushInv
<1>25. CASE FlushAll
  BY <1>25 DEF ServerType, FlushInv, VisitStored, ClosedStarted, OneOpen, OpenIsEntry, AckedIsDone,
     NoneMissed, Flushed, FlushAll
<1>26. CASE ExitProcess
  BY <1>26 DEF ServerType, FlushInv, VisitStored, ClosedStarted, OneOpen, OpenIsEntry, AckedIsDone,
     NoneMissed, Flushed, ExitProcess
<1>27. ASSUME NEW c \in Conn, NEW a \in Addr, Dial(c, a) PROVE FlushInv'
  BY <1>27 DEF ServerType, FlushInv, VisitStored, ClosedStarted, OneOpen, OpenIsEntry, AckedIsDone,
     NoneMissed, Flushed, Dial
<1>28. ASSUME NEW c \in Conn, NEW m, Send(c, m) PROVE FlushInv'
  BY <1>28 DEF ServerType, FlushInv, VisitStored, ClosedStarted, OneOpen, OpenIsEntry, AckedIsDone,
     NoneMissed, Flushed, Send
<1>29. CASE UNCHANGED vars
  BY <1>29 DEF ServerType, FlushInv, VisitStored, ClosedStarted, OneOpen, OpenIsEntry, AckedIsDone,
     NoneMissed, Flushed, vars
<1> QED BY <1>1, <1>2, <1>3, <1>4, <1>5, <1>6, <1>7, <1>8, <1>9, <1>10, <1>11, <1>12, <1>13, <1>14, <1>15,
           <1>16, <1>17, <1>18, <1>19, <1>20, <1>21, <1>22, <1>23, <1>24, <1>25, <1>26, <1>27, <1>28,
           <1>29 DEF Next, Serve, Start, Stop, Handler, Peer

-----------------------------------------------------------------------------
LEMMA ServerInit == Init => ServerInv
<1> SUFFICES ASSUME Init PROVE ServerInv
  OBVIOUS
<1>1. ServerType
  BY TypeInit
<1>2. LockHeld
  BY ServerAssumption DEF Init, LockHeld
<1>3. SlotsInv
  <2>1. Counted = {} /\ Served = {}
    BY DEF Init, Counted, Served
  <2> QED BY <2>1, FS_EmptySet, ServerAssumption DEF Init, SlotsInv
<1>4. FlushInv
  BY DEF Init, FlushInv, VisitStored, ClosedStarted, OneOpen, OpenIsEntry, AckedIsDone, NoneMissed, Flushed,
         Unstored, Running
<1> QED BY <1>1, <1>2, <1>3, <1>4 DEF ServerInv

LEMMA ServerStep == ServerInv /\ [Next]_vars => ServerInv'
  BY TypeStep, LockStep, SlotsStep, FlushStep DEF ServerInv

LEMMA ServerInvariant == Spec => []ServerInv
  BY ServerInit, ServerStep, PTL DEF Spec

(* Connections, counters, the lock and the map of connections always hold  *)
(* what the handlers and the accept loop expect of them.                   *)
THEOREM ServerTypeCorrect == Spec => []TypeOK
<1>1. ServerInv => TypeOK
  <2> SUFFICES ASSUME ServerInv PROVE TypeOK
    OBVIOUS
  <2>1. count \in Nat
    BY CountedFinite DEF ServerInv, SlotsInv
  <2> QED BY <2>1 DEF ServerInv, ServerType, SlotsInv, Entries, Holding, Unstored, TypeOK
<1> QED BY <1>1, ServerInvariant, PTL

(* Requests that write exclude one another unless the server takes one of  *)
(* them for read-only, whatever clients send and wherever connections end  *)
(* (handleConn, isReadOnlySQL, writeMu).                                   *)
THEOREM WritesAreExclusive == Spec => []WritesExclusive
<1>1. ServerInv => WritesExclusive
  BY ServerAssumption DEF ServerInv, LockHeld, TakesLock, WritesExclusive
<1> QED BY <1>1, ServerInvariant, PTL

(* The counter is right at every moment between its updates, and the limit *)
(* is kept although the count passes it before it is compared (Start).     *)
THEOREM SlotsAreCounted == Spec => []SlotsCounted
<1>1. ServerInv => SlotsCounted
  BY DEF ServerInv, SlotsInv, SlotsCounted
<1> QED BY <1>1, ServerInvariant, PTL

(* Stop takes no lock and loses no answered write, unless an address has   *)
(* been used again (Stop, handleConn).                                     *)
THEOREM StopKeepsAcked == Spec => []AckedIsFlushed
<1>1. ServerInv => AckedIsFlushed
  BY DEF ServerInv, FlushInv, Flushed, AckedIsFlushed
<1> QED BY <1>1, ServerInvariant, PTL

-----------------------------------------------------------------------------
(***************************************************************************)
(* Clients of the repository are clients as the server expects them, so    *)
(* what is proved of it above holds with them; and the answer a client     *)
(* takes is the answer to its statement, for any number of clients,        *)
(* connections, statements and retries.                                    *)
(***************************************************************************)

ClientPhase ==
    {"closed", "failed", "idle", "dial", "greet", "proving", "answered", "send", "await", "refused"}
Dialing == {"greet", "proving", "answered"}

ClientType ==
    /\ pc \in [Client -> ClientPhase]
    /\ conn \in [Client -> Conn \union {None}]
    /\ dialing \in [Client -> Conn \union {None}]
    /\ stmt \in [Client -> Request \union {None}]
    /\ deaf \in [Client -> BOOLEAN]
    /\ \A k \in Client :
        /\ pc[k] \in Dialing <=> dialing[k] # None
        /\ pc[k] \in {"send", "await", "refused"} => stmt[k] # None
        /\ pc[k] \in {"closed", "failed", "idle"} => stmt[k] = None
        /\ pc[k] = "idle" \/ stmt[k] # None => conn[k] # None
        /\ pc[k] = "closed" => conn[k] = None

(* Where the goroutine of a connection may be, by how far the exchange on  *)
(* it has come.                                                            *)
Early == {"queued", "counted", "refused", "started", "greeting"}
Greeted == IF AuthRequired THEN {"authing"} ELSE {"loop", "reading"}
Serving == {"loop", "reading"}
Over == {"closing", "counting", "deleting", "done"}

(* What is on a connection: after dialling; after the challenge, with an   *)
(* answer to be sent; after that; with nothing under way; with statement r *)
(* to be answered.  At most one message is under way, in one direction.    *)
Untouched(c) == up[c] = << >> /\ cur[c] = None
Fresh(c) ==
    /\ Untouched(c)
    /\ \/ phase[c] \in Early /\ down[c] = << >>
       \/ phase[c] \in Greeted /\ down[c] = <<Challenge>>
       \/ phase[c] \in Over /\ down[c] \in {<< >>, <<Challenge>>}
Asked(c) == Untouched(c) /\ down[c] = << >> /\ phase[c] \in {"authing"} \union Over
Answered(c) ==
    /\ cur[c] = None
    /\ \/ /\ phase[c] \in {"authing"} \union Over /\ down[c] = << >>
          /\ up[c] \in {<< >>, <<Answer(TRUE)>>, <<Answer(FALSE)>>}
       \/ phase[c] \in Serving \union Over /\ up[c] = << >> /\ down[c] = <<AuthResp(TRUE)>>
       \/ phase[c] \in Over /\ up[c] = << >> /\ down[c] = <<AuthResp(FALSE)>>
Quiet(c) == Untouched(c) /\ down[c] = << >> /\ phase[c] \in Serving \union Over
Waiting(c, r) ==
    \/ phase[c] \in Serving \union Over /\ up[c] \in {<< >>, <<Ask(r)>>} /\ cur[c] = None /\ down[c] = << >>
    \/ phase[c] \in Holding /\ up[c] = << >> /\ cur[c] = r /\ down[c] = << >>
    \/ phase[c] \in Serving \union Over /\ Untouched(c) /\ down[c] = <<Reply(r)>>

(* A step leaves a connection where it is in this order, or further on.    *)
Kept(c, r) ==
    /\ Fresh(c) => Fresh(c)'
    /\ Asked(c) => Asked(c)'
    /\ Answered(c) => Answered(c)'
    /\ Quiet(c) => Quiet(c)'
    /\ Waiting(c, r) => (Waiting(c, r))'

(* Nothing has been said on a connection that has not been dialled.        *)
Clean(c) == up[c] = << >> /\ down[c] = << >> /\ c \notin cliClosed
NewIsClean == \A c \in Conn : phase[c] = "new" => Clean(c)
Mailboxes == down = [c \in Conn |-> down[c]]
WireInv == NewIsClean /\ Mailboxes

(* No connection is two clients', or a client's old and new one.           *)
Apart ==
    /\ \A k \in Client :
        /\ conn[k] # None => phase[conn[k]] # "new" /\ conn[k] # dialing[k]
        /\ dialing[k] # None => phase[dialing[k]] # "new"
    /\ \A k, l \in Client : k # l =>
        /\ conn[k] # None => conn[k] # conn[l] /\ conn[k] # dialing[l]
        /\ dialing[k] # None => dialing[k] # dialing[l]

(* What a client does fits what is on its connections; of the current one  *)
(* this is said only while it is open and the scanner still reads.         *)
Match(k) ==
    /\ pc[k] = "greet" => Fresh(dialing[k])
    /\ pc[k] = "proving" => Asked(dialing[k])
    /\ pc[k] = "answered" => Answered(dialing[k])
    /\ pc[k] \in Dialing => dialing[k] \notin cliClosed
    /\ pc[k] \in Dialing \union {"dial"} => conn[k] = None \/ conn[k] \in cliClosed
    /\ pc[k] = "await" => conn[k] \notin cliClosed
    /\ ~deaf[k] /\ conn[k] \notin cliClosed =>
        /\ pc[k] \in {"idle", "send", "refused"} => Quiet(conn[k])
        /\ pc[k] = "await" => Waiting(conn[k], stmt[k])

SessionInv == ServerInv /\ ClientType /\ WireInv /\ Apart /\ \A k \in Client : Match(k)

(* What a step may leave alone.                                            *)
SameAt(c) ==
    /\ phase'[c] = phase[c] /\ up'[c] = up[c] /\ down'[c] = down[c] /\ cur'[c] = cur[c]
    /\ c \in cliClosed' <=> c \in cliClosed
OthersStay(k) ==
    \A l \in Client \ {k} :
        /\ pc'[l] = pc[l] /\ conn'[l] = conn[l] /\ dialing'[l] = dialing[l]
        /\ deaf'[l] = deaf[l] /\ stmt'[l] = stmt[l]

-----------------------------------------------------------------------------
LEMMA ClientTypeStep == ClientType /\ [SessionNext]_sessionVars => ClientType'
<1> SUFFICES ASSUME ClientType, [SessionNext]_sessionVars PROVE ClientType'
  OBVIOUS
<1> USE ServerAssumption DEF ClientPhase, Dialing, At
<1>1. ASSUME NEW k \in Client, Open(k) PROVE ClientType'
  BY <1>1 DEF ClientType, Open
<1>2. ASSUME NEW k \in Client, DialServer(k) PROVE ClientType'
  BY <1>2 DEF ClientType, DialServer, Dialable
<1>3. ASSUME NEW k \in Client, DialFails(k) PROVE ClientType'
  BY <1>3 DEF ClientType, DialFails, Undialled
<1>4. ASSUME NEW k \in Client, HandshakeFails(k) PROVE ClientType'
  BY <1>4 DEF ClientType, HandshakeFails, Undialled
<1>5. ASSUME NEW k \in Client, ReadChallenge(k) PROVE ClientType'
  <2>1. CASE AuthRequired
    BY <1>5, <2>1 DEF ClientType, ReadChallenge, Got
  <2>2. CASE ~AuthRequired
    <3>1. /\ pc[k] = "greet" /\ pc' = [pc EXCEPT ![k] = Ready(k)]
          /\ conn' = [conn EXCEPT ![k] = dialing[k]] /\ dialing' = [dialing EXCEPT ![k] = None]
          /\ deaf' = [deaf EXCEPT ![k] = FALSE] /\ UNCHANGED stmt
      BY <1>5, <2>2 DEF ReadChallenge, Got, Connected
    <3> QED BY <3>1 DEF ClientType, Ready
  <2> QED BY <2>1, <2>2
<1>6. ASSUME NEW k \in Client, SendAnswer(k) PROVE ClientType'
  BY <1>6 DEF ClientType, SendAnswer
<1>7. ASSUME NEW k \in Client, Accepted(k) PROVE ClientType'
  BY <1>7 DEF ClientType, Accepted, Got, Connected, Ready
<1>8. ASSUME NEW k \in Client, SendStatement(k) PROVE ClientType'
  BY <1>8 DEF ClientType, SendStatement
<1>9. ASSUME NEW k \in Client, SendFails(k) PROVE ClientType'
  BY <1>9 DEF ClientType, SendFails, AttemptFails
<1>10. ASSUME NEW k \in Client, GetReply(k) PROVE ClientType'
  BY <1>10 DEF ClientType, GetReply, Got, Returned
<1>11. ASSUME NEW k \in Client, GetError(k) PROVE ClientType'
  BY <1>11 DEF ClientType, GetError, Got
<1>12. ASSUME NEW k \in Client, AfterError(k) PROVE ClientType'
  BY <1>12 DEF ClientType, AfterError, AttemptFails
<1>13. ASSUME NEW k \in Client, ScanFails(k) PROVE ClientType'
  BY <1>13 DEF ClientType, ScanFails, AttemptFails
<1>14. ASSUME NEW k \in Client, NEW r \in Request, StartExec(k, r) PROVE ClientType'
  BY <1>14 DEF ClientType, StartExec
<1>15. CASE UNCHANGED clientVars
  BY <1>15 DEF ClientType, clientVars
<1> QED BY <1>1, <1>2, <1>3, <1>4, <1>5, <1>6, <1>7, <1>8, <1>9, <1>10, <1>11, <1>12, <1>13, <1>14,
           <1>15 DEF SessionNext, ClientStep, sessionVars

(* What a client of the repository does, any client may do.                *)
LEMMA StepIsServerStep == ClientType /\ [SessionNext]_sessionVars => [Next]_vars
<1> SUFFICES ASSUME ClientType, [SessionNext]_sessionVars PROVE [Next]_vars
  OBVIOUS
<1> USE ServerAssumption DEF ClientPhase, Dialing, At
<1>1. ASSUME NEW k \in Client, Open(k) PROVE [Next]_vars
  BY <1>1 DEF ClientType, Open, Next, Peer
<1>2. ASSUME NEW k \in Client, DialServer(k) PROVE [Next]_vars
  BY <1>2 DEF ClientType, DialServer, Dialable, Next, Peer
<1>3. ASSUME NEW k \in Client, DialFails(k) PROVE [Next]_vars
  BY <1>3 DEF ClientType, DialFails, Next, Peer
<1>4. ASSUME NEW k \in Client, HandshakeFails(k) PROVE [Next]_vars
  BY <1>4 DEF ClientType, HandshakeFails, Undialled, Next, Peer
<1>5. ASSUME NEW k \in Client, ReadChallenge(k) PROVE [Next]_vars
  BY <1>5 DEF ClientType, ReadChallenge, Got, Next, Peer
<1>6. ASSUME NEW k \in Client, SendAnswer(k) PROVE [Next]_vars
  BY <1>6 DEF ClientType, SendAnswer, Next, Peer
<1>7. ASSUME NEW k \in Client, Accepted(k) PROVE [Next]_vars
  BY <1>7 DEF ClientType, Accepted, Got, Next, Peer
<1>8. ASSUME NEW k \in Client, SendStatement(k) PROVE [Next]_vars
  BY <1>8 DEF ClientType, SendStatement, Next, Peer
<1>9. ASSUME NEW k \in Client, SendFails(k) PROVE [Next]_vars
  BY <1>9 DEF ClientType, SendFails, AttemptFails, Next, Peer
<1>10. ASSUME NEW k \in Client, GetReply(k) PROVE [Next]_vars
  BY <1>10 DEF ClientType, GetReply, Got, Next, Peer
<1>11. ASSUME NEW k \in Client, GetError(k) PROVE [Next]_vars
  BY <1>11 DEF ClientType, GetError, Got, Next, Peer
<1>12. ASSUME NEW k \in Client, AfterError(k) PROVE [Next]_vars
  BY <1>12 DEF ClientType, AfterError, AttemptFails, Next, Peer
<1>13. ASSUME NEW k \in Client, ScanFails(k) PROVE [Next]_vars
  BY <1>13 DEF ClientType, ScanFails, AttemptFails, Next, Peer
<1>14. ASSUME NEW k \in Client, NEW r \in Request, StartExec(k, r) PROVE [Next]_vars
  BY <1>14 DEF StartExec
<1>15. CASE Serve
  BY <1>15 DEF Next
<1>16. CASE UNCHANGED sessionVars
  BY <1>16 DEF sessionVars
<1> QED BY <1>1, <1>2, <1>3, <1>4, <1>5, <1>6, <1>7, <1>8, <1>9, <1>10, <1>11, <1>12, <1>13, <1>14, <1>15,
           <1>16 DEF SessionNext, ClientStep
(* A queue of at most one message.                                          *)
LEMMA OneMessage == \A x : Append(<< >>, x) = <<x>> /\ Head(<<x>>) = x /\ Tail(<<x>>) = << >> /\ <<x>> # << >>
  OBVIOUS

(* A connection that a step leaves alone, and one that a step of the      *)
(* server concerns, stay where they are in the exchange.                   *)
LEMMA OthersKept ==
    ASSUME NEW c \in Conn, NEW r, phase'[c] = phase[c], up'[c] = up[c], down'[c] = down[c], cur'[c] = cur[c]
    PROVE  Kept(c, r)
  BY DEF Kept, Fresh, Asked, Answered, Quiet, Waiting, Untouched

LEMMA ServeKeeps ==
    ASSUME ServerType, Mailboxes, Serve, NEW c \in Conn, c \notin cliClosed, NEW r
    PROVE  Kept(c, r)
<1> USE ServerAssumption DEF Go, Running, wire, work, slots, registry, stopVars, data, Shut, Stopping, Exit,
      Written, Mailboxes
<1>1. ASSUME NEW d \in Conn, Accept(d) PROVE Kept(c, r)
  <2>1. CASE d = c
    BY <1>1, <2>1 DEF ServerType, Kept, Fresh, Asked, Answered, Quiet, Waiting, Untouched, Early, Greeted,
       Serving, Over, Holding, Accept, Challenge, AuthResp, Answer, Ask, Reply
  <2>2. CASE d # c
    BY <1>1, <2>2, OthersKept DEF ServerType, Accept
  <2> QED BY <2>1, <2>2
<1>2. ASSUME NEW d \in Conn, Refuse(d) PROVE Kept(c, r)
  <2>1. CASE d = c
    BY <1>2, <2>1 DEF ServerType, Kept, Fresh, Asked, Answered, Quiet, Waiting, Untouched, Early, Greeted,
       Serving, Over, Holding, Refuse, Challenge, AuthResp, Answer, Ask, Reply
  <2>2. CASE d # c
    BY <1>2, <2>2, OthersKept DEF ServerType, Refuse
  <2> QED BY <2>1, <2>2
<1>3. ASSUME NEW d \in Conn, Spawn(d) PROVE Kept(c, r)
  <2>1. CASE d = c
    BY <1>3, <2>1 DEF ServerType, Kept, Fresh, Asked, Answered, Quiet, Waiting, Untouched, Early, Greeted,
       Serving, Over, Holding, Spawn, Challenge, AuthResp, Answer, Ask, Reply
  <2>2. CASE d # c
    BY <1>3, <2>2, OthersKept DEF ServerType, Spawn
  <2> QED BY <2>1, <2>2
<1>4. ASSUME NEW d \in Conn, Register(d) PROVE Kept(c, r)
  <2>1. CASE d = c
    BY <1>4, <2>1 DEF ServerType, Kept, Fresh, Asked, Answered, Quiet, Waiting, Untouched, Early, Greeted,
       Serving, Over, Holding, Register, Challenge, AuthResp, Answer, Ask, Reply
  <2>2. CASE d # c
    BY <1>4, <2>2, OthersKept DEF ServerType, Register
  <2> QED BY <2>1, <2>2
<1>5. ASSUME NEW d \in Conn, Greet(d) PROVE Kept(c, r)
  <2>1. CASE d = c
    <3>1. /\ phase[c] = "greeting" /\ phase'[c] = IF AuthRequired THEN "authing" ELSE "loop"
          /\ up'[c] = up[c] /\ cur'[c] = cur[c] /\ down'[c] = Append(down[c], Challenge)
      BY <1>5, <2>1 DEF ServerType, Greet
    <3>2. Fresh(c) => Fresh(c)'
      BY <3>1, OneMessage DEF Fresh, Untouched, Early, Greeted, Over
    <3> QED BY <3>1, <3>2 DEF Kept, Fresh, Asked, Answered, Quiet, Waiting, Untouched, Early, Greeted,
               Serving, Over, Holding
  <2>2. CASE d # c
    BY <1>5, <2>2, OthersKept DEF ServerType, Greet
  <2> QED BY <2>1, <2>2
<1>6. ASSUME NEW d \in Conn, CheckAnswer(d) PROVE Kept(c, r)
  <2>1. CASE d = c
    <3> DEFINE m == Head(up[c])
               ok == m.type = "answer" /\ m.ok
    <3>1. /\ phase[c] = "authing" /\ phase'[c] = IF ok THEN "loop" ELSE "closing"
          /\ up[c] # << >> /\ up'[c] = Tail(up[c]) /\ cur'[c] = cur[c]
          /\ down'[c] = Append(down[c], AuthResp(ok))
      BY <1>6, <2>1 DEF ServerType, CheckAnswer
    <3> HIDE DEF m
    <3>2. ASSUME NEW b \in BOOLEAN, up[c] = <<Answer(b)>>, down[c] = << >>, cur[c] = None PROVE Answered(c)'
      <4>1. m.type = "answer" /\ m.ok = b
        BY <3>2, OneMessage DEF m, Answer
      <4>2. CASE b = TRUE
        <5>1. ok = TRUE
          BY <4>1, <4>2
        <5> QED BY <3>1, <3>2, <5>1, OneMessage DEF Answered, Serving
      <4>3. CASE b = FALSE
        <5>1. ok = FALSE
          BY <4>1, <4>3
        <5> QED BY <3>1, <3>2, <5>1, OneMessage DEF Answered, Over
      <4> QED BY <4>2, <4>3
    <3>3. Answered(c) => Answered(c)'
      BY <3>1, <3>2 DEF Answered, Serving, Over
    <3> HIDE DEF ok
    <3> QED BY <3>1, <3>3 DEF Kept, Fresh, Asked, Answered, Quiet, Waiting, Untouched, Early, Greeted,
               Serving, Over, Holding
  <2>2. CASE d # c
    BY <1>6, <2>2, OthersKept DEF ServerType, CheckAnswer
  <2> QED BY <2>1, <2>2
<1>7. ASSUME NEW d \in Conn, CheckContext(d) PROVE Kept(c, r)
  <2>1. CASE d = c
    BY <1>7, <2>1 DEF ServerType, Kept, Fresh, Asked, Answered, Quiet, Waiting, Untouched, Early, Greeted,
       Serving, Over, Holding, CheckContext, Challenge, AuthResp, Answer, Ask, Reply
  <2>2. CASE d # c
    BY <1>7, <2>2, OthersKept DEF ServerType, CheckContext
  <2> QED BY <2>1, <2>2
<1>8. ASSUME NEW d \in Conn, ReadRequest(d) PROVE Kept(c, r)
  <2>1. CASE d = c
    <3>1. /\ phase[c] = "reading" /\ phase'[c] \in {"loop", "ready"}
          /\ up[c] # << >> /\ up'[c] = Tail(up[c]) /\ down'[c] = down[c]
      BY <1>8, <2>1 DEF ServerType, ReadRequest
    <3>2. ASSUME up[c] = <<Ask(r)>>, down[c] = << >>, cur[c] = None PROVE Waiting(c, r)'
      <4> DEFINE m == Head(up[c])
      <4>1. IF m.type = "request" /\ ~Empty(m.req)
            THEN phase'[c] = "ready" /\ cur'[c] = m.req
            ELSE phase'[c] = "loop" /\ cur'[c] = cur[c]
        BY <1>8, <2>1 DEF ServerType, ReadRequest
      <4>2. m.type = "request" /\ m.req = r
        BY <3>2, OneMessage DEF Ask
      <4> HIDE DEF m
      <4>3. up'[c] = << >>
        BY <3>1, <3>2, OneMessage
      <4> QED BY <3>1, <3>2, <4>1, <4>2, <4>3 DEF Waiting, Serving, Over, Holding
    <3>3. Waiting(c, r) => (Waiting(c, r))'
      BY <3>1, <3>2 DEF Waiting, Untouched, Holding
    <3> QED BY <3>1, <3>3 DEF Kept, Fresh, Asked, Answered, Quiet, Waiting, Untouched, Early, Greeted,
               Serving, Over, Holding
  <2>2. CASE d # c
    BY <1>8, <2>2, OthersKept DEF ServerType, ReadRequest
  <2> QED BY <2>1, <2>2
<1>9. ASSUME NEW d \in Conn, ConnFails(d) PROVE Kept(c, r)
  <2>1. CASE d = c
    BY <1>9, <2>1 DEF ServerType, Kept, Fresh, Asked, Answered, Quiet, Waiting, Untouched, Early, Greeted,
       Serving, Over, Holding, ConnFails, Challenge, AuthResp, Answer, Ask, Reply
  <2>2. CASE d # c
    BY <1>9, <2>2, OthersKept DEF ServerType, ConnFails
  <2> QED BY <2>1, <2>2
<1>10. ASSUME NEW d \in Conn, StartReadOnly(d) PROVE Kept(c, r)
  <2>1. CASE d = c
    BY <1>10, <2>1 DEF ServerType, Kept, Fresh, Asked, Answered, Quiet, Waiting, Untouched, Early, Greeted,
       Serving, Over, Holding, StartReadOnly, Challenge, AuthResp, Answer, Ask, Reply
  <2>2. CASE d # c
    BY <1>10, <2>2, OthersKept DEF ServerType, StartReadOnly
  <2> QED BY <2>1, <2>2
<1>11. ASSUME NEW d \in Conn, Lock(d) PROVE Kept(c, r)
  <2>1. CASE d = c
    BY <1>11, <2>1 DEF ServerType, Kept, Fresh, Asked, Answered, Quiet, Waiting, Untouched, Early, Greeted,
       Serving, Over, Holding, Lock, Challenge, AuthResp, Answer, Ask, Reply
  <2>2. CASE d # c
    BY <1>11, <2>2, OthersKept DEF ServerType, Lock
  <2> QED BY <2>1, <2>2
<1>12. ASSUME NEW d \in Conn, Execute(d) PROVE Kept(c, r)
  <2>1. CASE d = c
    BY <1>12, <2>1 DEF ServerType, Kept, Fresh, Asked, Answered, Quiet, Waiting, Untouched, Early, Greeted,
       Serving, Over, Holding, Execute, Challenge, AuthResp, Answer, Ask, Reply
  <2>2. CASE d # c
    BY <1>12, <2>2, OthersKept DEF ServerType, Execute
  <2> QED BY <2>1, <2>2
<1>13. ASSUME NEW d \in Conn, Respond(d) PROVE Kept(c, r)
  <2>1. CASE d = c
    <3>1. /\ phase[c] = "replying" /\ phase'[c] = "loop"
          /\ up'[c] = up[c] /\ cur'[c] = None /\ down'[c] = Append(down[c], Reply(cur[c]))
      BY <1>13, <2>1 DEF ServerType, Respond
    <3>2. Waiting(c, r) => (Waiting(c, r))'
      BY <3>1, OneMessage DEF Waiting, Untouched, Serving, Over, Holding
    <3> QED BY <3>1, <3>2 DEF Kept, Fresh, Asked, Answered, Quiet, Waiting, Untouched, Early, Greeted,
               Serving, Over, Holding
  <2>2. CASE d # c
    BY <1>13, <2>2, OthersKept DEF ServerType, Respond
  <2> QED BY <2>1, <2>2
<1>14. ASSUME NEW d \in Conn, Close(d) PROVE Kept(c, r)
  <2>1. CASE d = c
    BY <1>14, <2>1 DEF ServerType, Kept, Fresh, Asked, Answered, Quiet, Waiting, Untouched, Early, Greeted,
       Serving, Over, Holding, Close, Challenge, AuthResp, Answer, Ask, Reply
  <2>2. CASE d # c
    BY <1>14, <2>2, OthersKept DEF ServerType, Close
  <2> QED BY <2>1, <2>2
<1>15. ASSUME NEW d \in Conn, Uncount(d) PROVE Kept(c, r)
  <2>1. CASE d = c
    BY <1>15, <2>1 DEF ServerType, Kept, Fresh, Asked, Answered, Quiet, Waiting, Untouched, Early, Greeted,
       Serving, Over, Holding, Uncount, Challenge, AuthResp, Answer, Ask, Reply
  <2>2. CASE d # c
    BY <1>15, <2>2, OthersKept DEF ServerType, Uncount
  <2> QED BY <2>1, <2>2
<1>16. ASSUME NEW d \in Conn, Unregister(d) PROVE Kept(c, r)
  <2>1. CASE d = c
    BY <1>16, <2>1 DEF ServerType, Kept, Fresh, Asked, Answered, Quiet, Waiting, Untouched, Early, Greeted,
       Serving, Over, Holding, Unregister, Challenge, AuthResp, Answer, Ask, Reply
  <2>2. CASE d # c
    BY <1>16, <2>2, OthersKept DEF ServerType, Unregister
  <2> QED BY <2>1, <2>2
<1>17. ASSUME NEW d \in Conn, CloseConn(d) PROVE Kept(c, r)
  <2>1. CASE d = c
    BY <1>17, <2>1 DEF ServerType, Kept, Fresh, Asked, Answered, Quiet, Waiting, Untouched, Early, Greeted,
       Serving, Over, Holding, CloseConn, Challenge, AuthResp, Answer, Ask, Reply
  <2>2. CASE d # c
    BY <1>17, <2>2, OthersKept DEF ServerType, CloseConn
  <2> QED BY <2>1, <2>2
<1>18. CASE AcceptNext
  BY <1>18, OthersKept DEF AcceptNext
<1>19. CASE StartReturns
  BY <1>19 DEF ServerType, Kept, Fresh, Asked, Answered, Quiet, Waiting, Untouched, Early, Greeted, Serving,
     Over, Holding, StartReturns
<1>20. CASE Cancel
  BY <1>20, OthersKept DEF Cancel
<1>21. CASE CloseListener
  BY <1>21, OthersKept DEF CloseListener
<1>22. CASE RangeConns
  BY <1>22, OthersKept DEF RangeConns
<1>23. CASE FlushAll
  BY <1>23, OthersKept DEF FlushAll
<1>24. CASE ExitProcess
  BY <1>24 DEF ServerType, Kept, Fresh, Asked, Answered, Quiet, Waiting, Untouched, Early, Greeted, Serving,
     Over, Holding, ExitProcess
<1> QED BY <1>1, <1>2, <1>3, <1>4, <1>5, <1>6, <1>7, <1>8, <1>9, <1>10, <1>11, <1>12, <1>13, <1>14, <1>15,
           <1>16, <1>17, <1>18, <1>19, <1>20, <1>21, <1>22, <1>23, <1>24 DEF Serve, Start, Stop, Handler

(* The server closes nothing on the other end and dials nothing.           *)
LEMMA ServeLeaves ==
    ASSUME ServerType, WireInv, Serve
    PROVE  cliClosed' = cliClosed /\ WireInv' /\ \A c \in Conn : phase'[c] = "new" <=> phase[c] = "new"
<1> DEFINE G == cliClosed' = cliClosed /\ WireInv' /\ \A c \in Conn : phase'[c] = "new" <=> phase[c] = "new"
<1> USE ServerAssumption DEF Go, Running, wire, work, slots, registry, stopVars, data, Shut, Stopping, Exit,
      Written, WireInv, NewIsClean, Mailboxes, Clean
<1>1. ASSUME NEW c \in Conn, Accept(c) PROVE G
  BY <1>1 DEF ServerType, Accept
<1>2. ASSUME NEW c \in Conn, Refuse(c) PROVE G
  BY <1>2 DEF ServerType, Refuse
<1>3. ASSUME NEW c \in Conn, Spawn(c) PROVE G
  BY <1>3 DEF ServerType, Spawn
<1>4. ASSUME NEW c \in Conn, Register(c) PROVE G
  BY <1>4 DEF ServerType, Register
<1>5. ASSUME NEW c \in Conn, Greet(c) PROVE G
  BY <1>5 DEF ServerType, Greet
<1>6. ASSUME NEW c \in Conn, CheckAnswer(c) PROVE G
  BY <1>6 DEF ServerType, CheckAnswer
<1>7. ASSUME NEW c \in Conn, CheckContext(c) PROVE G
  BY <1>7 DEF ServerType, CheckContext
<1>8. ASSUME NEW c \in Conn, ReadRequest(c) PROVE G
  BY <1>8 DEF ServerType, ReadRequest
<1>9. ASSUME NEW c \in Conn, ConnFails(c) PROVE G
  BY <1>9 DEF ServerType, ConnFails
<1>10. ASSUME NEW c \in Conn, StartReadOnly(c) PROVE G
  BY <1>10 DEF ServerType, StartReadOnly
<1>11. ASSUME NEW c \in Conn, Lock(c) PROVE G
  BY <1>11 DEF ServerType, Lock
<1>12. ASSUME NEW c \in Conn, Execute(c) PROVE G
  BY <1>12 DEF ServerType, Execute
<1>13. ASSUME NEW c \in Conn, Respond(c) PROVE G
  BY <1>13 DEF ServerType, Respond
<1>14. ASSUME NEW c \in Conn, Close(c) PROVE G
  BY <1>14 DEF ServerType, Close
<1>15. ASSUME NEW c \in Conn, Uncount(c) PROVE G
  BY <1>15 DEF ServerType, Uncount
<1>16. ASSUME NEW c \in Conn, Unregister(c) PROVE G
  BY <1>16 DEF ServerType, Unregister
<1>17. ASSUME NEW c \in Conn, CloseConn(c) PROVE G
  BY <1>17 DEF ServerType, CloseConn
<1>18. CASE AcceptNext
  BY <1>18 DEF ServerType, AcceptNext
<1>19. CASE StartReturns
  BY <1>19 DEF ServerType, StartReturns
<1>20. CASE Cancel
  BY <1>20 DEF ServerType, Cancel
<1>21. CASE CloseListener
  BY <1>21 DEF ServerType, CloseListener
<1>22. CASE RangeConns
  BY <1>22 DEF ServerType, RangeConns
<1>23. CASE FlushAll
  BY <1>23 DEF ServerType, FlushAll
<1>24. CASE ExitProcess
  BY <1>24 DEF ServerType, ExitProcess
<1> QED BY <1>1, <1>2, <1>3, <1>4, <1>5, <1>6, <1>7, <1>8, <1>9, <1>10, <1>11, <1>12, <1>13, <1>14, <1>15,
           <1>16, <1>17, <1>18, <1>19, <1>20, <1>21, <1>22, <1>23, <1>24 DEF Serve, Start, Stop, Handler

LEMMA ServeMatches ==
    ASSUME ServerType, ClientType, WireInv, Apart, Serve, UNCHANGED clientVars, NEW k \in Client, Match(k)
    PROVE  Match(k)'
<1>1. cliClosed' = cliClosed
  BY ServeLeaves
<1>2. UNCHANGED <<pc, conn, dialing, deaf, stmt>>
  BY DEF clientVars
<1>3. pc[k] \in Dialing => dialing[k] \in Conn
  BY DEF ClientType
<1>4. pc[k] \in {"idle", "send", "await", "refused"} => conn[k] \in Conn
  BY DEF ClientType
<1>5. ASSUME NEW e \in Conn, e \notin cliClosed, NEW r PROVE Kept(e, r)
  BY <1>5, ServeKeeps DEF WireInv
<1>6. ASSUME NEW e \in Conn, e = dialing[k], pc[k] \in Dialing
      PROVE  /\ Fresh(e) => Fresh(dialing[k])'
             /\ Asked(e) => Asked(dialing[k])'
             /\ Answered(e) => Answered(dialing[k])'
  <2>1. Kept(e, None)
    BY <1>5, <1>6 DEF Match
  <2> QED BY <1>2, <1>6, <2>1 DEF Kept, Fresh, Asked, Answered, Untouched
<1>7. ASSUME NEW e \in Conn, e = conn[k], e \notin cliClosed, NEW r, r = stmt[k]
      PROVE  /\ Quiet(e) => Quiet(conn[k])'
             /\ Waiting(e, r) => Waiting(conn[k], stmt[k])'
  <2>1. Kept(e, r)
    BY <1>5, <1>7
  <2> QED BY <1>2, <1>7, <2>1 DEF Kept, Quiet, Waiting, Untouched
<1> QED BY <1>1, <1>2, <1>3, <1>4, <1>5, <1>6, <1>7 DEF Match, ClientType, Dialing

(* A step that keeps away from the connections of a client leaves it as it *)
(* is; a client keeps to its own.                                          *)
LEMMA OthersMatch ==
    ASSUME ClientType, NEW l \in Client, Match(l),
           pc'[l] = pc[l], conn'[l] = conn[l], dialing'[l] = dialing[l], deaf'[l] = deaf[l], stmt'[l] = stmt[l],
           conn[l] # None => SameAt(conn[l]), dialing[l] # None => SameAt(dialing[l])
    PROVE  Match(l)'
<1>1. pc[l] \in Dialing => dialing[l] # None
  BY DEF ClientType
<1>2. pc[l] \in {"idle", "send", "await", "refused"} => conn[l] # None
  BY DEF ClientType
<1> QED BY <1>1, <1>2 DEF Match, SameAt, Dialing, Fresh, Asked, Answered, Quiet, Waiting, Untouched

LEMMA WireStep ==
    ASSUME ServerType, WireInv, NEW c \in Conn,
           (\E a \in Addr : Dial(c, a)) \/ (\E m : Send(c, m)) \/ Receive(c) \/ Hangup(c)
    PROVE  /\ WireInv' /\ \A d \in Conn : phase[d] # "new" => phase'[d] # "new"
           /\ \A d \in Conn \ {c} : SameAt(d)
<1> USE DEF WireInv, NewIsClean, Mailboxes, Clean, SameAt, work
<1> DEFINE G == /\ WireInv' /\ \A d \in Conn : phase[d] # "new" => phase'[d] # "new"
                /\ \A d \in Conn \ {c} : SameAt(d)
<1>1. ASSUME NEW a \in Addr, Dial(c, a) PROVE G
  BY <1>1 DEF ServerType, Dial
<1>2. ASSUME NEW m, Send(c, m) PROVE G
  BY <1>2 DEF ServerType, Send
<1>3. CASE Receive(c)
  BY <1>3 DEF ServerType, Receive
<1>4. CASE Hangup(c)
  BY <1>4 DEF ServerType, Hangup
<1> QED BY <1>1, <1>2, <1>3, <1>4

LEMMA StutterStep ==
    ASSUME WireInv, UNCHANGED vars
    PROVE  WireInv' /\ (\A d \in Conn : phase[d] # "new" => phase'[d] # "new") /\ \A d \in Conn : SameAt(d)
  BY DEF vars, wire, work, WireInv, NewIsClean, Mailboxes, Clean, SameAt

LEMMA OnlyOwn ==
    ASSUME ClientType, Apart, NEW k \in Client, \A l \in Client : Match(l),
           NEW e, e = conn[k] \/ e = dialing[k] \/ phase[e] = "new", \A d \in Conn \ {e} : SameAt(d),
           OthersStay(k)
    PROVE  \A l \in Client \ {k} : Match(l)'
<1> SUFFICES ASSUME NEW l \in Client \ {k} PROVE Match(l)'
  OBVIOUS
<1>1. conn[l] # None => conn[l] \in Conn \ {e}
  BY DEF ClientType, Apart
<1>2. dialing[l] # None => dialing[l] \in Conn \ {e}
  BY DEF ClientType, Apart
<1> QED BY <1>1, <1>2, OthersMatch DEF OthersStay

(* A step of a client, by action: what happens to its connection e, that   *)
(* connections stay apart, and what it and the others may expect then.     *)
LEMMA ClientMatches ==
    ASSUME ServerType, ClientType, ClientType', WireInv, Apart, \A l \in Client : Match(l),
           NEW k \in Client, ClientStep(k)
    PROVE  WireInv' /\ Apart' /\ \A l \in Client : Match(l)'
<1> USE ServerAssumption DEF At, Dialing, ClientPhase
<1>1. CASE Open(k)
  <2>1. UNCHANGED vars /\ UNCHANGED <<conn, dialing, deaf, stmt>>
    BY <1>1 DEF Open, ClientType
  <2>2. WireInv' /\ \A c \in Conn : SameAt(c)
    BY <2>1 DEF vars, wire, work, WireInv, NewIsClean, Mailboxes, Clean, SameAt
  <2>3. Apart'
    BY <1>1, <2>1 DEF ClientType, Apart, vars, Open
  <2>4. Match(k)'
    BY <1>1, <2>1 DEF ClientType, vars, wire, work, Match, Fresh, Asked, Answered, Quiet, Waiting, Untouched,
       Early, Greeted, Serving, Over, Holding, Open
  <2>5. OthersStay(k)
    BY <1>1, <2>1 DEF ClientType, OthersStay, Open
  <2>6. \A l \in Client \ {k} : Match(l)'
    BY <2>1, <2>2, <2>5, OnlyOwn
  <2> QED BY <2>2, <2>3, <2>4, <2>6
<1>2. CASE DialServer(k)
  <2>1. PICK e \in Conn : phase[e] = "new" /\ dialing' = [dialing EXCEPT ![k] = e] /\ \E a \in Addr : Dial(e, a)
    BY <1>2 DEF DialServer, Dialable, CanDial
  <2>2. WireInv' /\ (\A d \in Conn : phase[d] # "new" => phase'[d] # "new") /\ \A d \in Conn \ {e} : SameAt(d)
    BY <2>1, WireStep
  <2>3. Apart'
    <3>1. UNCHANGED conn /\ phase'[e] # "new"
      BY <1>2, <2>1 DEF ServerType, DialServer, Dial
    <3>2. \A l \in Client : conn[l] # e /\ dialing[l] # e
      BY <2>1 DEF Apart
    <3> QED BY <2>1, <2>2, <3>1, <3>2 DEF ClientType, Apart
  <2>4. Match(k)'
    <3>1. pc'[k] = "greet" /\ dialing'[k] = e /\ UNCHANGED <<conn, deaf, stmt, cliClosed>> /\ conn[k] # e
      BY <1>2, <2>1 DEF ClientType, Apart, DialServer, Dial
    <3>2. phase'[e] = "queued" /\ cur'[e] = None /\ up'[e] = << >> /\ down'[e] = << >> /\ e \notin cliClosed'
      BY <2>1 DEF ServerType, WireInv, NewIsClean, Clean, Dial, work, Holding
    <3>3. conn[k] = None \/ conn[k] \in cliClosed
      BY <1>2 DEF Match, DialServer
    <3> QED BY <3>1, <3>2, <3>3 DEF Match, Fresh, Untouched, Early
  <2>5. OthersStay(k)
    BY <1>2, <2>1 DEF ClientType, OthersStay, DialServer, Dialable
  <2>6. \A l \in Client \ {k} : Match(l)'
    BY <2>1, <2>2, <2>5, OnlyOwn
  <2> QED BY <2>2, <2>3, <2>4, <2>6
<1>3. CASE DialFails(k)
  <2>1. UNCHANGED vars /\ UNCHANGED <<conn, deaf, stmt>> /\ dialing' = [dialing EXCEPT ![k] = None]
    BY <1>3 DEF DialFails, Undialled, ClientType
  <2>2. WireInv' /\ \A c \in Conn : SameAt(c)
    BY <2>1 DEF vars, wire, work, WireInv, NewIsClean, Mailboxes, Clean, SameAt
  <2>3. Apart'
    BY <1>3, <2>1 DEF ClientType, Apart, vars, DialFails, Undialled
  <2>4. Match(k)'
    BY <1>3, <2>1 DEF ClientType, vars, wire, work, Match, Fresh, Asked, Answered, Quiet, Waiting, Untouched,
       Early, Greeted, Serving, Over, Holding, DialFails, Undialled
  <2>5. OthersStay(k)
    BY <1>3, <2>1 DEF ClientType, OthersStay, DialFails, Undialled
  <2>6. \A l \in Client \ {k} : Match(l)'
    BY <2>1, <2>2, <2>5, OnlyOwn
  <2> QED BY <2>2, <2>3, <2>4, <2>6
<1>4. CASE HandshakeFails(k)
  <2>1. PICK e \in Conn : e = dialing[k] /\ (Hangup(e))
    BY <1>4 DEF ClientType, HandshakeFails, Undialled
  <2>2. WireInv' /\ (\A d \in Conn : phase[d] # "new" => phase'[d] # "new") /\ \A d \in Conn \ {e} : SameAt(d)
    BY <2>1, WireStep
  <2>3. Apart'
    BY <1>4, <2>1, <2>2 DEF ClientType, Apart, HandshakeFails, Undialled
  <2>4. Match(k)'
    <3>1. pc[k] \in Dialing /\ pc'[k] = (IF stmt[k] = None THEN "failed" ELSE "send") /\ UNCHANGED <<conn, deaf, stmt>>
      BY <1>4 DEF ClientType, HandshakeFails, Undialled
    <3>2. cliClosed \subseteq cliClosed'
      BY <2>1 DEF Hangup
    <3>3. stmt[k] # None => conn[k] \in cliClosed'
      BY <3>1, <3>2 DEF ClientType, Match
    <3> QED BY <3>1, <3>3 DEF Match
  <2>5. OthersStay(k)
    BY <1>4, <2>1 DEF ClientType, OthersStay, HandshakeFails, Undialled
  <2>6. \A l \in Client \ {k} : Match(l)'
    BY <2>1, <2>2, <2>5, OnlyOwn
  <2> QED BY <2>2, <2>3, <2>4, <2>6
<1>5. CASE ReadChallenge(k)
  <2>1. PICK e \in Conn : e = dialing[k] /\ (Receive(e))
    BY <1>5 DEF ClientType, ReadChallenge, Got, Connected, Ready
  <2>2. WireInv' /\ (\A d \in Conn : phase[d] # "new" => phase'[d] # "new") /\ \A d \in Conn \ {e} : SameAt(d)
    BY <2>1, WireStep
  <2>3. Apart'
    BY <1>5, <2>1, <2>2 DEF ClientType, Apart, ReadChallenge, Got, Connected, Ready
  <2>4. Match(k)'
    <3>1. /\ down[e] # << >> /\ Head(down[e]) = Challenge /\ down'[e] = Tail(down[e]) /\ e \notin cliClosed
          /\ UNCHANGED <<phase, up, cur, cliClosed>> /\ Fresh(e)
      BY <1>5, <2>1 DEF ServerType, WireInv, Mailboxes, Match, ReadChallenge, Got, Receive, work
    <3>2. down[e] = <<Challenge>> /\ down'[e] = << >> /\ Untouched(e) /\ phase[e] \in Greeted \union Over
      BY <3>1, OneMessage DEF Fresh
    <3>3. CASE AuthRequired
      <4>1. pc'[k] = "proving" /\ UNCHANGED <<conn, dialing, deaf, stmt>>
        BY <1>5, <3>3 DEF ClientType, ReadChallenge, Got
      <4>2. Asked(e)'
        BY <3>1, <3>2, <3>3 DEF Asked, Untouched, Greeted
      <4>3. conn[k] = None \/ conn[k] \in cliClosed
        BY <1>5 DEF Match, ReadChallenge, Got
      <4> QED BY <3>1, <4>1, <4>2, <4>3, <2>1 DEF Match, Asked, Untouched
    <3>4. CASE ~AuthRequired
      <4>1. pc'[k] \in {"idle", "send"} /\ conn'[k] = e /\ UNCHANGED stmt
        BY <1>5, <3>4, <2>1 DEF ClientType, ReadChallenge, Got, Connected, Ready
      <4>2. Quiet(e)'
        BY <3>1, <3>2, <3>4 DEF Quiet, Untouched, Greeted, Serving
      <4> QED BY <4>1, <4>2 DEF Match, Quiet, Untouched
    <3> QED BY <3>3, <3>4
  <2>5. OthersStay(k)
    BY <1>5, <2>1 DEF ClientType, OthersStay, ReadChallenge, Got, Connected, Ready
  <2>6. \A l \in Client \ {k} : Match(l)'
    BY <2>1, <2>2, <2>5, OnlyOwn
  <2> QED BY <2>2, <2>3, <2>4, <2>6
<1>6. CASE SendAnswer(k)
  <2>1. PICK e \in Conn : e = dialing[k] /\ (\E m : Send(e, m))
    BY <1>6 DEF ClientType, SendAnswer
  <2>2. WireInv' /\ (\A d \in Conn : phase[d] # "new" => phase'[d] # "new") /\ \A d \in Conn \ {e} : SameAt(d)
    BY <2>1, WireStep
  <2>3. Apart'
    BY <1>6, <2>1, <2>2 DEF ClientType, Apart, SendAnswer
  <2>4. Match(k)'
    <3> DEFINE b == k \notin wrong
    <3>1. /\ pc'[k] = "answered" /\ UNCHANGED <<conn, dialing, deaf, stmt>>
          /\ up'[e] = IF e \in srvClosed THEN up[e] ELSE Append(up[e], Answer(b))
          /\ UNCHANGED <<phase, down, cur, cliClosed>> /\ e \notin cliClosed /\ Asked(e)
      BY <1>6, <2>1 DEF ServerType, ClientType, Match, SendAnswer, Send, work
    <3>2. conn[k] = None \/ conn[k] \in cliClosed
      BY <1>6 DEF Match, SendAnswer
    <3>3. up'[e] \in {<< >>, <<Answer(TRUE)>>, <<Answer(FALSE)>>}
      <4>1. CASE b = TRUE
        BY <3>1, <4>1, OneMessage DEF Asked, Untouched
      <4>2. CASE b = FALSE
        BY <3>1, <4>2, OneMessage DEF Asked, Untouched
      <4> QED BY <4>1, <4>2
    <3> HIDE DEF b
    <3>4. Answered(e)'
      BY <3>1, <3>3 DEF Answered, Asked, Untouched
    <3> QED BY <3>1, <3>2, <3>4, <2>1 DEF Match, Answered
  <2>5. OthersStay(k)
    BY <1>6, <2>1 DEF ClientType, OthersStay, SendAnswer
  <2>6. \A l \in Client \ {k} : Match(l)'
    BY <2>1, <2>2, <2>5, OnlyOwn
  <2> QED BY <2>2, <2>3, <2>4, <2>6
<1>7. CASE Accepted(k)
  <2>1. PICK e \in Conn : e = dialing[k] /\ (Receive(e))
    BY <1>7 DEF ClientType, Accepted, Got, Connected, Ready
  <2>2. WireInv' /\ (\A d \in Conn : phase[d] # "new" => phase'[d] # "new") /\ \A d \in Conn \ {e} : SameAt(d)
    BY <2>1, WireStep
  <2>3. Apart'
    BY <1>7, <2>1, <2>2 DEF ClientType, Apart, Accepted, Got, Connected, Ready
  <2>4. Match(k)'
    <3>1. /\ down[e] # << >> /\ Head(down[e]) = AuthResp(TRUE) /\ down'[e] = Tail(down[e])
          /\ UNCHANGED <<phase, up, cur, cliClosed>> /\ Answered(e)
      BY <1>7, <2>1 DEF ServerType, WireInv, Mailboxes, Match, Accepted, Got, Receive, work
    <3>2. AuthResp(TRUE) # AuthResp(FALSE)
      BY DEF AuthResp
    <3>3. down'[e] = << >> /\ Untouched(e) /\ phase[e] \in Serving \union Over
      BY <3>1, <3>2, OneMessage DEF Answered, Untouched
    <3>4. pc'[k] \in {"idle", "send"} /\ conn'[k] = e /\ UNCHANGED stmt
      BY <1>7, <2>1 DEF ClientType, Accepted, Got, Connected, Ready
    <3>5. Quiet(e)'
      BY <3>1, <3>3 DEF Quiet, Untouched
    <3> QED BY <3>4, <3>5 DEF Match, Quiet, Untouched
  <2>5. OthersStay(k)
    BY <1>7, <2>1 DEF ClientType, OthersStay, Accepted, Got, Connected, Ready
  <2>6. \A l \in Client \ {k} : Match(l)'
    BY <2>1, <2>2, <2>5, OnlyOwn
  <2> QED BY <2>2, <2>3, <2>4, <2>6
<1>8. CASE SendStatement(k)
  <2>1. PICK e \in Conn : e = conn[k] /\ (\E m : Send(e, m))
    BY <1>8 DEF ClientType, SendStatement
  <2>2. WireInv' /\ (\A d \in Conn : phase[d] # "new" => phase'[d] # "new") /\ \A d \in Conn \ {e} : SameAt(d)
    BY <2>1, WireStep
  <2>3. Apart'
    BY <1>8, <2>1, <2>2 DEF ClientType, Apart, SendStatement
  <2>4. Match(k)'
    <3>1. PICK r :
          /\ r = stmt[k]
          /\ pc[k] = "send" /\ pc'[k] = "await" /\ UNCHANGED <<conn, dialing, deaf, stmt>>
          /\ up'[e] = IF e \in srvClosed THEN up[e] ELSE Append(up[e], Ask(r))
          /\ UNCHANGED <<phase, down, cur, cliClosed>> /\ e \notin cliClosed
      BY <1>8, <2>1 DEF ServerType, ClientType, SendStatement, Send, work
    <3>2. ~deaf[k] => Quiet(e)
      BY <3>1, <2>1 DEF Match
    <3>3. Quiet(e) => up'[e] \in {<< >>, <<Ask(r)>>}
      BY <3>1, OneMessage DEF Quiet, Untouched
    <3>4. Quiet(e) => Waiting(e, r)'
      BY <3>1, <3>3, <2>1 DEF Quiet, Waiting, Untouched
    <3> QED BY <3>1, <3>2, <3>4, <2>1 DEF Match, Waiting, Untouched
  <2>5. OthersStay(k)
    BY <1>8, <2>1 DEF ClientType, OthersStay, SendStatement
  <2>6. \A l \in Client \ {k} : Match(l)'
    BY <2>1, <2>2, <2>5, OnlyOwn
  <2> QED BY <2>2, <2>3, <2>4, <2>6
<1>9. CASE SendFails(k)
  <2>1. PICK e \in Conn : e = conn[k] /\ (Hangup(e) \/ UNCHANGED vars)
    BY <1>9 DEF ClientType, SendFails, AttemptFails
  <2>2. WireInv' /\ (\A d \in Conn : phase[d] # "new" => phase'[d] # "new") /\ \A d \in Conn \ {e} : SameAt(d)
    BY <2>1, WireStep, StutterStep
  <2>3. Apart'
    BY <1>9, <2>1, <2>2 DEF ClientType, Apart, SendFails, AttemptFails
  <2>4. Match(k)'
    <3>1. pc[k] = "send" /\ UNCHANGED <<conn, dialing>> /\ (UNCHANGED deaf)
      BY <1>9 DEF ClientType, SendFails, AttemptFails
    <3>2. CASE try[k] < MaxRetries
      <4>1. pc'[k] = "dial" /\ e \in cliClosed'
        BY <1>9, <2>1, <3>2 DEF ClientType, SendFails, AttemptFails, Hangup, vars, wire
      <4> QED BY <3>1, <4>1, <2>1 DEF Match
    <3>3. CASE ~(try[k] < MaxRetries)
      <4>1. pc'[k] = "idle" /\ UNCHANGED <<phase, up, down, cur, cliClosed>>
        BY <1>9, <3>3 DEF ClientType, SendFails, AttemptFails, vars, wire, work
      <4> QED BY <1>9, <3>1, <4>1 DEF Match, Quiet, Untouched
    <3> QED BY <3>2, <3>3
  <2>5. OthersStay(k)
    BY <1>9, <2>1 DEF ClientType, OthersStay, SendFails, AttemptFails
  <2>6. \A l \in Client \ {k} : Match(l)'
    BY <2>1, <2>2, <2>5, OnlyOwn
  <2> QED BY <2>2, <2>3, <2>4, <2>6
<1>10. CASE GetReply(k)
  <2>1. PICK e \in Conn : e = conn[k] /\ (Receive(e))
    BY <1>10 DEF ClientType, GetReply, Got, Returned
  <2>2. WireInv' /\ (\A d \in Conn : phase[d] # "new" => phase'[d] # "new") /\ \A d \in Conn \ {e} : SameAt(d)
    BY <2>1, WireStep
  <2>3. Apart'
    BY <1>10, <2>1, <2>2 DEF ClientType, Apart, GetReply, Got, Returned
  <2>4. Match(k)'
    <3>1. PICK r :
          /\ r = stmt[k]
          /\ ~deaf[k] /\ pc[k] = "await" /\ pc'[k] = "idle" /\ UNCHANGED <<conn, dialing, deaf>>
          /\ down[e] # << >> /\ Head(down[e]) = Reply(r) /\ down'[e] = Tail(down[e])
          /\ UNCHANGED <<phase, up, cur, cliClosed>> /\ e \notin cliClosed
      BY <1>10, <2>1 DEF ServerType, ClientType, WireInv, Mailboxes, GetReply, Got,  Returned,  Receive, work
    <3>2. Waiting(e, r)
      BY <3>1, <2>1 DEF Match
    <3>3. down'[e] = << >> /\ Untouched(e) /\ phase[e] \in Serving \union Over
      BY <3>1, <3>2, OneMessage DEF Waiting
    <3>4. Quiet(e)'
      BY <3>1, <3>3 DEF Quiet, Untouched
    <3> QED BY <3>1, <3>4, <2>1 DEF Match, Quiet, Untouched
  <2>5. OthersStay(k)
    BY <1>10, <2>1 DEF ClientType, OthersStay, GetReply, Got, Returned
  <2>6. \A l \in Client \ {k} : Match(l)'
    BY <2>1, <2>2, <2>5, OnlyOwn
  <2> QED BY <2>2, <2>3, <2>4, <2>6
<1>11. CASE GetError(k)
  <2>1. PICK e \in Conn : e = conn[k] /\ (Receive(e))
    BY <1>11 DEF ClientType, GetError, Got
  <2>2. WireInv' /\ (\A d \in Conn : phase[d] # "new" => phase'[d] # "new") /\ \A d \in Conn \ {e} : SameAt(d)
    BY <2>1, WireStep
  <2>3. Apart'
    BY <1>11, <2>1, <2>2 DEF ClientType, Apart, GetError, Got
  <2>4. Match(k)'
    <3>1. PICK r :
          /\ r = stmt[k]
          /\ ~deaf[k] /\ pc[k] = "await" /\ pc'[k] = "refused" /\ UNCHANGED <<conn, dialing, deaf>>
          /\ down[e] # << >> /\ Head(down[e]) = Reply(r) /\ down'[e] = Tail(down[e])
          /\ UNCHANGED <<phase, up, cur, cliClosed>> /\ e \notin cliClosed
      BY <1>11, <2>1 DEF ServerType, ClientType, WireInv, Mailboxes, GetError, Got,  Receive, work
    <3>2. Waiting(e, r)
      BY <3>1, <2>1 DEF Match
    <3>3. down'[e] = << >> /\ Untouched(e) /\ phase[e] \in Serving \union Over
      BY <3>1, <3>2, OneMessage DEF Waiting
    <3>4. Quiet(e)'
      BY <3>1, <3>3 DEF Quiet, Untouched
    <3> QED BY <3>1, <3>4, <2>1 DEF Match, Quiet, Untouched
  <2>5. OthersStay(k)
    BY <1>11, <2>1 DEF ClientType, OthersStay, GetError, Got
  <2>6. \A l \in Client \ {k} : Match(l)'
    BY <2>1, <2>2, <2>5, OnlyOwn
  <2> QED BY <2>2, <2>3, <2>4, <2>6
<1>12. CASE AfterError(k)
  <2>1. PICK e \in Conn : e = conn[k] /\ (Hangup(e) \/ UNCHANGED vars)
    BY <1>12 DEF ClientType, AfterError, AttemptFails
  <2>2. WireInv' /\ (\A d \in Conn : phase[d] # "new" => phase'[d] # "new") /\ \A d \in Conn \ {e} : SameAt(d)
    BY <2>1, WireStep, StutterStep
  <2>3. Apart'
    BY <1>12, <2>1, <2>2 DEF ClientType, Apart, AfterError, AttemptFails
  <2>4. Match(k)'
    <3>1. pc[k] = "refused" /\ UNCHANGED <<conn, dialing>> /\ (UNCHANGED deaf)
      BY <1>12 DEF ClientType, AfterError, AttemptFails
    <3>2. CASE try[k] < MaxRetries
      <4>1. pc'[k] = "dial" /\ e \in cliClosed'
        BY <1>12, <2>1, <3>2 DEF ClientType, AfterError, AttemptFails, Hangup, vars, wire
      <4> QED BY <3>1, <4>1, <2>1 DEF Match
    <3>3. CASE ~(try[k] < MaxRetries)
      <4>1. pc'[k] = "idle" /\ UNCHANGED <<phase, up, down, cur, cliClosed>>
        BY <1>12, <3>3 DEF ClientType, AfterError, AttemptFails, vars, wire, work
      <4> QED BY <1>12, <3>1, <4>1 DEF Match, Quiet, Untouched
    <3> QED BY <3>2, <3>3
  <2>5. OthersStay(k)
    BY <1>12, <2>1 DEF ClientType, OthersStay, AfterError, AttemptFails
  <2>6. \A l \in Client \ {k} : Match(l)'
    BY <2>1, <2>2, <2>5, OnlyOwn
  <2> QED BY <2>2, <2>3, <2>4, <2>6
<1>13. CASE ScanFails(k)
  <2>1. PICK e \in Conn : e = conn[k] /\ (Hangup(e) \/ UNCHANGED vars)
    BY <1>13 DEF ClientType, ScanFails, AttemptFails
  <2>2. WireInv' /\ (\A d \in Conn : phase[d] # "new" => phase'[d] # "new") /\ \A d \in Conn \ {e} : SameAt(d)
    BY <2>1, WireStep, StutterStep
  <2>3. Apart'
    BY <1>13, <2>1, <2>2 DEF ClientType, Apart, ScanFails, AttemptFails
  <2>4. Match(k)'
    <3>1. pc[k] = "await" /\ UNCHANGED <<conn, dialing>> /\ (deaf'[k] = TRUE)
      BY <1>13 DEF ClientType, ScanFails, AttemptFails
    <3>2. CASE try[k] < MaxRetries
      <4>1. pc'[k] = "dial" /\ e \in cliClosed'
        BY <1>13, <2>1, <3>2 DEF ClientType, ScanFails, AttemptFails, Hangup, vars, wire
      <4> QED BY <3>1, <4>1, <2>1 DEF Match
    <3>3. CASE ~(try[k] < MaxRetries)
      <4>1. pc'[k] = "idle" /\ UNCHANGED <<phase, up, down, cur, cliClosed>>
        BY <1>13, <3>3 DEF ClientType, ScanFails, AttemptFails, vars, wire, work
      <4> QED BY <1>13, <3>1, <4>1 DEF Match, Quiet, Untouched
    <3> QED BY <3>2, <3>3
  <2>5. OthersStay(k)
    BY <1>13, <2>1 DEF ClientType, OthersStay, ScanFails, AttemptFails
  <2>6. \A l \in Client \ {k} : Match(l)'
    BY <2>1, <2>2, <2>5, OnlyOwn
  <2> QED BY <2>2, <2>3, <2>4, <2>6
<1> QED BY <1>1, <1>2, <1>3, <1>4, <1>5, <1>6, <1>7, <1>8, <1>9, <1>10, <1>11, <1>12, <1>13 DEF ClientStep

LEMMA StartExecMatches ==
    ASSUME ClientType, WireInv, Apart, \A l \in Client : Match(l),
           NEW k \in Client, NEW r \in Request, StartExec(k, r)
    PROVE  WireInv' /\ Apart' /\ \A l \in Client : Match(l)'
<1>1. /\ UNCHANGED vars /\ UNCHANGED <<conn, dialing, deaf>>
      /\ pc[k] = "idle" /\ pc' = [pc EXCEPT ![k] = "send"] /\ stmt' = [stmt EXCEPT ![k] = r]
  BY DEF StartExec, At
<1>2. WireInv' /\ \A c \in Conn : SameAt(c)
  BY <1>1, StutterStep
<1>3. Apart'
  BY <1>1 DEF Apart, vars
<1>4. Match(k)'
  BY <1>1 DEF ClientType, Match, Dialing, Quiet, Untouched, vars, wire, work
<1>5. OthersStay(k)
  BY <1>1 DEF ClientType, OthersStay
<1>6. \A l \in Client \ {k} : Match(l)'
  BY <1>2, <1>5, OthersMatch DEF OthersStay, ClientType
<1> QED BY <1>2, <1>3, <1>4, <1>6

LEMMA SessionStarts == SessionInit => SessionInv
<1> SUFFICES ASSUME SessionInit PROVE SessionInv
  OBVIOUS
<1>1. ServerInv
  BY ServerInit DEF SessionInit
<1>2. ClientType
  BY DEF SessionInit, ClientType, ClientPhase, Dialing
<1>3. WireInv
  BY DEF SessionInit, Init, WireInv, NewIsClean, Mailboxes, Clean
<1>4. Apart
  BY DEF SessionInit, Apart
<1>5. \A k \in Client : Match(k)
  BY DEF SessionInit, Match, Dialing
<1> QED BY <1>1, <1>2, <1>3, <1>4, <1>5 DEF SessionInv

LEMMA SessionStep == SessionInv /\ [SessionNext]_sessionVars => SessionInv'
<1> SUFFICES ASSUME SessionInv, [SessionNext]_sessionVars PROVE SessionInv'
  OBVIOUS
<1>1. ClientType' /\ [Next]_vars
  BY ClientTypeStep, StepIsServerStep DEF SessionInv
<1>2. ServerInv'
  BY <1>1, ServerStep DEF SessionInv
<1>3. ServerType
  BY DEF SessionInv, ServerInv
<1>4. CASE Serve /\ UNCHANGED clientVars
  <2>1. WireInv' /\ \A c \in Conn : phase'[c] = "new" <=> phase[c] = "new"
    BY <1>3, <1>4, ServeLeaves DEF SessionInv
  <2>2. Apart'
    BY <1>4, <2>1 DEF SessionInv, ClientType, Apart, clientVars
  <2>3. \A k \in Client : Match(k)'
    BY <1>3, <1>4, ServeMatches DEF SessionInv
  <2> QED BY <1>1, <1>2, <2>1, <2>2, <2>3 DEF SessionInv
<1>5. ASSUME NEW k \in Client, ClientStep(k) PROVE SessionInv'
  BY <1>1, <1>2, <1>3, <1>5, ClientMatches DEF SessionInv
<1>6. ASSUME NEW k \in Client, NEW r \in Request, StartExec(k, r) PROVE SessionInv'
  BY <1>1, <1>2, <1>6, StartExecMatches DEF SessionInv
<1>7. CASE UNCHANGED sessionVars
  <2>1. UNCHANGED vars /\ UNCHANGED clientVars
    BY <1>7 DEF sessionVars
  <2>2. WireInv' /\ \A c \in Conn : SameAt(c)
    BY <2>1, StutterStep DEF SessionInv
  <2>3. Apart'
    BY <2>1 DEF SessionInv, Apart, vars, clientVars
  <2>4. \A k \in Client : Match(k)'
    BY <2>1, <2>2, OthersMatch DEF SessionInv, ClientType, clientVars
  <2> QED BY <1>1, <1>2, <2>2, <2>3, <2>4 DEF SessionInv
<1> QED BY <1>4, <1>5, <1>6, <1>7 DEF SessionNext

LEMMA SessionInvariant == SessionSpec => []SessionInv
  BY SessionStarts, SessionStep, PTL DEF SessionSpec

(* Clients that dial, answer, send and hang up as connector.go has them do *)
(* implement the arbitrary clients of module Server.                       *)
THEOREM SessionIsServer == SessionSpec => Spec
<1>1. SessionInit => Init
  BY DEF SessionInit
<1>2. SessionInv /\ [SessionNext]_sessionVars => [Next]_vars
  BY StepIsServerStep DEF SessionInv
<1> QED BY <1>1, <1>2, SessionInvariant, PTL DEF SessionSpec, Spec

(* An answer taken for the answer to a statement is the answer to it, late *)
(* replies, lost ones and statements without any included (Exec, execOnce, *)
(* reconnect).                                                             *)
THEOREM AnswersAlwaysFit == SessionSpec => []AnswersFit
<1>1. SessionInv => AnswersFit
  <2> SUFFICES ASSUME SessionInv, NEW k \in Client, pc[k] = "await", ~deaf[k], down[conn[k]] # << >>
               PROVE  Head(down[conn[k]]).type = "reply" /\ Head(down[conn[k]]).req = stmt[k]
    BY DEF AnswersFit
  <2>1. Waiting(conn[k], stmt[k])
    BY DEF SessionInv, Match
  <2>2. down[conn[k]] = <<Reply(stmt[k])>>
    BY <2>1 DEF Waiting
  <2> QED BY <2>2, OneMessage DEF Reply
<1> QED BY <1>1, SessionInvariant, PTL

(* So the server keeps to its properties with these clients.               *)
THEOREM SessionKeepsServer ==
    SessionSpec => [](TypeOK /\ WritesExclusive /\ SlotsCounted /\ AckedIsFlushed)
  BY SessionIsServer, ServerTypeCorrect, WritesAreExclusive, SlotsAreCounted, StopKeepsAcked, PTL
=============================================================================
