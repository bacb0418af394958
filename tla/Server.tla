------------------------------- MODULE Server -------------------------------
(***************************************************************************)
(* The server (connector/server.go, ServerHandshake of authorization.go    *)
(* and the signal handler of cmd/server/main.go): the accept loop with its *)
(* limit, one goroutine per connection, the write lock around requests     *)
(* that are not taken for read-only, and Stop.                             *)
(*                                                                         *)
(* Clients are arbitrary here: they send what they like, read or not, and  *)
(* hang up; Session puts the client of the repository in their place.      *)
(* A connection is used once; messages on it are not reordered, and lost   *)
(* only with an end that is closed.  A deadline may pass at any time.      *)
(***************************************************************************)
EXTENDS Integers, Sequences, FiniteSets

CONSTANTS
    Conn,          \* connections
    Addr,          \* remote addresses
    Request,       \* records with the fields kind and readOnly
    Limits,        \* values of maxIdleConns
    AuthRequired,  \* the credential's mode is not "none"
    MaxQueue,      \* bound: messages on their way in one direction
    None

(* What the statements of a request do: "bad" is a write that ends in an   *)
(* error after part of its work, "empty" has no SQL.                       *)
Kind == {"read", "write", "bad", "empty"}
Writes(r) == r.kind \in {"write", "bad"}

(* What the server takes a request for, by its flag or the first word of   *)
(* its text.  Neither says what the statements do: INSERT may be flagged,  *)
(* or follow a SELECT; and BEGIN, which writes nothing, takes the lock.    *)
TakesLock(r) == ~r.readOnly

ASSUME ServerAssumption ==
    /\ IsFiniteSet(Conn) /\ None \notin Conn /\ None \notin Request
    /\ None \notin Addr
    /\ Limits \subseteq Nat /\ AuthRequired \in BOOLEAN
    /\ \A r \in Request : r.kind \in Kind /\ r.readOnly \in BOOLEAN

VARIABLES
    phase,    \* where the goroutine of a connection is
    up, down, \* messages under way to the server and to the client
    srvClosed, cliClosed,
    addr,     \* the remote address of a connection
    cur,      \* the request a goroutine works on
    writer,   \* holder of writeMu
    limit,    \* maxIdleConns; never changes
    count,    \* connCount
    seen,     \* what AddInt64 returned to the accept loop
    conns,    \* the map from remote addresses to connections
    main,     \* the accept loop: at its top, in Accept, with a new connection
    stopper,  \* the goroutine that runs Stop
    visit,    \* connections that Range has still to close
    exit,     \* how the process has ended
    mem,      \* writes that have been carried out
    disk,     \* those of them that FlushAll of Stop has put into the file
    acked,    \* those that have been answered
    crossed   \* ghost: a goroutine has removed another one's entry of conns

wire == <<up, down, srvClosed, cliClosed, addr>>
work == <<cur, writer>>
slots == <<limit, count, seen, main>>
registry == <<conns, crossed>>
stopVars == <<stopper, visit, exit>>
data == <<mem, disk, acked>>
vars == <<phase, wire, work, slots, registry, stopVars, data>>

Phase == {"new", "queued", "counted", "refused", "started", "greeting", "authing", "loop", "reading",
          "ready", "running", "replying", "closing", "counting", "deleting", "done"}

(* Connections that connCount counts, and those of them that were let in.  *)
Counted == {c \in Conn : phase[c] \notin {"new", "queued", "refused", "deleting", "done"}}
Served == Counted \ {c \in Conn : phase[c] = "counted"}

Empty(r) == r.kind = "empty"
Challenge == [type |-> "challenge", required |-> AuthRequired]
AuthResp(ok) == [type |-> "auth", ok |-> ok]
Answer(ok) == [type |-> "answer", ok |-> ok]
Ask(r) == [type |-> "request", req |-> r]
Reply(r) == [type |-> "reply", req |-> r, ok |-> r.kind # "bad"]

Init ==
    /\ phase = [c \in Conn |-> "new"]
    /\ up = [c \in Conn |-> << >>] /\ down = [c \in Conn |-> << >>]
    /\ srvClosed = {} /\ cliClosed = {}
    /\ addr = [c \in Conn |-> None]
    /\ cur = [c \in Conn |-> None]
    /\ writer = None
    /\ limit \in Limits /\ count = 0 /\ seen = 0
    /\ conns = [a \in Addr |-> None]
    /\ main = "top" /\ stopper = "run" /\ visit = {} /\ exit = "no"
    /\ mem = {} /\ disk = {} /\ acked = {}
    /\ crossed = FALSE

(* Closing an end drops what it has not read, and a line the goroutine has *)
(* read ahead with it.                                                     *)
Shut(c) ==
    /\ srvClosed' = srvClosed \union {c}
    /\ up' = [up EXCEPT ![c] = << >>]

(* The process ends, and with it its goroutines and connections.           *)
Exit(how) ==
    /\ exit' = how
    /\ phase' = [c \in Conn |-> IF phase[c] = "new" THEN "new" ELSE "done"]
    /\ up' = [c \in Conn |-> << >>] /\ srvClosed' = Conn
    /\ cur' = [c \in Conn |-> None] /\ conns' = [a \in Addr |-> None]
    /\ writer' = None /\ count' = 0 /\ seen' = 0 /\ visit' = {}
    /\ UNCHANGED <<down, cliClosed, addr, limit, crossed, data>>

Running == exit = "no"
Cancelled == stopper # "run"
Listening == Running /\ stopper \in {"run", "cancelled"}
Go(c, from, to) == Running /\ phase[c] = from /\ phase' = [phase EXCEPT ![c] = to]

-----------------------------------------------------------------------------
(* The other end of a connection.  Its address may be one that another     *)
(* connection had, when both ends have closed that.                        *)
Free(a) == {d \in Conn : addr[d] = a} \subseteq srvClosed \intersect cliClosed

Dial(c, a) ==
    /\ Listening /\ phase[c] = "new" /\ Free(a)
    /\ phase' = [phase EXCEPT ![c] = "queued"]
    /\ addr' = [addr EXCEPT ![c] = a]
    /\ UNCHANGED <<up, down, srvClosed, cliClosed, work, slots, registry, stopVars, data>>

Send(c, m) ==
    /\ phase[c] # "new" /\ c \notin cliClosed /\ Len(up[c]) < MaxQueue
    /\ up' = IF c \in srvClosed THEN up ELSE [up EXCEPT ![c] = Append(@, m)]
    /\ UNCHANGED <<phase, down, srvClosed, cliClosed, addr, work, slots, registry, stopVars, data>>

Receive(c) ==
    /\ down[c] # << >> /\ c \notin cliClosed
    /\ down' = [down EXCEPT ![c] = Tail(@)]
    /\ UNCHANGED <<phase, up, srvClosed, cliClosed, addr, work, slots, registry, stopVars, data>>

Hangup(c) ==
    /\ phase[c] # "new" /\ c \notin cliClosed
    /\ cliClosed' = cliClosed \union {c}
    /\ down' = [down EXCEPT ![c] = << >>]
    /\ UNCHANGED <<phase, up, srvClosed, addr, work, slots, registry, stopVars, data>>

Peer(c) ==
    \/ \E a \in Addr : Dial(c, a)
    \/ Receive(c) \/ Hangup(c)
    \/ \E ok \in BOOLEAN : Send(c, Answer(ok))
    \/ \E r \in Request : Send(c, Ask(r))

-----------------------------------------------------------------------------
(* Start: the count is raised before it is compared with the limit.        *)
Accept(c) ==
    /\ Listening /\ main = "accept"
    /\ Go(c, "queued", "counted")
    /\ count' = count + 1 /\ seen' = count + 1
    /\ main' = "counted"
    /\ UNCHANGED <<wire, work, limit, registry, stopVars, data>>

Refuse(c) ==
    /\ main = "counted" /\ seen > limit
    /\ Go(c, "counted", "refused")
    /\ Shut(c)
    /\ count' = count - 1 /\ seen' = 0
    /\ main' = "top"
    /\ UNCHANGED <<down, cliClosed, addr, work, limit, registry, stopVars, data>>

SpawnOneMore(c) ==  \* mutation: the limit is compared with what the count was before
    /\ main = "counted" /\ seen <= limit + 1
    /\ Go(c, "counted", "started")
    /\ main' = "top" /\ seen' = 0
    /\ UNCHANGED <<wire, work, limit, count, registry, stopVars, data>>

Spawn(c) ==
    /\ main = "counted" /\ seen <= limit
    /\ Go(c, "counted", "started")
    /\ main' = "top" /\ seen' = 0
    /\ UNCHANGED <<wire, work, limit, count, registry, stopVars, data>>

AcceptNext ==
    /\ Running /\ main = "top" /\ ~Cancelled
    /\ main' = "accept"
    /\ UNCHANGED <<phase, wire, work, limit, count, seen, registry, stopVars, data>>

(* The loop ends when it sees the context cancelled, at its top or when    *)
(* Accept fails, and with it main and the process.                         *)
StartReturns ==
    /\ Running
    /\ (main = "top" /\ Cancelled) \/ (main = "accept" /\ ~Listening)
    /\ main' = "returned" /\ Exit("main")
    /\ UNCHANGED stopper

Start == AcceptNext \/ StartReturns \/ \E c \in Conn : Accept(c) \/ Refuse(c) \/ Spawn(c)

-----------------------------------------------------------------------------
(* handleConn                                                              *)
Register(c) ==
    /\ Go(c, "started", "greeting")
    /\ conns' = [conns EXCEPT ![addr[c]] = c]
    /\ UNCHANGED <<wire, work, slots, crossed, stopVars, data>>

(* A write to a connection that the other end has closed may still succeed *)
(* once; one to a connection closed here fails.                            *)
Written(c, m) ==
    /\ c \notin srvClosed /\ Len(down[c]) < MaxQueue
    /\ down' = IF c \in cliClosed THEN down ELSE [down EXCEPT ![c] = Append(@, m)]

Greet(c) ==
    /\ Go(c, "greeting", IF AuthRequired THEN "authing" ELSE "loop")
    /\ Written(c, Challenge)
    /\ UNCHANGED <<up, srvClosed, cliClosed, addr, work, slots, registry, stopVars, data>>

(* A request in place of the answer is not a valid payload.                *)
CheckAnswer(c) ==
    /\ up[c] # << >> /\ c \notin srvClosed
    /\ LET ok == Head(up[c]).type = "answer" /\ Head(up[c]).ok
       IN  /\ Go(c, "authing", IF ok THEN "loop" ELSE "closing")
           /\ Written(c, AuthResp(ok))
    /\ up' = [up EXCEPT ![c] = Tail(@)]
    /\ UNCHANGED <<srvClosed, cliClosed, addr, work, slots, registry, stopVars, data>>

CheckContext(c) ==
    /\ Go(c, "loop", IF Cancelled THEN "closing" ELSE "reading")
    /\ UNCHANGED <<wire, work, slots, registry, stopVars, data>>

(* Without SQL there is no answer either.                                  *)
ReadRequest(c) ==
    /\ up[c] # << >> /\ c \notin srvClosed
    /\ LET m == Head(up[c])
       IN  IF m.type = "request" /\ ~Empty(m.req)
           THEN Go(c, "reading", "ready") /\ cur' = [cur EXCEPT ![c] = m.req]
           ELSE Go(c, "reading", "loop") /\ UNCHANGED cur
    /\ up' = [up EXCEPT ![c] = Tail(@)]
    /\ UNCHANGED <<down, srvClosed, cliClosed, addr, writer, slots, registry, stopVars, data>>

(* Reading or writing fails: the connection is closed, or the deadline has *)
(* passed, or the client is gone.                                          *)
ConnFails(c) ==
    /\ phase[c] \in {"greeting", "authing", "reading", "replying"}
    /\ phase[c] \in {"greeting", "replying"} => c \in srvClosed \union cliClosed \/ Len(down[c]) = MaxQueue
    /\ Go(c, phase[c], "closing")
    /\ cur' = [cur EXCEPT ![c] = None]
    /\ UNCHANGED <<wire, writer, slots, registry, stopVars, data>>

(* Execute without the lock, whatever the statements do.                   *)
StartReadOnly(c) ==
    /\ Go(c, "ready", "running")
    /\ ~TakesLock(cur[c])
    /\ UNCHANGED <<wire, work, slots, registry, stopVars, data>>

LockNever(c) ==  \* mutation: a request does not wait for the one before
    /\ Go(c, "ready", "running")
    /\ TakesLock(cur[c])
    /\ writer' = c
    /\ UNCHANGED <<wire, cur, slots, registry, stopVars, data>>

Lock(c) ==
    /\ Go(c, "ready", "running")
    /\ TakesLock(cur[c]) /\ writer = None
    /\ writer' = c
    /\ UNCHANGED <<wire, cur, slots, registry, stopVars, data>>

Done(c) == {r \in {cur[c]} : r.kind = "write"}

ExecuteHolding(c) ==  \* mutation: the lock is given back only after a success
    /\ Go(c, "running", "replying")
    /\ mem' = mem \union Done(c)
    /\ writer' = IF TakesLock(cur[c]) /\ cur[c].kind # "bad" THEN None ELSE writer
    /\ UNCHANGED <<wire, cur, slots, registry, stopVars, disk, acked>>

(* Execute, to its end, and Unlock.                                        *)
Execute(c) ==
    /\ Go(c, "running", "replying")
    /\ mem' = mem \union Done(c)
    /\ writer' = IF TakesLock(cur[c]) THEN None ELSE writer
    /\ UNCHANGED <<wire, cur, slots, registry, stopVars, disk, acked>>

Respond(c) ==
    /\ Go(c, "replying", "loop")
    /\ Written(c, Reply(cur[c]))
    /\ acked' = acked \union Done(c)
    /\ cur' = [cur EXCEPT ![c] = None]
    /\ UNCHANGED <<up, srvClosed, cliClosed, addr, writer, slots, registry, stopVars, mem, disk>>

(* The deferred function.  An open transaction is dropped with the         *)
(* executor.                                                               *)
Close(c) ==
    /\ Go(c, "closing", "counting")
    /\ Shut(c)
    /\ UNCHANGED <<down, cliClosed, addr, work, slots, registry, stopVars, data>>

Uncount(c) ==
    /\ Go(c, "counting", "deleting")
    /\ count' = count - 1
    /\ UNCHANGED <<wire, work, limit, seen, main, registry, stopVars, data>>

UnregisterNone(c) ==  \* mutation: the connection stays in the map
    /\ Go(c, "deleting", "done")
    /\ UNCHANGED <<wire, work, slots, registry, stopVars, data>>

(* By now the address may be another connection's.                         *)
Unregister(c) ==
    /\ Go(c, "deleting", "done")
    /\ conns' = [conns EXCEPT ![addr[c]] = None]
    /\ crossed' = (crossed \/ conns[addr[c]] \notin {c, None})
    /\ UNCHANGED <<wire, work, slots, stopVars, data>>

Handler(c) ==
    \/ Register(c) \/ Greet(c) \/ CheckAnswer(c) \/ CheckContext(c) \/ ReadRequest(c) \/ ConnFails(c)
    \/ StartReadOnly(c) \/ Execute(c) \/ Respond(c) \/ Close(c) \/ Uncount(c) \/ Unregister(c)

-----------------------------------------------------------------------------
(* Stop                                                                    *)
Stopping(from, to) == Running /\ stopper = from /\ stopper' = to

Cancel ==
    /\ Stopping("run", "cancelled")
    /\ UNCHANGED <<phase, wire, work, slots, registry, visit, exit, data>>

CloseListener ==
    /\ Stopping("cancelled", "unlistened")
    /\ UNCHANGED <<phase, wire, work, slots, registry, visit, exit, data>>

RangeNoConns ==  \* mutation: the connections are left to notice the context
    /\ Stopping("unlistened", "ranging")
    /\ visit' = {}
    /\ UNCHANGED <<phase, wire, work, slots, registry, exit, data>>

(* What is stored after Range has begun may be missed.                     *)
RangeConns ==
    /\ Stopping("unlistened", "ranging")
    /\ visit' = {conns[a] : a \in Addr} \ {None}
    /\ UNCHANGED <<phase, wire, work, slots, registry, exit, data>>

CloseConn(c) ==
    /\ Running /\ stopper = "ranging" /\ c \in visit
    /\ visit' = visit \ {c}
    /\ Shut(c)
    /\ UNCHANGED <<phase, down, cliClosed, addr, work, slots, registry, stopper, exit, data>>

(* FlushAll without the write lock: what is done by now reaches the file.  *)
FlushAll ==
    /\ visit = {}
    /\ Stopping("ranging", "flushing")
    /\ disk' = mem
    /\ UNCHANGED <<phase, wire, work, slots, registry, visit, exit, mem, acked>>

ExitProcess ==
    /\ Stopping("flushing", "flushed")
    /\ Exit("stop")
    /\ UNCHANGED main

Stop == CloseListener \/ RangeConns \/ FlushAll \/ ExitProcess \/ \E c \in Conn : CloseConn(c)

-----------------------------------------------------------------------------
Serve == Start \/ Cancel \/ Stop \/ \E c \in Conn : Handler(c) \/ Lock(c)

Next == Serve \/ \E c \in Conn : Peer(c)

Spec == Init /\ [][Next]_vars

-----------------------------------------------------------------------------
(* Connections, counters and the lock hold what they are supposed to hold; *)
(* a goroutine has a request from reading it to answering it, and the map  *)
(* of connections names one only while its goroutine is there.             *)
TypeOK ==
    /\ phase \in [Conn -> Phase]
    /\ cur \in [Conn -> Request \union {None}]
    /\ \A c \in Conn : cur[c] # None <=> phase[c] \in {"ready", "running", "replying"}
    /\ writer \in Conn \union {None}
    /\ count \in Nat /\ seen \in Nat
    /\ conns \in [Addr -> Conn \union {None}]
    /\ \A a \in Addr : conns[a] # None => addr[conns[a]] = a /\ phase[conns[a]] # "done"
    /\ main \in {"top", "accept", "counted", "returned"}
    /\ mem \subseteq Request /\ disk \subseteq Request /\ acked \subseteq Request

(* Two requests that write are carried out at the same time only if the    *)
(* server has taken one of them for read-only, whatever connections end,   *)
(* fail or time out meanwhile (writeMu); and while nobody has the lock,    *)
(* whatever is written is written by such requests.                        *)
WritesExclusive ==
    \A c \in {x \in Conn : phase[x] = "running" /\ Writes(cur[x])} :
        /\ writer = None => cur[c].readOnly
        /\ \A d \in Conn : phase[d] = "running" /\ Writes(cur[d]) =>
              c = d \/ cur[c].readOnly \/ cur[d].readOnly

(* connCount is the number of connections between being accepted and being *)
(* given up, on both ways out, and the limit is kept: no more are served.  *)
SlotsCounted == count = Cardinality(Counted) /\ Cardinality(Served) <= limit

(* When Stop ends the process, every write that was answered without an    *)
(* error is in the file, in spite of FlushAll taking no lock: connections  *)
(* are closed before it, and one that is not yet in the map sees the       *)
(* context.  It takes an address used again for Stop to miss one.          *)
AckedIsFlushed == exit = "stop" /\ ~crossed => acked \subseteq disk
=============================================================================
