------------------------------ MODULE Session -------------------------------
(***************************************************************************)
(* Clients of the repository (connector/connector.go, ClientHandshake of   *)
(* authorization.go) on the server of module Server.                       *)
(*                                                                         *)
(* A client runs one Exec at a time (Connector.mu).  Exec sends the        *)
(* statement and waits; after an error of any kind, one that the server    *)
(* has answered included, it dials anew and sends the statement again.  A  *)
(* failed dial leaves the old, closed connection in place.  A Scanner that *)
(* has failed once, by a deadline say, reads nothing any more.             *)
(***************************************************************************)
EXTENDS Server

CONSTANTS
    Client,     \* clients; the requests of one are numbered
    MaxExecs,    \* bound: calls of Exec of a client
    MaxRetries   \* defaultMaxRetries

ASSUME SessionAssumption ==
    /\ Conn \subseteq Nat /\ Addr \subseteq Nat /\ MaxRetries \in Nat /\ MaxExecs \in Nat
    /\ \A r \in Request : r.client \in Client /\ r.n \in 1..MaxExecs

VARIABLES
    pc,       \* what a client is doing
    conn,     \* Connector.conn
    dialing,  \* the connection that is to take its place
    deaf,     \* Connector.scanner has failed
    stmt,     \* the request of the current Exec
    try,      \* the attempt, from 0
    execs,    \* calls of Exec so far
    wrong     \* clients that have been given a wrong password; never changes

clientVars == <<pc, conn, dialing, deaf, stmt, try, execs, wrong>>
sessionVars == <<vars, clientVars>>

SessionInit ==
    /\ Init
    /\ pc = [k \in Client |-> "closed"]
    /\ conn = [k \in Client |-> None] /\ dialing = conn
    /\ deaf = [k \in Client |-> FALSE]
    /\ stmt = [k \in Client |-> None]
    /\ try = [k \in Client |-> 0] /\ execs = try
    /\ wrong \in SUBSET Client

At(k, from, to) == pc[k] = from /\ pc' = [pc EXCEPT ![k] = to]
Gone(c) == c \in srvClosed \/ ~Running

(* The operating system gives a new connection a free address: one that    *)
(* was used before, or a new one; new ones are alike, so the least is taken. *)
CanDial(c, a) ==
    /\ Listening /\ phase[c] = "new" /\ Free(a)
    /\ \A b \in Addr : b < a => \E d \in Conn : addr[d] = b
Dialable == {c \in Conn : \E a \in Addr : CanDial(c, a)}

-----------------------------------------------------------------------------
Open(k) ==
    /\ At(k, "closed", "dial")
    /\ UNCHANGED <<vars, conn, dialing, deaf, stmt, try, execs, wrong>>

DialServer(k) ==
    /\ At(k, "dial", "greet")
    /\ \E c \in Dialable, a \in Addr :
        /\ \A d \in Dialable : c <= d
        /\ CanDial(c, a) /\ Dial(c, a)
        /\ dialing' = [dialing EXCEPT ![k] = c]
    /\ UNCHANGED <<conn, deaf, stmt, try, execs, wrong>>

UndialledAgain(k, from) ==  \* mutation: an attempt that does not connect is not counted
    /\ At(k, from, IF stmt[k] = None THEN "failed" ELSE "send")
    /\ dialing' = [dialing EXCEPT ![k] = None]
    /\ UNCHANGED <<conn, deaf, stmt, try, execs, wrong>>

(* A dial that fails: openRemote gives up, Exec goes on with the next      *)
(* attempt on the connection it has.                                       *)
Undialled(k, from) ==
    /\ At(k, from, IF stmt[k] = None THEN "failed" ELSE "send")
    /\ try' = [try EXCEPT ![k] = @ + 1]
    /\ dialing' = [dialing EXCEPT ![k] = None]
    /\ UNCHANGED <<conn, deaf, stmt, execs, wrong>>

DialFails(k) ==
    /\ Dialable = {}
    /\ Undialled(k, "dial")
    /\ UNCHANGED vars

HandshakeFails(k) ==
    /\ Undialled(k, "greet") \/ Undialled(k, "answered")
    /\ Hangup(dialing[k])

Got(k, c, m, from, to) ==
    /\ At(k, from, to)
    /\ down[c] # << >> /\ Head(down[c]) = m
    /\ Receive(c)

Connected(k) ==
    /\ conn' = [conn EXCEPT ![k] = dialing[k]]
    /\ dialing' = [dialing EXCEPT ![k] = None]
    /\ deaf' = [deaf EXCEPT ![k] = FALSE]
    /\ try' = [try EXCEPT ![k] = IF stmt[k] = None THEN 0 ELSE @ + 1]
    /\ UNCHANGED <<stmt, execs, wrong>>

Ready(k) == IF stmt[k] = None THEN "idle" ELSE "send"

ReadChallenge(k) ==
    /\ \/ /\ ~AuthRequired /\ Got(k, dialing[k], Challenge, "greet", Ready(k))
          /\ Connected(k)
       \/ /\ AuthRequired /\ Got(k, dialing[k], Challenge, "greet", "proving")
          /\ UNCHANGED <<conn, dialing, deaf, stmt, try, execs, wrong>>

SendAnswer(k) ==
    /\ At(k, "proving", "answered")
    /\ Send(dialing[k], Answer(k \notin wrong))
    /\ UNCHANGED <<conn, dialing, deaf, stmt, try, execs, wrong>>

Accepted(k) ==
    /\ Got(k, dialing[k], AuthResp(TRUE), "answered", Ready(k))
    /\ Connected(k)

-----------------------------------------------------------------------------
(* Exec                                                                    *)
StartExec(k, r) ==
    /\ execs[k] < MaxExecs
    /\ r.client = k /\ r.n = execs[k] + 1
    /\ At(k, "idle", "send")
    /\ stmt' = [stmt EXCEPT ![k] = r]
    /\ execs' = [execs EXCEPT ![k] = @ + 1]
    /\ try' = [try EXCEPT ![k] = 0]
    /\ UNCHANGED <<vars, conn, dialing, deaf, wrong>>

SendStatement(k) ==
    /\ At(k, "send", "await")
    /\ Send(conn[k], Ask(stmt[k]))
    /\ UNCHANGED <<conn, dialing, deaf, stmt, try, execs, wrong>>

Returned(k) ==
    /\ stmt' = [stmt EXCEPT ![k] = None]
    /\ UNCHANGED <<conn, dialing, deaf, try, execs, wrong>>

GetReply(k) ==
    /\ ~deaf[k]
    /\ stmt[k] # None /\ stmt[k].kind # "bad"
    /\ Got(k, conn[k], Reply(stmt[k]), "await", "idle")
    /\ Returned(k)

(* The end of an attempt: reconnect closes the connection, except after    *)
(* the last one.                                                           *)
AttemptFails(k, from) ==
    IF try[k] < MaxRetries
    THEN /\ At(k, from, "dial")
         /\ IF conn[k] \in cliClosed THEN UNCHANGED vars ELSE Hangup(conn[k])
         /\ UNCHANGED <<stmt, try>>
    ELSE /\ At(k, from, "idle")
         /\ stmt' = [stmt EXCEPT ![k] = None]
         /\ UNCHANGED <<vars, try>>

(* Encode fails on a connection closed at either end, or that takes no     *)
(* more.                                                                   *)
SendFails(k) ==
    /\ pc[k] = "send"
    /\ conn[k] \in cliClosed \/ Gone(conn[k]) \/ Len(up[conn[k]]) = MaxQueue
    /\ AttemptFails(k, "send")
    /\ UNCHANGED <<conn, dialing, deaf, execs, wrong>>

(* The server's error: the scanner has read the line.                      *)
GetError(k) ==
    /\ ~deaf[k] /\ stmt[k] # None /\ stmt[k].kind = "bad"
    /\ Got(k, conn[k], Reply(stmt[k]), "await", "refused")
    /\ UNCHANGED <<conn, dialing, deaf, stmt, try, execs, wrong>>

AfterError(k) ==
    /\ AttemptFails(k, "refused")
    /\ UNCHANGED <<conn, dialing, deaf, execs, wrong>>

ScanFailsHearing(k) ==  \* mutation: a line that comes after the deadline is still read
    /\ AttemptFails(k, "await")
    /\ UNCHANGED <<conn, dialing, deaf, execs, wrong>>

(* End of file, or the read deadline, or a scanner that has failed before. *)
ScanFails(k) ==
    /\ AttemptFails(k, "await")
    /\ deaf' = [deaf EXCEPT ![k] = TRUE]
    /\ UNCHANGED <<conn, dialing, execs, wrong>>

ClientStep(k) ==
    \/ Open(k) \/ DialServer(k) \/ DialFails(k) \/ HandshakeFails(k)
    \/ ReadChallenge(k) \/ SendAnswer(k) \/ Accepted(k)
    \/ SendStatement(k) \/ SendFails(k) \/ GetReply(k) \/ GetError(k) \/ AfterError(k) \/ ScanFails(k)

SessionNext ==
    \/ Serve /\ UNCHANGED clientVars
    \/ \E k \in Client : ClientStep(k) \/ \E r \in Request : StartExec(k, r)

(* The server's goroutines and the clients go on while they can, and       *)
(* deadlines pass.  Nobody has to call Exec or Stop.  The scheduler and    *)
(* the Mutex, which goes to the one that waits longest, are fair to each   *)
(* goroutine; clients that call Exec finitely often do not need that.      *)
Goroutine == Start \/ Stop \/ \E c \in Conn : Handler(c) \/ Lock(c)
Fairness == WF_vars(Goroutine) /\ \A k \in Client : WF_sessionVars(ClientStep(k))

SessionSpec == SessionInit /\ [][SessionNext]_sessionVars
LiveSession == SessionSpec /\ Fairness

-----------------------------------------------------------------------------
(* What a client takes for the answer to its statement is the answer to    *)
(* that statement, however many earlier ones have been given up after a    *)
(* deadline and are answered late: they come on other connections, or to a *)
(* scanner that has failed (Exec, execOnce, reconnect).                    *)
AnswersFit ==
    \A k \in Client :
        pc[k] = "await" /\ ~deaf[k] /\ down[conn[k]] # << >>
            => Head(down[conn[k]]).type = "reply" /\ Head(down[conn[k]]).req = stmt[k]

(* A request that waits for the write lock gets it, unless the process     *)
(* ends: no holder keeps it, whatever its client does.                     *)
WaiterRuns == \A c \in Conn : (phase[c] = "ready") ~> (phase[c] # "ready" \/ ~Running)

(* Exec returns, also when its statement is one that the server does not   *)
(* answer, when the server has stopped and when no dial succeeds.          *)
ExecReturns == \A k \in Client : (stmt[k] # None) ~> (stmt[k] = None)
=============================================================================
