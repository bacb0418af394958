----------------------------- MODULE MCSession ------------------------------
(* A client executes a statement that fails or has no SQL, and then one    *)
(* that writes or reads; what writes may be taken for read-only.           *)
EXTENDS Session

CONSTANTS MaxConn

MCConn == 1..MaxConn
MCAddr == 1..2
MCRequest ==
    [client : Client, n : {1}, kind : {"bad", "empty"}, readOnly : {FALSE}]
        \union [client : Client, n : {2}, kind : {"write"}, readOnly : BOOLEAN]
        \union [client : Client, n : {2}, kind : {"read"}, readOnly : {TRUE}]
=============================================================================
