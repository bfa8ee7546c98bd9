----------------------------- MODULE RpcClient -----------------------------
(***************************************************************************)
(* t_rpc_client of common/rpc_client.h: a caller's sequence of requests to *)
(* the daemon through basic_json_rpc_request, json_rpc_request, rpc_request *)
(* and check_connection.                                                   *)
(*                                                                         *)
(* Every method builds a t_http_connection on the client: its constructor *)
(* connects, its destructor disconnects when the method returns.  Neither *)
(* it nor epee's invoke_http_json(_rpc) is in this repository: they are    *)
(* the environment, given by what their use here relies on.  A connection *)
(* opens or fails; invoke sends the request on the open connection and    *)
(* returns true with the reply read from that connection, or false when   *)
(* no reply came within TIMEOUT().  The network may lose a request or a   *)
(* reply; the daemon answers a request it receives with CORE_RPC_STATUS_OK *)
(* after acting on it, or with another status (BUSY) without acting.  A    *)
(* reply reaches the client only while the connection it was sent on is   *)
(* open; closing a connection discards what is in flight to it.            *)
(*                                                                         *)
(* A connection is named by the number of the call that opened it, a     *)
(* request and a reply by their call and connection.  served is history:  *)
(* how often the daemon acted on each call's request.                      *)
(***************************************************************************)
EXTENDS Naturals

CONSTANTS MaxCalls,   \* bound on the calls the caller makes
          Statuses    \* the statuses the daemon may answer with
ASSUME MaxCalls \in Nat \ {0}
ASSUME "OK" \in Statuses

Methods == {"basic", "json", "rpc", "check"}
Calls == 1..MaxCalls

VARIABLES pc,        \* "idle" between calls, "connecting", "waiting" in invoke
          method,    \* the method of the current (or last) call
          call,      \* number of the current (or last) call, 0 before the first
          conn,      \* the open connection, 0 when there is none
          requests,  \* requests in flight to the daemon
          replies,   \* replies in flight to the client
          served,    \* served[k]: times the daemon acted on call k's request
          result     \* the value the last call returned
vars == <<pc, method, call, conn, requests, replies, served, result>>

Request(k) == [call |-> k, conn |-> k]
Reply(q, s) == [call |-> q.call, conn |-> q.conn, status |-> s]

Init ==
  /\ pc = "idle" /\ method = "none" /\ call = 0 /\ conn = 0
  /\ requests = {} /\ replies = {}
  /\ served = [k \in Calls |-> 0]
  /\ result = FALSE

\* The caller invokes method m.
Call(m) ==
  /\ pc = "idle" /\ call < MaxCalls
  /\ pc' = "connecting" /\ method' = m /\ call' = call + 1
  /\ UNCHANGED <<conn, requests, replies, served, result>>

\* return r: ~t_http_connection disconnects, dropping the replies in flight
\* to the connection.
Return(r) ==
  /\ pc' = "idle" /\ result' = r /\ conn' = 0
  /\ replies' = {x \in replies : x.conn # conn}
  /\ UNCHANGED <<method, call, requests, served>>

\* connection.is_open() is false: "Couldn't connect to daemon", return false
\* (check_connection returns is_open() itself).
ConnectFail ==
  /\ pc = "connecting"
  /\ Return(FALSE)

\* check_connection: the connection opened, and closes on return.
CheckConnection ==
  /\ pc = "connecting" /\ method = "check"
  /\ Return(TRUE)

\* is_open() is true and invoke_http_json_rpc (invoke_http_json for
\* rpc_request) sends the request on the connection.
Connect ==
  /\ pc = "connecting" /\ method # "check"
  /\ conn' = call
  /\ requests' = requests \cup {Request(call)}
  /\ pc' = "waiting"
  /\ UNCHANGED <<method, call, replies, served, result>>

\* Faulty variant: the status test of json_rpc_request left out.
ReceiveNoStatusCheck ==
  /\ pc = "waiting"
  /\ \E r \in replies : r.conn = conn /\ Return(TRUE)

\* invoke returns true with reply r read from the connection; basic
\* returns true, json_rpc_request and rpc_request only when res.status is
\* CORE_RPC_STATUS_OK.
Receive ==
  /\ pc = "waiting"
  /\ \E r \in replies :
       /\ r.conn = conn
       /\ Return(method = "basic" \/ r.status = "OK")

\* invoke returns false: no reply within TIMEOUT(); "Daemon request
\* failed", return false.
Timeout ==
  /\ pc = "waiting"
  /\ Return(FALSE)

\* The daemon takes a request and answers with status s, acting on it
\* only when s is OK; the reply is sent on the request's connection and is
\* lost if that connection is closed.
DaemonServe ==
  \E q \in requests, s \in Statuses :
    /\ requests' = requests \ {q}
    /\ served' = IF s = "OK" THEN [served EXCEPT ![q.call] = @ + 1] ELSE served
    /\ replies' = IF q.conn = conn THEN replies \cup {Reply(q, s)} ELSE replies
    /\ UNCHANGED <<pc, method, call, conn, result>>

\* The network loses a request or a reply.
LoseRequest ==
  /\ \E q \in requests : requests' = requests \ {q}
  /\ UNCHANGED <<pc, method, call, conn, replies, served, result>>
LoseReply ==
  /\ \E r \in replies : replies' = replies \ {r}
  /\ UNCHANGED <<pc, method, call, conn, requests, served, result>>

Next == \/ \E m \in Methods : Call(m)
        \/ ConnectFail \/ CheckConnection \/ Connect \/ Receive \/ Timeout
        \/ DaemonServe \/ LoseRequest \/ LoseReply

Spec == Init /\ [][Next]_vars

-----------------------------------------------------------------------------
\* When json_rpc_request or rpc_request returns true, the daemon acted on
\* that very call's request, once: neither a BUSY answer nor a lost
\* request makes a call report success (the status test at 85 and 109).
RepliedOk ==
  pc = "idle" /\ call > 0 /\ result /\ method \in {"json", "rpc"} => served[call] = 1
==============================================================================
