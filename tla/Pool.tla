-------------------------------- MODULE Pool --------------------------------
(***************************************************************************)
(* The client: sends that take a connection to one address from its bb8     *)
(* pool, the pool, and the two tasks of each connection.                    *)
(*                                                                         *)
(* bb8 is external and is modelled by what pool.rs configures and relies    *)
(* on: an idle connection is handed out, tested first if test_connection is *)
(* set; without one the send becomes a waiter and a connection is approved  *)
(* if there are fewer than max_connections; connect is repeated when it     *)
(* fails, until connection_timeout; a connection that is put back goes to   *)
(* the first waiter, untested; idle connections are retired by age.         *)
(***************************************************************************)
EXTENDS Sockets

CONSTANTS
    MaxConnections,  \* Config::max_connections
    Cancellable      \* sends whose future may be dropped by its owner

ASSUME PoolAssumption == MaxConnections \in Nat /\ Cancellable \subseteq Sends

VARIABLES
    testing,    \* Config::test_connection, "on" or "off"
    conn,       \* where each Connection is
    idle,       \* bb8: the connections to be handed out, first the oldest
    waiters,    \* bb8: the sends that wait for a connection
    approvals,  \* bb8: connections that may be opened
    send,       \* where each send is
    on,         \* the connection it has, or 0
    reader      \* the FrameReceiver of each connection

poolVars == <<testing, conn, idle, waiters, approvals, send, on, reader>>

ConnStates == {"none", "verifying", "idle", "given", "gone"}

SendStates == {"idle", "getting", "waiting", "pinging", "have", "registered", "calling",
               "ok", "failed", "cancelled"}

PoolTypeOK ==
    /\ testing \in {"on", "off"}
    /\ conn \in [Conns -> ConnStates]
    /\ idle \in Seq(Conns)
    /\ waiters \in Seq(Sends)
    /\ approvals \in 0 .. MaxConnections
    /\ send \in [Sends -> SendStates]
    /\ on \in [Sends -> Conns \cup {0}]
    /\ reader \in [Conns -> {"none", "on", "off"}]

PoolInit ==
    /\ conn = [k \in Conns |-> "none"]
    /\ idle = << >>
    /\ waiters = << >>
    /\ approvals = 0
    /\ send = [t \in Sends |-> "idle"]
    /\ on = [t \in Sends |-> 0]
    /\ reader = [k \in Conns |-> "none"]

(* The connections the pool counts.                                         *)
Pooled == {k \in Conns : conn[k] \in {"verifying", "idle", "given"}}

(* The queue q without e, which is in it once at most.                      *)
without(q, e) ==
    IF \E i \in DOMAIN q : q[i] = e
    THEN LET i == CHOOSE i \in DOMAIN q : q[i] = e
         IN  [j \in 1 .. Len(q) - 1 |-> IF j < i THEN q[j] ELSE q[j + 1]]
    ELSE q

(* put: connection k goes to the first waiter, or to the idle ones; s is    *)
(* what the sends are doing otherwise.                                      *)
put(k, s) ==
    IF waiters = << >>
    THEN /\ idle' = Append(idle, k)
         /\ conn' = [conn EXCEPT ![k] = "idle"]
         /\ send' = s
         /\ UNCHANGED <<waiters, on>>
    ELSE /\ waiters' = Tail(waiters)
         /\ conn' = [conn EXCEPT ![k] = "given"]
         /\ send' = [s EXCEPT ![Head(waiters)] = "have"]
         /\ on' = [on EXCEPT ![Head(waiters)] = k]
         /\ UNCHANGED idle

(* Pool::get with an idle connection, which ping tests if it has to.        *)
GetIdle(t) ==
    /\ send[t] \in {"idle", "getting"}
    /\ idle # << >>
    /\ LET k == Head(idle)
       IN  /\ conn' = [conn EXCEPT ![k] = "given"]
           /\ on' = [on EXCEPT ![t] = k]
           /\ send' = [send EXCEPT ![t] = IF testing = "on" THEN "pinging" ELSE "have"]
           /\ c2s' = IF testing = "on" THEN write(k, frame("PingRequest", t)) ELSE c2s
    /\ idle' = Tail(idle)
    /\ UNCHANGED <<testing, waiters, approvals, reader, opened, writer, s2c, lost, srv>>

(* Seeded fault: connections that are being opened do not count.            *)
UncountedApproval == Cardinality(Pooled) < MaxConnections

(* Whether one more connection may be opened.                               *)
MayApprove == Cardinality(Pooled) + approvals < MaxConnections

(* Pool::get without one.                                                   *)
GetWaits(t) ==
    /\ send[t] \in {"idle", "getting"}
    /\ idle = << >>
    /\ waiters' = Append(waiters, t)
    /\ send' = [send EXCEPT ![t] = "waiting"]
    /\ approvals' = IF MayApprove THEN approvals + 1 ELSE approvals
    /\ UNCHANGED <<testing, conn, idle, on, reader, socketVars>>

(* connection_timeout passes: RunError::TimedOut.                           *)
GetTimesOut(t) ==
    /\ send[t] = "waiting"
    /\ send' = [send EXCEPT ![t] = "failed"]
    /\ waiters' = without(waiters, t)
    /\ UNCHANGED <<testing, conn, idle, approvals, on, reader, socketVars>>

(* ConnectionManager::connect: TcpStream::connect succeeds, the tasks of    *)
(* the connection are spawned and init_handshake sends the first frame.     *)
Connect ==
    /\ approvals > 0
    /\ opened < MaxConns
    /\ LET k == opened + 1
       IN  /\ opened' = k
           /\ conn' = [conn EXCEPT ![k] = "verifying"]
           /\ srv' = [srv EXCEPT ![k] = "backlog"]
           /\ writer' = [writer EXCEPT ![k] = "on"]
           /\ reader' = [reader EXCEPT ![k] = "on"]
           /\ c2s' = [c2s EXCEPT ![k] = <<frame("InitRequest", NoSend)>>]
    /\ approvals' = approvals - 1
    /\ UNCHANGED <<testing, idle, waiters, send, on, s2c, lost>>

(* TcpStream::connect is refused until connection_timeout has passed.       *)
ConnectFails ==
    /\ approvals > 0
    /\ approvals' = approvals - 1
    /\ UNCHANGED <<testing, conn, idle, waiters, send, on, reader, socketVars>>

(* Seeded fault: the version of the InitResponse is not looked at.          *)
VerifyAnyVersion(type) == type \in {"InitResponse", "InitRefusal"}

(* What verify accepts; any other version, an Error or another type is an   *)
(* error of connect.                                                        *)
verify(type) == type = "InitResponse"

(* The answer to init_handshake.  A connection that is refused is dropped,  *)
(* and another tried unless connection_timeout has passed.                  *)
Verify(k) ==
    /\ conn[k] = "verifying"
    /\ s2c[k] # << >>
    /\ \/ /\ verify(Head(s2c[k]).type)
          /\ put(k, send)
          /\ UNCHANGED approvals
       \/ /\ ~verify(Head(s2c[k]).type)
          /\ conn' = [conn EXCEPT ![k] = "gone"]
          /\ approvals' \in {approvals, approvals + 1}
          /\ UNCHANGED <<idle, waiters, send, on>>
    /\ s2c' = [s2c EXCEPT ![k] = Tail(@)]
    /\ UNCHANGED <<testing, reader, opened, writer, c2s, lost, srv>>

(* The frame at the client's end of connection k is for send t, which is in *)
(* one of the states given.                                                 *)
Arrived(t, k, states) ==
    /\ k # 0
    /\ send[t] \in states
    /\ s2c[k] # << >>
    /\ Head(s2c[k]).for = t

(* ping returns: the send has the connection, or the pool drops it and the  *)
(* send goes back to the loop of Pool::get.                                 *)
PingReturns(t) ==
    LET k == on[t]
    IN  /\ Arrived(t, k, {"pinging"})
        /\ \/ /\ Head(s2c[k]).type = "PingResponse"
              /\ send' = [send EXCEPT ![t] = "have"]
              /\ UNCHANGED <<conn, on>>
           \/ /\ Head(s2c[k]).type # "PingResponse"
              /\ send' = [send EXCEPT ![t] = "getting"]
              /\ conn' = [conn EXCEPT ![k] = "gone"]
              /\ on' = [on EXCEPT ![t] = 0]
        /\ s2c' = [s2c EXCEPT ![k] = Tail(@)]
        /\ UNCHANGED <<testing, idle, waiters, approvals, reader, opened, writer, c2s, lost, srv>>

(* SubChannel::connect: new_frames_io, after which the PooledConnection is  *)
(* dropped and the connection is back in the pool (has_broken is false).    *)
NewFramesIo(t) ==
    /\ send[t] = "have"
    /\ put(on[t], [send EXCEPT ![t] = "registered"])
    /\ UNCHANGED <<testing, approvals, reader, socketVars>>

(* send_internal sends the request.                                         *)
SendRequest(t) ==
    /\ send[t] = "registered"
    /\ send' = [send EXCEPT ![t] = "calling"]
    /\ c2s' = write(on[t], frame("CallRequest", t))
    /\ UNCHANGED <<testing, conn, idle, waiters, approvals, on, reader, opened, writer,
                   s2c, lost, srv>>

ReceiveResponse(t) ==
    LET k == on[t]
    IN  /\ Arrived(t, k, {"calling"})
        /\ send' = [send EXCEPT ![t] = "ok"]
        /\ on' = [on EXCEPT ![t] = 0]
        /\ s2c' = [s2c EXCEPT ![k] = Tail(@)]
        /\ UNCHANGED <<testing, conn, idle, waiters, approvals, reader, opened, writer,
                       c2s, lost, srv>>

(* A frame for a send that was cancelled is logged and dropped.             *)
DiscardFrame(k) ==
    /\ s2c[k] # << >>
    /\ Head(s2c[k]).for # NoSend
    /\ send[Head(s2c[k]).for] = "cancelled"
    /\ s2c' = [s2c EXCEPT ![k] = Tail(@)]
    /\ UNCHANGED <<poolVars, opened, writer, c2s, lost, srv>>

(* The owner of the send drops its future: a connection it has in its hands *)
(* goes back to the pool, also with a ping under way.                       *)
Cancel(t) ==
    /\ t \in Cancellable
    /\ \/ /\ send[t] \in {"waiting", "registered", "calling"}
          /\ send' = [send EXCEPT ![t] = "cancelled"]
          /\ waiters' = without(waiters, t)
          /\ UNCHANGED <<conn, idle, on>>
       \/ /\ send[t] \in {"pinging", "have"}
          /\ put(on[t], [send EXCEPT ![t] = "cancelled"])
    /\ UNCHANGED <<testing, approvals, reader, socketVars>>

(* An idle connection has reached its lifetime.                             *)
Retire(k) ==
    /\ conn[k] = "idle"
    /\ conn' = [conn EXCEPT ![k] = "gone"]
    /\ idle' = without(idle, k)
    /\ UNCHANGED <<testing, waiters, approvals, send, on, reader, socketVars>>

(* Seeded fault: the calls do not keep the channel to FrameSender open.     *)
ConnectionDropped(k) == conn[k] = "gone"

(* Seeded fault: FrameReceiver keeps it open too.                           *)
NoTaskLeft(k) ==
    /\ conn[k] = "gone"
    /\ reader[k] = "off"

(* The last Sender to FrameSender is dropped: the Connection has one and so *)
(* has the FrameOutput of each call.                                        *)
SendersDropped(k) ==
    /\ conn[k] = "gone"
    /\ \A t \in Sends : send[t] \in {"registered", "calling"} => on[t] # k

(* FrameSender::run ends and drops the write half.                          *)
WriterEnds(k) ==
    /\ writer[k] = "on"
    /\ SendersDropped(k)
    /\ writer' = [writer EXCEPT ![k] = "off"]
    /\ UNCHANGED <<poolVars, opened, c2s, s2c, lost, srv>>

(* FrameReceiver::run ends with the stream.  Nobody is told: the Senders of *)
(* the sends that wait stay in the map.                                     *)
ReaderEnds(k) ==
    /\ reader[k] = "on"
    /\ s2c[k] = << >>
    /\ srv[k] = "closed" \/ k \in lost
    /\ reader' = [reader EXCEPT ![k] = "off"]
    /\ UNCHANGED <<testing, conn, idle, waiters, approvals, send, on, socketVars>>
=============================================================================
