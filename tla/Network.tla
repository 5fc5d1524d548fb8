------------------------------- MODULE Network ------------------------------
(***************************************************************************)
(* A client with its pool and a peer whose server is started, stopped and   *)
(* restarted (Lifecycle): how connections are made, verified, shared,       *)
(* tested, retired and lost.  Connections that were accepted outlive the    *)
(* server task; those that were not are reset with its listener.            *)
(***************************************************************************)
EXTENDS Pool, Acceptor, Lifecycle

CONSTANT
    Settings,       \* who the peer is and whether connections are tested
    Breakable,      \* the TCP connections that may break
    MayFail         \* "yes" if handlers may return an error

ASSUME NetworkAssumption == Settings \subseteq [peer : Peers, testing : {"on", "off"}]

netVars == <<socketVars, poolVars, acceptorVars, vars>>

NetInit ==
    /\ SocketsInit
    /\ PoolInit
    /\ AcceptorInit
    /\ Init
    /\ \E s \in Settings : peer = s.peer /\ testing = s.testing

(* When the listener is closed, the connections that it has not accepted    *)
(* are reset.                                                               *)
ResetBacklog ==
    /\ LET reset == IF port # None /\ port' = None
                    THEN {k \in Conns : srv[k] = "backlog"} ELSE {}
       IN  /\ srv' = [k \in Conns |-> IF k \in reset THEN "closed" ELSE srv[k]]
           /\ c2s' = [k \in Conns |-> IF k \in reset THEN << >> ELSE c2s[k]]
           /\ lost' = lost \cup reset
    /\ UNCHANGED <<opened, writer, s2c, poolVars, acceptorVars>>

(* A step of the peer's TChannel.                                           *)
ServerTaskStep == Next /\ ResetBacklog

(* A TCP connection breaks and loses what is on its way.                    *)
Disconnect(k) ==
    /\ k \in Breakable \ lost
    /\ srv[k] \in {"init", "serving", "closing"}
    /\ lost' = lost \cup {k}
    /\ c2s' = [c2s EXCEPT ![k] = << >>]
    /\ s2c' = [s2c EXCEPT ![k] = << >>]
    /\ UNCHANGED <<opened, writer, srv, poolVars, acceptorVars>>

(* connect succeeds where a server listens.  It fails where none does, or   *)
(* when the bound on connections is reached.                                *)
ConnectStep ==
    \/ port # None /\ Connect
    \/ (port = None \/ opened = MaxConns) /\ ConnectFails

SendStep(t) ==
    \/ GetIdle(t)
    \/ GetWaits(t)
    \/ GetTimesOut(t)
    \/ PingReturns(t)
    \/ NewFramesIo(t)
    \/ SendRequest(t)
    \/ ReceiveResponse(t)

ClientStep ==
    /\ UNCHANGED <<acceptorVars, vars>>
    /\ \/ ConnectStep
       \/ \E t \in Sends : SendStep(t)
       \/ \E k \in Conns : Verify(k) \/ DiscardFrame(k) \/ WriterEnds(k) \/ ReaderEnds(k)

PeerStep ==
    /\ UNCHANGED <<poolVars, vars>>
    /\ \E k \in Conns :
          \/ port # None /\ Accept(k)
          \/ InitHandshake(k)
          \/ ReadRequest(k)
          \/ ReadPing(k)
          \/ \E t \in Sends : HandlerReturns(k, t)
          \/ StreamEnds(k)
          \/ ConnectionEnds(k)

(* What may happen and need not.                                            *)
ClientFault ==
    /\ \/ \E t \in Sends : Cancel(t)
       \/ \E k \in Conns : Retire(k)
    /\ UNCHANGED <<acceptorVars, vars>>

PeerFault ==
    /\ \E k \in Conns :
          \/ MayFail = "yes" /\ \E t \in Sends : HandlerFails(k, t)
          \/ StreamFails(k)
    /\ UNCHANGED <<poolVars, vars>>

Fault ==
    \/ ClientFault
    \/ PeerFault
    \/ \E k \in Conns : Disconnect(k) /\ UNCHANGED vars

NetNext == ClientStep \/ PeerStep \/ Fault \/ ServerTaskStep

NetSpec == NetInit /\ [][NetNext]_netVars

(* The runtimes poll what can go on, timers fire and handlers return.  No   *)
(* step can be repeated for ever, so that fairness of the whole is enough.  *)
(* Spawned server tasks are polled and aborted ones dropped, as in          *)
(* Lifecycle.                                                               *)
Progress ==
    \/ ClientStep
    \/ PeerStep
    \/ (\E g \in Servers : Bind(g) \/ DropTask(g)) /\ ResetBacklog

NetFairSpec == NetSpec /\ WF_netVars(Progress)

----------------------------------------------------------------------------
NetTypeOK == SocketsTypeOK /\ PoolTypeOK /\ AcceptorTypeOK /\ LifecycleTypeOK

(* "First message on every connection must be init": nothing but the        *)
(* handshake is under way to a peer that has not answered it, and no send   *)
(* is given a connection to a peer of another version, whether the          *)
(* connection is new, reused, tested or handed from send to send.           *)
VerifiedBeforeUse ==
    \A k \in Conns :
        (conn[k] \in {"idle", "given"} \/ busy[k] # {}
            \/ \E i \in 1 .. Len(c2s[k]) : c2s[k][i].type # "InitRequest") =>
        /\ srv[k] \notin {"none", "backlog", "init"}
        /\ peer \in {"rust", "other"}

Finished(t) == send[t] \in {"ok", "failed", "cancelled"}

(* In the end every send that was made has returned, unless its connection  *)
(* was lost: that connections are retired while calls use them, that they   *)
(* are shared, tested and refused costs no call its answer.                 *)
SendsReturn ==
    <>[](\A t \in Sends :
            send[t] = "idle" \/ Finished(t) \/ (on[t] # 0 /\ on[t] \in lost))

(* In the end a connection that was retired, refused or found invalid is    *)
(* closed on both sides; only calls that wait on a lost connection keep     *)
(* something of it.                                                         *)
SocketsReleased ==
    <>[](\A k \in Conns :
            conn[k] = "gone" =>
                /\ srv[k] = "closed" /\ reader[k] = "off"
                /\ writer[k] = "off" \/ k \in lost)

(* A connection test, a handshake or a call whose connection is gone ends   *)
(* with "Received no response": every send returns.                         *)
LostAnswersAreErrors == <>[](\A t \in Sends : send[t] = "idle" \/ Finished(t))
=============================================================================
