------------------------------- MODULE Sockets ------------------------------
(***************************************************************************)
(* The TCP connections a pool opens to one address, shared by the client    *)
(* (Pool) and the peer (Acceptor).  Connections are numbered as they are    *)
(* opened.                                                                  *)
(*                                                                         *)
(* A whole message is one frame here, and a frame is handed over when it    *)
(* has been written: how frames of several messages share a connection is   *)
(* the subject of Multiplex.  A frame has its type and whom it is for, the  *)
(* send that waits for the answer (NoSend for the handshake).               *)
(***************************************************************************)
EXTENDS Integers, Sequences, FiniteSets

CONSTANTS
    MaxConns,  \* bound: how many connections are opened
    Sends,     \* invocations of SubChannel::send
    NoSend     \* not a send

ASSUME SocketsAssumption == MaxConns \in Nat /\ NoSend \notin Sends

Conns == 1 .. MaxConns

(* InitRefusal is an answer to the handshake that verify does not accept:   *)
(* an InitResponse of another version, or an Error.                         *)
FrameTypes == {"InitRequest", "InitResponse", "InitRefusal", "PingRequest",
               "PingResponse", "CallRequest", "CallResponse", "Error"}

Frame == [type : FrameTypes, for : Sends \cup {NoSend}]

frame(type, t) == [type |-> type, for |-> t]

VARIABLES
    opened,  \* how many connections have been opened
    writer,  \* the client's FrameSender: "off" has shut the write half
    c2s,     \* frames on their way to the peer
    s2c,     \* frames on their way to the client
    lost,    \* connections that broke or that the peer dropped
    srv      \* the peer's end of each connection

socketVars == <<opened, writer, c2s, s2c, lost, srv>>

PeerStates == {"none", "backlog", "init", "serving", "closing", "closed"}

SocketsTypeOK ==
    /\ opened \in 0 .. MaxConns
    /\ writer \in [Conns -> {"none", "on", "off"}]
    /\ c2s \in [Conns -> Seq(Frame)]
    /\ s2c \in [Conns -> Seq(Frame)]
    /\ lost \in SUBSET Conns
    /\ srv \in [Conns -> PeerStates]

SocketsInit ==
    /\ opened = 0
    /\ writer = [k \in Conns |-> "none"]
    /\ c2s = [k \in Conns |-> << >>]
    /\ s2c = [k \in Conns |-> << >>]
    /\ lost = {}
    /\ srv = [k \in Conns |-> "none"]

(* FrameSender::send_frames: what is written to a lost connection is an     *)
(* error that is logged.                                                    *)
write(k, f) == IF k \in lost \/ writer[k] = "off" THEN c2s
               ELSE [c2s EXCEPT ![k] = Append(@, f)]

(* The same on the peer's side.                                             *)
answer(k, f) == IF k \in lost THEN s2c ELSE [s2c EXCEPT ![k] = Append(@, f)]
=============================================================================
