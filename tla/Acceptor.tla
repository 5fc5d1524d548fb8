------------------------------ MODULE Acceptor ------------------------------
(***************************************************************************)
(* The peer's end of the connections: the accept loop of Server::run, the   *)
(* handshake, and handle_connection with the requests it has in progress    *)
(* (Server has the details of the latter).                                  *)
(*                                                                         *)
(* The peer may also be another implementation of TChannel, which is        *)
(* modelled by the answers that pool.rs is prepared for.                    *)
(***************************************************************************)
EXTENDS Sockets

VARIABLES
    peer,  \* who answers, see Peers
    busy   \* the requests of each connection that are being handled

acceptorVars == <<peer, busy>>

(* "rust" is this crate, "rust_other" this crate with another               *)
(* PROTOCOL_VERSION; "other" is another implementation of this version,     *)
(* "other_refuses" one that answers the handshake with an Error or with     *)
(* another version.                                                         *)
Peers == {"rust", "rust_other", "other", "other_refuses"}

AcceptorTypeOK ==
    /\ peer \in Peers
    /\ busy \in [Conns -> SUBSET Sends]

AcceptorInit == busy = [k \in Conns |-> {}]

(* handle_connection returns an error: it is logged, and what it had in     *)
(* progress is dropped with the socket.                                     *)
Fail(k) ==
    /\ srv' = [srv EXCEPT ![k] = "closed"]
    /\ busy' = [busy EXCEPT ![k] = {}]
    /\ lost' = lost \cup {k}
    /\ c2s' = [c2s EXCEPT ![k] = << >>]
    /\ UNCHANGED <<peer, opened, writer, s2c>>

(* listener.accept, and a task for the connection.                          *)
Accept(k) ==
    /\ srv[k] = "backlog"
    /\ srv' = [srv EXCEPT ![k] = "init"]
    /\ UNCHANGED <<acceptorVars, opened, writer, c2s, s2c, lost>>

(* check_init_req: another version than its own is an error.  The other     *)
(* implementation answers in any case.                                      *)
check_init_req == peer # "rust_other"

(* send_init_res.                                                           *)
InitAnswer == IF peer = "other_refuses" THEN "InitRefusal" ELSE "InitResponse"

(* handle_init_handshake.  An error of check_init_req ends                  *)
(* handle_connection without an answer.                                     *)
InitHandshake(k) ==
    /\ srv[k] = "init"
    /\ c2s[k] # << >>
    /\ \/ /\ check_init_req
          /\ srv' = [srv EXCEPT ![k] = "serving"]
          /\ s2c' = answer(k, frame(InitAnswer, NoSend))
          /\ c2s' = [c2s EXCEPT ![k] = Tail(@)]
          /\ UNCHANGED <<acceptorVars, opened, writer, lost>>
       \/ /\ ~check_init_req
          /\ Fail(k)

(* dispatch_frame and FrameHandler::handle of a request.                    *)
ReadRequest(k) ==
    /\ srv[k] = "serving"
    /\ c2s[k] # << >>
    /\ Head(c2s[k]).type = "CallRequest"
    /\ busy' = [busy EXCEPT ![k] = @ \cup {Head(c2s[k]).for}]
    /\ c2s' = [c2s EXCEPT ![k] = Tail(@)]
    /\ UNCHANGED <<peer, opened, writer, s2c, lost, srv>>

(* A PingRequest is dispatched like any other frame: to a task whose        *)
(* defragmenter expects a CallRequest, an error of handle_connection.       *)
(* Other implementations answer it.                                         *)
ReadPing(k) ==
    /\ srv[k] = "serving"
    /\ c2s[k] # << >>
    /\ Head(c2s[k]).type = "PingRequest"
    /\ \/ /\ peer = "rust"
          /\ Fail(k)
       \/ /\ peer # "rust"
          /\ \E type \in {"PingResponse", "Error"} :
                s2c' = answer(k, frame(type, Head(c2s[k]).for))
          /\ c2s' = [c2s EXCEPT ![k] = Tail(@)]
          /\ UNCHANGED <<acceptorVars, opened, writer, lost, srv>>

(* The handler of a request returns and its response is sent.               *)
HandlerReturns(k, t) ==
    /\ t \in busy[k]
    /\ busy' = [busy EXCEPT ![k] = @ \ {t}]
    /\ s2c' = answer(k, frame("CallResponse", t))
    /\ UNCHANGED <<peer, opened, writer, c2s, lost, srv>>

(* The handler returns GeneralError, or there is none for the request: this *)
(* crate ends the connection.                                               *)
HandlerFails(k, t) ==
    /\ peer = "rust"
    /\ t \in busy[k]
    /\ Fail(k)

(* The end of the stream: before a frame has come it is the error "Received *)
(* no Init request.", after the handshake the requests in progress go on.   *)
StreamEnds(k) ==
    /\ srv[k] \in {"init", "serving"}
    /\ c2s[k] = << >>
    /\ writer[k] = "off" \/ k \in lost
    /\ srv' = [srv EXCEPT ![k] = IF srv[k] = "init" THEN "closed" ELSE "closing"]
    /\ UNCHANGED <<acceptorVars, opened, writer, c2s, s2c, lost>>

(* handle_connection returns and FrameSender ends.                          *)
ConnectionEnds(k) ==
    /\ srv[k] = "closing"
    /\ busy[k] = {}
    /\ srv' = [srv EXCEPT ![k] = "closed"]
    /\ UNCHANGED <<acceptorVars, opened, writer, c2s, s2c, lost>>

(* The stream of a lost connection ends with an I/O error.                  *)
StreamFails(k) ==
    /\ srv[k] \in {"init", "serving"}
    /\ k \in lost
    /\ Fail(k)
=============================================================================
