--------------------------- MODULE Network_proofs ---------------------------
(***************************************************************************)
(* Connections are verified before they are used, are in the hands of one   *)
(* send at a time and never more than max_connections, for any number of    *)
(* sends, connections and restarts of the peer's server; and no server task *)
(* escapes shutdown_server, in Lifecycle and with clients beside it.        *)
(***************************************************************************)
EXTENDS Network, FiniteSetTheorems, TLAPS

(* The inductive invariant: tasks not yet spawned do not run, so that the   *)
(* one start_server spawns is new.                                          *)
LifecycleInv ==
    /\ LifecycleTypeOK
    /\ \A g \in Servers : g > spawned => server[g] = "unborn"
    /\ NoOrphanServer

LEMMA LifecycleInit == Init => LifecycleInv
  BY LifecycleAssumption DEF Init, LifecycleInv, LifecycleTypeOK, NoOrphanServer, Running,
     ServerStates, Servers, None

LEMMA EndStep ==
    ASSUME LifecycleInv, NEW g \in Servers, End(g), server[g] # "unborn"
    PROVE  LifecycleInv'
  BY LifecycleAssumption DEF LifecycleInv, LifecycleTypeOK, NoOrphanServer, Running,
     ServerStates, Servers, None, End

LEMMA LifecycleStep == LifecycleInv /\ [Next]_vars => LifecycleInv'
<1> SUFFICES ASSUME LifecycleInv, [Next]_vars PROVE LifecycleInv'
  OBVIOUS
<1> USE LifecycleAssumption
    DEF LifecycleInv, LifecycleTypeOK, NoOrphanServer, Running, ServerStates, Servers, None
<1>1. CASE start_server
  BY <1>1 DEF start_server
<1>2. CASE shutdown_server
  BY <1>2 DEF shutdown_server, StopServer
<1>3. CASE drop
  BY <1>3 DEF drop, StopServer
<1>4. ASSUME NEW g \in Servers, Bind(g) PROVE LifecycleInv'
  BY <1>4 DEF Bind
<1>5. ASSUME NEW g \in Servers, AcceptError(g) PROVE LifecycleInv'
  BY <1>5, EndStep DEF AcceptError
<1>6. ASSUME NEW g \in Servers, DropTask(g) PROVE LifecycleInv'
  BY <1>6, EndStep DEF DropTask
<1>7. CASE UNCHANGED vars
  BY <1>7 DEF vars
<1> QED
  BY <1>1, <1>2, <1>3, <1>4, <1>5, <1>6, <1>7 DEF Next

(* Whatever sequence of start_server, shutdown_server, bind errors and      *)
(* accept errors, a running server task that was not aborted is the one     *)
(* server_handle names.                                                     *)
THEOREM NoServerEscapes == Spec => []NoOrphanServer
<1>1. LifecycleInv => NoOrphanServer
  BY DEF LifecycleInv
<1> QED
  BY <1>1, LifecycleInit, LifecycleStep, PTL DEF Spec

----------------------------------------------------------------------------
(* The elements of a queue, and that none is in it twice.                   *)
Elems(q) == {q[i] : i \in DOMAIN q}
Once(q) == \A i, j \in DOMAIN q : q[i] = q[j] => i = j

(* The peer has answered the handshake and its version is ours.             *)
Verified(k) ==
    /\ srv[k] \notin {"none", "backlog", "init"}
    /\ peer \in {"rust", "other"}

(* A connection that has not been opened is nowhere.                        *)
UnopenedInv ==
    \A k \in Conns : k > opened =>
        /\ conn[k] = "none" /\ srv[k] = "none" /\ busy[k] = {}
        /\ c2s[k] = << >> /\ s2c[k] = << >>

(* The queues of the pool agree with the states of what is in them.         *)
QueueInv ==
    /\ Once(idle) /\ \A k \in Elems(idle) : conn[k] = "idle"
    /\ Once(waiters) /\ \A t \in Elems(waiters) : send[t] = "waiting"

Holds(t) == send[t] \in {"pinging", "have"}

(* A connection that is given is in the hands of one send.                  *)
HoldersInv ==
    /\ \A t \in Sends : Holds(t) => on[t] \in Conns /\ conn[on[t]] = "given"
    /\ \A t, u \in Sends : Holds(t) /\ Holds(u) /\ on[t] = on[u] => t = u

(* What is only done with a connection that has been verified.              *)
VerifiedInv ==
    /\ \A k \in Conns : conn[k] \in {"idle", "given"} => Verified(k)
    /\ \A k \in Conns : busy[k] # {} => Verified(k)
    /\ \A t \in Sends :
          send[t] \in {"registered", "calling"} => on[t] \in Conns /\ Verified(on[t])
    /\ \A k \in Conns : \A f \in Elems(c2s[k]) : f.type # "InitRequest" => Verified(k) /\ f.for \in Sends
    /\ \A k \in Conns : \A f \in Elems(s2c[k]) : f.type = "InitResponse" => Verified(k)

(* The connections in the pool and those on their way to it are no more     *)
(* than max_connections.                                                    *)
CapacityInv == Cardinality(Pooled) + approvals <= MaxConnections

(* The inductive invariant of a client and its peer.                        *)
NetInv ==
    /\ SocketsTypeOK /\ PoolTypeOK /\ AcceptorTypeOK
    /\ UnopenedInv
    /\ QueueInv
    /\ HoldersInv
    /\ VerifiedInv
    /\ CapacityInv

----------------------------------------------------------------------------
(* Queues.                                                                  *)

LEMMA EmptyQueue == Elems(<< >>) = {} /\ Once(<< >>)
  BY DEF Elems, Once

LEMMA QueueTail ==
    ASSUME NEW S, NEW q \in Seq(S), q # << >>
    PROVE  /\ Tail(q) \in Seq(S)
           /\ Head(q) \in S /\ Head(q) \in Elems(q)
           /\ Elems(Tail(q)) \subseteq Elems(q)
           /\ Once(q) => Once(Tail(q)) /\ Head(q) \notin Elems(Tail(q))
<1>1. /\ Tail(q) \in Seq(S) /\ Head(q) = q[1] /\ Len(q) \in Nat /\ Len(q) > 0
      /\ DOMAIN q = 1 .. Len(q) /\ DOMAIN Tail(q) = 1 .. Len(q) - 1
      /\ \A i \in 1 .. Len(q) - 1 : Tail(q)[i] = q[i + 1]
  OBVIOUS
<1>2. Head(q) \in S /\ Head(q) \in Elems(q)
  BY <1>1 DEF Elems
<1>3. Elems(Tail(q)) \subseteq Elems(q)
  BY <1>1 DEF Elems
<1>4. ASSUME Once(q) PROVE Once(Tail(q)) /\ Head(q) \notin Elems(Tail(q))
  BY <1>1, <1>4 DEF Elems, Once
<1> QED
  BY <1>1, <1>2, <1>3, <1>4

LEMMA QueueAppend ==
    ASSUME NEW S, NEW q \in Seq(S), NEW e \in S
    PROVE  /\ Append(q, e) \in Seq(S)
           /\ Elems(Append(q, e)) = Elems(q) \cup {e}
           /\ Once(q) /\ e \notin Elems(q) => Once(Append(q, e))
<1>1. /\ Append(q, e) \in Seq(S) /\ Len(q) \in Nat
      /\ DOMAIN q = 1 .. Len(q) /\ DOMAIN Append(q, e) = 1 .. Len(q) + 1
      /\ \A i \in 1 .. Len(q) : Append(q, e)[i] = q[i]
      /\ Append(q, e)[Len(q) + 1] = e
  OBVIOUS
<1>2. Elems(Append(q, e)) = Elems(q) \cup {e}
  BY <1>1 DEF Elems
<1>3. ASSUME Once(q), e \notin Elems(q) PROVE Once(Append(q, e))
  BY <1>1, <1>3 DEF Elems, Once
<1> QED
  BY <1>1, <1>2, <1>3

(* What without returns.                                                    *)
LEMMA QueueWithout ==
    ASSUME NEW S, NEW q \in Seq(S), NEW e, Once(q)
    PROVE  /\ without(q, e) \in Seq(S)
           /\ Elems(without(q, e)) \subseteq Elems(q) \ {e}
           /\ Once(without(q, e))
<1>0. Len(q) \in Nat /\ DOMAIN q = 1 .. Len(q) /\ \A j \in 1 .. Len(q) : q[j] \in S
  OBVIOUS
<1>1. CASE ~ \E i \in DOMAIN q : q[i] = e
  BY <1>1 DEF without, Elems
<1>2. CASE \E i \in DOMAIN q : q[i] = e
  <2>1. PICK i \in DOMAIN q : i = CHOOSE j \in DOMAIN q : q[j] = e
    BY <1>2
  <2>2. q[i] = e
    BY <1>2, <2>1
  <2>3. PICK r : r = [j \in 1 .. Len(q) - 1 |-> IF j < i THEN q[j] ELSE q[j + 1]]
    OBVIOUS
  <2>4. without(q, e) = r
    BY <1>2, <2>1, <2>3 DEF without
  <2>5. i \in 1 .. Len(q) /\ Len(q) - 1 \in Nat
    BY <1>0, <2>1
  <2>6. DOMAIN r = 1 .. Len(q) - 1
    BY <2>3
  <2>7. \A j \in 1 .. Len(q) - 1 : r[j] = IF j < i THEN q[j] ELSE q[j + 1]
    BY <2>3
  <2>8. r \in Seq(S)
    <3>1. \A j \in 1 .. Len(q) - 1 : r[j] \in S
      BY <1>0, <2>5, <2>7
    <3>2. r \in [1 .. Len(q) - 1 -> S]
      BY <2>3, <2>6, <3>1
    <3> QED
      BY <2>5, <3>2
  <2>9. Elems(r) \subseteq Elems(q) \ {e}
    <3>1. \A j \in DOMAIN q : q[j] = e => j = i
      BY <2>2, <2>1 DEF Once
    <3>2. \A j \in 1 .. Len(q) - 1 : \E l \in DOMAIN q : l # i /\ r[j] = q[l]
      BY <1>0, <2>5, <2>7
    <3> QED
      BY <2>6, <3>1, <3>2 DEF Elems
  <2>10. Once(r)
    BY <1>0, <2>5, <2>6, <2>7, SMTT(30) DEF Once
  <2> QED
    BY <2>4, <2>8, <2>9, <2>10
<1> QED
  BY <1>1, <1>2

----------------------------------------------------------------------------
(* The connections of the pool.                                             *)

LEMMA PooledFinite == IsFiniteSet(Pooled) /\ Cardinality(Pooled) \in Nat
<1>1. IsFiniteSet(Conns)
  BY SocketsAssumption, FS_Interval DEF Conns
<1>2. IsFiniteSet(Pooled)
  BY <1>1, FS_Subset DEF Pooled
<1> QED
  BY <1>2, FS_CardinalityType

(* One more connection is approved only below the limit.                    *)
LEMMA PoolShrinks ==
    ASSUME Pooled' \subseteq Pooled
    PROVE  Cardinality(Pooled') <= Cardinality(Pooled)
  BY PooledFinite, FS_Subset

LEMMA PoolLosesOne ==
    ASSUME NEW k \in Pooled, Pooled' = Pooled \ {k}
    PROVE  Cardinality(Pooled') = Cardinality(Pooled) - 1
  BY PooledFinite, FS_RemoveElement

LEMMA PoolGainsOne ==
    ASSUME NEW k, k \notin Pooled, Pooled' = Pooled \cup {k}
    PROVE  Cardinality(Pooled') = Cardinality(Pooled) + 1
  BY PooledFinite, FS_AddElement

----------------------------------------------------------------------------
LEMMA NetInvInit == NetInit => NetInv
<1> SUFFICES ASSUME NetInit PROVE NetInv
  OBVIOUS
<1> USE DEF NetInit, SocketsInit, PoolInit, AcceptorInit
<1>1. SocketsTypeOK
  BY SocketsAssumption DEF SocketsTypeOK, PeerStates, Conns
<1>2. PoolTypeOK /\ AcceptorTypeOK
  BY NetworkAssumption, PoolAssumption DEF PoolTypeOK, AcceptorTypeOK, ConnStates, SendStates
<1>3. UnopenedInv
  BY DEF UnopenedInv
<1>4. QueueInv
  BY EmptyQueue DEF QueueInv
<1>5. HoldersInv
  BY DEF HoldersInv, Holds
<1>6. VerifiedInv
  BY EmptyQueue DEF VerifiedInv
<1>7. CapacityInv
  <2>1. Pooled = {}
    BY DEF Pooled
  <2> QED
    BY <2>1, FS_EmptySet, PoolAssumption DEF CapacityInv
<1> QED
  BY <1>1, <1>2, <1>3, <1>4, <1>5, <1>6, <1>7 DEF NetInv

----------------------------------------------------------------------------
(* The steps of the peer.                                                   *)

(* A step that leaves the pool alone leaves alone what is about it only.    *)
LEMMA PoolUnchanged ==
    ASSUME NetInv, UNCHANGED poolVars
    PROVE  PoolTypeOK' /\ QueueInv' /\ HoldersInv' /\ CapacityInv'
  BY DEF NetInv, poolVars, PoolTypeOK, QueueInv, HoldersInv, Holds, CapacityInv, Pooled

(* What a step of one end of connection k may do to it: the connection      *)
(* stays verified, what is new on it is there because it is verified.       *)
LEMMA OneConnection ==
    ASSUME NetInv, UNCHANGED poolVars, UNCHANGED <<opened, peer>>, NEW k \in Conns,
           SocketsTypeOK', AcceptorTypeOK',
           srv[k] # "none",
           \A j \in Conns \ {k} : /\ srv'[j] = srv[j] /\ busy'[j] = busy[j]
                                  /\ c2s'[j] = c2s[j] /\ s2c'[j] = s2c[j],
           Verified(k) => Verified(k)',
           busy'[k] # {} => Verified(k)',
           \A f \in Elems(c2s'[k]) : f.type # "InitRequest" => Verified(k)' /\ f.for \in Sends,
           \A f \in Elems(s2c'[k]) : f.type = "InitResponse" => Verified(k)'
    PROVE  NetInv'
<1>1. \A j \in Conns : Verified(j) => Verified(j)'
  BY DEF Verified
<1>2. UnopenedInv'
  BY DEF NetInv, UnopenedInv, poolVars
<1>3. VerifiedInv'
  <2>1. conn' = conn /\ send' = send /\ on' = on
    BY DEF poolVars
  <2>2. \A j \in Conns : conn'[j] \in {"idle", "given"} => Verified(j)'
    BY <1>1, <2>1 DEF NetInv, VerifiedInv
  <2>3. \A t \in Sends :
          send'[t] \in {"registered", "calling"} => on'[t] \in Conns /\ Verified(on[t])'
    BY <1>1, <2>1 DEF NetInv, VerifiedInv
  <2>4. ASSUME NEW j \in Conns, j # k
        PROVE  /\ busy'[j] # {} => Verified(j)'
               /\ \A f \in Elems(c2s'[j]) : f.type # "InitRequest" => Verified(j)' /\ f.for \in Sends
               /\ \A f \in Elems(s2c'[j]) : f.type = "InitResponse" => Verified(j)'
    BY <1>1, <2>4 DEF NetInv, VerifiedInv
  <2>5. \A j \in Conns :
          /\ busy'[j] # {} => Verified(j)'
          /\ \A f \in Elems(c2s'[j]) : f.type # "InitRequest" => Verified(j)' /\ f.for \in Sends
          /\ \A f \in Elems(s2c'[j]) : f.type = "InitResponse" => Verified(j)'
    BY <2>4
  <2> QED
    BY <2>2, <2>3, <2>5 DEF VerifiedInv
<1> QED
  BY <1>2, <1>3, PoolUnchanged DEF NetInv

(* Fail drops what was on its way to the peer and in its hands.             *)
LEMMA FailStep ==
    ASSUME NetInv, UNCHANGED poolVars, NEW k \in Conns, Fail(k),
           srv[k] \notin {"none", "backlog"}
    PROVE  NetInv'
<1>1. /\ srv' = [srv EXCEPT ![k] = "closed"] /\ busy' = [busy EXCEPT ![k] = {}]
      /\ c2s' = [c2s EXCEPT ![k] = << >>] /\ lost' = lost \cup {k}
      /\ UNCHANGED <<peer, opened, writer, s2c>>
  BY DEF Fail
<1>2. SocketsTypeOK' /\ AcceptorTypeOK'
  BY <1>1 DEF NetInv, SocketsTypeOK, AcceptorTypeOK, PeerStates
<1>3. /\ srv'[k] = "closed" /\ busy'[k] = {} /\ c2s'[k] = << >> /\ s2c'[k] = s2c[k]
      /\ \A j \in Conns \ {k} : /\ srv'[j] = srv[j] /\ busy'[j] = busy[j]
                                /\ c2s'[j] = c2s[j] /\ s2c'[j] = s2c[j]
  BY <1>1 DEF NetInv, SocketsTypeOK, AcceptorTypeOK
<1>4. Verified(k) => Verified(k)'
  BY <1>1, <1>3 DEF Verified
<1>5. \A f \in Elems(s2c'[k]) : f.type = "InitResponse" => Verified(k)'
  BY <1>3, <1>4 DEF NetInv, VerifiedInv
<1>6. Elems(c2s'[k]) = {}
  BY <1>3, EmptyQueue
<1> QED
  BY <1>1, <1>2, <1>3, <1>4, <1>5, <1>6, OneConnection

(* Steps that only move the peer's end of a connection on.                  *)
LEMMA MoveOn ==
    ASSUME NetInv, UNCHANGED poolVars, NEW k \in Conns, NEW s \in PeerStates,
           srv[k] # "none",
           srv[k] \notin {"backlog", "init"} => s \notin {"none", "backlog", "init"},
           srv' = [srv EXCEPT ![k] = s],
           UNCHANGED <<acceptorVars, opened, writer, c2s, s2c, lost>>
    PROVE  NetInv'
<1>1. SocketsTypeOK' /\ AcceptorTypeOK'
  BY DEF NetInv, SocketsTypeOK, AcceptorTypeOK, acceptorVars
<1>2. /\ srv'[k] = s
      /\ UNCHANGED <<opened, peer>> /\ busy' = busy /\ c2s' = c2s /\ s2c' = s2c
      /\ \A j \in Conns \ {k} : /\ srv'[j] = srv[j] /\ busy'[j] = busy[j]
                                /\ c2s'[j] = c2s[j] /\ s2c'[j] = s2c[j]
  BY DEF NetInv, SocketsTypeOK, acceptorVars
<1>3. Verified(k) => Verified(k)'
  BY <1>2 DEF Verified
<1>4. /\ busy'[k] # {} => Verified(k)'
      /\ \A f \in Elems(c2s'[k]) : f.type # "InitRequest" => Verified(k)' /\ f.for \in Sends
      /\ \A f \in Elems(s2c'[k]) : f.type = "InitResponse" => Verified(k)'
  BY <1>2, <1>3 DEF NetInv, VerifiedInv
<1> QED
  BY <1>1, <1>2, <1>3, <1>4, OneConnection

(* The peer answers with frame f, or not, when the connection is lost; a is *)
(* what it does with the requests it reads, b with those it handles.        *)
LEMMA Answer ==
    ASSUME NetInv, UNCHANGED poolVars, NEW k \in Conns, NEW f \in Frame,
           NEW a \in Seq(Frame), NEW b \in SUBSET Sends, NEW s \in PeerStates,
           srv[k] # "none",
           srv[k] \in {"init", "serving"} \/ s = srv[k],
           s \notin {"none", "backlog", "init"} \/ s = srv[k],
           f.type = "InitResponse" => Verified(k)',
           b # {} => Verified(k),
           Elems(a) \subseteq Elems(c2s[k]),
           srv' = [srv EXCEPT ![k] = s],
           s2c' = answer(k, f) \/ s2c' = s2c,
           c2s' = [c2s EXCEPT ![k] = a],
           busy' = [busy EXCEPT ![k] = b],
           UNCHANGED <<peer, opened, writer, lost>>
    PROVE  NetInv'
<1>0. /\ c2s \in [Conns -> Seq(Frame)] /\ s2c \in [Conns -> Seq(Frame)]
      /\ srv \in [Conns -> PeerStates] /\ busy \in [Conns -> SUBSET Sends]
  BY DEF NetInv, SocketsTypeOK, AcceptorTypeOK
<1>1. PICK q : q = Append(s2c[k], f)
  OBVIOUS
<1>a. q \in Seq(Frame) /\ Elems(q) = Elems(s2c[k]) \cup {f}
  <2>1. s2c[k] \in Seq(Frame)
    BY <1>0
  <2> QED
    BY <1>1, <2>1, QueueAppend
<1>b. s2c' = s2c \/ s2c' = [s2c EXCEPT ![k] = q]
  BY <1>1 DEF answer
<1>2. /\ s2c' \in [Conns -> Seq(Frame)]
      /\ \A j \in Conns \ {k} : s2c'[j] = s2c[j]
      /\ s2c'[k] = s2c[k] \/ s2c'[k] = q
  BY <1>0, <1>a, <1>b
<1>3. SocketsTypeOK' /\ AcceptorTypeOK'
  BY <1>0, <1>2 DEF NetInv, SocketsTypeOK, AcceptorTypeOK
<1>4. /\ srv'[k] = s /\ c2s'[k] = a /\ busy'[k] = b
      /\ \A j \in Conns \ {k} : srv'[j] = srv[j] /\ busy'[j] = busy[j] /\ c2s'[j] = c2s[j]
  BY <1>0
<1>5. Verified(k) => Verified(k)'
  BY <1>4 DEF Verified
<1>6. \A g \in Elems(c2s'[k]) : g.type # "InitRequest" => Verified(k)' /\ g.for \in Sends
  BY <1>4, <1>5 DEF NetInv, VerifiedInv
<1>7. Elems(s2c'[k]) \subseteq Elems(s2c[k]) \cup {f}
  BY <1>2, <1>a
<1>8. \A g \in Elems(s2c'[k]) : g.type = "InitResponse" => Verified(k)'
  BY <1>5, <1>7 DEF NetInv, VerifiedInv
<1> QED
  BY <1>2, <1>3, <1>4, <1>5, <1>6, <1>8, OneConnection

(* The first frame of a queue of frames and the rest.                       *)
LEMMA FirstFrame ==
    ASSUME NetInv, NEW k \in Conns
    PROVE  /\ c2s[k] # << >> =>
                /\ Head(c2s[k]) \in Frame /\ Head(c2s[k]) \in Elems(c2s[k])
                /\ Tail(c2s[k]) \in Seq(Frame)
                /\ Elems(Tail(c2s[k])) \subseteq Elems(c2s[k])
           /\ s2c[k] # << >> =>
                /\ Head(s2c[k]) \in Frame /\ Head(s2c[k]) \in Elems(s2c[k])
                /\ Tail(s2c[k]) \in Seq(Frame)
                /\ Elems(Tail(s2c[k])) \subseteq Elems(s2c[k])
<1>1. c2s[k] \in Seq(Frame) /\ s2c[k] \in Seq(Frame)
  BY DEF NetInv, SocketsTypeOK
<1> QED
  BY <1>1, QueueTail

LEMMA InitHandshakeStep ==
    ASSUME NetInv, UNCHANGED poolVars, NEW k \in Conns, InitHandshake(k)
    PROVE  NetInv'
<1>1. srv[k] = "init" /\ c2s[k] # << >>
  BY DEF InitHandshake
<1>2. CASE check_init_req /\ ~ Fail(k)
  <2>1. /\ srv' = [srv EXCEPT ![k] = "serving"]
        /\ s2c' = answer(k, frame(InitAnswer, NoSend))
        /\ c2s' = [c2s EXCEPT ![k] = Tail(@)]
        /\ UNCHANGED <<peer, busy, opened, writer, lost>>
    BY <1>2 DEF InitHandshake, acceptorVars
  <2>2. PICK f : f = frame(InitAnswer, NoSend)
    OBVIOUS
  <2>3. f \in Frame /\ f.type = InitAnswer
    BY <2>2 DEF frame, Frame, FrameTypes, InitAnswer
  <2>4. f.type = "InitResponse" => Verified(k)'
    <3>1. srv'[k] = "serving" /\ peer' = peer /\ peer \in Peers
      BY <2>1 DEF NetInv, SocketsTypeOK, AcceptorTypeOK
    <3> QED
      BY <1>2, <2>3, <3>1 DEF Verified, InitAnswer, check_init_req, Peers
  <2>5. PICK b : b = busy[k]
    OBVIOUS
  <2>6. /\ b \in SUBSET Sends /\ busy' = [busy EXCEPT ![k] = b]
        /\ c2s' = [c2s EXCEPT ![k] = Tail(c2s[k])]
        /\ b # {} => Verified(k)
    BY <2>1, <2>5 DEF NetInv, AcceptorTypeOK, SocketsTypeOK, VerifiedInv
  <2>7. "serving" \in PeerStates
    BY DEF PeerStates
  <2> QED
    BY <1>1, <2>1, <2>2, <2>3, <2>4, <2>6, <2>7, FirstFrame, Answer, ZenonT(40)
<1>3. CASE Fail(k)
  BY <1>1, <1>3, FailStep
<1> QED
  BY <1>2, <1>3 DEF InitHandshake

LEMMA ReadRequestStep ==
    ASSUME NetInv, UNCHANGED poolVars, NEW k \in Conns, ReadRequest(k)
    PROVE  NetInv'
<1>1. /\ srv[k] = "serving" /\ c2s[k] # << >> /\ Head(c2s[k]).type = "CallRequest"
      /\ busy' = [busy EXCEPT ![k] = @ \cup {Head(c2s[k]).for}]
      /\ c2s' = [c2s EXCEPT ![k] = Tail(@)]
      /\ UNCHANGED <<peer, opened, writer, s2c, lost, srv>>
  BY DEF ReadRequest
<1>2. Verified(k)
  BY <1>1, FirstFrame DEF NetInv, VerifiedInv
<1>3. PICK a, b, f : /\ a = Tail(c2s[k]) /\ b = busy[k] \cup {Head(c2s[k]).for}
                     /\ f = frame("Error", NoSend)
  OBVIOUS
<1>4. b \in SUBSET Sends
  BY <1>1, <1>3, FirstFrame DEF NetInv, VerifiedInv, AcceptorTypeOK
<1>5. /\ busy' = [busy EXCEPT ![k] = b] /\ c2s' = [c2s EXCEPT ![k] = a]
      /\ srv' = [srv EXCEPT ![k] = "serving"] /\ "serving" \in PeerStates
  BY <1>1, <1>3 DEF NetInv, AcceptorTypeOK, SocketsTypeOK, PeerStates
<1>6. f \in Frame /\ f.type # "InitResponse"
  BY <1>3 DEF frame, Frame, FrameTypes
<1>7. a \in Seq(Frame) /\ Elems(a) \subseteq Elems(c2s[k])
  BY <1>1, <1>3, FirstFrame
<1>8. /\ srv[k] \in {"init", "serving"} /\ srv[k] # "none"
      /\ s2c' = s2c /\ UNCHANGED <<peer, opened, writer, lost>>
  BY <1>1
<1> QED
  BY <1>2, <1>4, <1>5, <1>6, <1>7, <1>8, Answer

LEMMA ReadPingStep ==
    ASSUME NetInv, UNCHANGED poolVars, NEW k \in Conns, ReadPing(k)
    PROVE  NetInv'
<1>1. srv[k] = "serving" /\ c2s[k] # << >> /\ Head(c2s[k]).type = "PingRequest"
  BY DEF ReadPing
<1>2. CASE Fail(k)
  BY <1>1, <1>2, FailStep
<1>3. CASE ~ Fail(k)
  <2>1. PICK type \in {"PingResponse", "Error"} :
           s2c' = answer(k, frame(type, Head(c2s[k]).for))
    BY <1>3 DEF ReadPing
  <2>2. PICK f : f = frame(type, Head(c2s[k]).for)
    OBVIOUS
  <2>3. f \in Frame /\ f.type # "InitResponse"
    BY <1>1, <2>1, <2>2, FirstFrame DEF frame, Frame, FrameTypes
  <2>4. /\ c2s' = [c2s EXCEPT ![k] = Tail(@)]
        /\ UNCHANGED <<peer, busy, opened, writer, lost, srv>>
    BY <1>3 DEF ReadPing, acceptorVars
  <2>5. PICK a, b : a = Tail(c2s[k]) /\ b = busy[k]
    OBVIOUS
  <2>6. /\ b \in SUBSET Sends /\ busy' = [busy EXCEPT ![k] = b]
        /\ c2s' = [c2s EXCEPT ![k] = a]
        /\ srv' = [srv EXCEPT ![k] = "serving"] /\ "serving" \in PeerStates
        /\ b # {} => Verified(k)
    BY <1>1, <2>4, <2>5 DEF NetInv, AcceptorTypeOK, SocketsTypeOK, VerifiedInv, PeerStates
  <2>7. a \in Seq(Frame) /\ Elems(a) \subseteq Elems(c2s[k])
    BY <1>1, <2>5, FirstFrame
  <2>8. /\ srv[k] \in {"init", "serving"} /\ srv[k] # "none"
        /\ s2c' = answer(k, f) /\ UNCHANGED <<peer, opened, writer, lost>>
    BY <1>1, <2>1, <2>2, <2>4
  <2> QED
    BY <2>3, <2>6, <2>7, <2>8, Answer
<1> QED
  BY <1>2, <1>3

LEMMA HandlerReturnsStep ==
    ASSUME NetInv, UNCHANGED poolVars, NEW k \in Conns, NEW t \in Sends, HandlerReturns(k, t)
    PROVE  NetInv'
<1>1. /\ t \in busy[k] /\ busy' = [busy EXCEPT ![k] = @ \ {t}]
      /\ s2c' = answer(k, frame("CallResponse", t))
      /\ UNCHANGED <<peer, opened, writer, c2s, lost, srv>>
  BY DEF HandlerReturns
<1>2. Verified(k)
  BY <1>1 DEF NetInv, VerifiedInv
<1>3. PICK b, a : b = busy[k] \ {t} /\ a = c2s[k]
  OBVIOUS
<1>4. /\ b \in SUBSET Sends /\ busy' = [busy EXCEPT ![k] = b]
      /\ a \in Seq(Frame) /\ c2s' = [c2s EXCEPT ![k] = a] /\ Elems(a) \subseteq Elems(c2s[k])
      /\ srv' = [srv EXCEPT ![k] = srv[k]] /\ srv[k] \in PeerStates
  BY <1>1, <1>3 DEF NetInv, AcceptorTypeOK, SocketsTypeOK
<1>5. PICK f : f = frame("CallResponse", t)
  OBVIOUS
<1>6. f \in Frame /\ f.type # "InitResponse"
  BY <1>5 DEF frame, Frame, FrameTypes
<1>7. srv[k] # "none"
  BY <1>2 DEF Verified
<1> QED
  BY <1>1, <1>2, <1>4, <1>5, <1>6, <1>7, Answer

LEMMA HandlerFailsStep ==
    ASSUME NetInv, UNCHANGED poolVars, NEW k \in Conns, NEW t \in Sends, HandlerFails(k, t)
    PROVE  NetInv'
  BY FailStep DEF HandlerFails, NetInv, VerifiedInv, Verified

LEMMA AcceptStep ==
    ASSUME NetInv, UNCHANGED poolVars, NEW k \in Conns, Accept(k)
    PROVE  NetInv'
  BY MoveOn DEF Accept, PeerStates

LEMMA StreamEndsStep ==
    ASSUME NetInv, UNCHANGED poolVars, NEW k \in Conns, StreamEnds(k)
    PROVE  NetInv'
<1>1. PICK s : s = IF srv[k] = "init" THEN "closed" ELSE "closing"
  OBVIOUS
<1>2. s \in PeerStates /\ s \notin {"none", "backlog", "init"}
  BY <1>1 DEF PeerStates
<1>3. /\ srv' = [srv EXCEPT ![k] = s] /\ srv[k] # "none"
      /\ UNCHANGED <<acceptorVars, opened, writer, c2s, s2c, lost>>
  BY <1>1 DEF StreamEnds
<1> QED
  BY <1>2, <1>3, MoveOn

LEMMA ConnectionEndsStep ==
    ASSUME NetInv, UNCHANGED poolVars, NEW k \in Conns, ConnectionEnds(k)
    PROVE  NetInv'
  BY MoveOn DEF ConnectionEnds, PeerStates

LEMMA StreamFailsStep ==
    ASSUME NetInv, UNCHANGED poolVars, NEW k \in Conns, StreamFails(k)
    PROVE  NetInv'
  BY FailStep DEF StreamFails

LEMMA DisconnectStep ==
    ASSUME NetInv, NEW k \in Conns, Disconnect(k)
    PROVE  NetInv'
<1>1. /\ srv[k] # "none" /\ lost' = lost \cup {k}
      /\ c2s' = [c2s EXCEPT ![k] = << >>] /\ s2c' = [s2c EXCEPT ![k] = << >>]
      /\ UNCHANGED <<opened, peer>> /\ UNCHANGED <<writer, srv, busy>> /\ UNCHANGED poolVars
  BY DEF Disconnect, acceptorVars
<1>2. SocketsTypeOK' /\ AcceptorTypeOK'
  BY <1>1 DEF NetInv, SocketsTypeOK, AcceptorTypeOK
<1>3. /\ c2s'[k] = << >> /\ s2c'[k] = << >> /\ busy'[k] = busy[k]
      /\ \A j \in Conns \ {k} : /\ srv'[j] = srv[j] /\ busy'[j] = busy[j]
                                /\ c2s'[j] = c2s[j] /\ s2c'[j] = s2c[j]
  BY <1>1 DEF NetInv, SocketsTypeOK
<1>4. Verified(k) => Verified(k)'
  BY <1>1 DEF Verified
<1>5. busy'[k] # {} => Verified(k)'
  BY <1>3, <1>4 DEF NetInv, VerifiedInv
<1>6. Elems(c2s'[k]) = {} /\ Elems(s2c'[k]) = {}
  BY <1>3, EmptyQueue
<1> QED
  BY <1>1, <1>2, <1>3, <1>4, <1>5, <1>6, OneConnection

(* The connections that are reset with the listener were not accepted.      *)
LEMMA ResetBacklogStep ==
    ASSUME NetInv, ResetBacklog
    PROVE  NetInv'
<1>1. PICK reset \in SUBSET {k \in Conns : srv[k] = "backlog"} :
        /\ srv' = [k \in Conns |-> IF k \in reset THEN "closed" ELSE srv[k]]
        /\ c2s' = [k \in Conns |-> IF k \in reset THEN << >> ELSE c2s[k]]
        /\ lost' = lost \cup reset
  <2>1. PICK r : r = IF port # None /\ port' = None
                     THEN {k \in Conns : srv[k] = "backlog"} ELSE {}
    OBVIOUS
  <2>2. r \in SUBSET {k \in Conns : srv[k] = "backlog"}
    BY <2>1
  <2>3. /\ srv' = [k \in Conns |-> IF k \in r THEN "closed" ELSE srv[k]]
        /\ c2s' = [k \in Conns |-> IF k \in r THEN << >> ELSE c2s[k]]
        /\ lost' = lost \cup r
    BY <2>1 DEF ResetBacklog
  <2> QED
    BY <2>2, <2>3
<1>2. UNCHANGED <<opened, writer, s2c, peer, busy>> /\ UNCHANGED poolVars
  BY DEF ResetBacklog, acceptorVars
<1>3. \A k \in Conns :
        /\ srv'[k] = (IF k \in reset THEN "closed" ELSE srv[k])
        /\ c2s'[k] = (IF k \in reset THEN << >> ELSE c2s[k])
  BY <1>1
<1>4. SocketsTypeOK' /\ AcceptorTypeOK'
  BY <1>1, <1>2 DEF NetInv, SocketsTypeOK, AcceptorTypeOK, PeerStates
<1>5. \A k \in Conns : Verified(k) => Verified(k)'
  BY <1>2, <1>3 DEF Verified
<1>6. UnopenedInv'
  BY <1>1, <1>2, <1>3 DEF NetInv, UnopenedInv, poolVars
<1>7. VerifiedInv'
  <2>1. conn' = conn /\ send' = send /\ on' = on /\ busy' = busy /\ s2c' = s2c
    BY <1>2 DEF poolVars
  <2>2. \A k \in Conns : Elems(c2s'[k]) \subseteq Elems(c2s[k])
    BY <1>3, EmptyQueue
  <2>3. \A t \in Sends :
          send'[t] \in {"registered", "calling"} => on'[t] \in Conns /\ Verified(on[t])'
    BY <1>5, <2>1 DEF NetInv, VerifiedInv
  <2> QED
    BY <1>5, <2>1, <2>2, <2>3 DEF NetInv, VerifiedInv
<1> QED
  BY <1>2, <1>4, <1>6, <1>7, PoolUnchanged DEF NetInv

----------------------------------------------------------------------------
(* The steps of the client.                                                 *)

(* put: connection k, which is in nobody's hands but those of a send that   *)
(* gives it away, is in the queue or in the hands of the first waiter.      *)
LEMMA PutStep ==
    ASSUME NetInv, UNCHANGED <<srv, peer>>, NEW k \in Conns, NEW s \in [Sends -> SendStates],
           put(k, s),
           conn[k] \in {"verifying", "given"}, Verified(k),
           \A t \in Sends : send[t] = "waiting" => s[t] = "waiting",
           \A t \in Sends : s[t] \in {"pinging", "have"} => s[t] = send[t] /\ on[t] # k,
           \A t \in Sends : s[t] \in {"registered", "calling"} => s[t] = send[t] \/ on[t] = k
    PROVE  /\ conn' \in [Conns -> ConnStates] /\ idle' \in Seq(Conns)
           /\ waiters' \in Seq(Sends) /\ send' \in [Sends -> SendStates]
           /\ on' \in [Sends -> Conns \cup {0}]
           /\ QueueInv' /\ HoldersInv'
           /\ Pooled' = Pooled
           /\ \A j \in Conns : conn'[j] \in {"idle", "given"} => Verified(j)'
           /\ \A j \in Conns \ {k} : conn'[j] = conn[j]
           /\ \A t \in Sends : send'[t] \in {"registered", "calling"} =>
                                  on'[t] \in Conns /\ Verified(on'[t])
<1>0. /\ conn \in [Conns -> ConnStates] /\ idle \in Seq(Conns)
      /\ waiters \in Seq(Sends) /\ send \in [Sends -> SendStates]
      /\ on \in [Sends -> Conns \cup {0}]
  BY DEF NetInv, PoolTypeOK
<1>1. /\ \A j \in Conns : Verified(j) => Verified(j)'
      /\ \A j \in Conns : conn[j] \in {"idle", "given"} => Verified(j)
      /\ \A t \in Sends : send[t] \in {"registered", "calling"} =>
                             on[t] \in Conns /\ Verified(on[t])
  BY DEF NetInv, VerifiedInv, Verified
<1>2. /\ Once(idle) /\ \A j \in Elems(idle) : conn[j] = "idle"
      /\ Once(waiters) /\ \A t \in Elems(waiters) : send[t] = "waiting"
  BY DEF NetInv, QueueInv
<1>3. /\ \A t \in Sends : Holds(t) => on[t] \in Conns /\ conn[on[t]] = "given"
      /\ \A t, u \in Sends : Holds(t) /\ Holds(u) /\ on[t] = on[u] => t = u
  BY DEF NetInv, HoldersInv
<1>4. CASE waiters = << >>
  <2>1. /\ idle' = Append(idle, k) /\ conn' = [conn EXCEPT ![k] = "idle"] /\ send' = s
        /\ waiters' = waiters /\ on' = on
    BY <1>4 DEF put
  <2>2. k \notin Elems(idle)
    BY <1>2
  <2>3. idle' \in Seq(Conns) /\ Elems(idle') = Elems(idle) \cup {k} /\ Once(idle')
    BY <1>0, <1>2, <2>1, <2>2, QueueAppend
  <2>4. Elems(waiters') = {} /\ Once(waiters')
    BY <1>4, <2>1, EmptyQueue
  <2>5. conn'[k] = "idle" /\ \A j \in Conns \ {k} : conn'[j] = conn[j]
    BY <1>0, <2>1
  <2>6. conn' \in [Conns -> ConnStates]
    BY <1>0, <2>1 DEF ConnStates
  <2>7. QueueInv'
    <3>1. \A j \in Elems(idle') : conn'[j] = "idle"
      <4>1. \A j \in Elems(idle) : j \in Conns
        BY <1>0 DEF Elems
      <4> QED
        BY <1>2, <2>2, <2>3, <2>5, <4>1
    <3> QED
      BY <2>3, <2>4, <3>1 DEF QueueInv
  <2>8. HoldersInv'
    BY <1>3, <2>1, <2>5 DEF HoldersInv, Holds
  <2>9. Pooled' = Pooled
    BY <2>5 DEF Pooled
  <2>10. \A j \in Conns : conn'[j] \in {"idle", "given"} => Verified(j)'
    BY <1>1, <2>5
  <2>11. \A t \in Sends : send'[t] \in {"registered", "calling"} =>
                             on'[t] \in Conns /\ Verified(on'[t])
    BY <1>1, <2>1
  <2> QED
    BY <1>0, <2>1, <2>3, <2>5, <2>6, <2>7, <2>8, <2>9, <2>10, <2>11
<1>5. CASE waiters # << >>
  <2>1. PICK h : h = Head(waiters)
    OBVIOUS
  <2>2. /\ waiters' = Tail(waiters) /\ conn' = [conn EXCEPT ![k] = "given"]
        /\ send' = [s EXCEPT ![h] = "have"] /\ on' = [on EXCEPT ![h] = k] /\ idle' = idle
    BY <1>5, <2>1 DEF put
  <2>3. /\ h \in Sends /\ h \in Elems(waiters) /\ waiters' \in Seq(Sends)
        /\ Elems(waiters') \subseteq Elems(waiters) \ {h} /\ Once(waiters')
    BY <1>0, <1>2, <1>5, <2>1, <2>2, QueueTail
  <2>4. /\ conn'[k] = "given" /\ \A j \in Conns \ {k} : conn'[j] = conn[j]
        /\ send'[h] = "have" /\ \A t \in Sends \ {h} : send'[t] = s[t]
        /\ on'[h] = k /\ \A t \in Sends \ {h} : on'[t] = on[t]
    BY <1>0, <2>2, <2>3
  <2>5. conn' \in [Conns -> ConnStates] /\ send' \in [Sends -> SendStates]
        /\ on' \in [Sends -> Conns \cup {0}]
    BY <1>0, <2>2, <2>3 DEF ConnStates, SendStates
  <2>6. QueueInv'
    <3>1. \A j \in Elems(idle') : conn'[j] = "idle"
      <4>1. \A j \in Elems(idle) : j \in Conns
        BY <1>0 DEF Elems
      <4> QED
        BY <1>2, <2>2, <2>4, <4>1
    <3>2. \A t \in Elems(waiters') : send'[t] = "waiting"
      <4>1. \A t \in Elems(waiters) : t \in Sends
        BY <1>0 DEF Elems
      <4> QED
        BY <1>2, <2>3, <2>4, <4>1
    <3> QED
      BY <1>2, <2>2, <2>3, <3>1, <3>2 DEF QueueInv
  <2>7. HoldersInv'
    BY <1>3, <2>3, <2>4 DEF HoldersInv, Holds
  <2>8. Pooled' = Pooled
    BY <2>4 DEF Pooled
  <2>9. \A j \in Conns : conn'[j] \in {"idle", "given"} => Verified(j)'
    BY <1>1, <2>4
  <2>10. \A t \in Sends : send'[t] \in {"registered", "calling"} =>
                             on'[t] \in Conns /\ Verified(on'[t])
    BY <1>1, <2>3, <2>4
  <2> QED
    BY <1>0, <2>2, <2>3, <2>4, <2>5, <2>6, <2>7, <2>8, <2>9, <2>10
<1> QED
  BY <1>4, <1>5

(* What is left to show of a step of the client that opens no connection.   *)
LEMMA ClientSide ==
    ASSUME NetInv, UNCHANGED <<srv, peer, busy, opened>>,
           SocketsTypeOK', PoolTypeOK', QueueInv', HoldersInv', CapacityInv',
           \A j \in Conns : j > opened =>
               conn'[j] = "none" /\ c2s'[j] = << >> /\ s2c'[j] = << >>,
           \A j \in Conns : conn'[j] \in {"idle", "given"} => Verified(j),
           \A t \in Sends : send'[t] \in {"registered", "calling"} =>
                               on'[t] \in Conns /\ Verified(on'[t]),
           \A j \in Conns : \A f \in Elems(c2s'[j]) :
               f.type # "InitRequest" => Verified(j) /\ f.for \in Sends,
           \A j \in Conns : Elems(s2c'[j]) \subseteq Elems(s2c[j])
    PROVE  NetInv'
<1>1. AcceptorTypeOK'
  BY DEF NetInv, AcceptorTypeOK
<1>2. UnopenedInv'
  BY DEF NetInv, UnopenedInv
<1>3. VerifiedInv'
  <2>2. \A k \in Conns : Verified(k)' = Verified(k)
    BY DEF Verified
  <2>3. \A t \in Sends :
          send'[t] \in {"registered", "calling"} => on'[t] \in Conns /\ Verified(on[t])'
    BY <2>2 DEF Verified
  <2>4. \A k \in Conns : \A f \in Elems(s2c'[k]) : f.type = "InitResponse" => Verified(k)'
    BY <2>2 DEF NetInv, VerifiedInv
  <2>5. \A k \in Conns : busy'[k] # {} => Verified(k)'
    BY <2>2 DEF NetInv, VerifiedInv
  <2> QED
    BY <2>2, <2>3, <2>4, <2>5 DEF VerifiedInv
<1> QED
  BY <1>1, <1>2, <1>3 DEF NetInv

(* The client takes the first frame that came on connection k.              *)
LEMMA TakeFrame ==
    ASSUME NetInv, NEW k \in Conns, s2c[k] # << >>, s2c' = [s2c EXCEPT ![k] = Tail(@)]
    PROVE  /\ s2c' \in [Conns -> Seq(Frame)]
           /\ \A j \in Conns : j > opened => s2c'[j] = << >>
           /\ \A j \in Conns : Elems(s2c'[j]) \subseteq Elems(s2c[j])
<1>0. s2c \in [Conns -> Seq(Frame)] /\ \A j \in Conns : j > opened => s2c[j] = << >>
  BY DEF NetInv, SocketsTypeOK, UnopenedInv
<1>1. PICK q : q = Tail(s2c[k])
  OBVIOUS
<1>2. q \in Seq(Frame) /\ Elems(q) \subseteq Elems(s2c[k])
  BY <1>1, FirstFrame
<1>3. s2c' = [s2c EXCEPT ![k] = q]
  BY <1>1
<1>4. s2c' \in [Conns -> Seq(Frame)] /\ s2c'[k] = q /\ \A j \in Conns \ {k} : s2c'[j] = s2c[j]
  BY <1>0, <1>2, <1>3
<1> QED
  BY <1>0, <1>2, <1>4

(* The client writes a frame to a connection that was verified.             *)
LEMMA WriteFrame ==
    ASSUME NetInv, NEW k \in Conns, NEW t \in Sends, NEW type \in FrameTypes, Verified(k),
           c2s' = write(k, frame(type, t))
    PROVE  /\ c2s' \in [Conns -> Seq(Frame)]
           /\ \A j \in Conns : j > opened => c2s'[j] = << >>
           /\ \A j \in Conns : \A f \in Elems(c2s'[j]) :
                 f.type # "InitRequest" => Verified(j) /\ f.for \in Sends
<1>0. /\ c2s \in [Conns -> Seq(Frame)]
      /\ \A j \in Conns : j > opened => c2s[j] = << >> /\ srv[j] = "none"
      /\ \A j \in Conns : \A f \in Elems(c2s[j]) :
            f.type # "InitRequest" => Verified(j) /\ f.for \in Sends
  BY DEF NetInv, SocketsTypeOK, UnopenedInv, VerifiedInv
<1>1. PICK q, g : g = frame(type, t) /\ q = Append(c2s[k], g)
  OBVIOUS
<1>2. g \in Frame /\ g.for \in Sends
  BY <1>1 DEF Frame, frame
<1>3. c2s[k] \in Seq(Frame)
  BY <1>0
<1>4. q \in Seq(Frame) /\ Elems(q) = Elems(c2s[k]) \cup {g}
  BY <1>1, <1>2, <1>3, QueueAppend
<1>5. c2s' = c2s \/ c2s' = [c2s EXCEPT ![k] = q]
  BY <1>1 DEF write
<1>6. /\ c2s' \in [Conns -> Seq(Frame)] /\ \A j \in Conns \ {k} : c2s'[j] = c2s[j]
      /\ c2s'[k] = c2s[k] \/ c2s'[k] = q
  BY <1>0, <1>4, <1>5
<1>7. ~ (k > opened)
  BY <1>0 DEF Verified
<1>8. Elems(c2s'[k]) \subseteq Elems(c2s[k]) \cup {g}
  BY <1>4, <1>6
<1>9. \A f \in Elems(c2s'[k]) : f.type # "InitRequest" => Verified(k) /\ f.for \in Sends
  BY <1>0, <1>2, <1>8
<1> QED
  BY <1>0, <1>6, <1>7, <1>9

(* The parts of the invariant that ClientSide asks for, in the state before *)
(* the step.                                                                *)
LEMMA Before ==
    ASSUME NetInv
    PROVE  /\ \A j \in Conns : j > opened =>
                 conn[j] = "none" /\ c2s[j] = << >> /\ s2c[j] = << >>
           /\ \A j \in Conns : conn[j] \in {"idle", "given"} => Verified(j)
           /\ \A t \in Sends : send[t] \in {"registered", "calling"} =>
                                  on[t] \in Conns /\ Verified(on[t])
           /\ \A j \in Conns : \A f \in Elems(c2s[j]) :
                 f.type # "InitRequest" => Verified(j) /\ f.for \in Sends
           /\ \A j \in Conns : Elems(s2c[j]) \subseteq Elems(s2c[j])
  BY DEF NetInv, UnopenedInv, VerifiedInv

(* The same for the pool.                                                   *)
LEMMA PoolBefore ==
    ASSUME NetInv
    PROVE  /\ conn \in [Conns -> ConnStates] /\ idle \in Seq(Conns)
           /\ waiters \in Seq(Sends) /\ send \in [Sends -> SendStates]
           /\ on \in [Sends -> Conns \cup {0}]
           /\ Once(idle) /\ \A j \in Elems(idle) : j \in Conns /\ conn[j] = "idle"
           /\ Once(waiters) /\ \A t \in Elems(waiters) : t \in Sends /\ send[t] = "waiting"
           /\ \A t \in Sends : Holds(t) => on[t] \in Conns /\ conn[on[t]] = "given"
           /\ \A t, u \in Sends : Holds(t) /\ Holds(u) /\ on[t] = on[u] => t = u
<1>1. /\ conn \in [Conns -> ConnStates] /\ idle \in Seq(Conns)
      /\ waiters \in Seq(Sends) /\ send \in [Sends -> SendStates]
      /\ on \in [Sends -> Conns \cup {0}]
  BY DEF NetInv, PoolTypeOK
<1>2. Elems(idle) \subseteq Conns /\ Elems(waiters) \subseteq Sends
  BY <1>1 DEF Elems
<1> QED
  BY <1>1, <1>2 DEF NetInv, QueueInv, HoldersInv

(* GetIdle takes the first connection of the queue out of it.               *)
LEMMA GetIdleStep ==
    ASSUME NetInv, UNCHANGED acceptorVars, NEW t \in Sends, GetIdle(t)
    PROVE  NetInv'
<1>1. PICK k, st : k = Head(idle) /\ st = IF testing = "on" THEN "pinging" ELSE "have"
  OBVIOUS
<1>2. /\ send[t] \in {"idle", "getting"} /\ idle # << >>
      /\ conn' = [conn EXCEPT ![k] = "given"] /\ on' = [on EXCEPT ![t] = k]
      /\ send' = [send EXCEPT ![t] = st]
      /\ c2s' = c2s \/ c2s' = write(k, frame("PingRequest", t))
      /\ idle' = Tail(idle)
      /\ UNCHANGED <<testing, waiters, approvals, reader>>
      /\ UNCHANGED <<opened, writer, s2c, lost, srv, peer, busy>>
  BY <1>1 DEF GetIdle, acceptorVars
<1>3. st \in {"pinging", "have"} /\ st \in SendStates
  BY <1>1 DEF SendStates
<1>4. /\ k \in Conns /\ k \in Elems(idle) /\ idle' \in Seq(Conns) /\ Once(idle')
      /\ Elems(idle') \subseteq Elems(idle) \ {k}
  BY <1>1, <1>2, PoolBefore, QueueTail
<1>5. conn[k] = "idle" /\ Verified(k)
  BY <1>4, Before, PoolBefore
<1>6. /\ conn'[k] = "given" /\ \A j \in Conns \ {k} : conn'[j] = conn[j]
      /\ send'[t] = st /\ \A u \in Sends \ {t} : send'[u] = send[u]
      /\ on'[t] = k /\ \A u \in Sends \ {t} : on'[u] = on[u]
  BY <1>2, <1>4, PoolBefore
<1>7. "PingRequest" \in FrameTypes
  BY DEF FrameTypes
<1>8. /\ c2s' \in [Conns -> Seq(Frame)]
      /\ \A j \in Conns : j > opened => c2s'[j] = << >>
      /\ \A j \in Conns : \A f \in Elems(c2s'[j]) :
            f.type # "InitRequest" => Verified(j) /\ f.for \in Sends
  <2>1. CASE c2s' = c2s
    BY <2>1, Before DEF NetInv, SocketsTypeOK
  <2>2. CASE c2s' = write(k, frame("PingRequest", t))
    BY <1>4, <1>5, <1>7, <2>2, WriteFrame
  <2> QED
    BY <1>2, <2>1, <2>2
<1>9. SocketsTypeOK'
  BY <1>2, <1>8 DEF NetInv, SocketsTypeOK
<1>10. PoolTypeOK'
  BY <1>2, <1>3, <1>4 DEF NetInv, PoolTypeOK, ConnStates
<1>11. QueueInv'
  BY <1>2, <1>4, <1>6, PoolBefore DEF QueueInv
<1>12. HoldersInv'
  BY <1>3, <1>4, <1>5, <1>6, PoolBefore DEF HoldersInv, Holds
<1>13. CapacityInv'
  <2>1. Pooled' = Pooled
    BY <1>5, <1>6 DEF Pooled
  <2> QED
    BY <1>2, <2>1 DEF NetInv, CapacityInv
<1>14. \A j \in Conns : conn'[j] \in {"idle", "given"} => Verified(j)
  BY <1>5, <1>6, Before
<1>15. \A j \in Conns : j > opened =>
         conn'[j] = "none" /\ c2s'[j] = << >> /\ s2c'[j] = << >>
  BY <1>2, <1>5, <1>6, <1>8, Before
<1>16. \A u \in Sends : send'[u] \in {"registered", "calling"} =>
                           on'[u] \in Conns /\ Verified(on'[u])
  BY <1>3, <1>6, Before
<1> QED
  BY <1>2, <1>8, <1>9, <1>10, <1>11, <1>12, <1>13, <1>14, <1>15, <1>16, ClientSide

LEMMA GetWaitsStep ==
    ASSUME NetInv, UNCHANGED acceptorVars, NEW t \in Sends, GetWaits(t)
    PROVE  NetInv'
<1>1. /\ send[t] \in {"idle", "getting"}
      /\ waiters' = Append(waiters, t) /\ send' = [send EXCEPT ![t] = "waiting"]
      /\ approvals' = IF MayApprove THEN approvals + 1 ELSE approvals
      /\ UNCHANGED <<testing, conn, idle, on, reader>>
      /\ UNCHANGED <<opened, writer, c2s, s2c, lost, srv, peer, busy>>
  BY DEF GetWaits, acceptorVars, socketVars
<1>2. /\ waiters' \in Seq(Sends) /\ Once(waiters')
      /\ Elems(waiters') = Elems(waiters) \cup {t}
  BY <1>1, PoolBefore, QueueAppend
<1>3. send'[t] = "waiting" /\ \A u \in Sends \ {t} : send'[u] = send[u]
  BY <1>1, PoolBefore
<1>4. approvals' \in Nat /\ Cardinality(Pooled) + approvals' <= MaxConnections
  BY <1>1, PooledFinite, PoolAssumption DEF NetInv, PoolTypeOK, CapacityInv, MayApprove
<1>5. CapacityInv'
  <2>1. Pooled' = Pooled
    BY <1>1 DEF Pooled
  <2> QED
    BY <1>4, <2>1 DEF CapacityInv
<1>6. SocketsTypeOK'
  BY <1>1 DEF NetInv, SocketsTypeOK
<1>7. approvals' \in 0 .. MaxConnections
  BY <1>4, PooledFinite, PoolAssumption
<1>8. PoolTypeOK'
  BY <1>1, <1>2, <1>7 DEF NetInv, PoolTypeOK, SendStates
<1>9. QueueInv'
  BY <1>1, <1>2, <1>3, PoolBefore DEF QueueInv
<1>10. HoldersInv'
  BY <1>1, <1>3, PoolBefore DEF HoldersInv, Holds
<1> QED
  BY <1>1, <1>3, <1>5, <1>6, <1>8, <1>9, <1>10, Before, ClientSide

(* A send that waits leaves the queue: it times out or it is cancelled.     *)
LEMMA LeaveQueue ==
    ASSUME NetInv, UNCHANGED acceptorVars, NEW t \in Sends, NEW st \in {"failed", "cancelled"},
           send[t] \in {"waiting", "registered", "calling"},
           send' = [send EXCEPT ![t] = st], waiters' = without(waiters, t),
           UNCHANGED <<testing, conn, idle, approvals, on, reader, socketVars>>
    PROVE  NetInv'
<1>1. /\ UNCHANGED <<testing, conn, idle, approvals, on, reader>>
      /\ UNCHANGED <<opened, writer, c2s, s2c, lost, srv, peer, busy>>
  BY DEF acceptorVars, socketVars
<1>2. /\ waiters' \in Seq(Sends) /\ Once(waiters')
      /\ Elems(waiters') \subseteq Elems(waiters) \ {t}
  BY PoolBefore, QueueWithout
<1>3. send'[t] = st /\ \A u \in Sends \ {t} : send'[u] = send[u]
  BY PoolBefore
<1>4. SocketsTypeOK'
  BY <1>1 DEF NetInv, SocketsTypeOK
<1>5. PoolTypeOK'
  BY <1>1, <1>2 DEF NetInv, PoolTypeOK, SendStates
<1>6. QueueInv'
  BY <1>1, <1>2, <1>3, PoolBefore DEF QueueInv
<1>7. HoldersInv'
  BY <1>1, <1>3, PoolBefore DEF HoldersInv, Holds
<1>8. CapacityInv'
  BY <1>1 DEF NetInv, CapacityInv, Pooled
<1> QED
  BY <1>1, <1>3, <1>4, <1>5, <1>6, <1>7, <1>8, Before, ClientSide

LEMMA GetTimesOutStep ==
    ASSUME NetInv, UNCHANGED acceptorVars, NEW t \in Sends, GetTimesOut(t)
    PROVE  NetInv'
  BY LeaveQueue DEF GetTimesOut

(* A new connection is not verified, and it was not before it was opened.   *)
LEMMA ConnectStepInv ==
    ASSUME NetInv, UNCHANGED acceptorVars, Connect
    PROVE  NetInv'
<1>1. PICK k, q : k = opened + 1 /\ q = <<frame("InitRequest", NoSend)>>
  OBVIOUS
<1>2. /\ approvals > 0 /\ opened < MaxConns /\ opened' = k
      /\ conn' = [conn EXCEPT ![k] = "verifying"] /\ srv' = [srv EXCEPT ![k] = "backlog"]
      /\ writer' = [writer EXCEPT ![k] = "on"] /\ reader' = [reader EXCEPT ![k] = "on"]
      /\ c2s' = [c2s EXCEPT ![k] = q] /\ approvals' = approvals - 1
      /\ UNCHANGED <<testing, idle, waiters, send, on>> /\ UNCHANGED <<s2c, lost, peer, busy>>
  BY <1>1 DEF Connect, acceptorVars
<1>3. opened \in Nat /\ approvals \in Nat
  BY SocketsAssumption, PoolAssumption DEF NetInv, SocketsTypeOK, PoolTypeOK
<1>4. k \in Conns /\ k > opened /\ \A j \in Conns : j > k => j > opened
  BY <1>1, <1>2, <1>3, SocketsAssumption DEF Conns
<1>5. conn[k] = "none" /\ srv[k] = "none" /\ busy[k] = {} /\ s2c[k] = << >>
  BY <1>4 DEF NetInv, UnopenedInv
<1>6. q \in Seq(Frame) /\ \A f \in Elems(q) : f.type = "InitRequest"
  <2>1. frame("InitRequest", NoSend) \in Frame
    BY DEF Frame, frame, FrameTypes
  <2>2. frame("InitRequest", NoSend).type = "InitRequest"
    BY DEF frame
  <2>3. q \in Seq(Frame) /\ DOMAIN q = {1} /\ q[1] = frame("InitRequest", NoSend)
    BY <1>1, <2>1
  <2> QED
    BY <2>2, <2>3 DEF Elems
<1>7. /\ conn'[k] = "verifying" /\ srv'[k] = "backlog" /\ c2s'[k] = q
      /\ \A j \in Conns \ {k} : conn'[j] = conn[j] /\ srv'[j] = srv[j] /\ c2s'[j] = c2s[j]
  BY <1>2, <1>4 DEF NetInv, SocketsTypeOK, PoolTypeOK
<1>8. SocketsTypeOK'
  BY <1>2, <1>4, <1>6, SocketsAssumption DEF NetInv, SocketsTypeOK, PeerStates, Conns
<1>9. approvals' \in 0 .. MaxConnections
  BY <1>2, <1>3, PoolAssumption DEF NetInv, PoolTypeOK
<1>10. PoolTypeOK'
  BY <1>2, <1>9 DEF NetInv, PoolTypeOK, ConnStates
<1>11. AcceptorTypeOK'
  BY <1>2 DEF NetInv, AcceptorTypeOK
<1>12. UnopenedInv'
  <2>1. \A j \in Conns : j > k => /\ conn[j] = "none" /\ srv[j] = "none" /\ busy[j] = {}
                                  /\ c2s[j] = << >> /\ s2c[j] = << >>
    BY <1>4 DEF NetInv, UnopenedInv
  <2>2. \A j \in Conns : j > k => j # k
    BY <1>4, SocketsAssumption DEF Conns
  <2> QED
    BY <1>2, <1>7, <2>1, <2>2 DEF UnopenedInv
<1>13. QueueInv'
  BY <1>2, <1>5, <1>7, PoolBefore DEF QueueInv
<1>14. HoldersInv'
  BY <1>2, <1>5, <1>7, PoolBefore DEF HoldersInv, Holds
<1>15. VerifiedInv'
  <2>1. \A j \in Conns : Verified(j) => Verified(j)'
    BY <1>2, <1>5, <1>7 DEF Verified
  <2>2. \A j \in Conns : conn'[j] \in {"idle", "given"} => Verified(j)'
    BY <1>7, <2>1 DEF NetInv, VerifiedInv
  <2>3. \A j \in Conns : busy'[j] # {} => Verified(j)'
    BY <1>2, <2>1 DEF NetInv, VerifiedInv
  <2>4. \A t \in Sends :
          send'[t] \in {"registered", "calling"} => on'[t] \in Conns /\ Verified(on[t])'
    BY <1>2, <2>1 DEF NetInv, VerifiedInv
  <2>5. \A j \in Conns : \A f \in Elems(c2s'[j]) :
          f.type # "InitRequest" => Verified(j)' /\ f.for \in Sends
    BY <1>6, <1>7, <2>1 DEF NetInv, VerifiedInv
  <2>6. \A j \in Conns : \A f \in Elems(s2c'[j]) : f.type = "InitResponse" => Verified(j)'
    BY <1>2, <2>1 DEF NetInv, VerifiedInv
  <2>7. on' = on
    BY <1>2
  <2> QED
    BY <2>2, <2>3, <2>4, <2>5, <2>6, <2>7 DEF VerifiedInv
<1>16. CapacityInv'
  <2>1. k \notin Pooled /\ Pooled' = Pooled \cup {k}
    BY <1>4, <1>5, <1>7 DEF Pooled
  <2>2. Cardinality(Pooled') = Cardinality(Pooled) + 1
    BY <2>1, PoolGainsOne
  <2> QED
    BY <1>2, <1>3, <2>2, PooledFinite, PoolAssumption DEF NetInv, CapacityInv
<1> QED
  BY <1>8, <1>10, <1>11, <1>12, <1>13, <1>14, <1>15, <1>16 DEF NetInv

LEMMA ConnectFailsStep ==
    ASSUME NetInv, UNCHANGED acceptorVars, ConnectFails
    PROVE  NetInv'
<1>1. /\ approvals > 0 /\ approvals' = approvals - 1
      /\ UNCHANGED <<testing, conn, idle, waiters, send, on, reader>>
      /\ UNCHANGED <<opened, writer, c2s, s2c, lost, srv, peer, busy>>
  BY DEF ConnectFails, acceptorVars, socketVars
<1>2. approvals' \in 0 .. MaxConnections /\ approvals \in Nat
  BY <1>1, PoolAssumption DEF NetInv, PoolTypeOK
<1>3. SocketsTypeOK' /\ PoolTypeOK'
  BY <1>1, <1>2 DEF NetInv, SocketsTypeOK, PoolTypeOK
<1>4. QueueInv' /\ HoldersInv'
  BY <1>1 DEF NetInv, QueueInv, HoldersInv, Holds
<1>5. CapacityInv'
  <2>1. Pooled' = Pooled
    BY <1>1 DEF Pooled
  <2> QED
    BY <1>1, <1>2, <2>1, PooledFinite, PoolAssumption DEF NetInv, CapacityInv
<1> QED
  BY <1>1, <1>3, <1>4, <1>5, Before, ClientSide

(* Only an InitResponse makes a connection of the pool, and only a peer of  *)
(* our version has sent one.                                                *)
LEMMA VerifyStep ==
    ASSUME NetInv, UNCHANGED acceptorVars, NEW k \in Conns, Verify(k)
    PROVE  NetInv'
<1>1. /\ conn[k] = "verifying" /\ s2c[k] # << >> /\ s2c' = [s2c EXCEPT ![k] = Tail(@)]
      /\ UNCHANGED <<testing, reader>>
      /\ UNCHANGED <<opened, writer, c2s, lost, srv, peer, busy>>
  BY DEF Verify, acceptorVars
<1>2. SocketsTypeOK'
  BY <1>1, TakeFrame DEF NetInv, SocketsTypeOK
<1>3. ~ (k > opened)
  BY <1>1, Before
<1>4. CASE verify(Head(s2c[k]).type) /\ put(k, send) /\ UNCHANGED approvals
  <2>1. Verified(k)
    BY <1>1, <1>4, FirstFrame DEF verify, NetInv, VerifiedInv
  <2>2. send \in [Sends -> SendStates]
    BY PoolBefore
  <2>3. \A t \in Sends : send[t] \in {"pinging", "have"} => on[t] # k
    BY <1>1, PoolBefore DEF Holds
  <2>4. /\ conn' \in [Conns -> ConnStates] /\ idle' \in Seq(Conns)
        /\ waiters' \in Seq(Sends) /\ send' \in [Sends -> SendStates]
        /\ on' \in [Sends -> Conns \cup {0}]
        /\ QueueInv' /\ HoldersInv'
        /\ Pooled' = Pooled
        /\ \A j \in Conns : conn'[j] \in {"idle", "given"} => Verified(j)'
        /\ \A j \in Conns \ {k} : conn'[j] = conn[j]
        /\ \A t \in Sends : send'[t] \in {"registered", "calling"} =>
                               on'[t] \in Conns /\ Verified(on'[t])
    BY <1>1, <1>4, <2>1, <2>2, <2>3, PutStep
  <2>5. PoolTypeOK'
    BY <1>1, <1>4, <2>4 DEF NetInv, PoolTypeOK
  <2>6. CapacityInv'
    BY <1>4, <2>4 DEF NetInv, CapacityInv
  <2>7. \A j \in Conns : conn'[j] \in {"idle", "given"} => Verified(j)
    BY <1>1, <2>4 DEF Verified
  <2>8. \A j \in Conns : j > opened =>
          conn'[j] = "none" /\ c2s'[j] = << >> /\ s2c'[j] = << >>
    BY <1>1, <1>3, <2>4, TakeFrame, Before
  <2> QED
    BY <1>1, <1>2, <2>4, <2>5, <2>6, <2>7, <2>8, TakeFrame, Before, ClientSide
<1>5. CASE /\ conn' = [conn EXCEPT ![k] = "gone"] /\ approvals' \in {approvals, approvals + 1}
           /\ UNCHANGED <<idle, waiters, send, on>>
  <2>1. conn'[k] = "gone" /\ \A j \in Conns \ {k} : conn'[j] = conn[j]
    BY <1>5, PoolBefore
  <2>2. Cardinality(Pooled') = Cardinality(Pooled) - 1
    <3>1. k \in Pooled /\ Pooled' = Pooled \ {k}
      BY <1>1, <2>1 DEF Pooled
    <3> QED
      BY <3>1, PoolLosesOne
  <2>3. CapacityInv' /\ approvals' \in 0 .. MaxConnections
    <3>1. approvals \in Nat /\ Cardinality(Pooled) - 1 \in Nat
      <4>1. IsFiniteSet(Pooled')
        <5>1. Pooled' \subseteq Pooled
          BY <2>1 DEF Pooled
        <5> QED
          BY <5>1, PooledFinite, FS_Subset
      <4> QED
        BY <2>2, <4>1, FS_CardinalityType, PoolAssumption DEF NetInv, PoolTypeOK
    <3> QED
      BY <1>5, <2>2, <3>1, PooledFinite, PoolAssumption DEF NetInv, CapacityInv
  <2>4. PoolTypeOK'
    BY <1>1, <1>5, <2>3 DEF NetInv, PoolTypeOK, ConnStates
  <2>5. QueueInv' /\ HoldersInv'
    BY <1>1, <1>5, <2>1, PoolBefore DEF QueueInv, HoldersInv, Holds
  <2>6. \A j \in Conns : j > opened =>
          conn'[j] = "none" /\ c2s'[j] = << >> /\ s2c'[j] = << >>
    BY <1>1, <1>3, <2>1, TakeFrame, Before
  <2>7. \A j \in Conns : conn'[j] \in {"idle", "given"} => Verified(j)
    BY <2>1, Before
  <2> QED
    BY <1>1, <1>2, <1>5, <2>3, <2>4, <2>5, <2>6, <2>7, TakeFrame, Before, ClientSide
<1> QED
  BY <1>4, <1>5 DEF Verify

(* ping returns: the connection stays in the hands of the send, or it is    *)
(* dropped from the pool.                                                   *)
LEMMA PingReturnsStep ==
    ASSUME NetInv, UNCHANGED acceptorVars, NEW t \in Sends, PingReturns(t)
    PROVE  NetInv'
<1>1. PICK k : k = on[t]
  OBVIOUS
<1>2. /\ k # 0 /\ send[t] = "pinging" /\ s2c[k] # << >> /\ s2c' = [s2c EXCEPT ![k] = Tail(@)]
      /\ UNCHANGED <<testing, idle, waiters, approvals, reader>>
      /\ UNCHANGED <<opened, writer, c2s, lost, srv, peer, busy>>
  BY <1>1 DEF PingReturns, Arrived, acceptorVars
<1>3. k \in Conns /\ conn[k] = "given"
  BY <1>1, <1>2, PoolBefore DEF Holds
<1>4. SocketsTypeOK'
  BY <1>2, <1>3, TakeFrame DEF NetInv, SocketsTypeOK
<1>5. CASE send' = [send EXCEPT ![t] = "have"] /\ UNCHANGED <<conn, on>>
  <2>1. send'[t] = "have" /\ \A u \in Sends \ {t} : send'[u] = send[u]
    BY <1>5, PoolBefore
  <2>2. PoolTypeOK'
    BY <1>2, <1>5 DEF NetInv, PoolTypeOK, SendStates
  <2>3. QueueInv'
    BY <1>2, <1>5, <2>1, PoolBefore DEF QueueInv
  <2>4. HoldersInv'
    BY <1>2, <1>5, <2>1, PoolBefore DEF HoldersInv, Holds
  <2>5. CapacityInv'
    BY <1>2, <1>5 DEF NetInv, CapacityInv, Pooled
  <2>6. \A j \in Conns : j > opened =>
          conn'[j] = "none" /\ c2s'[j] = << >> /\ s2c'[j] = << >>
    BY <1>2, <1>3, <1>5, TakeFrame, Before
  <2> QED
    BY <1>2, <1>3, <1>4, <1>5, <2>1, <2>2, <2>3, <2>4, <2>5, <2>6, TakeFrame, Before, ClientSide
<1>6. CASE /\ send' = [send EXCEPT ![t] = "getting"] /\ conn' = [conn EXCEPT ![k] = "gone"]
           /\ on' = [on EXCEPT ![t] = 0]
  <2>1. /\ send'[t] = "getting" /\ \A u \in Sends \ {t} : send'[u] = send[u]
        /\ conn'[k] = "gone" /\ \A j \in Conns \ {k} : conn'[j] = conn[j]
        /\ on'[t] = 0 /\ \A u \in Sends \ {t} : on'[u] = on[u]
    BY <1>3, <1>6, PoolBefore
  <2>2. PoolTypeOK'
    BY <1>2, <1>6 DEF NetInv, PoolTypeOK, SendStates, ConnStates
  <2>3. QueueInv'
    BY <1>2, <1>3, <2>1, PoolBefore DEF QueueInv
  <2>4. HoldersInv'
    <3>1. \A u \in Sends : Holds(u)' => u # t /\ Holds(u) /\ on'[u] = on[u]
      BY <2>1 DEF Holds
    <3>2. Holds(t)
      BY <1>2 DEF Holds
    <3>3. \A u \in Sends : Holds(u)' => on[u] # k
      BY <1>1, <3>1, <3>2, PoolBefore
    <3>4. \A u \in Sends : Holds(u)' => on'[u] \in Conns /\ conn'[on'[u]] = "given"
      BY <2>1, <3>1, <3>3, PoolBefore
    <3>5. \A u, v \in Sends : Holds(u)' /\ Holds(v)' /\ on'[u] = on'[v] => u = v
      BY <3>1, PoolBefore
    <3> QED
      BY <3>4, <3>5 DEF HoldersInv
  <2>5. CapacityInv'
    <3>1. k \in Pooled /\ Pooled' = Pooled \ {k}
      BY <1>3, <2>1 DEF Pooled
    <3>2. Cardinality(Pooled') = Cardinality(Pooled) - 1
      BY <3>1, PoolLosesOne
    <3> QED
      BY <1>2, <3>2, PooledFinite, PoolAssumption DEF NetInv, CapacityInv, PoolTypeOK
  <2>6. \A j \in Conns : j > opened =>
          conn'[j] = "none" /\ c2s'[j] = << >> /\ s2c'[j] = << >>
    BY <1>2, <1>3, <2>1, TakeFrame, Before
  <2>7. \A j \in Conns : conn'[j] \in {"idle", "given"} => Verified(j)
    BY <2>1, Before
  <2>8. \A u \in Sends : send'[u] \in {"registered", "calling"} =>
                            on'[u] \in Conns /\ Verified(on'[u])
    BY <2>1, Before
  <2> QED
    BY <1>2, <1>3, <1>4, <2>2, <2>3, <2>4, <2>5, <2>6, <2>7, <2>8, TakeFrame, Before, ClientSide
<1> QED
  BY <1>1, <1>5, <1>6 DEF PingReturns

(* A send that has a connection puts it back.                               *)
LEMMA PutBack ==
    ASSUME NetInv, UNCHANGED acceptorVars, NEW t \in Sends, NEW st \in {"registered", "cancelled"},
           send[t] \in {"pinging", "have"},
           put(on[t], [send EXCEPT ![t] = st]),
           UNCHANGED <<testing, approvals, reader, socketVars>>
    PROVE  NetInv'
<1>1. /\ UNCHANGED <<testing, approvals, reader>>
      /\ UNCHANGED <<opened, writer, c2s, s2c, lost, srv, peer, busy>>
  BY DEF acceptorVars, socketVars
<1>2. PICK k, s : k = on[t] /\ s = [send EXCEPT ![t] = st]
  OBVIOUS
<1>3. k \in Conns /\ conn[k] = "given" /\ Verified(k)
  BY <1>2, PoolBefore, Before DEF Holds
<1>4. s \in [Sends -> SendStates] /\ s[t] = st /\ \A u \in Sends \ {t} : s[u] = send[u]
  BY <1>2, PoolBefore DEF SendStates
<1>5. \A u \in Sends : s[u] \in {"pinging", "have"} => s[u] = send[u] /\ on[u] # k
  BY <1>2, <1>4, PoolBefore DEF Holds
<1>6. /\ \A u \in Sends : send[u] = "waiting" => s[u] = "waiting"
      /\ \A u \in Sends : s[u] \in {"registered", "calling"} => s[u] = send[u] \/ on[u] = k
  BY <1>2, <1>4
<1>7. put(k, s)
  BY <1>2
<1>8. /\ conn' \in [Conns -> ConnStates] /\ idle' \in Seq(Conns)
      /\ waiters' \in Seq(Sends) /\ send' \in [Sends -> SendStates]
      /\ on' \in [Sends -> Conns \cup {0}]
      /\ QueueInv' /\ HoldersInv'
      /\ Pooled' = Pooled
      /\ \A j \in Conns : conn'[j] \in {"idle", "given"} => Verified(j)'
      /\ \A j \in Conns \ {k} : conn'[j] = conn[j]
      /\ \A u \in Sends : send'[u] \in {"registered", "calling"} =>
                             on'[u] \in Conns /\ Verified(on'[u])
  BY <1>1, <1>3, <1>4, <1>5, <1>6, <1>7, PutStep
<1>9. SocketsTypeOK'
  BY <1>1 DEF NetInv, SocketsTypeOK
<1>10. PoolTypeOK'
  BY <1>1, <1>8 DEF NetInv, PoolTypeOK
<1>11. CapacityInv'
  BY <1>1, <1>8 DEF NetInv, CapacityInv
<1>12. \A j \in Conns : conn'[j] \in {"idle", "given"} => Verified(j)
  BY <1>1, <1>8 DEF Verified
<1>13. \A j \in Conns : j > opened =>
         conn'[j] = "none" /\ c2s'[j] = << >> /\ s2c'[j] = << >>
  BY <1>1, <1>3, <1>8, Before
<1> QED
  BY <1>1, <1>8, <1>9, <1>10, <1>11, <1>12, <1>13, Before, ClientSide

LEMMA NewFramesIoStep ==
    ASSUME NetInv, UNCHANGED acceptorVars, NEW t \in Sends, NewFramesIo(t)
    PROVE  NetInv'
  BY PutBack DEF NewFramesIo

LEMMA CancelStep ==
    ASSUME NetInv, UNCHANGED acceptorVars, NEW t \in Sends, Cancel(t)
    PROVE  NetInv'
<1>1. UNCHANGED <<testing, approvals, reader, socketVars>>
  BY DEF Cancel
<1>2. CASE /\ send[t] \in {"waiting", "registered", "calling"}
           /\ send' = [send EXCEPT ![t] = "cancelled"]
           /\ waiters' = without(waiters, t)
           /\ UNCHANGED <<conn, idle, on>>
  BY <1>1, <1>2, LeaveQueue
<1>3. CASE /\ send[t] \in {"pinging", "have"}
           /\ put(on[t], [send EXCEPT ![t] = "cancelled"])
  BY <1>1, <1>3, PutBack
<1> QED
  BY <1>2, <1>3 DEF Cancel

LEMMA SendRequestStep ==
    ASSUME NetInv, UNCHANGED acceptorVars, NEW t \in Sends, SendRequest(t)
    PROVE  NetInv'
<1>1. /\ send[t] = "registered" /\ send' = [send EXCEPT ![t] = "calling"]
      /\ c2s' = write(on[t], frame("CallRequest", t))
      /\ UNCHANGED <<testing, conn, idle, waiters, approvals, on, reader>>
      /\ UNCHANGED <<opened, writer, s2c, lost, srv, peer, busy>>
  BY DEF SendRequest, acceptorVars
<1>2. on[t] \in Conns /\ Verified(on[t]) /\ "CallRequest" \in FrameTypes
  BY <1>1, Before DEF FrameTypes
<1>3. /\ c2s' \in [Conns -> Seq(Frame)]
      /\ \A j \in Conns : j > opened => c2s'[j] = << >>
      /\ \A j \in Conns : \A f \in Elems(c2s'[j]) :
            f.type # "InitRequest" => Verified(j) /\ f.for \in Sends
  BY <1>1, <1>2, WriteFrame
<1>4. send'[t] = "calling" /\ \A u \in Sends \ {t} : send'[u] = send[u]
  BY <1>1, PoolBefore
<1>5. SocketsTypeOK'
  BY <1>1, <1>3 DEF NetInv, SocketsTypeOK
<1>6. PoolTypeOK'
  BY <1>1 DEF NetInv, PoolTypeOK, SendStates
<1>7. QueueInv' /\ HoldersInv'
  BY <1>1, <1>4, PoolBefore DEF QueueInv, HoldersInv, Holds
<1>8. CapacityInv'
  BY <1>1 DEF NetInv, CapacityInv, Pooled
<1> QED
  BY <1>1, <1>2, <1>3, <1>4, <1>5, <1>6, <1>7, <1>8, Before, ClientSide

LEMMA ReceiveResponseStep ==
    ASSUME NetInv, UNCHANGED acceptorVars, NEW t \in Sends, ReceiveResponse(t)
    PROVE  NetInv'
<1>1. PICK k : k = on[t]
  OBVIOUS
<1>2. /\ send[t] = "calling" /\ s2c[k] # << >> /\ s2c' = [s2c EXCEPT ![k] = Tail(@)]
      /\ send' = [send EXCEPT ![t] = "ok"] /\ on' = [on EXCEPT ![t] = 0]
      /\ UNCHANGED <<testing, conn, idle, waiters, approvals, reader>>
      /\ UNCHANGED <<opened, writer, c2s, lost, srv, peer, busy>>
  BY <1>1 DEF ReceiveResponse, Arrived, acceptorVars
<1>3. k \in Conns
  BY <1>1, <1>2, Before
<1>4. /\ send'[t] = "ok" /\ \A u \in Sends \ {t} : send'[u] = send[u]
      /\ on'[t] = 0 /\ \A u \in Sends \ {t} : on'[u] = on[u]
  BY <1>2, PoolBefore
<1>5. SocketsTypeOK'
  BY <1>2, <1>3, TakeFrame DEF NetInv, SocketsTypeOK
<1>6. PoolTypeOK'
  BY <1>2 DEF NetInv, PoolTypeOK, SendStates
<1>7. QueueInv' /\ HoldersInv'
  BY <1>2, <1>4, PoolBefore DEF QueueInv, HoldersInv, Holds
<1>8. CapacityInv'
  BY <1>2 DEF NetInv, CapacityInv, Pooled
<1>9. \A j \in Conns : j > opened =>
        conn'[j] = "none" /\ c2s'[j] = << >> /\ s2c'[j] = << >>
  BY <1>2, <1>3, TakeFrame, Before
<1>10. \A u \in Sends : send'[u] \in {"registered", "calling"} =>
                           on'[u] \in Conns /\ Verified(on'[u])
  BY <1>4, Before
<1> QED
  BY <1>2, <1>3, <1>5, <1>6, <1>7, <1>8, <1>9, <1>10, TakeFrame, Before, ClientSide

LEMMA RetireStep ==
    ASSUME NetInv, UNCHANGED acceptorVars, NEW k \in Conns, Retire(k)
    PROVE  NetInv'
<1>1. /\ conn[k] = "idle" /\ conn' = [conn EXCEPT ![k] = "gone"] /\ idle' = without(idle, k)
      /\ UNCHANGED <<testing, waiters, approvals, send, on, reader>>
      /\ UNCHANGED <<opened, writer, c2s, s2c, lost, srv, peer, busy>>
  BY DEF Retire, acceptorVars, socketVars
<1>2. conn'[k] = "gone" /\ \A j \in Conns \ {k} : conn'[j] = conn[j]
  BY <1>1, PoolBefore
<1>3. idle' \in Seq(Conns) /\ Once(idle') /\ Elems(idle') \subseteq Elems(idle) \ {k}
  BY <1>1, PoolBefore, QueueWithout
<1>4. SocketsTypeOK'
  BY <1>1 DEF NetInv, SocketsTypeOK
<1>5. PoolTypeOK'
  BY <1>1, <1>3 DEF NetInv, PoolTypeOK, ConnStates
<1>6. QueueInv'
  BY <1>1, <1>2, <1>3, PoolBefore DEF QueueInv
<1>7. HoldersInv'
  BY <1>1, <1>2, PoolBefore DEF HoldersInv, Holds
<1>8. CapacityInv'
  <2>1. k \in Pooled /\ Pooled' = Pooled \ {k}
    BY <1>1, <1>2 DEF Pooled
  <2>2. Cardinality(Pooled') = Cardinality(Pooled) - 1
    BY <2>1, PoolLosesOne
  <2> QED
    BY <1>1, <2>2, PooledFinite, PoolAssumption DEF NetInv, CapacityInv, PoolTypeOK
<1>9. \A j \in Conns : j > opened =>
        conn'[j] = "none" /\ c2s'[j] = << >> /\ s2c'[j] = << >>
  BY <1>1, <1>2, Before
<1>10. \A j \in Conns : conn'[j] \in {"idle", "given"} => Verified(j)
  BY <1>2, Before
<1> QED
  BY <1>1, <1>4, <1>5, <1>6, <1>7, <1>8, <1>9, <1>10, Before, ClientSide

(* The two tasks of a connection end, or drop a frame.                      *)
LEMMA TasksStep ==
    ASSUME NetInv, UNCHANGED acceptorVars, NEW k \in Conns,
           DiscardFrame(k) \/ WriterEnds(k) \/ ReaderEnds(k)
    PROVE  NetInv'
<1>1. /\ UNCHANGED <<testing, conn, idle, waiters, approvals, send, on>>
      /\ UNCHANGED <<opened, c2s, lost, srv, peer, busy>>
  BY DEF DiscardFrame, WriterEnds, ReaderEnds, poolVars, socketVars, acceptorVars
<1>2. /\ s2c' \in [Conns -> Seq(Frame)]
      /\ \A j \in Conns : j > opened => s2c'[j] = << >>
      /\ \A j \in Conns : Elems(s2c'[j]) \subseteq Elems(s2c[j])
  <2>1. CASE DiscardFrame(k)
    BY <2>1, TakeFrame DEF DiscardFrame
  <2>2. CASE s2c' = s2c
    BY <2>2, Before DEF NetInv, SocketsTypeOK
  <2> QED
    BY <2>1, <2>2 DEF WriterEnds, ReaderEnds, socketVars
<1>3. writer' \in [Conns -> {"none", "on", "off"}] /\ reader' \in [Conns -> {"none", "on", "off"}]
  BY DEF NetInv, SocketsTypeOK, PoolTypeOK, DiscardFrame, WriterEnds, ReaderEnds, poolVars,
     socketVars
<1>4. SocketsTypeOK' /\ PoolTypeOK'
  BY <1>1, <1>2, <1>3 DEF NetInv, SocketsTypeOK, PoolTypeOK
<1>5. QueueInv' /\ HoldersInv' /\ CapacityInv'
  BY <1>1 DEF NetInv, QueueInv, HoldersInv, Holds, CapacityInv, Pooled
<1> QED
  BY <1>1, <1>2, <1>4, <1>5, Before, ClientSide

----------------------------------------------------------------------------
(* Lifecycle does not see the connections.                                  *)
LEMMA NetStepIsLifecycleStep == [NetNext]_netVars => [Next]_vars
<1> SUFFICES ASSUME [NetNext]_netVars PROVE [Next]_vars
  OBVIOUS
<1>1. CASE ClientStep
  BY <1>1 DEF ClientStep
<1>2. CASE PeerStep
  BY <1>2 DEF PeerStep
<1>3. CASE Fault
  BY <1>3 DEF Fault, ClientFault, PeerFault
<1>4. CASE ServerTaskStep
  BY <1>4 DEF ServerTaskStep
<1>5. CASE UNCHANGED netVars
  BY <1>5 DEF netVars
<1> QED
  BY <1>1, <1>2, <1>3, <1>4, <1>5 DEF NetNext

LEMMA NetInvStep == NetInv /\ [NetNext]_netVars => NetInv'
<1> SUFFICES ASSUME NetInv, [NetNext]_netVars PROVE NetInv'
  OBVIOUS
<1>1. CASE ClientStep
  <2>0. UNCHANGED acceptorVars
    BY <1>1 DEF ClientStep
  <2>1. CASE ConnectStep
    BY <2>0, <2>1, ConnectStepInv, ConnectFailsStep DEF ConnectStep
  <2>2. ASSUME NEW t \in Sends, SendStep(t) PROVE NetInv'
    BY <2>0, <2>2, GetIdleStep, GetWaitsStep, GetTimesOutStep, PingReturnsStep,
       NewFramesIoStep, SendRequestStep, ReceiveResponseStep DEF SendStep
  <2>3. ASSUME NEW k \in Conns,
               Verify(k) \/ DiscardFrame(k) \/ WriterEnds(k) \/ ReaderEnds(k)
        PROVE  NetInv'
    BY <2>0, <2>3, VerifyStep, TasksStep
  <2> QED
    BY <1>1, <2>1, <2>2, <2>3 DEF ClientStep
<1>2. CASE PeerStep
  <2>0. UNCHANGED poolVars
    BY <1>2 DEF PeerStep
  <2>1. PICK k \in Conns :
          \/ Accept(k)
          \/ InitHandshake(k)
          \/ ReadRequest(k)
          \/ ReadPing(k)
          \/ \E t \in Sends : HandlerReturns(k, t)
          \/ StreamEnds(k)
          \/ ConnectionEnds(k)
    BY <1>2 DEF PeerStep
  <2> QED
    BY <2>0, <2>1, AcceptStep, InitHandshakeStep, ReadRequestStep, ReadPingStep,
       HandlerReturnsStep, StreamEndsStep, ConnectionEndsStep
<1>3. CASE Fault
  <2>1. CASE ClientFault
    BY <2>1, CancelStep, RetireStep DEF ClientFault
  <2>2. CASE PeerFault
    BY <2>2, HandlerFailsStep, StreamFailsStep DEF PeerFault
  <2>3. CASE \E k \in Conns : Disconnect(k) /\ UNCHANGED vars
    BY <2>3, DisconnectStep
  <2> QED
    BY <1>3, <2>1, <2>2, <2>3 DEF Fault
<1>4. CASE ServerTaskStep
  BY <1>4, ResetBacklogStep DEF ServerTaskStep
<1>5. CASE UNCHANGED netVars
  <2>1. UNCHANGED poolVars /\ UNCHANGED <<opened, writer, c2s, s2c, lost, srv, peer, busy>>
    BY <1>5 DEF netVars, socketVars, acceptorVars
  <2>2. UNCHANGED <<conn, send, on>>
    BY <2>1 DEF poolVars
  <2>3. SocketsTypeOK' /\ AcceptorTypeOK'
    BY <2>1 DEF NetInv, SocketsTypeOK, AcceptorTypeOK
  <2>4. UnopenedInv' /\ VerifiedInv'
    BY <2>1, <2>2 DEF NetInv, UnopenedInv, VerifiedInv, Verified
  <2> QED
    BY <2>1, <2>3, <2>4, PoolUnchanged DEF NetInv
<1> QED
  BY <1>1, <1>2, <1>3, <1>4, <1>5 DEF NetNext

(* For every number of sends, connections and restarts of the server, and   *)
(* whatever is cancelled, retired, refused or lost, what the queues of the  *)
(* pool, the sends and the two ends of the connections say of each other    *)
(* agrees.                                                                  *)
THEOREM NetworkInvariant == NetSpec => [](NetInv /\ LifecycleInv)
<1>1. NetInit => NetInv /\ LifecycleInv
  BY NetInvInit, LifecycleInit DEF NetInit
<1>2. NetInv /\ LifecycleInv /\ [NetNext]_netVars => (NetInv /\ LifecycleInv)'
  BY NetInvStep, NetStepIsLifecycleStep, LifecycleStep
<1> QED
  BY <1>1, <1>2, PTL DEF NetSpec

(* The pool, the acceptor and the server task are type correct.  That bb8   *)
(* never has more approvals than max_connections rests on the count of the  *)
(* connections it has.                                                      *)
THEOREM NetworkTypeCorrect == NetSpec => []NetTypeOK
<1>1. NetInv /\ LifecycleInv => NetTypeOK
  BY DEF NetInv, LifecycleInv, NetTypeOK
<1> QED
  BY <1>1, NetworkInvariant, PTL

(* "First message on every connection must be init": a connection that is   *)
(* idle in the pool, in the hands of a send, or with anything but the       *)
(* handshake on its way, has been through the handshake with a peer of our  *)
(* version.                                                                 *)
THEOREM ConnectionsAreVerified == NetSpec => []VerifiedBeforeUse
<1>1. NetInv => VerifiedBeforeUse
  <2> SUFFICES ASSUME NetInv, NEW k \in Conns,
                      conn[k] \in {"idle", "given"} \/ busy[k] # {}
                          \/ \E i \in 1 .. Len(c2s[k]) : c2s[k][i].type # "InitRequest"
               PROVE  Verified(k)
    BY DEF VerifiedBeforeUse, Verified
  <2>1. CASE conn[k] \in {"idle", "given"} \/ busy[k] # {}
    BY <2>1 DEF NetInv, VerifiedInv
  <2>2. ASSUME NEW i \in 1 .. Len(c2s[k]), c2s[k][i].type # "InitRequest" PROVE Verified(k)
    <3>1. c2s[k][i] \in Elems(c2s[k])
      BY DEF NetInv, SocketsTypeOK, Elems
    <3> QED
      BY <2>2, <3>1 DEF NetInv, VerifiedInv
  <2> QED
    BY <2>1, <2>2
<1> QED
  BY <1>1, NetworkInvariant, PTL

(* A connection in the hands of a send is in those of no other, and there   *)
(* are never more connections in the pool, or on their way to it, than      *)
(* max_connections.                                                         *)
THEOREM PoolKeepsItsLimits ==
    NetSpec => [](/\ \A t, u \in Sends :
                        Holds(t) /\ Holds(u) /\ on[t] = on[u] => t = u
                  /\ Cardinality(Pooled) + approvals <= MaxConnections)
<1>1. NetInv => /\ \A t, u \in Sends : Holds(t) /\ Holds(u) /\ on[t] = on[u] => t = u
                /\ Cardinality(Pooled) + approvals <= MaxConnections
  BY DEF NetInv, HoldersInv, CapacityInv
<1> QED
  BY <1>1, NetworkInvariant, PTL

(* Beside the connections the server task is started, stopped and restarted *)
(* as Lifecycle says: the network implements it, and with it what was       *)
(* proved of it.                                                            *)
THEOREM NetworkImplementsLifecycle == NetSpec => Spec
<1>1. NetInit => Init
  BY DEF NetInit
<1> QED
  BY <1>1, NetStepIsLifecycleStep, PTL DEF NetSpec, Spec

(* No server task escapes shutdown_server, also with clients connected.     *)
THEOREM NoServerEscapesNetwork == NetSpec => []NoOrphanServer
  BY NetworkImplementsLifecycle, NoServerEscapes, PTL
=============================================================================
