--------------------------- MODULE Requests_proofs ---------------------------
(***************************************************************************)
(* Every handler is given the request of one call, whole and in order, for  *)
(* any number of calls, any lengths of messages and any capacities, as long *)
(* as the counter of message ids does not wrap around.                      *)
(*                                                                         *)
(* The frames of a direction are one sequence, the pipe: what is on the     *)
(* wire, then what FrameSender has taken, then what is in its channel.      *)
(* Writing a frame does not change the pipe, sending appends to it and      *)
(* dispatching takes its head.                                              *)
(*                                                                         *)
(* The last part needs no bound on ids: every frame that leaves the pipe is *)
(* given to one reader, once.                                               *)
(***************************************************************************)
EXTENDS Multiplex_proofs

(* The frames of each call keep their order in a pipe p.                    *)
InOrder(p) ==
    \A i, j \in 1 .. Len(p) : i < j /\ p[i].from = p[j].from => p[i].seq < p[j].seq

(* Frame k of a message of call c is in p.                                  *)
Present(p, c, k) == \E i \in 1 .. Len(p) : p[i].from = c /\ p[i].seq = k

RequestPipe == (c2s \o outChunk) \o outQueue

(* Whether a frame of call c is the one a dispatch has in its hands.        *)
Waiting(h, c) == IF h # << >> /\ Head(h).from = c THEN 1 ELSE 0

(* How many frames of the request of each call have left the pipe.          *)
Requested ==
    [c \in Calls |-> Len(taskBody[c]) + Len(taskChan[c]) + Waiting(srvHeld, c)]

(* What is sent is written some time, and what is written is dispatched.    *)
Connected == link = "up" /\ stream # "failed"

(* How far a call is with its request.                                      *)
CallInv ==
    \A c \in Calls :
        /\ sent[c] <= ReqLen[c]
        /\ pc[c] \in {"idle", "registering"} => sent[c] = 0
        /\ c \in Unsendable => sent[c] = 0 /\ ~Listening(c)
        /\ pc[c] = "sending" => sent[c] < ReqLen[c]
        /\ pc[c] \in {"idle", "registering", "sending", "receiving"} => result[c] = "none"
        /\ ~Listening(c) => chan[c] = << >>

(* The pipe holds frames of requests that were sent and not yet dispatched. *)
RequestFrames ==
    \A i \in 1 .. Len(RequestPipe) :
        LET f == RequestPipe[i]
        IN  /\ f = RequestFrame(f.from, id[f.from], f.seq)
            /\ Requested[f.from] < f.seq
            /\ f.seq <= sent[f.from]

(* While the connection works it holds all of them.                         *)
RequestsComplete ==
    Connected =>
        \A c \in Calls : \A k \in Nat :
            Requested[c] < k /\ k <= sent[c] => Present(RequestPipe, c, k)

(* The frame a dispatch holds is for a task that reads.                     *)
RequestHeld ==
    srvHeld # << >> =>
        LET f == Head(srvHeld)
        IN  /\ srvHeld = <<f>>
            /\ f = RequestFrame(f.from, id[f.from], f.seq)
            /\ task[f.from] = "reading"
            /\ f.seq = Requested[f.from]

(* What a task has read and has yet to read is its call's request so far.   *)
TaskReads(c) ==
    /\ taskBody[c] = Whole(c, Len(taskBody[c]))
    /\ \A k \in 1 .. Len(taskChan[c]) :
          taskChan[c][k] = RequestFrame(c, id[c], Len(taskBody[c]) + k)
    /\ Requested[c] <= sent[c]

(* A task belongs to a call that has sent something; it reads until it has  *)
(* the whole request.                                                       *)
TaskInv(c) ==
    /\ task[c] = "none" => taskBody[c] = << >>
    /\ task[c] # "none" => sent[c] > 0 /\ taskId[c] = id[c]
    /\ task[c] = "reading" => Len(taskBody[c]) < ReqLen[c]
    /\ task[c] # "reading" => taskChan[c] = << >>
    /\ task[c] \notin {"none", "reading", "dropped"} => Len(taskBody[c]) = ReqLen[c]
    /\ task[c] = "dropped" => stream = "failed"
    /\ runs[c] > 0 => Len(taskBody[c]) = ReqLen[c]

(* The map of the server leads to the tasks that have not deregistered.     *)
SrvMapInv ==
    /\ \A i \in Ids : srvSenders[i] # NoCall =>
           task[srvSenders[i]] \in {"reading", "deregistering"} /\ taskId[srvSenders[i]] = i
    /\ \A c \in Calls : task[c] \in {"reading", "deregistering"} => srvSenders[taskId[c]] = c

(* A broken connection delivers nothing any more.                           *)
BrokenInv ==
    /\ ~Connected => c2s = << >>
    /\ stream = "failed" => srvHeld = << >>

PipeInv == RequestFrames /\ InOrder(RequestPipe) /\ RequestsComplete

RequestInv ==
    /\ BrokenInv
    /\ PipeInv
    /\ RequestHeld
    /\ \A c \in Calls : TaskReads(c) /\ TaskInv(c)
    /\ SrvMapInv

----------------------------------------------------------------------------
(* Sequences of frames.                                                     *)
LEMMA InOrderAppend ==
    ASSUME NEW p \in Seq(Frame), NEW f \in Frame, InOrder(p),
           \A i \in 1 .. Len(p) : p[i].from = f.from => p[i].seq < f.seq
    PROVE  InOrder(Append(p, f))
  BY AppendProperties DEF InOrder

LEMMA FrameAppended ==
    ASSUME NEW p \in Seq(Frame), NEW f \in Frame
    PROVE  /\ Len(p) \in Nat /\ Len(Append(p, f)) = Len(p) + 1
           /\ Append(p, f)[Len(p) + 1] = f
           /\ \A i \in 1 .. Len(p) : Append(p, f)[i] = p[i]
  OBVIOUS

LEMMA InOrderTail ==
    ASSUME NEW p \in Seq(Frame), p # << >>, InOrder(p)
    PROVE  InOrder(Tail(p))
  BY HeadTailProperties DEF InOrder

LEMMA PresentAppend ==
    ASSUME NEW p \in Seq(Frame), NEW f \in Frame
    PROVE  /\ \A c, k : Present(p, c, k) => Present(Append(p, f), c, k)
           /\ Present(Append(p, f), f.from, f.seq)
  BY AppendProperties DEF Present

LEMMA PresentTail ==
    ASSUME NEW p \in Seq(Frame), p # << >>, NEW c, NEW k, Present(p, c, k),
           ~(Head(p).from = c /\ Head(p).seq = k)
    PROVE  Present(Tail(p), c, k)
<1>1. PICK i \in 1 .. Len(p) : p[i].from = c /\ p[i].seq = k
  BY DEF Present
<1>2. i # 1 /\ Len(p) \in Nat
  BY <1>1
<1>3. Len(Tail(p)) = Len(p) - 1 /\ \A j \in 1 .. Len(Tail(p)) : Tail(p)[j] = p[j + 1]
  BY HeadTailProperties
<1>4. i - 1 \in 1 .. Len(Tail(p)) /\ Tail(p)[i - 1] = p[i]
  BY <1>2, <1>3
<1> QED
  BY <1>1, <1>4 DEF Present

(* The first frame of a pipe is the first of its call that is in it.        *)
LEMMA HeadIsFirst ==
    ASSUME NEW p \in Seq(Frame), p # << >>, InOrder(p),
           NEW k \in Nat, Present(p, Head(p).from, k), k <= Head(p).seq
    PROVE  Head(p).seq = k
<1>1. PICK i \in 1 .. Len(p) : p[i].from = Head(p).from /\ p[i].seq = k
  BY DEF Present
<1>2. Head(p) = p[1] /\ p[1] \in Frame /\ 1 \in 1 .. Len(p)
  OBVIOUS
<1>5. Head(p).seq \in Nat
  BY <1>2 DEF Frame
<1>3. CASE i = 1
  BY <1>1, <1>2, <1>3
<1>4. CASE i > 1
  <2>1. Head(p).seq < k
    BY <1>1, <1>2, <1>4 DEF InOrder
  <2> QED
    BY <1>5, <2>1
<1> QED
  BY <1>3, <1>4

(* The pipe under what FrameSender and its neighbours do.                   *)
LEMMA PipeMoves ==
    ASSUME NEW w \in Seq(Frame), NEW ch \in Seq(Frame), NEW q \in Seq(Frame)
    PROVE  /\ (w \o ch) \o q \in Seq(Frame)
           /\ \A f \in Frame : (w \o ch) \o Append(q, f) = Append((w \o ch) \o q, f)
           /\ w # << >> => /\ (w \o ch) \o q # << >>
                           /\ Head((w \o ch) \o q) = Head(w)
                           /\ (Tail(w) \o ch) \o q = Tail((w \o ch) \o q)
           /\ ch # << >> => (Append(w, Head(ch)) \o Tail(ch)) \o q = (w \o ch) \o q
<1>1. w \o ch \in Seq(Frame) /\ (w \o ch) \o q \in Seq(Frame)
  BY ConcatProperties
<1>2. ASSUME NEW f \in Frame PROVE (w \o ch) \o Append(q, f) = Append((w \o ch) \o q, f)
  <2>1. /\ (w \o ch) \o Append(q, f) \in Seq(Frame)
        /\ Append((w \o ch) \o q, f) \in Seq(Frame)
    BY <1>1
  <2>2. Len((w \o ch) \o Append(q, f)) = Len(Append((w \o ch) \o q, f))
    BY <1>1
  <2>3. \A i \in 1 .. Len(Append((w \o ch) \o q, f)) :
            ((w \o ch) \o Append(q, f))[i] = Append((w \o ch) \o q, f)[i]
    BY <1>1
  <2> QED
    BY <2>1, <2>2, <2>3, SeqEqual
<1>3. ASSUME w # << >>
      PROVE  /\ (w \o ch) \o q # << >>
             /\ Head((w \o ch) \o q) = Head(w)
             /\ (Tail(w) \o ch) \o q = Tail((w \o ch) \o q)
  <2>1. /\ Len(w) > 0 /\ Len(w) \in Nat /\ Len((w \o ch) \o q) = Len(w) + Len(ch) + Len(q)
        /\ Len(ch) \in Nat /\ Len(q) \in Nat
    BY <1>1, <1>3
  <2>2. (w \o ch) \o q # << >> /\ Head((w \o ch) \o q) = Head(w)
    BY <1>1, <1>3, <2>1
  <2>3. /\ Tail(w) \in Seq(Frame) /\ Len(Tail(w)) = Len(w) - 1
        /\ Tail((w \o ch) \o q) \in Seq(Frame)
        /\ Len(Tail((w \o ch) \o q)) = Len((w \o ch) \o q) - 1
    BY <1>1, <1>3, <2>2, HeadTailProperties
  <2>4. (Tail(w) \o ch) \o q \in Seq(Frame)
    BY <2>3, ConcatProperties
  <2>5. Len((Tail(w) \o ch) \o q) = Len(Tail((w \o ch) \o q))
    BY <2>1, <2>3
  <2>6. \A i \in 1 .. Len((Tail(w) \o ch) \o q) :
            ((Tail(w) \o ch) \o q)[i] = Tail((w \o ch) \o q)[i]
    BY <1>1, <1>3, <2>1, <2>2, <2>3, <2>4, <2>5, HeadTailProperties, ConcatProperties
  <2> QED
    BY <2>2, <2>3, <2>4, <2>5, <2>6, SeqEqual
<1>4. ASSUME ch # << >>
      PROVE  (Append(w, Head(ch)) \o Tail(ch)) \o q = (w \o ch) \o q
  <2>1. /\ Head(ch) \in Frame /\ Tail(ch) \in Seq(Frame) /\ Len(Tail(ch)) = Len(ch) - 1
        /\ Len(ch) > 0 /\ Head(ch) = ch[1]
        /\ \A i \in 1 .. Len(Tail(ch)) : Tail(ch)[i] = ch[i + 1]
    BY <1>4, HeadTailProperties
  <2>2. Append(w, Head(ch)) \o Tail(ch) = w \o ch
    <3>1. Append(w, Head(ch)) \in Seq(Frame) /\ Append(w, Head(ch)) \o Tail(ch) \in Seq(Frame)
      BY <2>1, ConcatProperties
    <3>2. Len(Append(w, Head(ch)) \o Tail(ch)) = Len(w \o ch)
      BY <2>1
    <3>3. \A i \in 1 .. Len(w \o ch) : (Append(w, Head(ch)) \o Tail(ch))[i] = (w \o ch)[i]
      BY <2>1, <3>1
    <3> QED
      BY <1>1, <3>1, <3>2, <3>3, SeqEqual
  <2> QED
    BY <2>2
<1> QED
  BY <1>1, <1>2, <1>3, <1>4

LEMMA FramesAssociative ==
    ASSUME NEW r \in Seq(Frame), NEW s \in Seq(Frame), NEW t \in Seq(Frame)
    PROVE  (r \o s) \o t = r \o (s \o t)
<1>1. r \o s \in Seq(Frame) /\ s \o t \in Seq(Frame)
  BY ConcatProperties
<1>2. (r \o s) \o t \in Seq(Frame) /\ r \o (s \o t) \in Seq(Frame)
  BY <1>1, ConcatProperties
<1>3. Len((r \o s) \o t) = Len(r \o (s \o t))
  BY <1>1
<1>4. \A i \in 1 .. Len((r \o s) \o t) : ((r \o s) \o t)[i] = (r \o (s \o t))[i]
  BY <1>1
<1> QED
  BY <1>2, <1>3, <1>4, SeqEqual

(* ready_chunks cuts the channel in two.                                    *)
LEMMA PipeChunk ==
    ASSUME NEW w \in Seq(Frame), NEW q \in Seq(Frame), NEW n \in 0 .. Len(q)
    PROVE  (w \o SubSeq(q, 1, n)) \o SubSeq(q, n + 1, Len(q)) = (w \o << >>) \o q
<1>1. SubSeq(q, 1, n) \o SubSeq(q, n + 1, Len(q)) = q
  <2>1. SubSeq(q, 1, n) \o SubSeq(q, n + 1, Len(q)) = SubSeq(q, 1, Len(q))
    <3>1. 1 \in 1 .. Len(q) + 1 /\ n \in 1 - 1 .. Len(q) /\ Len(q) \in n .. Len(q)
      OBVIOUS
    <3> QED
      BY <3>1, ConcatAdjacentSubSeq, Zenon
  <2> QED
    BY <2>1, SubSeqFull
<1>2. SubSeq(q, 1, n) \in Seq(Frame) /\ SubSeq(q, n + 1, Len(q)) \in Seq(Frame)
  <2>1. \A j \in 1 .. Len(q) : q[j] \in Frame
    OBVIOUS
  <2> QED
    BY <2>1, SubSeqProperties
<1>3. (w \o SubSeq(q, 1, n)) \o SubSeq(q, n + 1, Len(q)) = w \o q
  <2> DEFINE a == SubSeq(q, 1, n)
             b == SubSeq(q, n + 1, Len(q))
  <2>1. a \o b = q /\ a \in Seq(Frame) /\ b \in Seq(Frame)
    BY <1>1, <1>2
  <2> HIDE DEF a, b
  <2>2. (w \o a) \o b = w \o (a \o b)
    BY <2>1, FramesAssociative, ZenonT(40)
  <2> QED
    BY <2>1, <2>2 DEF a, b
<1>4. w \o << >> = w
  BY ConcatEmptySeq
<1> QED
  BY <1>3, <1>4

(* p without its first n frames.                                            *)
Cut(p, n, q) == Len(q) = Len(p) - n /\ \A i \in 1 .. Len(q) : q[i] = p[i + n]

(* A broken connection loses the wire, and then what is written to it.      *)
LEMMA PipeCuts ==
    ASSUME NEW w \in Seq(Frame), NEW ch \in Seq(Frame), NEW q \in Seq(Frame)
    PROVE  /\ Cut((w \o ch) \o q, Len(w), (<< >> \o ch) \o q)
           /\ ch # << >> => Cut((<< >> \o ch) \o q, 1, (<< >> \o Tail(ch)) \o q)
<1>1. << >> \o ch = ch /\ w \o ch \in Seq(Frame)
  BY ConcatEmptySeq, ConcatProperties
<1>2. Cut((w \o ch) \o q, Len(w), ch \o q)
  <2>1. /\ Len(ch \o q) = Len(ch) + Len(q)
        /\ Len((w \o ch) \o q) = Len(w) + Len(ch) + Len(q)
    BY <1>1
  <2>2. \A i \in 1 .. Len(ch \o q) : (ch \o q)[i] = ((w \o ch) \o q)[i + Len(w)]
    BY <1>1, <2>1
  <2> QED
    BY <2>1, <2>2 DEF Cut
<1>3. ASSUME ch # << >> PROVE Cut(ch \o q, 1, Tail(ch) \o q)
  <2>1. /\ Tail(ch) \in Seq(Frame) /\ Len(Tail(ch)) = Len(ch) - 1
        /\ \A i \in 1 .. Len(Tail(ch)) : Tail(ch)[i] = ch[i + 1]
    BY <1>3, HeadTailProperties
  <2>2. Len(Tail(ch) \o q) = Len(ch \o q) - 1
    BY <2>1
  <2>3. \A i \in 1 .. Len(Tail(ch) \o q) : (Tail(ch) \o q)[i] = (ch \o q)[i + 1]
    BY <2>1
  <2> QED
    BY <2>2, <2>3 DEF Cut
<1>4. ASSUME ch # << >> PROVE << >> \o Tail(ch) = Tail(ch)
  BY <1>4, ConcatEmptySeq
<1> QED
  BY <1>1, <1>2, <1>3, <1>4

LEMMA NoCut == ASSUME NEW p \in Seq(Frame) PROVE Cut(p, 0, p)
  BY DEF Cut

LEMMA InOrderCut ==
    ASSUME NEW p \in Seq(Frame), NEW q \in Seq(Frame), NEW n \in Nat, Cut(p, n, q), InOrder(p)
    PROVE  InOrder(q)
<1>1. /\ Len(q) = Len(p) - n /\ Len(p) \in Nat
      /\ \A i \in 1 .. Len(q) : i + n \in 1 .. Len(p) /\ q[i] = p[i + n]
  BY DEF Cut
<1>2. ASSUME NEW i \in 1 .. Len(q), NEW j \in 1 .. Len(q), i < j, q[i].from = q[j].from
      PROVE  q[i].seq < q[j].seq
  <2>1. i + n \in 1 .. Len(p) /\ j + n \in 1 .. Len(p) /\ i + n < j + n
    BY <1>1, <1>2
  <2>2. p[i + n].from = p[j + n].from
    BY <1>1, <1>2
  <2> QED
    BY <1>1, <2>1, <2>2 DEF InOrder
<1> QED
  BY <1>2 DEF InOrder

LEMMA RequestFrameFields ==
    ASSUME NEW c \in Calls, NEW i \in Ids, NEW k \in Nat
    PROVE  LET f == RequestFrame(c, i, k)
           IN  /\ f.from = c /\ f.id = i /\ f.seq = k
               /\ IsLast(f) <=> k = ReqLen[c]
               /\ f.type = IF k = 1 THEN "CallRequest" ELSE "CallRequestContinue"
  BY DEF RequestFrame, Last, IsLast

----------------------------------------------------------------------------
RequestTypesOK ==
    /\ RequestPipe \in Seq(Frame)
    /\ Requested \in [Calls -> Nat]
    /\ sent \in [Calls -> Nat]
    /\ id \in [Calls -> Ids]

LEMMA RequestTypes == TypeOK => RequestTypesOK
<1> SUFFICES ASSUME TypeOK PROVE RequestTypesOK
  OBVIOUS
<1>1. RequestPipe \in Seq(Frame)
  BY PipeMoves DEF TypeOK, ClientTypeOK, WiresTypeOK, RequestPipe
<1>2. ASSUME NEW c \in Calls
      PROVE  Len(taskBody[c]) + Len(taskChan[c]) + Waiting(srvHeld, c) \in Nat
  <2>1. taskBody[c] \in Seq(Calls \X Nat) /\ taskChan[c] \in Seq(Frame)
    BY DEF TypeOK, ServerTypeOK
  <2>2. Len(taskBody[c]) \in Nat /\ Len(taskChan[c]) \in Nat
    BY <2>1, LenProperties
  <2>3. Waiting(srvHeld, c) \in Nat
    BY DEF Waiting
  <2>4. \A m, n, w \in Nat : m + n + w \in Nat
    OBVIOUS
  <2> QED
    BY <2>2, <2>3, <2>4, Zenon
<1>3. Requested \in [Calls -> Nat]
  BY <1>2 DEF Requested
<1> QED
  BY <1>1, <1>3 DEF RequestTypesOK, TypeOK, ClientTypeOK

LEMMA RequestedValue ==
    ASSUME TypeOK, NEW c \in Calls
    PROVE  \E b, q \in Nat, w \in 0 .. 1 :
              /\ b = Len(taskBody[c]) /\ q = Len(taskChan[c]) /\ w = Waiting(srvHeld, c)
              /\ Requested[c] = b + q + w
<1>1. taskBody[c] \in Seq(Calls \X Nat) /\ taskChan[c] \in Seq(Frame)
  BY DEF TypeOK, ServerTypeOK
<1>2. Len(taskBody[c]) \in Nat /\ Len(taskChan[c]) \in Nat
  BY <1>1, LenProperties
<1>3. Waiting(srvHeld, c) \in 0 .. 1
  BY DEF Waiting
<1>4. Requested[c] = Len(taskBody[c]) + Len(taskChan[c]) + Waiting(srvHeld, c)
  BY DEF Requested
<1> QED
  BY <1>2, <1>3, <1>4, Zenon

(* Frames of the pipe.                                                      *)
LEMMA InPipe ==
    ASSUME RequestTypesOK, NEW i \in 1 .. Len(RequestPipe)
    PROVE  /\ RequestPipe[i] \in Frame /\ RequestPipe[i].from \in Calls
           /\ RequestPipe[i].seq \in Nat
<1>1. RequestPipe[i] \in Frame
  BY DEF RequestTypesOK
<1> QED
  BY <1>1 DEF Frame

(* The pipe and what has left it stay as they are.                          *)
LEMMA PipeKept ==
    ASSUME PipeInv, UNCHANGED <<RequestPipe, Requested, id, sent>>, Connected' => Connected
    PROVE  PipeInv'
<1>1. RequestFrames'
  BY DEF PipeInv, RequestFrames
<1>2. InOrder(RequestPipe)'
  BY DEF PipeInv, InOrder
<1>3. RequestsComplete'
  BY DEF PipeInv, RequestsComplete, Present
<1> QED
  BY <1>1, <1>2, <1>3 DEF PipeInv

(* A connection that broke loses frames at the head of the pipe; of what    *)
(* was dispatched some may be dropped with its task.                        *)
LEMMA PipeBroken ==
    ASSUME RequestTypesOK, RequestTypesOK', PipeInv,
           NEW n \in Nat, Cut(RequestPipe, n, RequestPipe'),
           UNCHANGED <<id, sent>>,
           \A c \in Calls : Requested'[c] <= Requested[c],
           ~Connected'
    PROVE  PipeInv'
<1>1. RequestPipe \in Seq(Frame) /\ RequestPipe' \in Seq(Frame)
  BY DEF RequestTypesOK
<1>2. /\ Len(RequestPipe') = Len(RequestPipe) - n /\ Len(RequestPipe) \in Nat
      /\ \A i \in 1 .. Len(RequestPipe') :
            i + n \in 1 .. Len(RequestPipe) /\ RequestPipe'[i] = RequestPipe[i + n]
  BY <1>1 DEF Cut
<1>3. RequestFrames'
  <2> SUFFICES ASSUME NEW i \in 1 .. Len(RequestPipe')
               PROVE  LET f == RequestPipe'[i]
                      IN  /\ f = RequestFrame(f.from, id[f.from], f.seq)
                          /\ Requested'[f.from] < f.seq
                          /\ f.seq <= sent[f.from]
    BY DEF RequestFrames
  <2>1. PICK f : f = RequestPipe[i + n]
    OBVIOUS
  <2>2. RequestPipe'[i] = f /\ i + n \in 1 .. Len(RequestPipe)
    BY <1>2, <2>1
  <2>3. f = RequestFrame(f.from, id[f.from], f.seq)
        /\ Requested[f.from] < f.seq /\ f.seq <= sent[f.from]
    BY <2>1, <2>2 DEF PipeInv, RequestFrames
  <2>4. f.from \in Calls /\ f.seq \in Nat
    BY <2>1, <2>2, InPipe
  <2>5. Requested'[f.from] < f.seq
    BY <2>3, <2>4 DEF RequestTypesOK
  <2> QED
    BY <2>2, <2>3, <2>5
<1>4. InOrder(RequestPipe')
  BY <1>1, InOrderCut DEF PipeInv
<1>5. RequestsComplete'
  BY DEF RequestsComplete
<1> QED
  BY <1>3, <1>4, <1>5 DEF PipeInv, InOrder

(* The head of the pipe is the next frame of its call.                      *)
LEMMA NextFrame ==
    ASSUME TypeOK, PipeInv, Connected, c2s # << >>
    PROVE  LET f == Head(c2s)
           IN  /\ f \in Frame /\ f.from \in Calls
               /\ f = RequestFrame(f.from, id[f.from], f.seq)
               /\ f.seq = Requested[f.from] + 1
               /\ f.seq <= sent[f.from]
               /\ RequestPipe # << >> /\ RequestPipe[1] = f /\ Head(RequestPipe) = f
               /\ (Tail(c2s) \o outChunk) \o outQueue = Tail(RequestPipe)
<1>1. RequestTypesOK
  BY RequestTypes
<1>2. /\ RequestPipe # << >> /\ Head(RequestPipe) = Head(c2s)
      /\ (Tail(c2s) \o outChunk) \o outQueue = Tail(RequestPipe)
  <2>1. c2s \in Seq(Frame) /\ outChunk \in Seq(Frame) /\ outQueue \in Seq(Frame)
    BY DEF TypeOK, WiresTypeOK, ClientTypeOK
  <2> QED
    BY <2>1, PipeMoves, SMTT(30) DEF RequestPipe
<1>3. PICK f : f = Head(c2s)
  OBVIOUS
<1>4. RequestPipe \in Seq(Frame) /\ 1 \in 1 .. Len(RequestPipe) /\ RequestPipe[1] = f
  BY <1>1, <1>2, <1>3 DEF RequestTypesOK
<1>5. f \in Frame /\ f.from \in Calls /\ f.seq \in Nat
  BY <1>1, <1>4, InPipe
<1>6. f = RequestFrame(f.from, id[f.from], f.seq)
      /\ Requested[f.from] < f.seq /\ f.seq <= sent[f.from]
  BY <1>4 DEF PipeInv, RequestFrames
<1>7. Requested[f.from] \in Nat /\ sent[f.from] \in Nat
  BY <1>1, <1>5 DEF RequestTypesOK
<1>8. Present(RequestPipe, f.from, Requested[f.from] + 1)
  <2>1. /\ Requested[f.from] + 1 \in Nat
        /\ Requested[f.from] < Requested[f.from] + 1 /\ Requested[f.from] + 1 <= sent[f.from]
    BY <1>5, <1>6, <1>7
  <2> QED
    BY <1>5, <2>1 DEF PipeInv, RequestsComplete
<1>9. f.seq = Requested[f.from] + 1
  <2>1. Requested[f.from] + 1 \in Nat /\ Requested[f.from] + 1 <= f.seq
    BY <1>5, <1>6, <1>7
  <2>2. InOrder(RequestPipe) /\ Head(RequestPipe) = f
    BY <1>2, <1>3 DEF PipeInv
  <2> QED
    BY <1>2, <1>4, <1>8, <2>1, <2>2, HeadIsFirst
<1> QED
  BY <1>2, <1>3, <1>4, <1>5, <1>6, <1>9

(* A dispatch takes it.                                                     *)
LEMMA PipeTaken ==
    ASSUME TypeOK, TypeOK', PipeInv, Connected, c2s # << >>,
           c2s' = Tail(c2s), UNCHANGED <<outChunk, outQueue, id, sent>>,
           \A c \in Calls : Requested'[c] = IF c = Head(c2s).from THEN Requested[c] + 1
                                            ELSE Requested[c]
    PROVE  PipeInv'
<1>1. RequestTypesOK
  BY RequestTypes
<1>2. PICK f : f = Head(c2s)
  OBVIOUS
<1>3. /\ f \in Frame /\ f.from \in Calls /\ f.seq = Requested[f.from] + 1
      /\ RequestPipe # << >> /\ RequestPipe[1] = f /\ Head(RequestPipe) = f
      /\ (Tail(c2s) \o outChunk) \o outQueue = Tail(RequestPipe)
  BY <1>2, NextFrame
<1>4. RequestPipe' = Tail(RequestPipe)
  BY <1>3 DEF RequestPipe
<1>5. /\ RequestPipe \in Seq(Frame) /\ Len(RequestPipe) \in Nat
      /\ Len(RequestPipe') = Len(RequestPipe) - 1
      /\ \A i \in 1 .. Len(RequestPipe') :
            i + 1 \in 1 .. Len(RequestPipe) /\ RequestPipe'[i] = RequestPipe[i + 1]
  BY <1>1, <1>3, <1>4, HeadTailProperties DEF RequestTypesOK
<1>6. RequestFrames'
  <2> SUFFICES ASSUME NEW i \in 1 .. Len(RequestPipe')
               PROVE  LET g == RequestPipe'[i]
                      IN  /\ g = RequestFrame(g.from, id[g.from], g.seq)
                          /\ Requested'[g.from] < g.seq
                          /\ g.seq <= sent[g.from]
    BY DEF RequestFrames
  <2>1. PICK g : g = RequestPipe[i + 1]
    OBVIOUS
  <2>2. RequestPipe'[i] = g /\ i + 1 \in 1 .. Len(RequestPipe) /\ 1 \in 1 .. Len(RequestPipe)
    BY <1>5, <2>1
  <2>3. g = RequestFrame(g.from, id[g.from], g.seq)
        /\ Requested[g.from] < g.seq /\ g.seq <= sent[g.from]
    BY <2>1, <2>2 DEF PipeInv, RequestFrames
  <2>4. g.from \in Calls /\ g.seq \in Nat /\ Requested[g.from] \in Nat
    BY <1>1, <2>1, <2>2, InPipe DEF RequestTypesOK
  <2>5. g.from = f.from => f.seq < g.seq
    BY <1>3, <2>1, <2>2 DEF PipeInv, InOrder
  <2>6. Requested'[g.from] < g.seq
    BY <1>2, <1>3, <2>3, <2>4, <2>5, SMTT(30)
  <2> QED
    BY <2>2, <2>3, <2>6
<1>7. InOrder(RequestPipe')
  BY <1>3, <1>4, <1>5, InOrderTail, ZenonT(40) DEF PipeInv
<1>8. RequestsComplete'
  <2> SUFFICES ASSUME NEW c \in Calls, NEW k \in Nat, Requested'[c] < k, k <= sent[c]
               PROVE  Present(RequestPipe', c, k)
    BY DEF RequestsComplete, Present
  <2>1. Requested[c] \in Nat /\ Requested[c] < k
    <3>1. Requested[c] \in Nat
      BY <1>1 DEF RequestTypesOK
    <3>2. Requested'[c] = Requested[c] + 1 \/ Requested'[c] = Requested[c]
      OBVIOUS
    <3> QED
      BY <3>1, <3>2
  <2>2. Present(RequestPipe, c, k)
    BY <2>1 DEF PipeInv, RequestsComplete
  <2>3. ~(f.from = c /\ f.seq = k)
    BY <1>2, <1>3, <2>1
  <2> QED
    BY <1>3, <1>4, <1>5, <2>2, <2>3, PresentTail
<1> QED
  BY <1>6, <1>7, <1>8 DEF PipeInv, InOrder

(* A call sends the next frame of its request.                              *)
LEMMA PipeSent ==
    ASSUME TypeOK, PipeInv, NEW c \in Calls, Requested[c] <= sent[c],
           outQueue' = Append(outQueue, RequestFrame(c, id[c], sent[c] + 1)),
           sent' = [sent EXCEPT ![c] = @ + 1],
           UNCHANGED <<c2s, outChunk, id, Requested, link, stream>>
    PROVE  PipeInv'
<1>1. RequestTypesOK
  BY RequestTypes
<1>2. PICK f : f = RequestFrame(c, id[c], sent[c] + 1)
  OBVIOUS
<1>3. /\ sent[c] \in Nat /\ id[c] \in Ids /\ sent'[c] = sent[c] + 1
      /\ \A d \in Calls : sent[d] \in Nat /\ sent'[d] >= sent[d]
      /\ \A d \in Calls : d # c => sent'[d] = sent[d]
      /\ Requested[c] \in Nat
  BY <1>1 DEF RequestTypesOK
<1>4. f \in Frame /\ f.from = c /\ f.id = id[c] /\ f.seq = sent[c] + 1
  BY <1>2, <1>3, RequestFrameType, RequestFrameFields
<1>5. RequestPipe' = Append(RequestPipe, f)
  <2>1. c2s \in Seq(Frame) /\ outChunk \in Seq(Frame) /\ outQueue \in Seq(Frame)
    BY DEF TypeOK, WiresTypeOK, ClientTypeOK
  <2>2. (c2s \o outChunk) \o Append(outQueue, f) = Append((c2s \o outChunk) \o outQueue, f)
    BY <1>4, <2>1, PipeMoves
  <2> QED
    BY <1>2, <2>2 DEF RequestPipe
<1>6. /\ RequestPipe \in Seq(Frame) /\ Len(RequestPipe) \in Nat
      /\ Len(RequestPipe') = Len(RequestPipe) + 1
      /\ RequestPipe'[Len(RequestPipe) + 1] = f
      /\ \A i \in 1 .. Len(RequestPipe) : RequestPipe'[i] = RequestPipe[i]
  BY <1>1, <1>4, <1>5, AppendProperties DEF RequestTypesOK
<1>7. RequestFrames'
  <2> SUFFICES ASSUME NEW i \in 1 .. Len(RequestPipe')
               PROVE  LET g == RequestPipe'[i]
                      IN  /\ g = RequestFrame(g.from, id[g.from], g.seq)
                          /\ Requested[g.from] < g.seq
                          /\ g.seq <= sent'[g.from]
    BY DEF RequestFrames
  <2>1. CASE i = Len(RequestPipe) + 1
    BY <2>1, <1>2, <1>3, <1>4, <1>6
  <2>2. CASE i \in 1 .. Len(RequestPipe)
    <3>1. PICK g : g = RequestPipe[i]
      OBVIOUS
    <3>2. g = RequestFrame(g.from, id[g.from], g.seq)
          /\ Requested[g.from] < g.seq /\ g.seq <= sent[g.from]
      BY <2>2, <3>1 DEF PipeInv, RequestFrames
    <3>3. g.from \in Calls /\ g.seq \in Nat
      BY <1>1, <2>2, <3>1, InPipe
    <3>4. g.seq <= sent'[g.from]
      BY <1>3, <3>2, <3>3
    <3> QED
      BY <1>6, <2>2, <3>1, <3>2, <3>4
  <2> QED
    BY <1>6, <2>1, <2>2
<1>8. InOrder(RequestPipe')
  <2>1. ASSUME NEW i \in 1 .. Len(RequestPipe), RequestPipe[i].from = f.from
        PROVE  RequestPipe[i].seq < f.seq
    <3>1. RequestPipe[i].seq <= sent[c] /\ RequestPipe[i].seq \in Nat
      BY <1>1, <1>4, <2>1, InPipe DEF PipeInv, RequestFrames
    <3> QED
      BY <1>3, <1>4, <3>1
  <2> QED
    BY <1>4, <1>5, <1>6, <2>1, InOrderAppend DEF PipeInv
<1>9. RequestsComplete'
  <2> SUFFICES ASSUME Connected, NEW d \in Calls, NEW k \in Nat, Requested[d] < k, k <= sent'[d]
               PROVE  Present(RequestPipe', d, k)
    BY DEF RequestsComplete, Present, Connected
  <2>1. CASE k <= sent[d]
    <3>1. Present(RequestPipe, d, k)
      BY <2>1 DEF PipeInv, RequestsComplete
    <3> QED
      BY <1>4, <1>5, <1>6, <3>1, PresentAppend
  <2>2. CASE ~(k <= sent[d])
    <3>1. d = c /\ k = f.seq
      BY <2>2, <1>3, <1>4
    <3> QED
      BY <1>4, <1>5, <1>6, <3>1, PresentAppend
  <2> QED
    BY <2>1, <2>2
<1> QED
  BY <1>7, <1>8, <1>9 DEF PipeInv, InOrder

----------------------------------------------------------------------------
requestVars == <<id, sent, c2s, outChunk, outQueue, link, stream, srvHeld, task, taskId,
                 taskChan, taskBody, srvSenders, runs>>

LEMMA RequestStutter == RequestInv /\ UNCHANGED requestVars => RequestInv'
<1> SUFFICES ASSUME RequestInv, UNCHANGED requestVars PROVE RequestInv'
  OBVIOUS
<1> USE DEF requestVars
<1>1. UNCHANGED <<RequestPipe, Requested>> /\ Connected' = Connected
  BY DEF RequestPipe, Requested, Waiting, Connected
<1>2. PipeInv'
  BY <1>1, PipeKept DEF RequestInv
<1>3. BrokenInv' /\ RequestHeld'
  BY <1>1 DEF RequestInv, BrokenInv, RequestHeld
<1>4. ASSUME NEW c \in Calls PROVE (TaskReads(c) /\ TaskInv(c))'
  BY <1>1 DEF RequestInv, TaskReads, TaskInv
<1>5. SrvMapInv'
  BY DEF RequestInv, SrvMapInv
<1> QED
  BY <1>2, <1>3, <1>4, <1>5 DEF RequestInv

(* A task nothing has happened to.                                          *)
LEMMA TaskKept ==
    ASSUME NEW d \in Calls, TaskReads(d), TaskInv(d), RequestTypesOK, sent'[d] \in Nat,
           UNCHANGED <<taskBody[d], taskChan[d], task[d], taskId[d], runs[d], id[d]>>,
           sent'[d] >= sent[d], Requested'[d] = Requested[d],
           stream = "failed" => stream' = "failed"
    PROVE  TaskReads(d)' /\ TaskInv(d)'
<1>1. Requested[d] \in Nat /\ sent[d] \in Nat
  BY DEF RequestTypesOK
<1>2. TaskReads(d)'
  BY <1>1 DEF TaskReads
<1>3. TaskInv(d)'
  BY <1>1 DEF TaskInv
<1> QED
  BY <1>2, <1>3

LEMMA RequestInit == Init => CallInv /\ RequestInv
<1> SUFFICES ASSUME Init PROVE CallInv /\ RequestInv
  OBVIOUS
<1> USE FramesAssumption DEF Init, WiresInit, ClientInit, ServerInit
<1>1. CallInv
  BY DEF CallInv, Listening
<1>2. RequestPipe = << >>
  BY NoFrames, ConcatEmptySeq DEF RequestPipe
<1>3. \A c \in Calls : Requested[c] = 0
  BY DEF Requested, Waiting
<1>4. PipeInv
  <2>1. Len(<< >>) = 0
    BY EmptySeq
  <2>2. RequestFrames /\ InOrder(RequestPipe)
    BY <1>2, <2>1 DEF RequestFrames, InOrder
  <2>3. RequestsComplete
    BY <1>3 DEF RequestsComplete
  <2> QED
    BY <2>2, <2>3 DEF PipeInv
<1>5. BrokenInv /\ RequestHeld /\ SrvMapInv
  BY DEF BrokenInv, RequestHeld, SrvMapInv, Connected
<1>6. ASSUME NEW c \in Calls PROVE TaskReads(c) /\ TaskInv(c)
  <2>1. Len(<< >>) = 0
    BY EmptySeq
  <2>2. Whole(c, 0) = << >>
    BY DEF Whole
  <2> QED
    BY <1>3, <2>1, <2>2 DEF TaskReads, TaskInv
<1> QED
  BY <1>1, <1>4, <1>5, <1>6 DEF RequestInv

(* The next id is given to a call that has sent nothing.                    *)
LEMMA TakeIdRequest ==
    ASSUME TypeOK, TypeOK', CallInv, RequestInv, NEW c \in Calls, TakeId(c), UNCHANGED serverVars
    PROVE  RequestInv'
<1>1. /\ pc[c] = "idle" /\ id' = [id EXCEPT ![c] = nextId]
      /\ UNCHANGED <<sent, c2s, outChunk, outQueue, link, stream, srvHeld, task, taskId,
                     taskChan, taskBody, srvSenders, runs>>
  BY DEF TakeId, serverVars, taskVars
<1>2. sent[c] = 0 /\ \A d \in Calls : d # c => id'[d] = id[d]
  BY <1>1 DEF CallInv, TypeOK, ClientTypeOK
<1>3. UNCHANGED <<RequestPipe, Requested>> /\ Connected' = Connected
  BY <1>1 DEF RequestPipe, Requested, Waiting, Connected
<1>4. RequestTypesOK
  BY RequestTypes
<1>5. PipeInv'
  <2>1. RequestFrames'
    <3> SUFFICES ASSUME NEW i \in 1 .. Len(RequestPipe)
                 PROVE  LET g == RequestPipe[i]
                        IN  /\ g = RequestFrame(g.from, id'[g.from], g.seq)
                            /\ Requested[g.from] < g.seq
                            /\ g.seq <= sent[g.from]
      BY <1>1, <1>3 DEF RequestFrames
    <3>1. PICK g : g = RequestPipe[i]
      OBVIOUS
    <3>2. g = RequestFrame(g.from, id[g.from], g.seq)
          /\ Requested[g.from] < g.seq /\ g.seq <= sent[g.from]
      BY <3>1 DEF RequestInv, PipeInv, RequestFrames
    <3>3. g.from \in Calls /\ g.seq \in Nat /\ Requested[g.from] \in Nat
      BY <1>4, <3>1, InPipe DEF RequestTypesOK
    <3>4. g.from # c
      BY <1>2, <3>2, <3>3
    <3> QED
      BY <1>2, <3>1, <3>2, <3>3, <3>4
  <2>2. InOrder(RequestPipe)' /\ RequestsComplete'
    BY <1>1, <1>3 DEF RequestInv, PipeInv, InOrder, RequestsComplete, Present
  <2> QED
    BY <2>1, <2>2 DEF PipeInv
<1>6. task[c] = "none" /\ taskBody[c] = << >> /\ taskChan[c] = << >>
  BY <1>2 DEF RequestInv, TaskInv
<1>7. RequestHeld'
  <2>1. SUFFICES ASSUME srvHeld # << >> PROVE RequestHeld'
    BY <1>1 DEF RequestHeld
  <2>2. PICK f : f = Head(srvHeld)
    OBVIOUS
  <2>3. /\ srvHeld = <<f>> /\ f = RequestFrame(f.from, id[f.from], f.seq)
        /\ task[f.from] = "reading" /\ f.seq = Requested[f.from]
    BY <2>1, <2>2 DEF RequestInv, RequestHeld
  <2>4. f \in Frame
    BY <2>1, <2>2 DEF TypeOK, ServerTypeOK
  <2>5. f.from \in Calls /\ f.from # c
    BY <1>6, <2>3, <2>4 DEF Frame
  <2> QED
    BY <1>1, <1>2, <1>3, <2>2, <2>3, <2>5 DEF RequestHeld
<1>8. ASSUME NEW d \in Calls PROVE (TaskReads(d) /\ TaskInv(d))'
  <2>1. CASE d = c
    <3>1. TaskReads(c)'
      BY <1>1, <1>3, <1>6 DEF RequestInv, TaskReads
    <3>2. TaskInv(c)'
      BY <1>1, <1>6 DEF RequestInv, TaskInv
    <3> QED
      BY <2>1, <3>1, <3>2
  <2>2. CASE d # c
    <3>1. TaskReads(d)'
      BY <1>1, <1>2, <1>3, <2>2 DEF RequestInv, TaskReads
    <3>2. TaskInv(d)'
      BY <1>1, <1>2, <2>2 DEF RequestInv, TaskInv
    <3> QED
      BY <3>1, <3>2
  <2> QED
    BY <2>1, <2>2
<1>9. BrokenInv' /\ SrvMapInv'
  BY <1>1, <1>3 DEF RequestInv, BrokenInv, SrvMapInv
<1> QED
  BY <1>5, <1>7, <1>8, <1>9 DEF RequestInv

LEMMA SendFrameRequest ==
    ASSUME TypeOK, TypeOK', RequestInv, NEW c \in Calls, SendFrame(c), UNCHANGED serverVars
    PROVE  RequestInv'
<1>1. /\ outQueue' = Append(outQueue, RequestFrame(c, id[c], sent[c] + 1))
      /\ sent' = [sent EXCEPT ![c] = @ + 1]
      /\ UNCHANGED <<id, c2s, outChunk, link, stream, srvHeld, task, taskId,
                     taskChan, taskBody, srvSenders, runs>>
  BY DEF SendFrame, serverVars, taskVars
<1>2. UNCHANGED Requested /\ Connected' = Connected
  BY <1>1 DEF Requested, Waiting, Connected
<1>3. RequestTypesOK
  BY RequestTypes
<1>4. PipeInv'
  BY <1>1, <1>2, PipeSent DEF RequestInv, TaskReads
<1>5. ASSUME NEW d \in Calls PROVE (TaskReads(d) /\ TaskInv(d))'
  <2>1. sent[d] \in Nat /\ sent'[d] \in Nat /\ sent'[d] >= sent[d]
    BY <1>1, <1>3 DEF RequestTypesOK
  <2> QED
    BY <1>1, <1>2, <1>3, <2>1, TaskKept DEF RequestInv
<1>6. BrokenInv' /\ SrvMapInv' /\ RequestHeld'
  BY <1>1, <1>2 DEF RequestInv, BrokenInv, SrvMapInv, RequestHeld
<1> QED
  BY <1>4, <1>5, <1>6 DEF RequestInv

(* Only the pipe changes, and the connection does not come back.            *)
LEMMA PipeOnly ==
    ASSUME TypeOK, RequestInv, PipeInv', BrokenInv',
           UNCHANGED <<id, sent, stream, srvHeld, task, taskId, taskChan, taskBody,
                       srvSenders, runs>>
    PROVE  RequestInv'
<1>1. UNCHANGED Requested
  BY DEF Requested, Waiting
<1>2. RequestTypesOK
  BY RequestTypes
<1>3. ASSUME NEW d \in Calls PROVE (TaskReads(d) /\ TaskInv(d))'
  <2>1. sent[d] \in Nat /\ sent'[d] \in Nat /\ sent'[d] >= sent[d]
    BY <1>2 DEF RequestTypesOK
  <2> QED
    BY <1>1, <1>2, <2>1, TaskKept DEF RequestInv
<1>4. SrvMapInv' /\ RequestHeld'
  BY <1>1 DEF RequestInv, SrvMapInv, RequestHeld
<1> QED
  BY <1>3, <1>4 DEF RequestInv

LEMMA ClientWritesRequest ==
    ASSUME TypeOK, TypeOK', RequestInv, ClientWrites
    PROVE  RequestInv'
<1>1. /\ UNCHANGED <<id, sent, link, stream, srvHeld, task, taskId, taskChan, taskBody,
                     srvSenders, runs>>
      /\ UNCHANGED <<Requested, Connected>>
  BY DEF ClientWrites, callVars, serverVars, taskVars, Requested, Waiting, Connected
<1>2. c2s \in Seq(Frame) /\ outChunk \in Seq(Frame) /\ outQueue \in Seq(Frame)
  BY DEF TypeOK, WiresTypeOK, ClientTypeOK
<1>3. CASE Writer!TakeChunk
  <2> DEFINE n == IF Len(outQueue) < BufferSize THEN Len(outQueue) ELSE BufferSize
  <2>1. n \in 0 .. Len(outQueue)
    BY <1>2, FramesAssumption
  <2>2. /\ outChunk = << >> /\ c2s' = c2s
        /\ outChunk' = SubSeq(outQueue, 1, n)
        /\ outQueue' = SubSeq(outQueue, n + 1, Len(outQueue))
    BY <1>3 DEF Writer!TakeChunk
  <2> HIDE DEF n
  <2>3. RequestPipe' = RequestPipe
    BY <1>2, <2>1, <2>2, PipeChunk DEF RequestPipe
  <2>4. PipeInv'
    BY <1>1, <2>3, PipeKept DEF RequestInv
  <2>5. BrokenInv'
    BY <1>1, <2>2 DEF RequestInv, BrokenInv
  <2> QED
    BY <1>1, <2>4, <2>5, PipeOnly
<1>4. CASE link = "up" /\ stream # "failed" /\ Writer!WriteFrame
  <2>1. /\ outChunk # << >> /\ c2s' = Append(c2s, Head(outChunk))
        /\ outChunk' = Tail(outChunk) /\ outQueue' = outQueue
    BY <1>4 DEF Writer!WriteFrame
  <2>2. RequestPipe' = RequestPipe
    BY <1>2, <2>1, PipeMoves DEF RequestPipe
  <2>3. PipeInv'
    BY <1>1, <2>2, PipeKept DEF RequestInv
  <2>4. BrokenInv'
    BY <1>1, <1>4 DEF RequestInv, BrokenInv, Connected
  <2> QED
    BY <1>1, <2>3, <2>4, PipeOnly
<1>5. CASE (link = "down" \/ stream = "failed") /\ Writer!WriteError
  <2>1. /\ outChunk # << >> /\ outChunk' = Tail(outChunk) /\ outQueue' = outQueue /\ c2s' = c2s
    BY <1>5 DEF Writer!WriteError
  <2>2. ~Connected /\ c2s = << >>
    BY <1>5 DEF RequestInv, BrokenInv, Connected
  <2>3. Cut(RequestPipe, 1, RequestPipe')
    BY <1>2, <2>1, <2>2, PipeCuts DEF RequestPipe
  <2>4. RequestTypesOK
    BY RequestTypes
  <2>5. RequestTypesOK'
    BY RequestTypes, PTL
  <2>6. \A c \in Calls : Requested'[c] <= Requested[c]
    BY <1>1, <2>4 DEF RequestTypesOK
  <2>7. PipeInv'
    BY <1>1, <2>2, <2>3, <2>4, <2>5, <2>6, PipeBroken DEF RequestInv
  <2>8. BrokenInv'
    BY <1>1, <2>1 DEF RequestInv, BrokenInv
  <2> QED
    BY <1>1, <2>7, <2>8, PipeOnly
<1> QED
  BY <1>3, <1>4, <1>5 DEF ClientWrites

LEMMA DisconnectRequest ==
    ASSUME TypeOK, TypeOK', RequestInv, Disconnect
    PROVE  RequestInv'
<1>1. /\ UNCHANGED <<id, sent, outChunk, outQueue, stream, srvHeld, task, taskId, taskChan,
                     taskBody, srvSenders, runs, Requested>>
      /\ c2s' = << >> /\ link' = "down"
  BY DEF Disconnect, clientVars, callVars, serverVars, taskVars, Requested, Waiting
<1>2. c2s \in Seq(Frame) /\ outChunk \in Seq(Frame) /\ outQueue \in Seq(Frame)
  BY DEF TypeOK, WiresTypeOK, ClientTypeOK
<1>3. Cut(RequestPipe, Len(c2s), RequestPipe') /\ Len(c2s) \in Nat
  BY <1>1, <1>2, PipeCuts DEF RequestPipe
<1>4. RequestTypesOK
  BY RequestTypes
<1>5. RequestTypesOK'
  BY RequestTypes, PTL
<1>6. ~Connected'
  BY <1>1 DEF Connected
<1>7. \A c \in Calls : Requested'[c] <= Requested[c]
  BY <1>1, <1>4 DEF RequestTypesOK
<1>8. PipeInv'
  BY <1>1, <1>3, <1>4, <1>5, <1>6, <1>7, PipeBroken DEF RequestInv
<1>9. BrokenInv'
  BY <1>1 DEF RequestInv, BrokenInv
<1> QED
  BY <1>1, <1>8, <1>9, PipeOnly

(* handle_connection returns an error and drops all it has.                 *)
LEMMA FailConnectionRequest ==
    ASSUME TypeOK, TypeOK', RequestInv, FailConnection, UNCHANGED clientVars
    PROVE  RequestInv'
<1>1. /\ UNCHANGED <<id, sent, outChunk, outQueue, taskId, taskBody, runs>>
      /\ stream' = "failed" /\ c2s' = << >> /\ srvHeld' = << >>
      /\ task' = [c \in Calls |-> IF c \in Active THEN "dropped" ELSE task[c]]
      /\ taskChan' = [c \in Calls |-> << >>]
      /\ srvSenders' = [i \in Ids |-> NoCall]
  BY DEF FailConnection, clientVars, callVars
<1>2. c2s \in Seq(Frame) /\ outChunk \in Seq(Frame) /\ outQueue \in Seq(Frame)
  BY DEF TypeOK, WiresTypeOK, ClientTypeOK
<1>3. Cut(RequestPipe, Len(c2s), RequestPipe') /\ Len(c2s) \in Nat
  BY <1>1, <1>2, PipeCuts DEF RequestPipe
<1>4. RequestTypesOK
  BY RequestTypes
<1>5. RequestTypesOK'
  BY RequestTypes, PTL
<1>6. ~Connected'
  BY <1>1 DEF Connected
<1>7. ASSUME NEW c \in Calls
      PROVE  Requested'[c] = Len(taskBody[c]) /\ Requested'[c] <= Requested[c]
  <2>1. PICK b, q \in Nat, w \in 0 .. 1 :
           /\ b = Len(taskBody[c]) /\ q = Len(taskChan[c]) /\ w = Waiting(srvHeld, c)
           /\ Requested[c] = b + q + w
    BY RequestedValue
  <2>2. Len(taskChan'[c]) = 0 /\ Waiting(srvHeld', c) = 0
    BY <1>1, EmptySeq DEF Waiting
  <2>3. Requested'[c] = b
    BY <1>1, <2>1, <2>2 DEF Requested
  <2>4. Requested'[c] = Len(taskBody[c])
    BY <2>1, <2>3
  <2>5. b <= b + q + w
    OBVIOUS
  <2> QED
    BY <2>1, <2>3, <2>4, <2>5
<1>8. PipeInv'
  BY <1>1, <1>3, <1>4, <1>5, <1>6, <1>7, PipeBroken DEF RequestInv
<1>9. BrokenInv' /\ RequestHeld'
  BY <1>1 DEF BrokenInv, RequestHeld
<1>10. ASSUME NEW c \in Calls PROVE (TaskReads(c) /\ TaskInv(c))'
  <2>1. taskChan'[c] = << >> /\ Len(taskChan'[c]) = 0 /\ taskBody'[c] = taskBody[c]
    BY <1>1, EmptySeq
  <2>2. TaskReads(c)'
    <3>1. Requested'[c] <= sent'[c]
      BY <1>1, <1>4, <1>5, <1>7 DEF RequestInv, TaskReads, RequestTypesOK
    <3> QED
      BY <1>1, <2>1, <3>1 DEF RequestInv, TaskReads
  <2>3. task'[c] \in {"dropped", "none", "done"} /\ (task'[c] = "none" <=> task[c] = "none")
        /\ (task'[c] = "done" <=> task[c] = "done")
    BY <1>1 DEF Active
  <2>4. TaskInv(c)'
    BY <1>1, <2>1, <2>3 DEF RequestInv, TaskInv
  <2> QED
    BY <2>2, <2>4
<1>11. SrvMapInv'
  <2>1. \A c \in Calls : task'[c] \notin {"reading", "deregistering"}
    BY <1>1 DEF Active
  <2> QED
    BY <1>1, <2>1 DEF SrvMapInv
<1> QED
  BY <1>8, <1>9, <1>10, <1>11 DEF RequestInv

(* A call that has sent something has an id of its own.                     *)
LEMMA SenderOfId ==
    ASSUME TypeOK, MapInv, CallInv, NEW c \in Calls, NEW d \in Calls,
           sent[c] > 0, sent[d] > 0, id[c] = id[d]
    PROVE  c = d
<1>1. c \in Started /\ d \in Started
  BY DEF CallInv, Started, TypeOK, ClientTypeOK
<1> QED
  BY <1>1 DEF MapInv, IdsUnique

(* Whom dispatch finds under the id of the next frame: the task that reads  *)
(* the request, or nobody before its first frame.                           *)
LEMMA DispatchTarget ==
    ASSUME TypeOK, MapInv, CallInv, RequestInv, stream = "open", srvHeld = << >>, c2s # << >>
    PROVE  LET f == Head(c2s)
               t == srvSenders[f.id]
           IN  /\ Connected
               /\ f.id \in Ids /\ f.id = id[f.from] /\ f.from \in Calls
               /\ t = NoCall => task[f.from] = "none" /\ f.seq = 1
               /\ t # NoCall => t = f.from /\ task[t] = "reading"
<1>1. Connected
  BY DEF RequestInv, BrokenInv
<1>2. PICK f : f = Head(c2s)
  OBVIOUS
<1>3. /\ f \in Frame /\ f.from \in Calls
      /\ f = RequestFrame(f.from, id[f.from], f.seq)
      /\ f.seq = Requested[f.from] + 1
      /\ f.seq <= sent[f.from]
  BY <1>1, <1>2, NextFrame DEF RequestInv
<1>4. PICK c \in Calls : c = f.from
  BY <1>3
<1>5. RequestTypesOK
  BY RequestTypes
<1>6. f.id = id[c] /\ id[c] \in Ids /\ f.seq \in Nat
  BY <1>3, <1>4, <1>5, RequestFrameFields DEF RequestTypesOK, Frame
<1>7. Requested[c] \in Nat /\ sent[c] \in Nat /\ Requested[c] < sent[c] /\ sent[c] <= ReqLen[c]
  BY <1>3, <1>4, <1>5, <1>6 DEF RequestTypesOK, CallInv
<1>8. Len(taskBody[c]) \in Nat /\ Len(taskBody[c]) <= Requested[c]
  BY RequestedValue
<1>9. Len(taskBody[c]) # ReqLen[c]
  <2>1. ReqLen[c] \in Nat
    BY FramesAssumption
  <2> QED
    BY <1>7, <1>8, <2>1
<1>10. task[c] \in {"none", "reading"}
  BY <1>9 DEF RequestInv, TaskInv
<1>11. ASSUME srvSenders[f.id] = NoCall PROVE task[c] = "none" /\ f.seq = 1
  <2>1. task[c] = "none"
    <3>1. SUFFICES ASSUME task[c] = "reading" PROVE FALSE
      BY <1>10
    <3>2. taskId[c] = id[c] /\ srvSenders[taskId[c]] = c
      BY <3>1 DEF RequestInv, TaskInv, SrvMapInv
    <3> QED
      BY <1>6, <1>11, <3>2, FramesAssumption
  <2>2. taskBody[c] = << >> /\ taskChan[c] = << >>
    BY <2>1 DEF RequestInv, TaskInv
  <2>3. Requested[c] = 0
    BY <2>2, RequestedValue, EmptySeq DEF Waiting
  <2> QED
    BY <1>3, <1>4, <2>1, <2>3
<1>12. ASSUME srvSenders[f.id] # NoCall PROVE srvSenders[f.id] = c /\ task[c] = "reading"
  <2>1. PICK t \in Calls : t = srvSenders[f.id]
    BY <1>6, <1>12 DEF TypeOK, ServerTypeOK
  <2>2. task[t] \in {"reading", "deregistering"} /\ taskId[t] = f.id
    BY <1>6, <1>12, <2>1 DEF RequestInv, SrvMapInv
  <2>3. sent[t] > 0 /\ taskId[t] = id[t]
    BY <2>2 DEF RequestInv, TaskInv
  <2>4. sent[c] > 0
    BY <1>7
  <2>5. t = c
    BY <1>6, <2>2, <2>3, <2>4, SenderOfId
  <2> QED
    BY <1>10, <2>1, <2>2, <2>5
<1> QED
  BY <1>1, <1>2, <1>3, <1>4, <1>6, <1>11, <1>12

(* What remains to be shown of a step at one task c that does not break the *)
(* connection.                                                              *)
LEMMA TaskOnly ==
    ASSUME TypeOK, RequestInv, PipeInv', BrokenInv', RequestHeld', SrvMapInv',
           UNCHANGED <<id, sent, stream>>, NEW c \in Calls, TaskReads(c)', TaskInv(c)',
           \A d \in Calls \ {c} :
              UNCHANGED <<taskBody[d], taskChan[d], task[d], taskId[d], runs[d], Requested[d]>>
    PROVE  RequestInv'
<1>1. RequestTypesOK
  BY RequestTypes
<1>2. ASSUME NEW d \in Calls PROVE (TaskReads(d) /\ TaskInv(d))'
  <2>1. CASE d = c
    BY <2>1
  <2>2. CASE d # c
    <3>1. sent[d] \in Nat /\ sent'[d] \in Nat /\ sent'[d] >= sent[d]
      BY <1>1 DEF RequestTypesOK
    <3>2. UNCHANGED <<taskBody[d], taskChan[d], task[d], taskId[d], runs[d], id[d]>>
          /\ Requested'[d] = Requested[d]
      BY <2>2
    <3> QED
      BY <1>1, <3>1, <3>2, TaskKept DEF RequestInv
  <2> QED
    BY <2>1, <2>2
<1> QED
  BY <1>2 DEF RequestInv

(* A frame that is appended to the channel of its task.                     *)
LEMMA ChannelGrows ==
    ASSUME TypeOK, NEW c \in Calls, TaskReads(c), TaskInv(c), task[c] = "reading",
           NEW f \in Frame, f = RequestFrame(c, id[c], Len(taskBody[c]) + Len(taskChan[c]) + 1),
           taskChan' = [taskChan EXCEPT ![c] = Append(@, f)],
           UNCHANGED <<taskBody, task, taskId, runs, id, sent, stream>>,
           Requested'[c] <= sent[c]
    PROVE  TaskReads(c)' /\ TaskInv(c)'
<1>1. PICK s \in Seq(Frame), b \in Nat :
         s = taskChan[c] /\ taskChan'[c] = Append(s, f) /\ b = Len(taskBody[c])
  <2>1. taskChan[c] \in Seq(Frame) /\ taskChan'[c] = Append(taskChan[c], f)
    BY DEF TypeOK, ServerTypeOK
  <2>2. Len(taskBody[c]) \in Nat
    BY RequestedValue
  <2> QED
    BY <2>1, <2>2
<1>2. /\ Len(s) \in Nat /\ Len(Append(s, f)) = Len(s) + 1 /\ Append(s, f)[Len(s) + 1] = f
      /\ \A k \in 1 .. Len(s) : Append(s, f)[k] = s[k]
  BY FrameAppended
<1>3. f = RequestFrame(c, id[c], b + (Len(s) + 1))
  <2>1. b + Len(s) + 1 = b + (Len(s) + 1)
    BY <1>2
  <2>2. f = RequestFrame(c, id[c], b + Len(s) + 1)
    BY <1>1
  <2> QED
    BY <2>1, <2>2
<1>4. ASSUME NEW k \in 1 .. Len(taskChan'[c])
      PROVE  taskChan'[c][k] = RequestFrame(c, id[c], Len(taskBody[c]) + k)
  <2>1. CASE k = Len(s) + 1
    BY <1>1, <1>2, <1>3, <2>1
  <2>2. CASE k \in 1 .. Len(s)
    BY <1>1, <1>2, <2>2 DEF TaskReads
  <2> QED
    BY <1>1, <1>2, <2>1, <2>2
<1>5. TaskReads(c)'
  BY <1>4 DEF TaskReads
<1>6. TaskInv(c)'
  BY DEF TaskInv
<1> QED
  BY <1>5, <1>6

LEMMA DispatchRequest ==
    ASSUME TypeOK, TypeOK', MapInv, CallInv, RequestInv, Dispatch, UNCHANGED clientVars
    PROVE  RequestInv'
<1>1. /\ stream = "open" /\ srvHeld = << >> /\ c2s # << >>
      /\ UNCHANGED <<id, sent, outChunk, outQueue>>
  BY DEF Dispatch, clientVars, callVars
<1>2. PICK f : f = Head(c2s)
  OBVIOUS
<1>3. PICK c : c = f.from
  OBVIOUS
<1>4. /\ Connected
      /\ f.id \in Ids /\ f.id = id[c] /\ c \in Calls
      /\ srvSenders[f.id] = NoCall => task[c] = "none" /\ f.seq = 1
      /\ srvSenders[f.id] # NoCall => srvSenders[f.id] = c /\ task[c] = "reading"
  BY <1>1, <1>2, <1>3, DispatchTarget
<1>5. /\ f \in Frame /\ f = RequestFrame(c, id[c], f.seq)
      /\ f.seq = Requested[c] + 1 /\ f.seq <= sent[c]
  BY <1>1, <1>2, <1>3, <1>4, NextFrame DEF RequestInv
<1>6. PICK b, q \in Nat, w \in 0 .. 1 :
         /\ b = Len(taskBody[c]) /\ q = Len(taskChan[c]) /\ w = Waiting(srvHeld, c)
         /\ Requested[c] = b + q + w
  BY <1>4, RequestedValue
<1>7. w = 0
  BY <1>1, <1>6 DEF Waiting
<1>8. f.seq = b + q + 1
  BY <1>5, <1>6, <1>7
<1>9. CASE srvSenders[f.id] = NoCall
  <2>1. /\ srvSenders' = [srvSenders EXCEPT ![f.id] = c]
        /\ task' = [task EXCEPT ![c] = "reading"]
        /\ taskId' = [taskId EXCEPT ![c] = f.id]
        /\ taskChan' = [taskChan EXCEPT ![c] = <<f>>]
        /\ c2s' = Tail(c2s)
        /\ UNCHANGED <<stream, taskBody, runs, srvHeld, link>>
    BY <1>2, <1>3, <1>4, <1>9 DEF Dispatch
  <2>2. task[c] = "none" /\ f.seq = 1
    BY <1>4, <1>9
  <2>3. /\ taskChan \in [Calls -> Seq(Frame)] /\ task \in [Calls -> TaskStates]
        /\ taskId \in [Calls -> Ids] /\ srvSenders \in [Ids -> Calls \cup {NoCall}]
    BY DEF TypeOK, ServerTypeOK
  <2>4. taskBody[c] = << >> /\ taskChan[c] = << >> /\ runs[c] <= 0 /\ b = 0 /\ q = 0
    <3>1. taskBody[c] = << >> /\ taskChan[c] = << >>
      BY <1>4, <2>2 DEF RequestInv, TaskInv
    <3>2. b = 0 /\ q = 0
      BY <1>6, <3>1, EmptySeq
    <3>3. runs[c] \in Nat /\ ReqLen[c] \in Nat /\ ReqLen[c] > 0
      BY <1>4, FramesAssumption DEF TypeOK, ServerTypeOK
    <3>4. runs[c] <= 0
      BY <1>4, <1>6, <3>2, <3>3 DEF RequestInv, TaskInv
    <3> QED
      BY <3>1, <3>2, <3>4
  <2>5. taskChan'[c] = <<f>> /\ Len(taskChan'[c]) = 1 /\ taskChan'[c][1] = f
    BY <1>4, <2>1, <2>3
  <2>6. Requested'[c] = 1
    <3>1. Len(taskBody'[c]) = 0 /\ Waiting(srvHeld', c) = 0
      BY <1>1, <2>1, <2>4, EmptySeq DEF Waiting
    <3>2. Requested'[c] = Len(taskBody'[c]) + Len(taskChan'[c]) + Waiting(srvHeld', c)
      BY <1>4 DEF Requested
    <3> QED
      BY <2>5, <3>1, <3>2
  <2>7. \A d \in Calls \ {c} :
           UNCHANGED <<taskBody[d], taskChan[d], task[d], taskId[d], runs[d], Requested[d]>>
    <3>1. \A d \in Calls \ {c} :
             UNCHANGED <<taskBody[d], taskChan[d], task[d], taskId[d], runs[d]>>
      BY <1>4, <2>1, <2>3
    <3> QED
      BY <2>1, <3>1 DEF Requested
  <2>8. PipeInv'
    <3>1. \A d \in Calls : Requested'[d] = IF d = Head(c2s).from THEN Requested[d] + 1
                                           ELSE Requested[d]
      BY <1>2, <1>3, <1>6, <1>7, <2>4, <2>6, <2>7
    <3> QED
      BY <1>1, <1>4, <2>1, <3>1, PipeTaken DEF RequestInv
  <2>9. TaskReads(c)'
    <3>1. \A k \in 1 .. Len(taskChan'[c]) :
             taskChan'[c][k] = RequestFrame(c, id'[c], Len(taskBody'[c]) + k)
      BY <1>1, <1>5, <1>6, <2>1, <2>2, <2>4, <2>5
    <3>2. taskBody'[c] = Whole(c, Len(taskBody'[c]))
      BY <1>4, <2>1 DEF RequestInv, TaskReads
    <3>3. Requested'[c] <= sent'[c]
      BY <1>1, <1>5, <2>2, <2>6
    <3> QED
      BY <3>1, <3>2, <3>3 DEF TaskReads
  <2>10. TaskInv(c)'
    <3>1. ReqLen[c] \in Nat /\ ReqLen[c] > 0 /\ sent[c] \in Nat /\ sent[c] > 0 /\ runs[c] \in Nat
      <4>1. ReqLen[c] \in Nat /\ ReqLen[c] > 0 /\ sent[c] \in Nat /\ runs[c] \in Nat
        BY <1>4, FramesAssumption DEF TypeOK, ClientTypeOK, ServerTypeOK
      <4> QED
        BY <1>5, <2>2, <4>1
    <3>2. task'[c] = "reading" /\ taskId'[c] = id'[c] /\ Len(taskBody'[c]) = 0
      BY <1>1, <1>4, <1>6, <2>1, <2>3, <2>4
    <3> QED
      BY <1>1, <2>1, <2>4, <3>1, <3>2 DEF TaskInv
  <2>11. BrokenInv'
    BY <1>1, <1>4, <2>1 DEF BrokenInv, Connected
  <2>12. RequestHeld'
    BY <1>1, <2>1 DEF RequestHeld
  <2>13. SrvMapInv'
    <3>1. ASSUME NEW i \in Ids, srvSenders'[i] # NoCall
          PROVE  task'[srvSenders'[i]] \in {"reading", "deregistering"}
                 /\ taskId'[srvSenders'[i]] = i
      <4>1. CASE i = f.id
        BY <1>4, <2>1, <2>3, <4>1
      <4>2. CASE i # f.id
        <5>1. PICK d \in Calls : d = srvSenders[i] /\ d = srvSenders'[i]
          BY <1>4, <2>1, <2>3, <3>1, <4>2
        <5>2. task[d] \in {"reading", "deregistering"} /\ taskId[d] = i
          BY <3>1, <5>1, FramesAssumption DEF RequestInv, SrvMapInv
        <5>3. d # c
          BY <2>2, <5>2
        <5> QED
          BY <2>7, <5>1, <5>2, <5>3
      <4> QED
        BY <4>1, <4>2
    <3>2. ASSUME NEW d \in Calls, task'[d] \in {"reading", "deregistering"}
          PROVE  srvSenders'[taskId'[d]] = d
      <4>1. CASE d = c
        BY <1>4, <2>1, <2>3, <4>1
      <4>2. CASE d # c
        <5>1. task[d] \in {"reading", "deregistering"} /\ taskId'[d] = taskId[d]
          BY <2>7, <3>2, <4>2
        <5>2. srvSenders[taskId[d]] = d /\ taskId[d] \in Ids
          BY <2>3, <5>1 DEF RequestInv, SrvMapInv
        <5>3. taskId[d] # f.id
          BY <1>9, <5>2, FramesAssumption
        <5> QED
          BY <2>1, <2>3, <5>1, <5>2, <5>3
      <4> QED
        BY <4>1, <4>2
    <3> QED
      BY <3>1, <3>2 DEF SrvMapInv
  <2> QED
    BY <1>1, <1>4, <2>1, <2>7, <2>8, <2>9, <2>10, <2>11, <2>12, <2>13, TaskOnly
<1>10. CASE srvSenders[f.id] # NoCall /\ Len(taskChan[c]) < BufferSize
  <2>1. srvSenders[f.id] = c /\ task[c] = "reading"
    BY <1>4, <1>10
  <2>2. /\ taskChan' = [taskChan EXCEPT ![c] = Append(@, f)]
        /\ c2s' = Tail(c2s)
        /\ UNCHANGED <<stream, srvSenders, task, taskId, taskBody, runs, srvHeld, link>>
    BY <1>2, <1>6, <1>10, <2>1, FramesAssumption DEF Dispatch
  <2>3. taskChan \in [Calls -> Seq(Frame)]
    BY DEF TypeOK, ServerTypeOK
  <2>4. Len(taskChan'[c]) = q + 1
    BY <1>4, <1>5, <1>6, <2>2, <2>3
  <2>5. Requested'[c] = Requested[c] + 1
    <3>1. Requested'[c] = Len(taskBody'[c]) + Len(taskChan'[c]) + Waiting(srvHeld', c)
      BY <1>4 DEF Requested
    <3>2. Len(taskBody'[c]) = b /\ Len(taskChan'[c]) = q + 1 /\ Waiting(srvHeld', c) = 0
      BY <1>1, <1>6, <2>2, <2>4 DEF Waiting
    <3>3. Requested'[c] = b + (q + 1) + 0 /\ Requested[c] = b + q + 0
      BY <1>6, <1>7, <3>1, <3>2, Zenon
    <3> QED
      BY <3>3
  <2>6. \A d \in Calls \ {c} :
           UNCHANGED <<taskBody[d], taskChan[d], task[d], taskId[d], runs[d], Requested[d]>>
    <3>1. \A d \in Calls \ {c} :
             UNCHANGED <<taskBody[d], taskChan[d], task[d], taskId[d], runs[d]>>
      BY <1>4, <2>2, <2>3
    <3> QED
      BY <2>2, <3>1 DEF Requested
  <2>7. PipeInv'
    <3>1. \A d \in Calls : Requested'[d] = IF d = Head(c2s).from THEN Requested[d] + 1
                                           ELSE Requested[d]
      BY <1>2, <1>3, <2>5, <2>6
    <3> QED
      BY <1>1, <1>4, <2>2, <3>1, PipeTaken DEF RequestInv
  <2>8. TaskReads(c)' /\ TaskInv(c)'
    <3>1. f = RequestFrame(c, id[c], Len(taskBody[c]) + Len(taskChan[c]) + 1)
      BY <1>5, <1>6, <1>8
    <3>2. Requested'[c] <= sent[c]
      BY <1>5, <2>5
    <3> QED
      BY <1>1, <1>4, <1>5, <2>1, <2>2, <3>1, <3>2, ChannelGrows DEF RequestInv
  <2>9. BrokenInv' /\ RequestHeld' /\ SrvMapInv'
    BY <1>1, <1>4, <2>2 DEF RequestInv, BrokenInv, Connected, RequestHeld, SrvMapInv
  <2> QED
    BY <1>1, <1>4, <2>2, <2>6, <2>7, <2>8, <2>9, TaskOnly
<1>11. CASE srvSenders[f.id] # NoCall /\ ~(Len(taskChan[c]) < BufferSize)
  <2>1. srvSenders[f.id] = c /\ task[c] = "reading"
    BY <1>4, <1>11
  <2>2. /\ srvHeld' = <<f>> /\ c2s' = Tail(c2s)
        /\ UNCHANGED <<stream, srvSenders, task, taskId, taskBody, taskChan, runs, link>>
    BY <1>2, <1>6, <1>11, <2>1, FramesAssumption DEF Dispatch, taskVars
  <2>3. srvHeld' # << >> /\ Head(srvHeld') = f
    BY <1>5, <2>2
  <2>4. Requested'[c] = Requested[c] + 1
    <3>1. Requested'[c] = Len(taskBody'[c]) + Len(taskChan'[c]) + Waiting(srvHeld', c)
      BY <1>4 DEF Requested
    <3>2. Waiting(srvHeld', c) = 1
      BY <1>3, <2>3 DEF Waiting
    <3> QED
      BY <1>6, <1>7, <2>2, <3>1, <3>2
  <2>5. \A d \in Calls \ {c} :
           UNCHANGED <<taskBody[d], taskChan[d], task[d], taskId[d], runs[d], Requested[d]>>
    <3>1. \A d \in Calls \ {c} : Waiting(srvHeld, d) = 0 /\ Waiting(srvHeld', d) = 0
      BY <1>1, <1>3, <2>3 DEF Waiting
    <3> QED
      BY <2>2, <3>1 DEF Requested
  <2>6. PipeInv'
    <3>1. \A d \in Calls : Requested'[d] = IF d = Head(c2s).from THEN Requested[d] + 1
                                           ELSE Requested[d]
      BY <1>2, <1>3, <2>4, <2>5
    <3> QED
      BY <1>1, <1>4, <2>2, <3>1, PipeTaken DEF RequestInv
  <2>7. TaskReads(c)' /\ TaskInv(c)'
    <3>1. Requested'[c] <= sent'[c]
      BY <1>1, <1>5, <2>4
    <3>2. TaskReads(c)'
      BY <1>1, <1>4, <2>2, <3>1 DEF RequestInv, TaskReads
    <3>3. TaskInv(c)'
      BY <1>1, <1>4, <2>2 DEF RequestInv, TaskInv
    <3> QED
      BY <3>2, <3>3
  <2>8. RequestHeld'
    BY <1>1, <1>3, <1>5, <2>1, <2>2, <2>3, <2>4 DEF RequestHeld
  <2>9. BrokenInv' /\ SrvMapInv'
    BY <1>1, <1>4, <2>2 DEF RequestInv, BrokenInv, Connected, SrvMapInv
  <2> QED
    BY <1>1, <1>4, <2>2, <2>5, <2>6, <2>7, <2>8, <2>9, TaskOnly
<1> QED
  BY <1>9, <1>10, <1>11

(* The task that a dispatch waits for is the one whose frame it holds.      *)
LEMMA HeldTarget ==
    ASSUME TypeOK, RequestInv, srvHeld # << >>
    PROVE  LET f == Head(srvHeld)
           IN  /\ f \in Frame /\ f.from \in Calls /\ srvHeld = <<f>>
               /\ srvSenders[f.id] = f.from /\ task[f.from] = "reading"
               /\ f = RequestFrame(f.from, id[f.from], f.seq)
               /\ f.seq = Requested[f.from]
<1>1. PICK f : f = Head(srvHeld)
  OBVIOUS
<1>2. /\ srvHeld = <<f>> /\ f = RequestFrame(f.from, id[f.from], f.seq)
      /\ task[f.from] = "reading" /\ f.seq = Requested[f.from]
  BY <1>1 DEF RequestInv, RequestHeld
<1>3. f \in Frame
  BY <1>1 DEF TypeOK, ServerTypeOK
<1>4. f.from \in Calls /\ f.seq \in Nat
  BY <1>3 DEF Frame
<1>5. id[f.from] \in Ids
  BY <1>4 DEF TypeOK, ClientTypeOK
<1>6. f.id = id[f.from]
  BY <1>2, <1>4, <1>5, RequestFrameFields
<1>7. taskId[f.from] = id[f.from]
  BY <1>2, <1>4 DEF RequestInv, TaskInv
<1>8. srvSenders[taskId[f.from]] = f.from
  BY <1>2, <1>4 DEF RequestInv, SrvMapInv
<1> QED
  BY <1>1, <1>2, <1>3, <1>4, <1>6, <1>7, <1>8

LEMMA SrvDispatchResumeRequest ==
    ASSUME TypeOK, TypeOK', RequestInv, SrvDispatchResume, UNCHANGED clientVars
    PROVE  RequestInv'
<1>1. srvHeld # << >> /\ UNCHANGED <<id, sent, outChunk, outQueue>>
  BY DEF SrvDispatchResume, clientVars, callVars
<1>2. PICK f : f = Head(srvHeld)
  OBVIOUS
<1>3. PICK c : c = f.from
  OBVIOUS
<1>4. /\ f \in Frame /\ c \in Calls /\ srvSenders[f.id] = c /\ task[c] = "reading"
      /\ f = RequestFrame(c, id[c], f.seq) /\ f.seq = Requested[c]
  BY <1>1, <1>2, <1>3, HeldTarget
<1>5. PICK b, q \in Nat, w \in 0 .. 1 :
         /\ b = Len(taskBody[c]) /\ q = Len(taskChan[c]) /\ w = Waiting(srvHeld, c)
         /\ Requested[c] = b + q + w
  BY <1>4, RequestedValue
<1>6. w = 1 /\ f.seq = b + q + 1
  <2>1. w = 1
    BY <1>1, <1>2, <1>3, <1>5 DEF Waiting
  <2> QED
    BY <1>4, <1>5, <2>1, Zenon
<1>7. /\ taskChan' = [taskChan EXCEPT ![c] = Append(@, f)] /\ srvHeld' = << >>
      /\ UNCHANGED <<stream, srvSenders, task, taskId, taskBody, runs, c2s, link>>
  BY <1>2, <1>4 DEF SrvDispatchResume
<1>8. taskChan \in [Calls -> Seq(Frame)]
  BY DEF TypeOK, ServerTypeOK
<1>9. Requested' = Requested
  <2>1. Len(taskChan'[c]) = q + 1
    <3>1. PICK s \in Seq(Frame) : s = taskChan[c] /\ taskChan'[c] = Append(s, f)
      BY <1>4, <1>7, <1>8
    <3> QED
      BY <1>4, <1>5, <3>1, FrameAppended
  <2>2. Requested'[c] = Requested[c]
    <3>1. Requested'[c] = Len(taskBody'[c]) + Len(taskChan'[c]) + Waiting(srvHeld', c)
      BY <1>4 DEF Requested
    <3>2. Len(taskBody'[c]) = b /\ Waiting(srvHeld', c) = 0
      BY <1>5, <1>7 DEF Waiting
    <3>3. Requested'[c] = b + (q + 1) + 0 /\ Requested[c] = b + q + 1
      BY <1>5, <1>6, <2>1, <3>1, <3>2, Zenon
    <3> QED
      BY <3>3
  <2>3. ASSUME NEW d \in Calls, d # c PROVE Requested'[d] = Requested[d]
    <3>1. Waiting(srvHeld, d) = 0 /\ Waiting(srvHeld', d) = 0
      BY <1>2, <1>3, <1>7, <2>3 DEF Waiting
    <3>2. taskChan'[d] = taskChan[d]
      BY <1>4, <1>7, <1>8, <2>3
    <3>3. /\ Requested'[d] = Len(taskBody'[d]) + Len(taskChan'[d]) + Waiting(srvHeld', d)
          /\ Requested[d] = Len(taskBody[d]) + Len(taskChan[d]) + Waiting(srvHeld, d)
      BY DEF Requested
    <3> QED
      BY <1>7, <3>1, <3>2, <3>3, Zenon
  <2> QED
    BY <2>2, <2>3 DEF Requested
<1>10. PipeInv'
  <2>1. UNCHANGED RequestPipe /\ Connected' = Connected
    BY <1>1, <1>7 DEF RequestPipe, Connected
  <2> QED
    BY <1>1, <1>9, <2>1, PipeKept DEF RequestInv
<1>11. TaskReads(c)' /\ TaskInv(c)'
  <2>1. f = RequestFrame(c, id[c], Len(taskBody[c]) + Len(taskChan[c]) + 1)
    BY <1>4, <1>5, <1>6
  <2>2. Requested'[c] <= sent[c]
    BY <1>4, <1>9 DEF RequestInv, TaskReads
  <2> QED
    BY <1>1, <1>4, <1>7, <2>1, <2>2, ChannelGrows DEF RequestInv
<1>12. BrokenInv' /\ RequestHeld' /\ SrvMapInv'
  BY <1>7 DEF RequestInv, BrokenInv, Connected, RequestHeld, SrvMapInv
<1>13. \A d \in Calls \ {c} :
          UNCHANGED <<taskBody[d], taskChan[d], task[d], taskId[d], runs[d], Requested[d]>>
  BY <1>4, <1>7, <1>8, <1>9
<1> QED
  BY <1>1, <1>4, <1>7, <1>10, <1>11, <1>12, <1>13, TaskOnly

LEMMA StreamEndsRequest ==
    ASSUME TypeOK, TypeOK', RequestInv, StreamEnds, UNCHANGED clientVars
    PROVE  RequestInv'
<1>1. CASE FailConnection
  BY <1>1, FailConnectionRequest
<1>2. CASE ~FailConnection
  <2>1. /\ stream = "open" /\ stream' = "ended" /\ link = "down" /\ srvHeld = << >>
        /\ UNCHANGED <<srvSenders, task, taskId, taskChan, taskBody, runs, srvHeld, c2s, link>>
    BY <1>2 DEF StreamEnds, taskVars
  <2>2. UNCHANGED <<id, sent, outChunk, outQueue>>
    BY DEF clientVars, callVars
  <2>3. UNCHANGED <<RequestPipe, Requested>> /\ ~Connected /\ ~Connected'
    BY <2>1, <2>2 DEF RequestPipe, Requested, Waiting, Connected
  <2>4. PipeInv'
    BY <2>2, <2>3, PipeKept DEF RequestInv
  <2>5. RequestTypesOK
    BY RequestTypes
  <2>6. ASSUME NEW d \in Calls PROVE (TaskReads(d) /\ TaskInv(d))'
    <3>1. sent[d] \in Nat /\ sent'[d] \in Nat /\ sent'[d] >= sent[d]
      BY <2>2, <2>5 DEF RequestTypesOK
    <3> QED
      BY <2>1, <2>2, <2>3, <2>5, <3>1, TaskKept DEF RequestInv
  <2>7. BrokenInv' /\ RequestHeld' /\ SrvMapInv'
    BY <2>1, <2>3 DEF RequestInv, BrokenInv, RequestHeld, SrvMapInv
  <2> QED
    BY <2>4, <2>6, <2>7 DEF RequestInv
<1> QED
  BY <1>1, <1>2

(* One more frame makes a longer message.                                   *)
LEMMA WholeGrows ==
    ASSUME NEW c \in Calls, NEW n \in Nat
    PROVE  Whole(c, n) \in Seq(Calls \X Nat) /\ Len(Whole(c, n)) = n
           /\ Append(Whole(c, n), <<c, n + 1>>) = Whole(c, n + 1)
<1>1. \A m \in Nat : Whole(c, m) \in Seq(Calls \X Nat) /\ Len(Whole(c, m)) = m
  BY DEF Whole
<1>2. PICK s \in Seq(Calls \X Nat), t \in Seq(Calls \X Nat), e \in Calls \X Nat :
         s = Whole(c, n) /\ t = Whole(c, n + 1) /\ e = <<c, n + 1>>
  <2>1. n + 1 \in Nat
    OBVIOUS
  <2>2. <<c, n + 1>> \in Calls \X Nat
    BY <2>1
  <2> QED
    BY <1>1, <2>1, <2>2
<1>3. Len(s) = n /\ Len(t) = n + 1
  <2>1. n + 1 \in Nat
    OBVIOUS
  <2> QED
    BY <1>1, <1>2, <2>1
<1>4. /\ Append(s, e) \in Seq(Calls \X Nat) /\ Len(Append(s, e)) = n + 1
      /\ Append(s, e)[n + 1] = e /\ \A i \in 1 .. n : Append(s, e)[i] = s[i]
  BY <1>3, AppendProperties
<1>5. /\ t[n + 1] = e /\ \A i \in 1 .. n : t[i] = s[i]
  BY <1>2 DEF Whole
<1>6. \A i \in 1 .. n + 1 : Append(s, e)[i] = t[i]
  BY <1>4, <1>5
<1>7. Append(s, e) = t
  BY <1>3, <1>4, <1>6, SeqEqual
<1> QED
  BY <1>1, <1>2, <1>7

(* read_request takes the next frame of its own request.                    *)
LEMMA ReadRequestRequest ==
    ASSUME TypeOK, TypeOK', CallInv, RequestInv, NEW c \in Calls, ReadRequest(c),
           UNCHANGED clientVars
    PROVE  RequestInv'
<1>1. PICK f : f = Head(taskChan[c])
  OBVIOUS
<1>2. CASE FailConnection
  BY <1>2, FailConnectionRequest
<1>3. CASE ~FailConnection
  <2>1. /\ task[c] = "reading" /\ taskChan[c] # << >>
        /\ taskBody' = [taskBody EXCEPT ![c] = Append(@, <<f.from, f.seq>>)]
        /\ \/ IsLast(f) /\ task' = [task EXCEPT ![c] = "deregistering"]
              /\ taskChan' = [taskChan EXCEPT ![c] = << >>]
           \/ ~IsLast(f) /\ taskChan' = [taskChan EXCEPT ![c] = Tail(@)] /\ UNCHANGED task
        /\ UNCHANGED <<stream, srvSenders, taskId, runs, srvHeld, c2s, link>>
    BY <1>1, <1>3 DEF ReadRequest
  <2>2. UNCHANGED <<id, sent, outChunk, outQueue>>
    BY DEF clientVars, callVars
  <2>3. /\ taskChan \in [Calls -> Seq(Frame)] /\ task \in [Calls -> TaskStates]
        /\ taskBody \in [Calls -> Seq(Calls \X Nat)] /\ id[c] \in Ids /\ sent[c] \in Nat
        /\ taskId \in [Calls -> Ids]
    BY DEF TypeOK, ServerTypeOK, ClientTypeOK
  <2>4. PICK s \in Seq(Frame) : s = taskChan[c]
    BY <2>3
  <2>5. /\ Len(s) \in Nat /\ Len(s) > 0 /\ f = s[1]
        /\ Len(Tail(s)) = Len(s) - 1 /\ \A k \in 1 .. Len(Tail(s)) : Tail(s)[k] = s[k + 1]
    BY <1>1, <2>1, <2>4, HeadTailProperties
  <2>6. PICK b, q \in Nat, w \in 0 .. 1 :
           /\ b = Len(taskBody[c]) /\ q = Len(taskChan[c]) /\ w = Waiting(srvHeld, c)
           /\ Requested[c] = b + q + w
    BY RequestedValue
  <2>7. /\ taskBody[c] = Whole(c, b) /\ b < ReqLen[c] /\ b + q + w <= ReqLen[c] /\ q > 0
        /\ ReqLen[c] \in Nat /\ q = Len(s)
        /\ \A k \in 1 .. q : s[k] = RequestFrame(c, id[c], b + k)
    <3>1. /\ taskBody[c] = Whole(c, b) /\ b < ReqLen[c] /\ Requested[c] <= sent[c]
          /\ sent[c] <= ReqLen[c] /\ \A k \in 1 .. q : s[k] = RequestFrame(c, id[c], b + k)
      BY <2>1, <2>4, <2>6 DEF RequestInv, TaskReads, TaskInv, CallInv
    <3>2. ReqLen[c] \in Nat /\ q = Len(s) /\ q > 0
      BY <2>4, <2>5, <2>6, FramesAssumption
    <3>3. b + q + w <= sent[c]
      BY <2>6, <3>1
    <3> QED
      BY <2>3, <3>1, <3>2, <3>3
  <2>8. /\ f = RequestFrame(c, id[c], b + 1) /\ f.from = c /\ f.seq = b + 1
        /\ IsLast(f) <=> b + 1 = ReqLen[c]
    <3>1. f = RequestFrame(c, id[c], b + 1) /\ b + 1 \in Nat
      BY <2>5, <2>7
    <3> QED
      BY <2>3, <3>1, RequestFrameFields
  <2>9. taskBody'[c] = Whole(c, b + 1) /\ Len(taskBody'[c]) = b + 1
    <3>1. taskBody'[c] = Append(Whole(c, b), <<c, b + 1>>)
      BY <2>1, <2>3, <2>7, <2>8
    <3>2. Append(Whole(c, b), <<c, b + 1>>) = Whole(c, b + 1)
      BY WholeGrows, Zenon
    <3>3. b + 1 \in Nat
      OBVIOUS
    <3>4. Len(Whole(c, b + 1)) = b + 1
      BY <3>3, WholeGrows, Zenon
    <3> QED
      BY <3>1, <3>2, <3>4
  <2>10. runs[c] <= 0 /\ ~(runs[c] > 0)
    <3>1. runs[c] \in Nat
      BY DEF TypeOK, ServerTypeOK
    <3>2. ~(runs[c] > 0)
      <4>1. b # ReqLen[c]
        BY <2>7
      <4> QED
        BY <2>6, <4>1 DEF RequestInv, TaskInv
    <3> QED
      BY <3>1, <3>2
  <2>11. IsLast(f) => q = 1 /\ w = 0
    BY <2>7, <2>8
  <2>12. Len(taskChan'[c]) = q - 1
    <3>1. CASE IsLast(f)
      BY <2>1, <2>3, <2>11, <3>1, EmptySeq
    <3>2. CASE ~IsLast(f)
      <4>1. taskChan'[c] = Tail(s)
        BY <2>1, <2>3, <2>4, <3>2
      <4> QED
        BY <2>5, <2>7, <4>1
    <3> QED
      BY <3>1, <3>2
  <2>13. \A d \in Calls \ {c} : UNCHANGED <<taskBody[d], taskChan[d], task[d], taskId[d], runs[d]>>
    BY <2>1, <2>3
  <2>14. Requested' = Requested
    <3>1. Requested'[c] = Requested[c]
      <4>1. Requested'[c] = Len(taskBody'[c]) + Len(taskChan'[c]) + Waiting(srvHeld', c)
        BY DEF Requested
      <4>2. Waiting(srvHeld', c) = w
        BY <2>1, <2>6 DEF Waiting
      <4>3. Requested'[c] = (b + 1) + (q - 1) + w /\ Requested[c] = b + q + w
        BY <2>6, <2>9, <2>12, <4>1, <4>2, Zenon
      <4> QED
        BY <4>3
    <3>2. ASSUME NEW d \in Calls, d # c PROVE Requested'[d] = Requested[d]
      <4>1. /\ Requested'[d] = Len(taskBody'[d]) + Len(taskChan'[d]) + Waiting(srvHeld', d)
            /\ Requested[d] = Len(taskBody[d]) + Len(taskChan[d]) + Waiting(srvHeld, d)
        BY DEF Requested
      <4>2. UNCHANGED <<taskBody[d], taskChan[d]>> /\ srvHeld' = srvHeld
        BY <2>1, <2>13, <3>2
      <4> QED
        BY <4>1, <4>2, Zenon
    <3> QED
      BY <3>1, <3>2 DEF Requested
  <2>15. PipeInv' /\ BrokenInv'
    <3>1. UNCHANGED RequestPipe /\ Connected' = Connected
      BY <2>1, <2>2 DEF RequestPipe, Connected
    <3>2. PipeInv'
      BY <2>2, <2>14, <3>1, PipeKept DEF RequestInv
    <3> QED
      BY <2>1, <3>1, <3>2 DEF RequestInv, BrokenInv
  <2>16. TaskReads(c)'
    <3>1. ASSUME NEW k \in 1 .. Len(taskChan'[c])
          PROVE  taskChan'[c][k] = RequestFrame(c, id[c], (b + 1) + k)
      <4>1. ~IsLast(f)
        BY <2>7, <2>11, <2>12
      <4>2. taskChan'[c] = Tail(s) /\ k + 1 \in 1 .. q /\ b + (k + 1) = (b + 1) + k
        BY <2>1, <2>3, <2>4, <2>7, <2>12, <4>1
      <4>3. Tail(s)[k] = s[k + 1]
        BY <2>5, <4>2
      <4>4. s[k + 1] = RequestFrame(c, id[c], b + (k + 1))
        BY <2>7, <4>2
      <4> QED
        BY <4>2, <4>3, <4>4
    <3>2. Requested'[c] <= sent'[c]
      BY <2>2, <2>14 DEF RequestInv, TaskReads
    <3> QED
      BY <2>2, <2>9, <3>1, <3>2 DEF TaskReads
  <2>17. TaskInv(c)'
    <3>1. sent'[c] > 0 /\ taskId'[c] = id'[c]
      BY <2>1, <2>2 DEF RequestInv, TaskInv
    <3>2. CASE IsLast(f)
      <4>1. task'[c] = "deregistering" /\ taskChan'[c] = << >> /\ Len(taskBody'[c]) = ReqLen[c]
        BY <2>1, <2>3, <2>8, <2>9, <3>2
      <4> QED
        BY <3>1, <4>1 DEF TaskInv
    <3>3. CASE ~IsLast(f)
      <4>1. task'[c] = "reading" /\ Len(taskBody'[c]) < ReqLen[c]
        BY <2>1, <2>7, <2>8, <2>9, <3>3
      <4> QED
        BY <2>1, <2>10, <3>1, <4>1 DEF TaskInv
    <3> QED
      BY <3>2, <3>3
  <2>18. RequestHeld'
    <3>1. SUFFICES ASSUME srvHeld # << >> PROVE RequestHeld'
      BY <2>1 DEF RequestHeld
    <3>2. PICK g : g = Head(srvHeld)
      OBVIOUS
    <3>3. /\ g \in Frame /\ g.from \in Calls /\ srvHeld = <<g>> /\ task[g.from] = "reading"
          /\ g = RequestFrame(g.from, id[g.from], g.seq) /\ g.seq = Requested[g.from]
      BY <3>1, <3>2, HeldTarget
    <3>4. IsLast(f) => g.from # c
      BY <2>6, <2>11, <3>1, <3>2 DEF Waiting
    <3>5. task'[g.from] = "reading"
      BY <2>1, <2>3, <3>3, <3>4
    <3> QED
      BY <2>1, <2>2, <2>14, <3>2, <3>3, <3>5 DEF RequestHeld
  <2>19. SrvMapInv'
    <3>1. \A d \in Calls : /\ taskId'[d] = taskId[d]
                           /\ task[d] \in {"reading", "deregistering"}
                              <=> task'[d] \in {"reading", "deregistering"}
      BY <2>1, <2>3
    <3>2. \A i \in Ids : srvSenders[i] # NoCall => srvSenders[i] \in Calls
      BY DEF TypeOK, ServerTypeOK
    <3> QED
      BY <2>1, <3>1, <3>2 DEF RequestInv, SrvMapInv
  <2> QED
    BY <2>1, <2>2, <2>13, <2>14, <2>15, <2>16, <2>17, <2>18, <2>19, TaskOnly
<1> QED
  BY <1>2, <1>3

(* What a task does after it has read its request: of what the argument is  *)
(* about, its state, the map and the number of runs.                        *)
LEMMA TaskMoves ==
    ASSUME TypeOK, TypeOK', RequestInv, NEW c \in Calls, SrvMapInv',
           task[c] \notin {"none", "reading", "dropped"},
           NEW t \in TaskStates \ {"none", "reading", "dropped"},
           task' = [task EXCEPT ![c] = t], \A d \in Calls \ {c} : UNCHANGED runs[d],
           UNCHANGED <<id, sent, c2s, outChunk, outQueue, link, stream, srvHeld, taskId,
                       taskChan, taskBody>>
    PROVE  RequestInv'
<1>1. task \in [Calls -> TaskStates]
  BY DEF TypeOK, ServerTypeOK
<1>2. UNCHANGED <<RequestPipe, Requested>> /\ Connected' = Connected
  BY DEF RequestPipe, Requested, Waiting, Connected
<1>3. PipeInv' /\ BrokenInv'
  <2>1. PipeInv'
    BY <1>2, PipeKept DEF RequestInv
  <2> QED
    BY <1>2, <2>1 DEF RequestInv, BrokenInv
<1>4. RequestHeld'
  <2>1. SUFFICES ASSUME srvHeld # << >> PROVE RequestHeld'
    BY DEF RequestHeld
  <2>2. PICK g : g = Head(srvHeld)
    OBVIOUS
  <2>3. /\ g \in Frame /\ g.from \in Calls /\ srvHeld = <<g>> /\ task[g.from] = "reading"
        /\ g = RequestFrame(g.from, id[g.from], g.seq) /\ g.seq = Requested[g.from]
    BY <2>1, <2>2, HeldTarget
  <2>4. task'[g.from] = "reading"
    BY <1>1, <2>3
  <2> QED
    BY <1>2, <2>2, <2>3, <2>4 DEF RequestHeld
<1>5. TaskReads(c)'
  BY <1>2 DEF RequestInv, TaskReads
<1>6. TaskInv(c)'
  <2>1. task'[c] = t
    BY <1>1
  <2>2. /\ Len(taskBody[c]) = ReqLen[c] /\ taskChan[c] = << >> /\ sent[c] > 0
        /\ taskId[c] = id[c]
    BY DEF RequestInv, TaskInv
  <2> QED
    BY <2>1, <2>2 DEF TaskInv
<1>7. \A d \in Calls \ {c} :
         UNCHANGED <<taskBody[d], taskChan[d], task[d], taskId[d], runs[d], Requested[d]>>
  BY <1>1, <1>2
<1> QED
  BY <1>3, <1>4, <1>5, <1>6, <1>7, TaskOnly

LEMMA DeregisterRequest ==
    ASSUME TypeOK, TypeOK', RequestInv, NEW c \in Calls, Deregister(c), UNCHANGED clientVars
    PROVE  RequestInv'
<1>1. /\ task[c] = "deregistering"
      /\ srvSenders' = [srvSenders EXCEPT ![taskId[c]] = NoCall]
      /\ task' = [task EXCEPT ![c] = "routing"]
      /\ UNCHANGED <<c2s, link, stream, srvHeld, taskId, taskChan, taskBody, runs>>
  BY DEF Deregister
<1>2. UNCHANGED <<id, sent, outChunk, outQueue>>
  BY DEF clientVars, callVars
<1>3. /\ task \in [Calls -> TaskStates] /\ taskId \in [Calls -> Ids]
      /\ srvSenders \in [Ids -> Calls \cup {NoCall}]
  BY DEF TypeOK, ServerTypeOK
<1>4. SrvMapInv'
  <2>1. srvSenders[taskId[c]] = c
    BY <1>1 DEF RequestInv, SrvMapInv
  <2>2. ASSUME NEW i \in Ids, srvSenders'[i] # NoCall
        PROVE  task'[srvSenders'[i]] \in {"reading", "deregistering"} /\ taskId'[srvSenders'[i]] = i
    <3>1. i # taskId[c] /\ srvSenders'[i] = srvSenders[i]
      BY <1>1, <1>3, <2>2
    <3>2. PICK d \in Calls : d = srvSenders[i]
      BY <1>3, <2>2, <3>1
    <3>3. task[d] \in {"reading", "deregistering"} /\ taskId[d] = i
      BY <2>2, <3>1, <3>2 DEF RequestInv, SrvMapInv
    <3>4. d # c
      BY <3>1, <3>3
    <3> QED
      BY <1>1, <1>3, <3>1, <3>2, <3>3, <3>4
  <2>3. ASSUME NEW d \in Calls, task'[d] \in {"reading", "deregistering"}
        PROVE  srvSenders'[taskId'[d]] = d
    <3>1. d # c /\ task[d] \in {"reading", "deregistering"}
      BY <1>1, <1>3, <2>3
    <3>2. srvSenders[taskId[d]] = d
      BY <3>1 DEF RequestInv, SrvMapInv
    <3>3. taskId[d] # taskId[c]
      BY <2>1, <3>1, <3>2
    <3> QED
      BY <1>1, <1>3, <3>2, <3>3
  <2> QED
    BY <2>2, <2>3 DEF SrvMapInv
<1>5. "routing" \in TaskStates \ {"none", "reading", "dropped"}
  BY DEF TaskStates
<1>6. task[c] \notin {"none", "reading", "dropped"} /\ \A d \in Calls \ {c} : UNCHANGED runs[d]
  BY <1>1
<1> QED
  BY <1>1, <1>2, <1>4, <1>5, <1>6, TaskMoves

(* Routing, handling and responding.                                        *)
LEMMA HandleRequest ==
    ASSUME TypeOK, TypeOK', RequestInv, NEW c \in Calls,
           Route(c) \/ LockHandler(c) \/ HandlerReturns(c) \/ SendResponse(c),
           UNCHANGED clientVars
    PROVE  RequestInv'
<1>1. CASE FailConnection
  BY <1>1, FailConnectionRequest
<1>2. CASE ~FailConnection
  <2>1. task \in [Calls -> TaskStates] /\ runs \in [Calls -> Nat]
    BY DEF TypeOK, ServerTypeOK
  <2>2. /\ task[c] \in {"routing", "locking", "handling", "responding"}
        /\ UNCHANGED <<c2s, link, stream, srvSenders, srvHeld, taskId, taskChan, taskBody>>
    BY <1>2 DEF Route, LockHandler, HandlerReturns, SendResponse
  <2>3. PICK t \in {"locking", "handling", "responding", "done"} : task' = [task EXCEPT ![c] = t]
    BY <1>2 DEF Route, LockHandler, HandlerReturns, SendResponse
  <2>4. \A d \in Calls \ {c} : UNCHANGED runs[d]
    BY <1>2, <2>1 DEF Route, LockHandler, HandlerReturns, SendResponse
  <2>5. UNCHANGED <<id, sent, outChunk, outQueue>>
    BY DEF clientVars, callVars
  <2>6. SrvMapInv'
    <3>1. \A d \in Calls : task[d] \in {"reading", "deregistering"}
                              <=> task'[d] \in {"reading", "deregistering"}
      BY <2>1, <2>2, <2>3
    <3>2. \A d \in Calls : task[d] \in {"reading", "deregistering"} => task'[d] = task[d]
      BY <2>1, <2>2, <2>3
    <3>3. \A i \in Ids : srvSenders[i] # NoCall => srvSenders[i] \in Calls
      BY DEF TypeOK, ServerTypeOK
    <3> QED
      BY <2>2, <3>1, <3>2, <3>3 DEF RequestInv, SrvMapInv
  <2>7. t \in TaskStates \ {"none", "reading", "dropped"}
    BY DEF TaskStates
  <2>8. task[c] \notin {"none", "reading", "dropped"}
    BY <2>2
  <2> QED
    BY <2>2, <2>3, <2>4, <2>5, <2>6, <2>7, <2>8, TaskMoves
<1> QED
  BY <1>1, <1>2

----------------------------------------------------------------------------
(* The calls themselves.                                                    *)
LEMMA CallStepCall ==
    ASSUME NoWrap, TypeOK, MapInv, CallInv, NEW c \in Calls, CallStep(c) \/ Cancel(c)
    PROVE  CallInv'
<1>1. /\ pc \in [Calls -> PCs] /\ sent \in [Calls -> Nat] /\ result \in [Calls -> Results]
      /\ chan \in [Calls -> Seq(Frame)] /\ ReqLen[c] \in Nat /\ ReqLen[c] > 0
  BY FramesAssumption DEF TypeOK, ClientTypeOK
<1>2. CASE TakeId(c)
  BY <1>1, <1>2 DEF TakeId, mapVars, CallInv, Listening
<1>3. CASE Register(c)
  <2>1. pc[c] = "registering" /\ senders[id[c]] = NoCall
    BY <1>3, RegisterFree DEF Register
  <2>2. /\ UNCHANGED <<sent, chan>>
        /\ \/ /\ c \in Unsendable /\ pc' = [pc EXCEPT ![c] = "closing_again"]
              /\ result' = [result EXCEPT ![c] = "internal_error"]
           \/ c \notin Unsendable /\ pc' = [pc EXCEPT ![c] = "sending"] /\ UNCHANGED result
    BY <1>3, <2>1 DEF Register, AlreadyRegistered
  <2> QED
    BY <1>1, <2>1, <2>2 DEF CallInv, Listening
<1>4. CASE SendFrame(c)
  <2>1. /\ pc[c] = "sending" /\ sent' = [sent EXCEPT ![c] = @ + 1] /\ UNCHANGED <<result, chan>>
        /\ pc' = [pc EXCEPT ![c] = IF sent[c] + 1 = ReqLen[c] THEN "receiving" ELSE "sending"]
    BY <1>4 DEF SendFrame, mapVars
  <2>2. ASSUME NEW d \in Calls, d # c
        PROVE  UNCHANGED <<pc[d], sent[d], result[d], chan[d]>>
    BY <1>1, <2>1, <2>2
  <2>3. /\ sent'[c] = sent[c] + 1 /\ sent[c] \in Nat /\ sent[c] < ReqLen[c]
        /\ c \notin Unsendable /\ result'[c] = "none"
        /\ pc'[c] = IF sent[c] + 1 = ReqLen[c] THEN "receiving" ELSE "sending"
    BY <1>1, <2>1 DEF CallInv, Listening
  <2>4. ASSUME NEW d \in Calls
        PROVE  /\ sent'[d] <= ReqLen[d]
               /\ pc'[d] \in {"idle", "registering"} => sent'[d] = 0
               /\ d \in Unsendable => sent'[d] = 0 /\ ~Listening(d)'
               /\ pc'[d] = "sending" => sent'[d] < ReqLen[d]
               /\ pc'[d] \in {"idle", "registering", "sending", "receiving"} => result'[d] = "none"
               /\ ~Listening(d)' => chan'[d] = << >>
    <3>1. CASE d = c
      BY <1>1, <2>3, <3>1 DEF Listening
    <3>2. CASE d # c
      BY <2>2, <3>2 DEF CallInv, Listening
    <3> QED
      BY <3>1, <3>2
  <2> QED
    BY <2>4 DEF CallInv
<1>5. CASE ReceiveFrame(c)
  <2>1. /\ pc[c] = "receiving" /\ UNCHANGED sent
        /\ \/ (\E r \in Results : StopReading(c, r))
           \/ chan' = [chan EXCEPT ![c] = Tail(@)] /\ UNCHANGED <<pc, result>>
    <3>1. \A x : ResultOf(x) \in Results
      BY DEF ResultOf, Results
    <3>2. "internal_error" \in Results
      BY DEF Results
    <3> QED
      BY <1>5, <3>1, <3>2 DEF ReceiveFrame
  <2> QED
    BY <1>1, <2>1 DEF CallInv, Listening, StopReading
<1>6. CASE ReceiveNone(c)
  <2>1. /\ pc[c] = "receiving" /\ UNCHANGED sent /\ \E r : StopReading(c, r)
    BY <1>6 DEF ReceiveNone
  <2> QED
    BY <1>1, <2>1 DEF CallInv, Listening, StopReading
<1>7. CASE Close(c)
  <2>1. /\ pc[c] \in {"closing", "closing_again"} /\ UNCHANGED <<sent, result, chan>>
        /\ \E p \in {"closing_again", "done"} : pc' = [pc EXCEPT ![c] = p]
    BY <1>7 DEF Close
  <2> QED
    BY <1>1, <2>1 DEF CallInv, Listening
<1>8. CASE Cancel(c)
  BY <1>1, <1>8 DEF Cancel, CallInv, Listening
<1> QED
  BY <1>2, <1>3, <1>4, <1>5, <1>6, <1>7, <1>8 DEF CallStep

(* FrameReceiver sends only to channels that are read.                      *)
LEMMA ReceiverStepCall == ASSUME TypeOK, CallInv, ReceiverStep PROVE CallInv'
<1>1. UNCHANGED <<pc, sent, result>>
  BY DEF ReceiverStep, DispatchFollowing, DispatchResume, callVars
<1>2. chan \in [Calls -> Seq(Frame)]
  BY DEF TypeOK, ClientTypeOK
<1>3. \A c \in Calls : ~Listening(c) => chan'[c] = chan[c]
  <2>1. \/ UNCHANGED chan
        \/ \E d, f : Listening(d) /\ chan' = [chan EXCEPT ![d] = Append(@, f)]
    BY DEF ReceiverStep, DispatchFollowing, DispatchResume
  <2> QED
    BY <1>2, <2>1, SMTT(30)
<1> QED
  BY <1>1, <1>3 DEF CallInv, Listening

LEMMA CallStutter == CallInv /\ UNCHANGED <<pc, sent, result, chan>> => CallInv'
  BY DEF CallInv, Listening

(* One step of the system.                                                  *)
LEMMA RequestStep ==
    ASSUME NoWrap, TypeOK, TypeOK', MapInv, CallInv, RequestInv, [Next]_vars
    PROVE  CallInv' /\ RequestInv'
<1>1. CASE UNCHANGED vars
  BY <1>1, CallStutter, RequestStutter
     DEF vars, clientVars, callVars, mapVars, serverVars, taskVars, requestVars
<1>2. ASSUME NEW c \in Calls, CallStep(c) PROVE CallInv' /\ RequestInv'
  <2>1. CallInv'
    BY <1>2, CallStepCall
  <2>2. UNCHANGED serverVars
    BY <1>2 DEF CallStep
  <2>3. CASE TakeId(c)
    BY <2>1, <2>2, <2>3, TakeIdRequest
  <2>4. CASE SendFrame(c)
    BY <2>1, <2>2, <2>4, SendFrameRequest
  <2>5. CASE Register(c) \/ ReceiveFrame(c) \/ ReceiveNone(c) \/ Close(c)
    <3>1. UNCHANGED <<id, sent, c2s, outChunk, outQueue, link>>
      BY <2>5 DEF Register, ReceiveFrame, ReceiveNone, Close
    <3>2. UNCHANGED requestVars
      BY <2>2, <3>1 DEF requestVars, serverVars, taskVars
    <3> QED
      BY <2>1, <3>2, RequestStutter
  <2> QED
    BY <1>2, <2>3, <2>4, <2>5 DEF CallStep
<1>3. ASSUME NEW c \in Calls, Cancel(c), UNCHANGED serverVars PROVE CallInv' /\ RequestInv'
  <2>1. UNCHANGED requestVars
    BY <1>3 DEF Cancel, requestVars, serverVars, taskVars
  <2> QED
    BY <1>3, <2>1, CallStepCall, RequestStutter
<1>4. ASSUME NEW c \in Calls, TaskStep(c) PROVE CallInv' /\ RequestInv'
  <2>1. UNCHANGED clientVars
    BY <1>4 DEF TaskStep
  <2>2. CallInv'
    BY <2>1, CallStutter DEF clientVars, callVars, mapVars
  <2> QED
    BY <1>4, <2>1, <2>2, ReadRequestRequest, DeregisterRequest, HandleRequest DEF TaskStep
<1>5. CASE ClientWrites
  <2>1. UNCHANGED <<pc, sent, result, chan>>
    BY <1>5 DEF ClientWrites, callVars, mapVars
  <2> QED
    BY <1>5, <2>1, CallStutter, ClientWritesRequest
<1>6. CASE ServerWrites
  <2>1. UNCHANGED <<pc, sent, result, chan>> /\ UNCHANGED requestVars
    BY <1>6 DEF ServerWrites, clientVars, callVars, mapVars, taskVars, requestVars
  <2> QED
    BY <2>1, CallStutter, RequestStutter
<1>7. CASE ReceiverStep
  <2>1. UNCHANGED requestVars
    BY <1>7 DEF ReceiverStep, DispatchFollowing, DispatchResume, callVars, serverVars,
       taskVars, requestVars
  <2> QED
    BY <1>7, <2>1, ReceiverStepCall, RequestStutter, SMTT(30)
<1>8. CASE StreamStep
  <2>1. UNCHANGED clientVars
    BY <1>8 DEF StreamStep
  <2>2. CallInv'
    BY <2>1, CallStutter DEF clientVars, callVars, mapVars
  <2> QED
    BY <1>8, <2>1, <2>2, DispatchRequest, SrvDispatchResumeRequest, StreamEndsRequest
       DEF StreamStep
<1>9. CASE Disconnect
  <2>1. UNCHANGED <<pc, sent, result, chan>>
    BY <1>9 DEF Disconnect, clientVars, callVars, mapVars
  <2> QED
    BY <1>9, <2>1, CallStutter, DisconnectRequest
<1> QED
  BY <1>1, <1>2, <1>3, <1>4, <1>5, <1>6, <1>7, <1>8, <1>9 DEF Next, Progress, Fault

(* However the frames of the requests are interleaved, held up or lost,     *)
(* every frame that was sent is where it belongs: on its way in order, with *)
(* the task of its own call, or gone with a broken connection.              *)
THEOREM RequestInvariant == ASSUME NoWrap PROVE Spec => [](CallInv /\ RequestInv)
<1>1. Init => CallInv /\ RequestInv
  BY RequestInit
<1>2. TypeOK /\ TypeOK' /\ MapInv /\ (CallInv /\ RequestInv) /\ [Next]_vars
         => (CallInv /\ RequestInv)'
  BY RequestStep
<1>3. Spec => []TypeOK
  BY MultiplexTypeCorrect
<1>4. Spec => []MapInv
  BY MapInvariant
<1> QED
  BY <1>1, <1>2, <1>3, <1>4, PTL DEF Spec

(* A handler is only given a request that is whole and of one call, for     *)
(* any number of calls, lengths, capacities and whatever breaks.            *)
THEOREM RequestsAreIntact == ASSUME NoWrap PROVE Spec => []RequestIntact
<1>1. RequestInv => RequestIntact
  <2> SUFFICES ASSUME RequestInv, NEW c \in Calls, runs[c] > 0
               PROVE  taskBody[c] = Whole(c, ReqLen[c])
    BY DEF RequestIntact
  <2> QED
    BY DEF RequestInv, TaskReads, TaskInv
<1> QED
  BY <1>1, RequestInvariant, PTL

----------------------------------------------------------------------------
(* Every frame is read once, ids reused or not.  What has left a pipe is    *)
(* with a reader, which has read some of it and has the rest in its         *)
(* channel, or with a dispatch that waits (NoCall).                         *)
Readers == Calls \cup {NoCall}

Key(f) == <<f.from, f.seq>>

Keys(p) == [i \in 1 .. Len(p) |-> Key(p[i])]

Begins(s, t) == Len(s) <= Len(t) /\ \A i \in 1 .. Len(s) : s[i] = t[i]

(* Of what was given to the readers no two entries are the same, and for    *)
(* each call it comes before all that is still in the pipe p, n frames of   *)
(* the call having been sent.                                               *)
GivenOnce(g) ==
    \A r \in Readers : \A s \in Readers :
        \A i \in 1 .. Len(g[r]) : \A j \in 1 .. Len(g[s]) :
            g[r][i] = g[s][j] => r = s /\ i = j

GivenFirst(g, p) ==
    \A r \in Readers : \A i \in 1 .. Len(g[r]), k \in 1 .. Len(p) :
        p[k].from = g[r][i][1] => g[r][i][2] < p[k].seq

GivenSent(g, n) == \A r \in Readers : \A i \in 1 .. Len(g[r]) : g[r][i][2] <= n[g[r][i][1]]

PipeSentUpTo(p, n) == \A k \in 1 .. Len(p) : p[k].seq <= n[p[k].from]

HandedOver(g, p, n) ==
    /\ GivenOnce(g)
    /\ GivenFirst(g, p)
    /\ GivenSent(g, n)
    /\ PipeSentUpTo(p, n)
    /\ InOrder(p)

LEMMA Appended ==
    ASSUME NEW S, NEW s \in Seq(S), NEW e \in S
    PROVE  /\ Append(s, e) \in Seq(S) /\ Len(s) \in Nat /\ Len(Append(s, e)) = Len(s) + 1
           /\ Append(s, e)[Len(s) + 1] = e
           /\ \A i \in 1 .. Len(s) : Append(s, e)[i] = s[i]
           /\ \A i \in 1 .. Len(s) : s[i] \in S
  OBVIOUS

LEMMA Joined ==
    ASSUME NEW S, NEW s \in Seq(S), NEW t \in Seq(S)
    PROVE  /\ s \o t \in Seq(S) /\ Len(s) \in Nat /\ Len(t) \in Nat
           /\ Len(s \o t) = Len(s) + Len(t)
           /\ \A i \in 1 .. Len(s) : (s \o t)[i] = s[i]
           /\ \A i \in Len(s) + 1 .. Len(s) + Len(t) : (s \o t)[i] = t[i - Len(s)]
  OBVIOUS

LEMMA Beheaded ==
    ASSUME NEW S, NEW s \in Seq(S), s # << >>
    PROVE  /\ Head(s) \in S /\ Head(s) = s[1] /\ Len(s) \in Nat /\ Len(s) > 0
           /\ 1 \in 1 .. Len(s)
           /\ Tail(s) \in Seq(S) /\ Len(Tail(s)) = Len(s) - 1
           /\ \A i \in 1 .. Len(s) - 1 : Tail(s)[i] = s[i + 1]
  OBVIOUS

LEMMA SameEntry ==
    ASSUME NEW g, GivenOnce(g), NEW r \in Readers, NEW s \in Readers
    PROVE  \A i \in 1 .. Len(g[r]) : \A j \in 1 .. Len(g[s]) :
              g[r][i] = g[s][j] => r = s /\ i = j
  BY Zenon DEF GivenOnce

(* One entry e is added, as the k-th of reader r, and others may go.        *)
Grown(g, h, r, k, e) ==
    \A s \in Readers : \A i \in 1 .. Len(h[s]) :
       \/ s = r /\ i = k /\ h[s][i] = e
       \/ i \in 1 .. Len(g[s]) /\ h[s][i] = g[s][i] /\ g[s][i] # e

LEMMA OnceMore ==
    ASSUME NEW g, NEW h, GivenOnce(g), NEW r, NEW k, NEW e, Grown(g, h, r, k, e)
    PROVE  GivenOnce(h)
<1> SUFFICES ASSUME NEW s \in Readers, NEW t \in Readers,
                    NEW i \in 1 .. Len(h[s]), NEW j \in 1 .. Len(h[t]), h[s][i] = h[t][j]
             PROVE  s = t /\ i = j
  BY Zenon DEF GivenOnce
<1>1. CASE s = r /\ i = k /\ h[s][i] = e
  BY <1>1, Zenon DEF Grown
<1>2. CASE i \in 1 .. Len(g[s]) /\ h[s][i] = g[s][i] /\ g[s][i] # e
  <2>1. j \in 1 .. Len(g[t]) /\ h[t][j] = g[t][j]
    BY <1>2, Zenon DEF Grown
  <2>2. g[s][i] = g[t][j]
    BY <1>2, <2>1
  <2>3. \A y \in 1 .. Len(g[t]) : g[s][i] = g[t][y] => s = t /\ i = y
    <3>1. i \in 1 .. Len(g[s])
      BY <1>2
    <3>2. \A x \in 1 .. Len(g[s]) : \A y \in 1 .. Len(g[t]) : g[s][x] = g[t][y] => s = t /\ x = y
      BY SameEntry, Zenon
    <3> QED
      BY <3>1, <3>2, Zenon
  <2>4. j \in 1 .. Len(g[t])
    BY <2>1
  <2> QED
    BY <2>2, <2>3, <2>4, Zenon
<1> QED
  BY <1>1, <1>2, Zenon DEF Grown

LEMMA KeyType == ASSUME NEW f \in Frame PROVE Key(f) \in Calls \X Nat
  BY DEF Key, Frame

LEMMA KeysType ==
    ASSUME NEW p \in Seq(Frame)
    PROVE  /\ Keys(p) \in Seq(Calls \X Nat) /\ Len(Keys(p)) = Len(p)
           /\ \A i \in 1 .. Len(p) : Keys(p)[i] = Key(p[i])
<1>1. \A i \in 1 .. Len(p) : p[i] \in Frame /\ Key(p[i]) \in Calls \X Nat
  BY KeyType
<1>2. Len(p) \in Nat
  OBVIOUS
<1> QED
  BY <1>1, <1>2 DEF Keys

(* A reader of what is left in b \o Keys(q): one more frame arrives, one is *)
(* read, or the channel is dropped.                                         *)
LEMMA GivenMoves ==
    ASSUME NEW b \in Seq(Calls \X Nat), NEW q \in Seq(Frame)
    PROVE  /\ b \o Keys(q) \in Seq(Calls \X Nat)
           /\ \A f \in Frame : b \o Keys(Append(q, f)) = Append(b \o Keys(q), Key(f))
           /\ q # << >> => /\ Begins(Append(b, Key(Head(q))) \o Keys(Tail(q)), b \o Keys(q))
                           /\ Begins(Append(b, Key(Head(q))) \o Keys(<< >>), b \o Keys(q))
           /\ Begins(b \o Keys(<< >>), b \o Keys(q))
<1>1. /\ Keys(q) \in Seq(Calls \X Nat) /\ Len(Keys(q)) = Len(q) /\ Len(q) \in Nat /\ Len(b) \in Nat
      /\ \A i \in 1 .. Len(q) : Keys(q)[i] = Key(q[i])
  BY KeysType
<1>2. /\ b \o Keys(q) \in Seq(Calls \X Nat) /\ Len(b \o Keys(q)) = Len(b) + Len(q)
      /\ \A i \in 1 .. Len(b) : (b \o Keys(q))[i] = b[i]
      /\ \A i \in Len(b) + 1 .. Len(b) + Len(q) : (b \o Keys(q))[i] = Keys(q)[i - Len(b)]
  BY <1>1, Joined
<1>3. ASSUME NEW f \in Frame PROVE b \o Keys(Append(q, f)) = Append(b \o Keys(q), Key(f))
  <2>1. /\ Append(q, f) \in Seq(Frame) /\ Len(Append(q, f)) = Len(q) + 1
        /\ Append(q, f)[Len(q) + 1] = f
        /\ \A i \in 1 .. Len(q) : Append(q, f)[i] = q[i]
    OBVIOUS
  <2>2. /\ Keys(Append(q, f)) \in Seq(Calls \X Nat) /\ Len(Keys(Append(q, f))) = Len(q) + 1
        /\ \A i \in 1 .. Len(q) + 1 : Keys(Append(q, f))[i] = Key(Append(q, f)[i])
    BY <2>1, KeysType
  <2>3. Keys(Append(q, f)) = Append(Keys(q), Key(f))
    <3>1. Key(f) \in Calls \X Nat
      BY KeyType
    <3>2. /\ Append(Keys(q), Key(f)) \in Seq(Calls \X Nat) /\ Len(Append(Keys(q), Key(f))) = Len(q) + 1
          /\ Append(Keys(q), Key(f))[Len(q) + 1] = Key(f)
          /\ \A i \in 1 .. Len(q) : Append(Keys(q), Key(f))[i] = Key(q[i])
      BY <1>1, <3>1
    <3>3. \A i \in 1 .. Len(q) + 1 : Keys(Append(q, f))[i] = Append(Keys(q), Key(f))[i]
      <4> SUFFICES ASSUME NEW i \in 1 .. Len(q) + 1
                   PROVE  Keys(Append(q, f))[i] = Append(Keys(q), Key(f))[i]
        OBVIOUS
      <4>1. CASE i = Len(q) + 1
        BY <1>1, <2>1, <2>2, <3>2, <4>1
      <4>2. CASE i \in 1 .. Len(q)
        BY <1>1, <2>1, <2>2, <3>2, <4>2
      <4> QED
        BY <1>1, <4>1, <4>2
    <3> QED
      BY <2>2, <3>2, <3>3, SeqEqual
  <2>4. PICK k \in Seq(Calls \X Nat), e \in Calls \X Nat : k = Keys(q) /\ e = Key(f)
    BY <1>1, KeyType
  <2>5. b \o Append(k, e) = Append(b \o k, e)
    <3>1. /\ b \o Append(k, e) \in Seq(Calls \X Nat) /\ Append(b \o k, e) \in Seq(Calls \X Nat)
          /\ Len(b \o Append(k, e)) = Len(Append(b \o k, e))
      OBVIOUS
    <3>2. \A i \in 1 .. Len(Append(b \o k, e)) : (b \o Append(k, e))[i] = Append(b \o k, e)[i]
      OBVIOUS
    <3> QED
      BY <3>1, <3>2, SeqEqual
  <2> QED
    BY <2>3, <2>4, <2>5
<1>4. << >> \in Seq(Frame) /\ Len(<< >>) = 0
  BY NoFrames
<1>5. Keys(<< >>) \in Seq(Calls \X Nat) /\ Len(Keys(<< >>)) = 0
  BY <1>4, KeysType
<1>6. Begins(b \o Keys(<< >>), b \o Keys(q))
  <2>1. Len(b \o Keys(<< >>)) = Len(b) /\ \A i \in 1 .. Len(b) : (b \o Keys(<< >>))[i] = b[i]
    BY <1>5
  <2> QED
    BY <1>1, <1>2, <2>1 DEF Begins
<1>7. ASSUME q # << >>
      PROVE  /\ Begins(Append(b, Key(Head(q))) \o Keys(Tail(q)), b \o Keys(q))
             /\ Begins(Append(b, Key(Head(q))) \o Keys(<< >>), b \o Keys(q))
  <2>1. /\ Tail(q) \in Seq(Frame) /\ Head(q) \in Frame /\ Len(Tail(q)) = Len(q) - 1
        /\ Head(q) = q[1] /\ Len(q) > 0
        /\ \A i \in 1 .. Len(q) - 1 : Tail(q)[i] = q[i + 1]
    BY <1>7
  <2>2. PICK e \in Calls \X Nat, l \in Nat, m \in Nat :
           e = Key(Head(q)) /\ l = Len(b) /\ m = Len(q) /\ m > 0
    BY <1>1, <2>1, KeyType
  <2>3. /\ Append(b, e) \in Seq(Calls \X Nat) /\ Len(Append(b, e)) = l + 1
        /\ Append(b, e)[l + 1] = e /\ \A i \in 1 .. l : Append(b, e)[i] = b[i]
    BY <2>2
  <2>4. PICK k \in Seq(Calls \X Nat) :
           k = Keys(Tail(q)) /\ Len(k) = m - 1 /\ \A i \in 1 .. m - 1 : k[i] = Key(q[i + 1])
    <3>1. /\ Keys(Tail(q)) \in Seq(Calls \X Nat) /\ Len(Keys(Tail(q))) = Len(Tail(q))
          /\ \A i \in 1 .. Len(Tail(q)) : Keys(Tail(q))[i] = Key(Tail(q)[i])
      BY <2>1, KeysType
    <3>2. Len(Tail(q)) = m - 1 /\ \A i \in 1 .. m - 1 : Tail(q)[i] = q[i + 1]
      BY <2>1, <2>2
    <3>3. \A i \in 1 .. m - 1 : Keys(Tail(q))[i] = Key(q[i + 1])
      BY <3>1, <3>2
    <3> QED
      BY <3>1, <3>2, <3>3, SMTT(30)
  <2>5. PICK z \in Seq(Calls \X Nat) : z = Keys(<< >>) /\ Len(z) = 0
    BY <1>5
  <2>6. PICK a \in Seq(Calls \X Nat) : a = Append(b, e)
    BY <2>3
  <2>7. /\ Len(a) = l + 1 /\ a[l + 1] = e /\ \A i \in 1 .. l : a[i] = b[i]
    BY <2>3, <2>6
  <2>8. PICK t : t = b \o Keys(q)
    OBVIOUS
  <2>9. /\ Len(t) = l + m /\ \A i \in 1 .. l : t[i] = b[i]
        /\ \A i \in l + 1 .. l + m : t[i] = Key(q[i - l])
    <3>1. Len(t) = l + m /\ \A i \in 1 .. l : t[i] = b[i]
      BY <1>2, <2>2, <2>8
    <3>2. ASSUME NEW i \in l + 1 .. l + m PROVE t[i] = Key(q[i - l])
      <4>1. i - l \in 1 .. m
        OBVIOUS
      <4>2. t[i] = Keys(q)[i - l]
        BY <1>2, <2>2, <2>8
      <4> QED
        BY <1>1, <2>2, <4>1, <4>2
    <3> QED
      BY <3>1, <3>2
  <2>10. t[l + 1] = e
    <3>1. l + 1 \in l + 1 .. l + m /\ (l + 1) - l = 1
      BY <2>2
    <3>2. t[l + 1] = Key(q[(l + 1) - l])
      BY <2>9, <3>1
    <3> QED
      BY <2>1, <2>2, <3>1, <3>2
  <2>14. ASSUME NEW i \in 1 .. l + 1 PROVE a[i] = t[i]
    <3>1. CASE i = l + 1
      BY <2>7, <2>10, <3>1
    <3>2. CASE i \in 1 .. l
      BY <2>7, <2>9, <3>2
    <3> QED
      BY <3>1, <3>2
  <2>11. Begins(a \o z, t)
    <3>1. Len(a \o z) = (l + 1) + 0 /\ \A i \in 1 .. l + 1 : (a \o z)[i] = a[i]
      <4>1. Len(a \o z) = Len(a) + Len(z) /\ \A i \in 1 .. Len(a) : (a \o z)[i] = a[i]
        BY Joined
      <4> QED
        BY <2>5, <2>7, <4>1
    <3>2. \A i \in 1 .. l + 1 : a[i] = t[i]
      BY <2>14
    <3>3. (l + 1) + 0 = l + 1 /\ l + 1 <= l + m
      BY <2>2
    <3> QED
      BY <2>9, <3>1, <3>2, <3>3 DEF Begins
  <2>12. Begins(a \o k, t)
    <3>5. /\ Len(a \o k) = Len(a) + Len(k) /\ \A i \in 1 .. Len(a) : (a \o k)[i] = a[i]
          /\ \A i \in Len(a) + 1 .. Len(a) + Len(k) : (a \o k)[i] = k[i - Len(a)]
      BY Joined
    <3>1. /\ Len(a \o k) = l + m /\ \A i \in 1 .. l + 1 : (a \o k)[i] = a[i]
          /\ \A i \in l + 2 .. l + m : (a \o k)[i] = k[i - (l + 1)]
      <4>1. Len(a) = l + 1 /\ Len(k) = m - 1
        BY <2>4, <2>7
      <4>2. /\ Len(a \o k) = (l + 1) + (m - 1) /\ \A i \in 1 .. l + 1 : (a \o k)[i] = a[i]
            /\ \A i \in (l + 1) + 1 .. (l + 1) + (m - 1) : (a \o k)[i] = k[i - (l + 1)]
        BY <3>5, <4>1
      <4>3. (l + 1) + 1 = l + 2 /\ (l + 1) + (m - 1) = l + m
        OBVIOUS
      <4> QED
        BY <4>2, <4>3
    <3>2. \A i \in 1 .. l + 1 : a[i] = t[i]
      BY <2>14
    <3>3. ASSUME NEW i \in l + 2 .. l + m PROVE (a \o k)[i] = t[i]
      <4>1. i - (l + 1) \in 1 .. m - 1 /\ i - (l + 1) + 1 = i - l /\ i \in l + 1 .. l + m
        OBVIOUS
      <4>2. k[i - (l + 1)] = Key(q[i - l])
        BY <2>4, <4>1
      <4> QED
        BY <2>9, <3>1, <4>1, <4>2
    <3>4. \A i \in 1 .. l + m : i \in 1 .. l + 1 \/ i \in l + 2 .. l + m
      OBVIOUS
    <3>6. \A i \in 1 .. l + m : (a \o k)[i] = t[i]
      BY <3>1, <3>2, <3>3, <3>4
    <3> QED
      BY <2>9, <3>1, <3>6 DEF Begins
  <2> QED
    BY <2>2, <2>4, <2>5, <2>6, <2>8, <2>11, <2>12
<1> QED
  BY <1>2, <1>3, <1>6, <1>7

(* Frames are dropped: at the end of what a reader has, or at the head of   *)
(* the pipe.                                                                *)
LEMMA HandedLess ==
    ASSUME NEW g, NEW h, NEW p \in Seq(Frame), NEW q \in Seq(Frame), NEW m \in Nat, NEW n,
           HandedOver(g, p, n), Cut(p, m, q), \A r \in Readers : Begins(h[r], g[r]),
           \A r \in Readers : Len(h[r]) \in Nat /\ Len(g[r]) \in Nat
    PROVE  HandedOver(h, q, n)
<1>1. ASSUME NEW r \in Readers, NEW i \in 1 .. Len(h[r]) PROVE i \in 1 .. Len(g[r]) /\ h[r][i] = g[r][i]
  BY DEF Begins
<1>2. ASSUME NEW k \in 1 .. Len(q) PROVE k + m \in 1 .. Len(p) /\ q[k] = p[k + m]
  BY DEF Cut
<1>3. GivenOnce(h)
  BY <1>1 DEF HandedOver, GivenOnce
<1>4. GivenFirst(h, q)
  <2> SUFFICES ASSUME NEW r \in Readers, NEW i \in 1 .. Len(h[r]), NEW k \in 1 .. Len(q),
                      q[k].from = h[r][i][1]
               PROVE  h[r][i][2] < q[k].seq
    BY DEF GivenFirst
  <2>1. i \in 1 .. Len(g[r]) /\ h[r][i] = g[r][i] /\ k + m \in 1 .. Len(p) /\ q[k] = p[k + m]
    BY <1>1, <1>2
  <2> QED
    BY <2>1 DEF HandedOver, GivenFirst
<1>5. GivenSent(h, n)
  BY <1>1 DEF HandedOver, GivenSent
<1>6. PipeSentUpTo(q, n)
  BY <1>2 DEF HandedOver, PipeSentUpTo
<1>7. InOrder(q)
  BY InOrderCut DEF HandedOver
<1> QED
  BY <1>3, <1>4, <1>5, <1>6, <1>7 DEF HandedOver

LEMMA BelowNext == \A a, b \in Nat : a <= b => a < b + 1
  OBVIOUS

(* A sender appends the next frame of its message.                          *)
LEMMA HandedSend ==
    ASSUME NEW g \in [Readers -> Seq(Calls \X Nat)], NEW p \in Seq(Frame), NEW n \in [Calls -> Nat],
           NEW f \in Frame, f.seq = n[f.from] + 1, HandedOver(g, p, n)
    PROVE  HandedOver(g, Append(p, f), [n EXCEPT ![f.from] = @ + 1])
<1>1. f.from \in Calls /\ f.seq \in Nat /\ n[f.from] \in Nat
  BY DEF Frame
<1>2. PICK l \in Nat, q \in Seq(Frame) : l = Len(p) /\ q = Append(p, f) /\ Len(q) = l + 1 /\ q[l + 1] = f
         /\ \A i \in 1 .. l : q[i] = p[i]
  <2>1. /\ Append(p, f) \in Seq(Frame) /\ Len(p) \in Nat /\ Len(Append(p, f)) = Len(p) + 1
        /\ Append(p, f)[Len(p) + 1] = f /\ \A i \in 1 .. Len(p) : Append(p, f)[i] = p[i]
    BY Appended
  <2> QED
    BY <2>1
<1>3. PICK m \in [Calls -> Nat] : m = [n EXCEPT ![f.from] = @ + 1]
  BY <1>1
<1>4. \A c \in Calls : n[c] <= m[c] /\ m[f.from] = f.seq
  BY <1>1, <1>3
<1>5. ASSUME NEW k \in 1 .. l + 1 PROVE k = l + 1 \/ k \in 1 .. l
  OBVIOUS
<1>6. \A i \in 1 .. l : p[i] \in Frame /\ p[i].from \in Calls /\ p[i].seq \in Nat
  <2>1. \A i \in 1 .. l : p[i] \in Frame
    BY <1>2, Appended
  <2> QED
    BY <2>1 DEF Frame
<1>7. ASSUME NEW r \in Readers, NEW i \in 1 .. Len(g[r])
      PROVE  g[r][i][1] \in Calls /\ g[r][i][2] \in Nat /\ g[r][i][2] <= n[g[r][i][1]]
  <2>1. g[r] \in Seq(Calls \X Nat)
    OBVIOUS
  <2>2. g[r][i] \in Calls \X Nat
    BY <2>1
  <2> QED
    BY <2>2 DEF HandedOver, GivenSent
<1>8. GivenFirst(g, q)
  <2> SUFFICES ASSUME NEW r \in Readers, NEW i \in 1 .. Len(g[r]), NEW k \in 1 .. Len(q),
                      q[k].from = g[r][i][1]
               PROVE  g[r][i][2] < q[k].seq
    BY DEF GivenFirst
  <2>1. CASE k = l + 1
    <3>1. g[r][i][2] \in Nat /\ g[r][i][2] <= n[f.from]
      BY <1>2, <1>7, <2>1
    <3>2. q[k].seq = n[f.from] + 1
      BY <1>2, <2>1
    <3>3. PICK x \in Nat, y \in Nat : x = g[r][i][2] /\ y = n[f.from] /\ x <= y
      BY <1>1, <3>1
    <3>4. x < y + 1
      BY <3>3, BelowNext, Zenon
    <3> QED
      BY <3>2, <3>3, <3>4
  <2>2. CASE k \in 1 .. l
    BY <1>2, <2>2 DEF HandedOver, GivenFirst
  <2> QED
    BY <1>2, <1>5, <2>1, <2>2
<1>9. GivenSent(g, m)
  <2> SUFFICES ASSUME NEW r \in Readers, NEW i \in 1 .. Len(g[r])
               PROVE  g[r][i][2] <= m[g[r][i][1]]
    BY DEF GivenSent
  <2>1. PICK c \in Calls, s \in Nat : c = g[r][i][1] /\ s = g[r][i][2] /\ s <= n[c]
    BY <1>7
  <2>2. n[c] <= m[c] /\ n[c] \in Nat /\ m[c] \in Nat
    BY <1>3, <1>4
  <2> QED
    BY <2>1, <2>2
<1>10. PipeSentUpTo(q, m)
  <2> SUFFICES ASSUME NEW k \in 1 .. Len(q) PROVE q[k].seq <= m[q[k].from]
    BY DEF PipeSentUpTo
  <2>1. CASE k = l + 1
    BY <1>1, <1>2, <1>4, <2>1
  <2>2. CASE k \in 1 .. l
    <3>1. p[k].seq <= n[p[k].from] /\ q[k] = p[k]
      BY <1>2, <2>2 DEF HandedOver, PipeSentUpTo
    <3>2. PICK c \in Calls, s \in Nat : c = p[k].from /\ s = p[k].seq
      BY <1>6, <2>2
    <3>3. n[c] <= m[c] /\ n[c] \in Nat /\ m[c] \in Nat
      BY <1>3, <1>4
    <3> QED
      BY <3>1, <3>2, <3>3
  <2> QED
    BY <1>2, <1>5, <2>1, <2>2
<1>11. InOrder(q)
  <2>1. ASSUME NEW i \in 1 .. Len(p), p[i].from = f.from PROVE p[i].seq < f.seq
    <3>1. p[i].seq \in Nat /\ p[i].seq <= n[f.from]
      BY <1>2, <1>6, <2>1 DEF HandedOver, PipeSentUpTo
    <3> QED
      BY <1>1, <3>1
  <2> QED
    BY <1>2, <2>1, InOrderAppend DEF HandedOver
<1> QED
  BY <1>2, <1>3, <1>8, <1>9, <1>10, <1>11 DEF HandedOver

(* The head of the pipe is given to reader r.                               *)
LEMMA HandedTake ==
    ASSUME NEW g \in [Readers -> Seq(Calls \X Nat)], NEW p \in Seq(Frame), NEW n \in [Calls -> Nat],
           p # << >>, HandedOver(g, p, n), NEW r \in Readers
    PROVE  HandedOver([g EXCEPT ![r] = Append(@, Key(Head(p)))], Tail(p), n)
<1>1. PICK f \in Frame, q \in Seq(Frame), l \in Nat :
         /\ f = Head(p) /\ q = Tail(p) /\ l = Len(p) /\ l > 0 /\ Len(q) = l - 1 /\ f = p[1]
         /\ \A i \in 1 .. l - 1 : q[i] = p[i + 1]
  <2>1. /\ Head(p) \in Frame /\ Head(p) = p[1] /\ Len(p) \in Nat /\ Len(p) > 0
        /\ Tail(p) \in Seq(Frame) /\ Len(Tail(p)) = Len(p) - 1
        /\ \A i \in 1 .. Len(p) - 1 : Tail(p)[i] = p[i + 1]
    BY Beheaded
  <2> QED
    BY <2>1
<1>2. PICK e \in Calls \X Nat : e = Key(f) /\ e[1] = f.from /\ e[2] = f.seq
  BY KeyType DEF Key
<1>3. PICK a \in Seq(Calls \X Nat), m \in Nat :
         /\ a = Append(g[r], e) /\ m = Len(g[r]) /\ Len(a) = m + 1 /\ a[m + 1] = e
         /\ \A i \in 1 .. m : a[i] = g[r][i]
  <2>1. g[r] \in Seq(Calls \X Nat)
    OBVIOUS
  <2>2. /\ Append(g[r], e) \in Seq(Calls \X Nat) /\ Len(g[r]) \in Nat
        /\ Len(Append(g[r], e)) = Len(g[r]) + 1
        /\ Append(g[r], e)[Len(g[r]) + 1] = e /\ \A i \in 1 .. Len(g[r]) : Append(g[r], e)[i] = g[r][i]
    BY <2>1
  <2> QED
    BY <2>2
<1>4. PICK h \in [Readers -> Seq(Calls \X Nat)] : h = [g EXCEPT ![r] = a]
  OBVIOUS
<1>5. h[r] = a /\ \A s \in Readers \ {r} : h[s] = g[s]
  BY <1>4
<1>6. ASSUME NEW s \in Readers, NEW i \in 1 .. Len(h[s])
      PROVE  \/ s = r /\ i = m + 1 /\ h[s][i] = e
             \/ i \in 1 .. Len(g[s]) /\ h[s][i] = g[s][i] /\ ~(s = r /\ i = m + 1)
  <2>1. CASE s = r
    <3>1. i \in 1 .. m + 1 /\ h[s][i] = a[i] /\ Len(g[s]) = m
      BY <1>3, <1>5, <2>1
    <3>2. i = m + 1 \/ (i \in 1 .. m /\ i # m + 1)
      BY <3>1
    <3> QED
      BY <1>3, <2>1, <3>1, <3>2
  <2>2. CASE s # r
    BY <1>5, <2>2
  <2> QED
    BY <2>1, <2>2
<1>7. ASSUME NEW s \in Readers, NEW i \in 1 .. Len(g[s]) PROVE g[s][i] # e
  <2>1. 1 \in 1 .. Len(p) /\ p[1].from = e[1] /\ p[1].seq = e[2]
    BY <1>1, <1>2
  <2>2. SUFFICES ASSUME g[s][i] = e PROVE FALSE
    OBVIOUS
  <2>3. e[2] < e[2] /\ e[2] \in Nat
    BY <2>1, <2>2 DEF HandedOver, GivenFirst
  <2> QED
    BY <2>3
<1>8. GivenOnce(h)
  <2>1. Grown(g, h, r, m + 1, e)
    BY <1>6, <1>7, Zenon DEF Grown
  <2> QED
    BY <2>1, OnceMore, Zenon DEF HandedOver
<1>9. GivenFirst(h, q)
  <2> SUFFICES ASSUME NEW s \in Readers, NEW i \in 1 .. Len(h[s]), NEW k \in 1 .. Len(q),
                      q[k].from = h[s][i][1]
               PROVE  h[s][i][2] < q[k].seq
    BY DEF GivenFirst
  <2>1. k + 1 \in 1 .. Len(p) /\ q[k] = p[k + 1] /\ 1 \in 1 .. Len(p) /\ 1 < k + 1
    BY <1>1
  <2>2. CASE h[s][i] = e
    BY <1>1, <1>2, <2>1, <2>2, ZenonT(40) DEF HandedOver, InOrder
  <2>3. CASE i \in 1 .. Len(g[s]) /\ h[s][i] = g[s][i]
    BY <2>1, <2>3 DEF HandedOver, GivenFirst
  <2> QED
    BY <1>6, <2>2, <2>3
<1>10. GivenSent(h, n)
  <2> SUFFICES ASSUME NEW s \in Readers, NEW i \in 1 .. Len(h[s]) PROVE h[s][i][2] <= n[h[s][i][1]]
    BY DEF GivenSent
  <2>1. CASE h[s][i] = e
    <3>1. 1 \in 1 .. Len(p)
      BY <1>1
    <3> QED
      BY <1>1, <1>2, <2>1, <3>1 DEF HandedOver, PipeSentUpTo
  <2>2. CASE i \in 1 .. Len(g[s]) /\ h[s][i] = g[s][i]
    BY <2>2 DEF HandedOver, GivenSent
  <2> QED
    BY <1>6, <2>1, <2>2
<1>11. PipeSentUpTo(q, n)
  <2>1. \A k \in 1 .. Len(q) : k + 1 \in 1 .. Len(p) /\ q[k] = p[k + 1]
    BY <1>1
  <2> QED
    BY <2>1 DEF HandedOver, PipeSentUpTo
<1>12. InOrder(q)
  BY <1>1, InOrderTail DEF HandedOver
<1>13. h = [g EXCEPT ![r] = Append(@, Key(Head(p)))]
  BY <1>1, <1>2, <1>3, <1>4
<1> QED
  BY <1>1, <1>8, <1>9, <1>10, <1>11, <1>12, <1>13, SMTT(30) DEF HandedOver

(* The dispatch that waited gives its frame to reader r.                    *)
LEMMA HandedMove ==
    ASSUME NEW g \in [Readers -> Seq(Calls \X Nat)], NEW p \in Seq(Frame), NEW n \in [Calls -> Nat],
           HandedOver(g, p, n), NEW r \in Calls, g[NoCall] # << >>
    PROVE  HandedOver([g EXCEPT ![NoCall] = << >>, ![r] = Append(@, Head(g[NoCall]))], p, n)
<1>1. r \in Readers /\ NoCall \in Readers /\ r # NoCall
  BY FramesAssumption DEF Readers
<1>2. g[NoCall] \in Seq(Calls \X Nat) /\ g[r] \in Seq(Calls \X Nat)
  BY <1>1
<1>3. PICK e \in Calls \X Nat : e = Head(g[NoCall]) /\ e = g[NoCall][1] /\ 1 \in 1 .. Len(g[NoCall])
  BY <1>2, Beheaded
<1>4. PICK a \in Seq(Calls \X Nat), m \in Nat :
         /\ a = Append(g[r], e) /\ m = Len(g[r]) /\ Len(a) = m + 1 /\ a[m + 1] = e
         /\ \A i \in 1 .. m : a[i] = g[r][i]
  <2>1. /\ Append(g[r], e) \in Seq(Calls \X Nat) /\ Len(g[r]) \in Nat
        /\ Len(Append(g[r], e)) = Len(g[r]) + 1
        /\ Append(g[r], e)[Len(g[r]) + 1] = e /\ \A i \in 1 .. Len(g[r]) : Append(g[r], e)[i] = g[r][i]
    BY <1>2, SMTT(30)
  <2> QED
    BY <2>1
<1>5. PICK h : h = [g EXCEPT ![NoCall] = << >>, ![r] = Append(@, Head(g[NoCall]))]
  OBVIOUS
<1>6. h[r] = a /\ h[NoCall] = << >> /\ \A s \in Readers \ {r, NoCall} : h[s] = g[s]
  BY <1>1, <1>3, <1>4, <1>5
<1>7. ASSUME NEW s \in Readers, NEW i \in 1 .. Len(h[s])
      PROVE  \/ s = r /\ i = m + 1 /\ h[s][i] = e
             \/ s # NoCall /\ i \in 1 .. Len(g[s]) /\ h[s][i] = g[s][i]
  <2>1. CASE s = r
    <3>1. i \in 1 .. m + 1 /\ h[s][i] = a[i] /\ Len(g[s]) = m
      BY <1>4, <1>6, <2>1
    <3>2. i = m + 1 \/ i \in 1 .. m
      BY <3>1
    <3> QED
      BY <1>1, <1>4, <2>1, <3>1, <3>2
  <2>2. CASE s = NoCall
    BY <1>6, <2>2, EmptySeq
  <2>3. CASE s \notin {r, NoCall}
    BY <1>6, <2>3
  <2> QED
    BY <2>1, <2>2, <2>3
<1>8. ASSUME NEW s \in Readers, s # NoCall, NEW i \in 1 .. Len(g[s]) PROVE g[s][i] # e
  BY <1>1, <1>3, <1>8 DEF HandedOver, GivenOnce
<1>9. GivenOnce(h)
  <2>1. Grown(g, h, r, m + 1, e)
    BY <1>7, <1>8, Zenon DEF Grown
  <2> QED
    BY <2>1, OnceMore, Zenon DEF HandedOver
<1>10. ASSUME NEW s \in Readers, NEW i \in 1 .. Len(h[s])
       PROVE  \E t \in Readers : \E j \in 1 .. Len(g[t]) : h[s][i] = g[t][j]
  BY <1>1, <1>3, <1>7
<1>11. GivenFirst(h, p)
  <2> SUFFICES ASSUME NEW s \in Readers, NEW i \in 1 .. Len(h[s]), NEW k \in 1 .. Len(p),
                      p[k].from = h[s][i][1]
               PROVE  h[s][i][2] < p[k].seq
    BY DEF GivenFirst
  <2>1. PICK t \in Readers : \E j \in 1 .. Len(g[t]) : h[s][i] = g[t][j]
    BY <1>10
  <2> QED
    BY <2>1 DEF HandedOver, GivenFirst
<1>12. GivenSent(h, n)
  <2> SUFFICES ASSUME NEW s \in Readers, NEW i \in 1 .. Len(h[s]) PROVE h[s][i][2] <= n[h[s][i][1]]
    BY DEF GivenSent
  <2>1. PICK t \in Readers : \E j \in 1 .. Len(g[t]) : h[s][i] = g[t][j]
    BY <1>10
  <2> QED
    BY <2>1 DEF HandedOver, GivenSent
<1> QED
  BY <1>5, <1>9, <1>11, <1>12 DEF HandedOver

----------------------------------------------------------------------------
(* What the readers were given: b is what they have read, q their channels  *)
(* and h what the dispatch that waits has in its hands.                     *)
GivenOf(b, q, h) == [r \in Readers |-> IF r = NoCall THEN Keys(h) ELSE b[r] \o Keys(q[r])]

IsGiven(g, b, q, h) ==
    /\ g \in [Readers -> Seq(Calls \X Nat)] /\ g[NoCall] = Keys(h)
    /\ \A c \in Calls : g[c] = b[c] \o Keys(q[c])
    /\ \A r \in Readers : Len(g[r]) \in Nat

LEMMA GivenType ==
    ASSUME NEW b \in [Calls -> Seq(Calls \X Nat)], NEW q \in [Calls -> Seq(Frame)],
           NEW h \in Seq(Frame)
    PROVE  IsGiven(GivenOf(b, q, h), b, q, h)
<1>1. NoCall \notin Calls
  BY FramesAssumption
<1>2. Keys(h) \in Seq(Calls \X Nat)
  BY KeysType
<1>3. ASSUME NEW c \in Calls PROVE b[c] \o Keys(q[c]) \in Seq(Calls \X Nat)
  <2>1. b[c] \in Seq(Calls \X Nat) /\ q[c] \in Seq(Frame)
    OBVIOUS
  <2> QED
    BY <2>1, GivenMoves, Zenon
<1>4. GivenOf(b, q, h) \in [Readers -> Seq(Calls \X Nat)]
  BY <1>1, <1>2, <1>3 DEF GivenOf, Readers
<1>5. /\ GivenOf(b, q, h)[NoCall] = Keys(h)
      /\ \A c \in Calls : GivenOf(b, q, h)[c] = b[c] \o Keys(q[c])
  BY <1>1 DEF GivenOf, Readers
<1>6. ASSUME NEW r \in Readers PROVE Len(GivenOf(b, q, h)[r]) \in Nat
  <2>1. GivenOf(b, q, h)[r] \in Seq(Calls \X Nat)
    BY <1>4
  <2> QED
    BY <2>1, LenProperties
<1> QED
  BY <1>4, <1>5, <1>6 DEF IsGiven

(* Channels and the waiting frame are dropped, the pipe loses its head.     *)
LEMMA GivenDropped ==
    ASSUME NEW b \in [Calls -> Seq(Calls \X Nat)], NEW q \in [Calls -> Seq(Frame)],
           NEW h \in Seq(Frame), NEW p \in Seq(Frame), NEW n,
           NEW r \in [Calls -> Seq(Frame)], \A c \in Calls : r[c] \in {q[c], << >>},
           NEW k \in Seq(Frame), k \in {h, << >>}, NEW s \in Seq(Frame), NEW m \in Nat, Cut(p, m, s),
           HandedOver(GivenOf(b, q, h), p, n)
    PROVE  HandedOver(GivenOf(b, r, k), s, n)
<1> DEFINE g == GivenOf(b, q, h)
           w == GivenOf(b, r, k)
<1>1. /\ g \in [Readers -> Seq(Calls \X Nat)] /\ g[NoCall] = Keys(h)
      /\ \A c \in Calls : g[c] = b[c] \o Keys(q[c])
      /\ \A c \in Readers : Len(g[c]) \in Nat
  <2>1. IsGiven(g, b, q, h)
    BY GivenType, Zenon
  <2> QED
    BY <2>1 DEF IsGiven
<1>5. /\ w \in [Readers -> Seq(Calls \X Nat)] /\ w[NoCall] = Keys(k)
      /\ \A c \in Calls : w[c] = b[c] \o Keys(r[c])
      /\ \A c \in Readers : Len(w[c]) \in Nat
  <2>1. IsGiven(w, b, r, k)
    BY GivenType, Zenon
  <2> QED
    BY <2>1 DEF IsGiven
<1> HIDE DEF g, w
<1>2. ASSUME NEW c \in Calls PROVE Begins(w[c], g[c])
  <2>1. CASE r[c] = q[c]
    <3>1. w[c] = g[c] /\ Len(g[c]) \in Nat
      BY <1>1, <1>5, <2>1 DEF Readers
    <3> QED
      BY <3>1 DEF Begins
  <2>2. CASE r[c] = << >>
    <3>1. b[c] \in Seq(Calls \X Nat) /\ q[c] \in Seq(Frame)
      OBVIOUS
    <3>2. Begins(b[c] \o Keys(<< >>), b[c] \o Keys(q[c]))
      BY <3>1, GivenMoves, Zenon
    <3>3. w[c] = b[c] \o Keys(<< >>) /\ g[c] = b[c] \o Keys(q[c])
      BY <1>1, <1>5, <2>2
    <3> QED
      BY <3>2, <3>3, Zenon
  <2> QED
    BY <2>1, <2>2
<1>3. Begins(w[NoCall], g[NoCall])
  <2>1. CASE k = h
    <3>1. w[NoCall] = g[NoCall] /\ Len(g[NoCall]) \in Nat
      BY <1>1, <1>5, <2>1 DEF Readers
    <3> QED
      BY <3>1 DEF Begins
  <2>2. CASE k = << >>
    <3>1. Len(Keys(<< >>)) = 0
      BY KeysType, NoFrames, EmptySeq
    <3>2. w[NoCall] = Keys(<< >>) /\ Len(g[NoCall]) \in Nat
      BY <1>1, <1>5, <2>2 DEF Readers
    <3>3. Len(w[NoCall]) = 0
      BY <3>1, <3>2
    <3> QED
      BY <3>2, <3>3 DEF Begins
  <2> QED
    BY <2>1, <2>2
<1>4. \A c \in Readers : Begins(w[c], g[c])
  BY <1>2, <1>3 DEF Readers
<1>6. HandedOver(g, p, n)
  BY DEF g
<1> QED
  BY <1>1, <1>4, <1>5, <1>6, HandedLess, Zenon DEF w

(* A reader reads the first frame of its channel.                           *)
LEMMA GivenRead ==
    ASSUME NEW b \in [Calls -> Seq(Calls \X Nat)], NEW q \in [Calls -> Seq(Frame)],
           NEW h \in Seq(Frame), NEW p \in Seq(Frame), NEW n, NEW c \in Calls, q[c] # << >>,
           NEW t \in {Tail(q[c]), << >>}, HandedOver(GivenOf(b, q, h), p, n)
    PROVE  HandedOver(GivenOf([b EXCEPT ![c] = Append(@, Key(Head(q[c])))],
                              [q EXCEPT ![c] = t], h), p, n)
<1>1. b[c] \in Seq(Calls \X Nat) /\ q[c] \in Seq(Frame) /\ Head(q[c]) \in Frame /\ t \in Seq(Frame)
  <2>1. b[c] \in Seq(Calls \X Nat) /\ q[c] \in Seq(Frame)
    OBVIOUS
  <2>2. Head(q[c]) \in Frame /\ Tail(q[c]) \in Seq(Frame)
    BY <2>1, Beheaded
  <2> QED
    BY <2>1, <2>2, NoFrames
<1>2. Key(Head(q[c])) \in Calls \X Nat
  BY <1>1, KeyType
<1>3. PICK a \in [Calls -> Seq(Calls \X Nat)], r \in [Calls -> Seq(Frame)] :
         a = [b EXCEPT ![c] = Append(@, Key(Head(q[c])))] /\ r = [q EXCEPT ![c] = t]
  <2>1. Append(b[c], Key(Head(q[c]))) \in Seq(Calls \X Nat)
    BY <1>1, <1>2, Appended, Zenon
  <2>2. [b EXCEPT ![c] = Append(@, Key(Head(q[c])))] \in [Calls -> Seq(Calls \X Nat)]
    BY <2>1
  <2>3. [q EXCEPT ![c] = t] \in [Calls -> Seq(Frame)]
    BY <1>1
  <2> QED
    BY <2>2, <2>3, Zenon
<1>4. /\ a[c] = Append(b[c], Key(Head(q[c]))) /\ r[c] = t
      /\ \A d \in Calls \ {c} : a[d] = b[d] /\ r[d] = q[d]
  BY <1>3
<1> DEFINE g == GivenOf(b, q, h)
           w == GivenOf(a, r, h)
<1>5. /\ g \in [Readers -> Seq(Calls \X Nat)] /\ g[NoCall] = Keys(h)
      /\ \A d \in Calls : g[d] = b[d] \o Keys(q[d])
      /\ \A d \in Readers : Len(g[d]) \in Nat
  <2>1. IsGiven(g, b, q, h)
    BY GivenType, Zenon
  <2> QED
    BY <2>1 DEF IsGiven
<1>10. /\ w \in [Readers -> Seq(Calls \X Nat)] /\ w[NoCall] = Keys(h)
       /\ \A d \in Calls : w[d] = a[d] \o Keys(r[d])
       /\ \A d \in Readers : Len(w[d]) \in Nat
  <2>1. IsGiven(w, a, r, h)
    BY GivenType, Zenon
  <2> QED
    BY <2>1 DEF IsGiven
<1>12. HandedOver(g, p, n)
  OBVIOUS
<1> HIDE DEF g, w
<1>6. Begins(w[c], g[c])
  <2>1. /\ Begins(Append(b[c], Key(Head(q[c]))) \o Keys(Tail(q[c])), b[c] \o Keys(q[c]))
        /\ Begins(Append(b[c], Key(Head(q[c]))) \o Keys(<< >>), b[c] \o Keys(q[c]))
    BY <1>1, GivenMoves, Zenon
  <2>2. w[c] = Append(b[c], Key(Head(q[c]))) \o Keys(t) /\ g[c] = b[c] \o Keys(q[c])
    BY <1>4, <1>5, <1>10, Zenon
  <2> QED
    BY <2>1, <2>2, Zenon
<1>7. ASSUME NEW d \in Readers, d # c PROVE w[d] = g[d]
  <2>1. CASE d = NoCall
    BY <1>5, <1>10, <2>1
  <2>2. CASE d \in Calls
    <3>1. a[d] = b[d] /\ r[d] = q[d]
      BY <1>4, <1>7, <2>2
    <3> QED
      BY <1>5, <1>10, <2>2, <3>1, Zenon
  <2> QED
    BY <2>1, <2>2 DEF Readers
<1>8. ASSUME NEW d \in Readers, d # c PROVE Begins(w[d], g[d])
  <2>1. w[d] = g[d] /\ Len(g[d]) \in Nat
    BY <1>5, <1>7, <1>8
  <2> QED
    BY <2>1 DEF Begins
<1>9. \A d \in Readers : Begins(w[d], g[d])
  BY <1>6, <1>8
<1>11. 0 \in Nat
  OBVIOUS
<1> QED
  BY <1>3, <1>5, <1>9, <1>10, <1>11, <1>12, HandedLess, NoCut, Zenon DEF w

(* The head of the pipe is put into the channel of a reader, or waits.      *)
LEMMA GivenTaken ==
    ASSUME NEW b \in [Calls -> Seq(Calls \X Nat)], NEW q \in [Calls -> Seq(Frame)],
           NEW h \in Seq(Frame), NEW p \in Seq(Frame), NEW n \in [Calls -> Nat], p # << >>,
           HandedOver(GivenOf(b, q, h), p, n)
    PROVE  /\ \A c \in Calls :
                 HandedOver(GivenOf(b, [q EXCEPT ![c] = Append(@, Head(p))], h), Tail(p), n)
           /\ h = << >> => HandedOver(GivenOf(b, q, <<Head(p)>>), Tail(p), n)
<1>1. PICK f \in Frame : f = Head(p)
  OBVIOUS
<1> DEFINE g == GivenOf(b, q, h)
<1>2. /\ g \in [Readers -> Seq(Calls \X Nat)]
      /\ g[NoCall] = Keys(h) /\ \A d \in Calls : g[d] = b[d] \o Keys(q[d])
  <2>1. IsGiven(g, b, q, h)
    BY GivenType, Zenon
  <2> QED
    BY <2>1 DEF IsGiven
<1>14. NoCall \in Readers /\ Calls \subseteq Readers
  BY DEF Readers
<1>3. ASSUME NEW c \in Calls
      PROVE  HandedOver(GivenOf(b, [q EXCEPT ![c] = Append(@, Head(p))], h), Tail(p), n)
  <2>10. Append(q[c], f) \in Seq(Frame)
    OBVIOUS
  <2>1. PICK r \in [Calls -> Seq(Frame)] : r = [q EXCEPT ![c] = Append(@, f)]
    BY <2>10
  <2>2. r[c] = Append(q[c], f) /\ \A d \in Calls \ {c} : r[d] = q[d]
    BY <2>1
  <2> DEFINE w == GivenOf(b, r, h)
  <2>3. /\ w \in [Readers -> Seq(Calls \X Nat)]
        /\ w[NoCall] = Keys(h) /\ \A d \in Calls : w[d] = b[d] \o Keys(r[d])
    <3>1. IsGiven(w, b, r, h)
      BY GivenType, Zenon
    <3> QED
      BY <3>1 DEF IsGiven
  <2>4. w[c] = Append(g[c], Key(f))
    <3>1. b[c] \in Seq(Calls \X Nat) /\ q[c] \in Seq(Frame)
      OBVIOUS
    <3>2. b[c] \o Keys(Append(q[c], f)) = Append(b[c] \o Keys(q[c]), Key(f))
      BY <3>1, GivenMoves, Zenon
    <3> QED
      BY <1>2, <2>2, <2>3, <3>1, <3>2, Zenon
  <2>5. \A d \in Readers \ {c} : w[d] = g[d]
    BY <1>2, <2>2, <2>3 DEF Readers
  <2>6. w = [g EXCEPT ![c] = Append(@, Key(f))]
    BY <1>2, <2>3, <2>4, <2>5
  <2>7. HandedOver([g EXCEPT ![c] = Append(@, Key(Head(p)))], Tail(p), n)
    BY <1>2, <1>14, HandedTake, Zenon
  <2> QED
    BY <1>1, <2>1, <2>6, <2>7
<1>4. ASSUME h = << >> PROVE HandedOver(GivenOf(b, q, <<Head(p)>>), Tail(p), n)
  <2>1. PICK k \in Seq(Frame) : k = <<f>>
    BY OneFrameSeq
  <2> DEFINE w == GivenOf(b, q, k)
  <2>2. /\ w \in [Readers -> Seq(Calls \X Nat)]
        /\ w[NoCall] = Keys(k) /\ \A d \in Calls : w[d] = b[d] \o Keys(q[d])
    <3>1. IsGiven(w, b, q, k)
      BY GivenType, Zenon
    <3> QED
      BY <3>1 DEF IsGiven
  <2>3. Keys(k) = Append(g[NoCall], Key(f))
    <3>1. Keys(<< >>) = << >>
      BY EmptySeq DEF Keys
    <3>2. Len(k) = 1 /\ k[1] = f
      BY <2>1
    <3>3. Keys(k) = <<Key(f)>>
      BY <3>2 DEF Keys
    <3> QED
      BY <1>2, <1>4, <3>1, <3>3
  <2>4. \A d \in Readers \ {NoCall} : w[d] = g[d]
    BY <1>2, <2>2 DEF Readers
  <2>5. w = [g EXCEPT ![NoCall] = Append(@, Key(f))]
    BY <1>2, <2>2, <2>3, <2>4
  <2>6. HandedOver([g EXCEPT ![NoCall] = Append(@, Key(Head(p)))], Tail(p), n)
    BY <1>2, <1>14, HandedTake, Zenon
  <2> QED
    BY <1>1, <2>1, <2>5, <2>6
<1> QED
  BY <1>3, <1>4

(* The frame that waited is put into the channel of a reader.               *)
LEMMA GivenMoved ==
    ASSUME NEW b \in [Calls -> Seq(Calls \X Nat)], NEW q \in [Calls -> Seq(Frame)],
           NEW h \in Seq(Frame), NEW p \in Seq(Frame), NEW n \in [Calls -> Nat], h # << >>,
           HandedOver(GivenOf(b, q, h), p, n), NEW c \in Calls
    PROVE  HandedOver(GivenOf(b, [q EXCEPT ![c] = Append(@, Head(h))], << >>), p, n)
<1>1. PICK f \in Frame : f = Head(h) /\ f = h[1] /\ Len(h) \in Nat /\ 1 \in 1 .. Len(h)
  BY Beheaded
<1> DEFINE g == GivenOf(b, q, h)
<1>2. /\ g \in [Readers -> Seq(Calls \X Nat)]
      /\ g[NoCall] = Keys(h) /\ \A d \in Calls : g[d] = b[d] \o Keys(q[d])
  <2>1. IsGiven(g, b, q, h)
    BY GivenType, Zenon
  <2> QED
    BY <2>1 DEF IsGiven
<1>13. Append(q[c], f) \in Seq(Frame)
  OBVIOUS
<1>3. PICK r \in [Calls -> Seq(Frame)] : r = [q EXCEPT ![c] = Append(@, f)]
  BY <1>13
<1>4. r[c] = Append(q[c], f) /\ \A d \in Calls \ {c} : r[d] = q[d]
  BY <1>3
<1>14. PICK z \in Seq(Frame) : z = << >>
  BY NoFrames, Zenon
<1> DEFINE w == GivenOf(b, r, z)
<1>5. /\ w \in [Readers -> Seq(Calls \X Nat)]
      /\ w[NoCall] = Keys(z) /\ \A d \in Calls : w[d] = b[d] \o Keys(r[d])
  <2>1. IsGiven(w, b, r, z)
    BY GivenType, Zenon
  <2> QED
    BY <2>1 DEF IsGiven
<1>6. w[c] = Append(g[c], Key(f))
  <2>1. b[c] \in Seq(Calls \X Nat) /\ q[c] \in Seq(Frame)
    OBVIOUS
  <2>2. b[c] \o Keys(Append(q[c], f)) = Append(b[c] \o Keys(q[c]), Key(f))
    BY <2>1, GivenMoves, Zenon
  <2> QED
    BY <1>2, <1>4, <1>5, <2>1, <2>2, Zenon
<1>7. g[NoCall] # << >> /\ Head(g[NoCall]) = Key(f)
  <2>1. /\ Keys(h) \in Seq(Calls \X Nat) /\ Len(Keys(h)) = Len(h)
        /\ \A i \in 1 .. Len(h) : Keys(h)[i] = Key(h[i])
    BY KeysType
  <2>2. Len(Keys(h)) \in Nat /\ Len(Keys(h)) > 0 /\ Keys(h)[1] = Key(f)
    BY <1>1, <2>1, SMTT(30)
  <2>3. Keys(h) # << >>
    BY <2>2, EmptySeq
  <2>4. Head(Keys(h)) = Keys(h)[1]
    BY <2>1, <2>3, Beheaded
  <2> QED
    BY <1>2, <2>2, <2>3, <2>4
<1>8. w[NoCall] = << >>
  BY <1>5, <1>14, EmptySeq DEF Keys
<1>9. \A d \in Readers \ {c, NoCall} : w[d] = g[d]
  BY <1>2, <1>4, <1>5 DEF Readers
<1>10. c # NoCall /\ c \in Readers /\ NoCall \in Readers
  BY FramesAssumption DEF Readers
<1>11. w = [g EXCEPT ![NoCall] = << >>, ![c] = Append(@, Head(g[NoCall]))]
  BY <1>2, <1>5, <1>6, <1>7, <1>8, <1>9, <1>10
<1>12. HandedOver([g EXCEPT ![NoCall] = << >>, ![c] = Append(@, Head(g[NoCall]))], p, n)
  BY <1>2, <1>7, HandedMove, Zenon
<1> QED
  BY <1>1, <1>3, <1>11, <1>12, <1>14

----------------------------------------------------------------------------
(* The frames of requests.                                                  *)
RequestsGiven == GivenOf(taskBody, taskChan, srvHeld)

RequestsHanded == HandedOver(RequestsGiven, RequestPipe, sent)

(* What is lost with a connection is lost from the front of the pipes.      *)
WiresLost == (~Connected => c2s = << >>) /\ (link = "down" => s2c = << >>)

RequestsTyped ==
    /\ taskBody \in [Calls -> Seq(Calls \X Nat)] /\ taskChan \in [Calls -> Seq(Frame)]
    /\ srvHeld \in Seq(Frame) /\ RequestPipe \in Seq(Frame) /\ sent \in [Calls -> Nat]
    /\ c2s \in Seq(Frame) /\ outChunk \in Seq(Frame) /\ outQueue \in Seq(Frame)

LEMMA RequestsType == TypeOK => RequestsTyped
<1> SUFFICES ASSUME TypeOK PROVE RequestsTyped
  OBVIOUS
<1>1. RequestPipe \in Seq(Frame)
  BY RequestTypes DEF RequestTypesOK
<1> QED
  BY <1>1 DEF RequestsTyped, TypeOK, ClientTypeOK, ServerTypeOK, WiresTypeOK

requestHandVars == <<taskBody, taskChan, srvHeld, c2s, outChunk, outQueue, sent>>

LEMMA RequestsStay == RequestsHanded /\ UNCHANGED requestHandVars => RequestsHanded'
<1> SUFFICES ASSUME RequestsHanded, UNCHANGED requestHandVars PROVE RequestsHanded'
  OBVIOUS
<1>1. RequestsGiven' = RequestsGiven
  BY DEF requestHandVars, RequestsGiven, GivenOf
<1>2. RequestPipe' = RequestPipe /\ sent' = sent
  BY DEF requestHandVars, RequestPipe
<1> QED
  BY <1>1, <1>2 DEF RequestsHanded

(* Nothing new is given; channels and the head of the pipe may be lost.     *)
LEMMA RequestsLost ==
    ASSUME RequestsTyped, RequestsTyped', RequestsHanded, UNCHANGED <<taskBody, sent>>,
           \A c \in Calls : taskChan'[c] \in {taskChan[c], << >>}, srvHeld' \in {srvHeld, << >>},
           NEW m \in Nat, Cut(RequestPipe, m, RequestPipe')
    PROVE  RequestsHanded'
<1>1. /\ taskBody \in [Calls -> Seq(Calls \X Nat)] /\ taskChan \in [Calls -> Seq(Frame)]
      /\ srvHeld \in Seq(Frame) /\ RequestPipe \in Seq(Frame)
      /\ taskChan' \in [Calls -> Seq(Frame)] /\ srvHeld' \in Seq(Frame) /\ RequestPipe' \in Seq(Frame)
  BY DEF RequestsTyped
<1>2. HandedOver(GivenOf(taskBody, taskChan, srvHeld), RequestPipe, sent)
  BY DEF RequestsHanded, RequestsGiven
<1>3. HandedOver(GivenOf(taskBody, taskChan', srvHeld'), RequestPipe', sent)
  BY <1>1, <1>2, GivenDropped
<1> QED
  BY <1>3 DEF RequestsHanded, RequestsGiven

LEMMA RequestsSent ==
    ASSUME TypeOK, TypeOK', RequestsHanded, NEW c \in Calls, SendFrame(c), UNCHANGED serverVars
    PROVE  RequestsHanded'
<1>1. /\ outQueue' = Append(outQueue, RequestFrame(c, id[c], sent[c] + 1))
      /\ sent' = [sent EXCEPT ![c] = @ + 1]
      /\ UNCHANGED <<taskBody, taskChan, srvHeld, c2s, outChunk>>
  BY DEF SendFrame, serverVars, taskVars
<1>2. RequestsTyped /\ id[c] \in Ids
  BY RequestsType DEF TypeOK, ClientTypeOK
<1>3. sent[c] + 1 \in Nat /\ sent[c] + 1 > 0
  BY <1>2, SMTT(30) DEF RequestsTyped
<1>4. PICK f \in Frame : f = RequestFrame(c, id[c], sent[c] + 1)
  BY <1>2, <1>3, RequestFrameType
<1>5. f.from = c /\ f.seq = sent[f.from] + 1
  BY <1>2, <1>3, <1>4, RequestFrameFields
<1>6. RequestPipe' = Append(RequestPipe, f)
  <2>1. c2s \in Seq(Frame) /\ outChunk \in Seq(Frame) /\ outQueue \in Seq(Frame)
    BY <1>2 DEF RequestsTyped
  <2>2. (c2s \o outChunk) \o Append(outQueue, f) = Append((c2s \o outChunk) \o outQueue, f)
    BY <1>4, <2>1, PipeMoves
  <2>3. outQueue' = Append(outQueue, f) /\ UNCHANGED <<c2s, outChunk>>
    BY <1>1, <1>4
  <2> QED
    BY <2>2, <2>3 DEF RequestPipe
<1>7. RequestsGiven \in [Readers -> Seq(Calls \X Nat)]
  BY <1>2, GivenType DEF RequestsTyped, RequestsGiven, IsGiven
<1>8. HandedOver(RequestsGiven, Append(RequestPipe, f), [sent EXCEPT ![f.from] = @ + 1])
  <2>1. RequestPipe \in Seq(Frame) /\ sent \in [Calls -> Nat]
    BY <1>2 DEF RequestsTyped
  <2>2. HandedOver(RequestsGiven, RequestPipe, sent)
    BY DEF RequestsHanded
  <2> QED
    BY <1>5, <1>7, <2>1, <2>2, HandedSend, Zenon
<1>9. RequestsGiven' = RequestsGiven
  BY <1>1 DEF RequestsGiven, GivenOf
<1> QED
  BY <1>1, <1>5, <1>6, <1>8, <1>9 DEF RequestsHanded

LEMMA RequestsWritten ==
    ASSUME TypeOK, TypeOK', WiresLost, RequestsHanded, ClientWrites
    PROVE  RequestsHanded'
<1>1. RequestsTyped /\ UNCHANGED <<taskBody, taskChan, srvHeld, sent>>
  BY RequestsType DEF ClientWrites, serverVars, taskVars, callVars
<1>2. RequestsTyped'
  BY RequestsType, PTL
<1>3. PICK m \in Nat : Cut(RequestPipe, m, RequestPipe')
  <2>1. c2s \in Seq(Frame) /\ outChunk \in Seq(Frame) /\ outQueue \in Seq(Frame)
    BY <1>1 DEF RequestsTyped
  <2>2. Cut(RequestPipe, 0, RequestPipe)
    BY <1>1, NoCut DEF RequestsTyped
  <2>3. CASE Writer!TakeChunk
    <3> DEFINE n == IF Len(outQueue) < BufferSize THEN Len(outQueue) ELSE BufferSize
    <3>1. n \in 0 .. Len(outQueue)
      BY <2>1, FramesAssumption
    <3>2. /\ outChunk = << >> /\ c2s' = c2s
          /\ outChunk' = SubSeq(outQueue, 1, n)
          /\ outQueue' = SubSeq(outQueue, n + 1, Len(outQueue))
      BY <2>3 DEF Writer!TakeChunk
    <3> HIDE DEF n
    <3>3. RequestPipe' = RequestPipe
      BY <2>1, <3>1, <3>2, PipeChunk DEF RequestPipe
    <3> QED
      BY <2>2, <3>3
  <2>4. CASE Writer!WriteFrame
    <3>1. /\ outChunk # << >> /\ c2s' = Append(c2s, Head(outChunk))
          /\ outChunk' = Tail(outChunk) /\ outQueue' = outQueue
      BY <2>4 DEF Writer!WriteFrame
    <3>2. RequestPipe' = RequestPipe
      BY <2>1, <3>1, PipeMoves DEF RequestPipe
    <3> QED
      BY <2>2, <3>2
  <2>5. CASE (link = "down" \/ stream = "failed") /\ Writer!WriteError
    <3>1. /\ outChunk # << >> /\ outChunk' = Tail(outChunk) /\ outQueue' = outQueue /\ c2s' = c2s
      BY <2>5 DEF Writer!WriteError
    <3>2. c2s = << >>
      BY <2>5 DEF WiresLost, Connected
    <3>3. Cut(RequestPipe, 1, RequestPipe')
      BY <2>1, <3>1, <3>2, PipeCuts DEF RequestPipe
    <3> QED
      BY <3>3
  <2> QED
    BY <2>3, <2>4, <2>5 DEF ClientWrites
<1> QED
  BY <1>1, <1>2, <1>3, RequestsLost

(* The wire breaks, or the server drops its side of the connection.         *)
LEMMA RequestsCut ==
    ASSUME TypeOK, TypeOK', RequestsHanded,
           UNCHANGED <<taskBody, sent, outChunk, outQueue>>, c2s' = << >>,
           \A c \in Calls : taskChan'[c] \in {taskChan[c], << >>}, srvHeld' \in {srvHeld, << >>}
    PROVE  RequestsHanded'
<1>1. RequestsTyped
  BY RequestsType
<1>2. RequestsTyped'
  BY RequestsType, PTL
<1>3. Cut(RequestPipe, Len(c2s), RequestPipe') /\ Len(c2s) \in Nat
  BY <1>1, PipeCuts DEF RequestPipe, RequestsTyped
<1> QED
  BY <1>1, <1>2, <1>3, RequestsLost

LEMMA RequestsFail ==
    ASSUME TypeOK, TypeOK', RequestsHanded, FailConnection, UNCHANGED clientVars
    PROVE  RequestsHanded'
<1>1. /\ UNCHANGED <<taskBody, sent, outChunk, outQueue>> /\ c2s' = << >> /\ srvHeld' = << >>
      /\ taskChan' = [c \in Calls |-> << >>]
  BY DEF FailConnection, clientVars, callVars
<1> QED
  BY <1>1, RequestsCut

LEMMA RequestsRead ==
    ASSUME TypeOK, TypeOK', RequestsHanded, NEW c \in Calls, TaskStep(c)
    PROVE  RequestsHanded'
<1>1. UNCHANGED clientVars /\ UNCHANGED <<sent, outChunk, outQueue>>
  BY DEF TaskStep, clientVars, callVars
<1>2. CASE FailConnection
  BY <1>1, <1>2, RequestsFail
<1>3. CASE ~FailConnection /\ ReadRequest(c)
  <2>1. RequestsTyped /\ taskChan[c] # << >>
    BY <1>3, RequestsType DEF ReadRequest
  <2>2. /\ UNCHANGED <<srvHeld, c2s>>
        /\ taskBody' = [taskBody EXCEPT ![c] = Append(@, Key(Head(taskChan[c])))]
        /\ \E t \in {Tail(taskChan[c]), << >>} : taskChan' = [taskChan EXCEPT ![c] = t]
    BY <1>3 DEF ReadRequest, Key
  <2>3. PICK t \in {Tail(taskChan[c]), << >>} : taskChan' = [taskChan EXCEPT ![c] = t]
    BY <2>2
  <2>4. HandedOver(GivenOf(taskBody, taskChan, srvHeld), RequestPipe, sent)
    BY DEF RequestsHanded, RequestsGiven
  <2>5. HandedOver(GivenOf([taskBody EXCEPT ![c] = Append(@, Key(Head(taskChan[c])))],
                           [taskChan EXCEPT ![c] = t], srvHeld), RequestPipe, sent)
    <3>1. /\ taskBody \in [Calls -> Seq(Calls \X Nat)] /\ taskChan \in [Calls -> Seq(Frame)]
          /\ srvHeld \in Seq(Frame) /\ RequestPipe \in Seq(Frame)
      BY <2>1 DEF RequestsTyped
    <3> QED
      BY <2>1, <2>4, <3>1, GivenRead, Zenon
  <2>6. RequestPipe' = RequestPipe /\ sent' = sent /\ srvHeld' = srvHeld
    BY <1>1, <2>2 DEF RequestPipe
  <2> QED
    BY <2>2, <2>3, <2>5, <2>6 DEF RequestsHanded, RequestsGiven
<1>4. CASE ~FailConnection /\ ~ReadRequest(c)
  <2>1. UNCHANGED requestHandVars
    BY <1>1, <1>4 DEF TaskStep, Deregister, Route, LockHandler, HandlerReturns, SendResponse,
       requestHandVars
  <2> QED
    BY <2>1, RequestsStay
<1> QED
  BY <1>2, <1>3, <1>4

(* Dispatch gives the next frame to a task or keeps it while it waits; a    *)
(* new task has nothing yet.                                                *)
LEMMA RequestsDispatched ==
    ASSUME TypeOK, TypeOK', IdInv, RequestsHanded, StreamStep
    PROVE  RequestsHanded'
<1>1. UNCHANGED clientVars /\ UNCHANGED <<sent, outChunk, outQueue>>
  BY DEF StreamStep, clientVars, callVars
<1>2. CASE FailConnection
  BY <1>1, <1>2, RequestsFail
<1>3. RequestsTyped
  BY RequestsType
<1>4. /\ taskBody \in [Calls -> Seq(Calls \X Nat)] /\ taskChan \in [Calls -> Seq(Frame)]
      /\ srvHeld \in Seq(Frame) /\ RequestPipe \in Seq(Frame) /\ sent \in [Calls -> Nat]
      /\ HandedOver(GivenOf(taskBody, taskChan, srvHeld), RequestPipe, sent)
  BY <1>3 DEF RequestsTyped, RequestsHanded, RequestsGiven
<1>5. CASE ~FailConnection /\ Dispatch
  <2>1. c2s # << >> /\ srvHeld = << >>
    BY <1>5 DEF Dispatch
  <2>2. PICK f \in Frame, t \in Calls \cup {NoCall} : f = Head(c2s) /\ t = srvSenders[f.id]
    <3>1. Head(c2s) \in Frame
      BY <1>3, <2>1, Beheaded DEF RequestsTyped
    <3>2. Head(c2s).id \in Ids
      BY <3>1 DEF Frame
    <3>3. srvSenders[Head(c2s).id] \in Calls \cup {NoCall}
      BY <3>2, SMTT(30) DEF TypeOK, ServerTypeOK
    <3> QED
      BY <3>1, <3>3, Zenon
  <2>3. /\ c2s' = Tail(c2s) /\ UNCHANGED taskBody
        /\ \/ task[f.from] = "none" /\ taskChan' = [taskChan EXCEPT ![f.from] = <<f>>] /\ UNCHANGED srvHeld
           \/ t # NoCall /\ taskChan' = [taskChan EXCEPT ![t] = Append(@, f)] /\ UNCHANGED srvHeld
           \/ UNCHANGED taskChan /\ srvHeld' = <<f>>
    BY <1>5, <2>2 DEF Dispatch, taskVars
  <2>4. RequestPipe # << >> /\ Head(RequestPipe) = f /\ RequestPipe' = Tail(RequestPipe)
    <3>1. c2s \in Seq(Frame) /\ outChunk \in Seq(Frame) /\ outQueue \in Seq(Frame)
      BY <1>3 DEF RequestsTyped
    <3>2. /\ (c2s \o outChunk) \o outQueue # << >>
          /\ Head((c2s \o outChunk) \o outQueue) = Head(c2s)
          /\ (Tail(c2s) \o outChunk) \o outQueue = Tail((c2s \o outChunk) \o outQueue)
      BY <2>1, <3>1, PipeMoves, ZenonT(40)
    <3> QED
      BY <1>1, <2>2, <2>3, <3>2 DEF RequestPipe
  <2>5. /\ \A c \in Calls : HandedOver(GivenOf(taskBody, [taskChan EXCEPT ![c] = Append(@, f)], srvHeld),
                                       Tail(RequestPipe), sent)
        /\ HandedOver(GivenOf(taskBody, taskChan, <<f>>), Tail(RequestPipe), sent)
    BY <1>4, <2>1, <2>4, GivenTaken, Zenon
  <2>6. CASE UNCHANGED taskChan /\ srvHeld' = <<f>>
    BY <1>1, <2>3, <2>4, <2>5, <2>6 DEF RequestsHanded, RequestsGiven
  <2>7. CASE t # NoCall /\ taskChan' = [taskChan EXCEPT ![t] = Append(@, f)] /\ UNCHANGED srvHeld
    BY <1>1, <2>2, <2>3, <2>4, <2>5, <2>7 DEF RequestsHanded, RequestsGiven
  <2>8. CASE task[f.from] = "none" /\ taskChan' = [taskChan EXCEPT ![f.from] = <<f>>] /\ UNCHANGED srvHeld
    <3>1. f.from \in Calls
      BY DEF Frame
    <3>2. taskChan[f.from] = << >>
      BY <2>8, <3>1 DEF IdInv, TaskHolds
    <3>3. Append(taskChan[f.from], f) = <<f>>
      BY <3>2
    <3>4. taskChan' = [taskChan EXCEPT ![f.from] = Append(@, f)]
      BY <2>8, <3>3
    <3> QED
      BY <1>1, <2>3, <2>4, <2>5, <2>8, <3>1, <3>4 DEF RequestsHanded, RequestsGiven
  <2> QED
    BY <2>3, <2>6, <2>7, <2>8
<1>6. CASE ~FailConnection /\ SrvDispatchResume
  <2>1. PICK f, t : /\ f = Head(srvHeld) /\ t = srvSenders[f.id] /\ task[t] = "reading"
                    /\ srvHeld # << >> /\ srvHeld' = << >>
                    /\ taskChan' = [taskChan EXCEPT ![t] = Append(@, f)]
                    /\ UNCHANGED <<taskBody, c2s>>
    BY <1>6 DEF SrvDispatchResume
  <2>2. RequestPipe' = RequestPipe /\ sent' = sent /\ taskBody' = taskBody
    BY <1>1, <2>1 DEF RequestPipe
  <2>3. CASE t \in Calls
    <3>1. HandedOver(GivenOf(taskBody, [taskChan EXCEPT ![t] = Append(@, f)], << >>), RequestPipe, sent)
      BY <1>4, <2>1, <2>3, GivenMoved, Zenon
    <3> QED
      BY <2>1, <2>2, <3>1 DEF RequestsHanded, RequestsGiven
  <2>4. CASE t \notin Calls
    <3>1. taskChan' = taskChan
      BY <1>4, <2>1, <2>4
    <3>2. RequestsTyped'
      BY RequestsType, PTL
    <3>3. Cut(RequestPipe, 0, RequestPipe') /\ 0 \in Nat
      BY <1>4, <2>2, NoCut
    <3> QED
      BY <1>3, <2>1, <2>2, <3>1, <3>2, <3>3, RequestsLost
  <2> QED
    BY <2>3, <2>4
<1>7. CASE ~FailConnection /\ StreamEnds
  <2>1. UNCHANGED requestHandVars
    BY <1>1, <1>7 DEF StreamEnds, requestHandVars, taskVars
  <2> QED
    BY <2>1, RequestsStay
<1> QED
  BY <1>2, <1>5, <1>6, <1>7 DEF StreamStep

LEMMA RequestsHandedStep ==
    ASSUME TypeOK, TypeOK', IdInv, WiresLost, RequestsHanded, [Next]_vars
    PROVE  RequestsHanded'
<1>1. ASSUME NEW c \in Calls, CallStep(c) PROVE RequestsHanded'
  <2>1. CASE SendFrame(c)
    BY <1>1, <2>1, RequestsSent DEF CallStep
  <2>2. CASE ~SendFrame(c)
    <3>1. UNCHANGED requestHandVars
      BY <1>1, <2>2 DEF CallStep, TakeId, Register, ReceiveFrame, ReceiveNone, Close, StopReading,
         serverVars, taskVars, requestHandVars
    <3> QED
      BY <3>1, RequestsStay
  <2> QED
    BY <2>1, <2>2
<1>2. ASSUME NEW c \in Calls, TaskStep(c) PROVE RequestsHanded'
  BY <1>2, RequestsRead
<1>3. CASE ClientWrites
  BY <1>3, RequestsWritten
<1>4. CASE StreamStep
  BY <1>4, RequestsDispatched
<1>5. CASE Disconnect
  <2>1. /\ UNCHANGED <<taskBody, taskChan, srvHeld, sent, outChunk, outQueue>> /\ c2s' = << >>
    BY <1>5 DEF Disconnect, clientVars, callVars, serverVars, taskVars
  <2> QED
    BY <2>1, RequestsCut
<1>6. CASE \/ ServerWrites \/ ReceiverStep \/ UNCHANGED vars
           \/ \E c \in Calls : Cancel(c) /\ UNCHANGED serverVars
  <2>1. UNCHANGED requestHandVars
    BY <1>6 DEF ServerWrites, ReceiverStep, DispatchFollowing, DispatchResume, Cancel, vars,
       clientVars, callVars, serverVars, taskVars, requestHandVars
  <2> QED
    BY <2>1, RequestsStay, SMTT(30)
<1> QED
  BY <1>1, <1>2, <1>3, <1>4, <1>5, <1>6 DEF Next, Progress, Fault
=============================================================================
