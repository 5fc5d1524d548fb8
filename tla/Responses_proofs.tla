-------------------------- MODULE Responses_proofs --------------------------
(***************************************************************************)
(* A call that returns a response returns its own, whole and in order; once *)
(* every call is answered nothing is left behind; and the connection        *)
(* implements the abstract service, for any number of calls, any lengths of *)
(* messages and any capacities, as long as the counter of message ids does  *)
(* not wrap around.                                                         *)
(*                                                                         *)
(* The frames of the responses are a pipe like the one of the requests.     *)
(* What leaves it may be dropped, once nobody listens any more.             *)
(*                                                                         *)
(* The last part needs no bound on ids: no frame is read twice, and no      *)
(* handler is run twice for a call.                                         *)
(***************************************************************************)
EXTENDS Requests_proofs

ResponsePipe == (s2c \o srvChunk) \o srvQueue

(* How many frames of the response of each call have left the pipe for it.  *)
Received ==
    [c \in Calls |-> Len(got[c]) + Len(chan[c]) + Waiting(held, c)]

(* How far a task is with its response: the handler has run exactly once    *)
(* before the first frame of the response is sent.                          *)
AnswerInv(c) ==
    /\ taskSent[c] <= ResponseLen(c)
    /\ task[c] \in {"none", "reading", "deregistering", "routing", "locking"} =>
          runs[c] = 0 /\ taskSent[c] = 0
    /\ task[c] = "handling" => runs[c] = 1 /\ taskSent[c] = 0
    /\ task[c] = "responding" => runs[c] = 1 /\ taskSent[c] < ResponseLen(c)
    /\ task[c] = "done" => runs[c] = 1 /\ taskSent[c] = ResponseLen(c)
    /\ task[c] = "dropped" => runs[c] <= 1 /\ (taskSent[c] > 0 => runs[c] = 1)

AnswersInv == \A c \in Calls : AnswerInv(c)

(* The pipe holds frames of responses that were sent and not yet dispatched.*)
ResponseFrames ==
    \A i \in 1 .. Len(ResponsePipe) :
        LET f == ResponsePipe[i]
        IN  /\ f = ResponseFrame(f.from, id[f.from], f.seq, reply[f.from])
            /\ Received[f.from] < f.seq
            /\ f.seq <= taskSent[f.from]

(* While the connection is up it holds all a listening call waits for.      *)
ResponsesComplete ==
    link = "up" =>
        \A c \in Calls : Listening(c) =>
            \A k \in Nat :
                Received[c] < k /\ k <= taskSent[c] => Present(ResponsePipe, c, k)

RepliesInv == ResponseFrames /\ InOrder(ResponsePipe) /\ ResponsesComplete

(* The frame FrameReceiver holds is for the call its id leads to.           *)
ResponseHeld ==
    held # << >> =>
        LET f == Head(held)
        IN  /\ held = <<f>>
            /\ f = ResponseFrame(f.from, id[f.from], f.seq, reply[f.from])
            /\ senders[f.id] = f.from
            /\ Len(got[f.from]) < f.seq
            /\ f.seq <= taskSent[f.from]
            /\ Listening(f.from) => f.seq = Received[f.from]

Closing == {"closing", "closing_again", "done"}

(* What a call has read and has yet to read is its own response so far, and *)
(* it stops only when it has seen some of it, or has sent nothing.          *)
ReadInv(c) ==
    /\ got[c] = Whole(c, Len(got[c]))
    /\ \A k \in 1 .. Len(chan[c]) :
          chan[c][k] = ResponseFrame(c, id[c], Len(got[c]) + k, reply[c])
    /\ Received[c] <= taskSent[c]
    /\ pc[c] \in Closing => sent[c] = 0 \/ taskSent[c] > 0
    /\ result[c] \in {"ok", "message_error"} => Len(got[c]) = ResLen[c]
    /\ result[c] # "rejected"

ResponseInv ==
    /\ link = "down" => s2c = << >>
    /\ RepliesInv
    /\ ResponseHeld
    /\ \A c \in Calls : ReadInv(c)

----------------------------------------------------------------------------
ResponseTypesOK ==
    /\ ResponsePipe \in Seq(Frame)
    /\ Received \in [Calls -> Nat]
    /\ taskSent \in [Calls -> Nat]
    /\ id \in [Calls -> Ids]

LEMMA ReceivedValue ==
    ASSUME TypeOK, NEW c \in Calls
    PROVE  \E b, q \in Nat, w \in 0 .. 1 :
              /\ b = Len(got[c]) /\ q = Len(chan[c]) /\ w = Waiting(held, c)
              /\ Received[c] = b + q + w
<1>1. got[c] \in Seq(Calls \X Nat) /\ chan[c] \in Seq(Frame)
  BY DEF TypeOK, ClientTypeOK
<1>2. Len(got[c]) \in Nat /\ Len(chan[c]) \in Nat
  BY <1>1, LenProperties
<1>3. Waiting(held, c) \in 0 .. 1
  BY DEF Waiting
<1>4. Received[c] = Len(got[c]) + Len(chan[c]) + Waiting(held, c)
  BY DEF Received
<1> QED
  BY <1>2, <1>3, <1>4, Zenon

LEMMA ResponseTypes == TypeOK => ResponseTypesOK
<1> SUFFICES ASSUME TypeOK PROVE ResponseTypesOK
  OBVIOUS
<1>1. ResponsePipe \in Seq(Frame)
  BY PipeMoves DEF TypeOK, ServerTypeOK, WiresTypeOK, ResponsePipe
<1>2. ASSUME NEW c \in Calls
      PROVE  Len(got[c]) + Len(chan[c]) + Waiting(held, c) \in Nat
  <2>1. got[c] \in Seq(Calls \X Nat) /\ chan[c] \in Seq(Frame)
    BY DEF TypeOK, ClientTypeOK
  <2>2. Len(got[c]) \in Nat /\ Len(chan[c]) \in Nat
    BY <2>1, LenProperties
  <2>3. Waiting(held, c) \in Nat
    BY DEF Waiting
  <2>4. \A m, n, w \in Nat : m + n + w \in Nat
    OBVIOUS
  <2> QED
    BY <2>2, <2>3, <2>4, Zenon
<1>3. Received \in [Calls -> Nat]
  BY <1>2 DEF Received
<1> QED
  BY <1>1, <1>3 DEF ResponseTypesOK, TypeOK, ClientTypeOK, ServerTypeOK

LEMMA InResponsePipe ==
    ASSUME ResponseTypesOK, NEW i \in 1 .. Len(ResponsePipe)
    PROVE  /\ ResponsePipe[i] \in Frame /\ ResponsePipe[i].from \in Calls
           /\ ResponsePipe[i].seq \in Nat
<1>1. ResponsePipe[i] \in Frame
  BY DEF ResponseTypesOK
<1> QED
  BY <1>1 DEF Frame

LEMMA ResponseFrameFields ==
    ASSUME NEW c \in Calls, NEW i \in Ids, NEW k \in Nat, NEW r
    PROVE  LET f == ResponseFrame(c, i, k, r)
           IN  /\ f.from = c /\ f.id = i /\ f.reply = r
               /\ r = "Unfragmentable" => f.seq = 1 /\ f.type = "Error" /\ IsLast(f)
               /\ r # "Unfragmentable" => f.seq = k /\ (IsLast(f) <=> k = ResLen[c])
  BY DEF ResponseFrame, Last, IsLast

(* Nothing enters the pipe; what leaves it was lost with the connection.    *)
(* A call may stop listening, but whom a frame was sent to keeps its id.    *)
LEMMA RepliesKept ==
    ASSUME ResponseTypesOK, ResponseTypesOK', RepliesInv,
           NEW n \in Nat, Cut(ResponsePipe, n, ResponsePipe'), n > 0 => link' = "down",
           link' = "up" => link = "up", UNCHANGED taskSent,
           \A c \in Calls : Received'[c] <= Received[c],
           \A c \in Calls : taskSent[c] > 0 => UNCHANGED <<id[c], reply[c]>>,
           \A c \in Calls : taskSent[c] > 0 /\ Listening(c)' =>
                               Listening(c) /\ Received'[c] = Received[c]
    PROVE  RepliesInv'
<1>1. ResponsePipe \in Seq(Frame) /\ ResponsePipe' \in Seq(Frame)
  BY DEF ResponseTypesOK
<1>2. /\ Len(ResponsePipe') = Len(ResponsePipe) - n /\ Len(ResponsePipe) \in Nat
      /\ \A i \in 1 .. Len(ResponsePipe') :
            i + n \in 1 .. Len(ResponsePipe) /\ ResponsePipe'[i] = ResponsePipe[i + n]
  BY <1>1 DEF Cut
<1>3. ResponseFrames'
  <2> SUFFICES ASSUME NEW i \in 1 .. Len(ResponsePipe')
               PROVE  LET f == ResponsePipe'[i]
                      IN  /\ f = ResponseFrame(f.from, id'[f.from], f.seq, reply'[f.from])
                          /\ Received'[f.from] < f.seq
                          /\ f.seq <= taskSent[f.from]
    BY DEF ResponseFrames
  <2>1. PICK f : f = ResponsePipe[i + n]
    OBVIOUS
  <2>2. ResponsePipe'[i] = f /\ i + n \in 1 .. Len(ResponsePipe)
    BY <1>2, <2>1
  <2>3. f = ResponseFrame(f.from, id[f.from], f.seq, reply[f.from])
        /\ Received[f.from] < f.seq /\ f.seq <= taskSent[f.from]
    BY <2>1, <2>2 DEF RepliesInv, ResponseFrames
  <2>4. f.from \in Calls /\ f.seq \in Nat
    BY <2>1, <2>2, InResponsePipe
  <2>5. /\ Received'[f.from] \in Nat /\ Received[f.from] \in Nat /\ taskSent[f.from] \in Nat
        /\ Received'[f.from] <= Received[f.from]
    BY <2>4 DEF ResponseTypesOK
  <2>6. Received'[f.from] < f.seq /\ taskSent[f.from] > 0
    BY <2>3, <2>4, <2>5
  <2>7. id'[f.from] = id[f.from] /\ reply'[f.from] = reply[f.from]
    BY <2>4, <2>6
  <2> QED
    BY <2>2, <2>3, <2>6, <2>7
<1>4. InOrder(ResponsePipe')
  BY <1>1, InOrderCut DEF RepliesInv
<1>5. ResponsesComplete'
  <2> SUFFICES ASSUME link' = "up", NEW c \in Calls, Listening(c)', NEW k \in Nat,
                      Received'[c] < k, k <= taskSent[c]
               PROVE  Present(ResponsePipe', c, k)
    BY DEF ResponsesComplete, Present
  <2>1. Received'[c] \in Nat /\ taskSent[c] \in Nat
    BY DEF ResponseTypesOK
  <2>2. taskSent[c] > 0
    BY <2>1
  <2>3. Listening(c) /\ Received[c] < k
    BY <2>2
  <2>4. Present(ResponsePipe, c, k)
    BY <2>3 DEF RepliesInv, ResponsesComplete
  <2>5. n = 0
    OBVIOUS
  <2>6. Len(ResponsePipe') = Len(ResponsePipe)
        /\ \A i \in 1 .. Len(ResponsePipe) : ResponsePipe'[i] = ResponsePipe[i]
    BY <1>2, <2>5
  <2> QED
    BY <2>4, <2>6 DEF Present
<1> QED
  BY <1>3, <1>4, <1>5 DEF RepliesInv, InOrder

(* Nothing is sent or dispatched, and nothing is read: calls may start,     *)
(* stop listening or close, and handlers may return.                        *)
LEMMA ResponseKept ==
    ASSUME TypeOK, TypeOK', ResponseInv,
           NEW n \in Nat, Cut(ResponsePipe, n, ResponsePipe'), n > 0 => link' = "down",
           link' = "up" => link = "up", link' = "down" => s2c' = << >>,
           UNCHANGED <<taskSent, got, held>>, held # << >> => UNCHANGED senders,
           \A c \in Calls : result'[c] \in {result[c], "internal_error"},
           \A c \in Calls : chan'[c] \in {chan[c], << >>},
           \A c \in Calls : taskSent[c] > 0 => UNCHANGED <<id[c], reply[c]>>,
           \A c \in Calls : taskSent[c] > 0 /\ Listening(c)' => Listening(c) /\ UNCHANGED chan[c],
           \A c \in Calls : pc'[c] \in Closing =>
                \/ pc[c] \in Closing /\ UNCHANGED sent[c]
                \/ sent'[c] = 0
                \/ taskSent[c] > 0
    PROVE  ResponseInv'
<1>1. ResponseTypesOK
  BY ResponseTypes
<1>2. ResponseTypesOK'
  BY ResponseTypes, PTL
<1>3. ASSUME NEW c \in Calls
      PROVE  /\ Received'[c] <= Received[c]
             /\ UNCHANGED chan[c] => Received'[c] = Received[c]
  <2>1. PICK b, q \in Nat, w \in 0 .. 1 :
           /\ b = Len(got[c]) /\ q = Len(chan[c]) /\ w = Waiting(held, c)
           /\ Received[c] = b + q + w
    BY ReceivedValue
  <2>2. /\ Received'[c] = Len(got'[c]) + Len(chan'[c]) + Waiting(held', c)
        /\ Len(got'[c]) = b /\ Waiting(held', c) = w
    BY <2>1 DEF Received, Waiting
  <2>3. CASE chan'[c] = chan[c]
    <3>1. Received'[c] = b + q + w
      BY <2>1, <2>2, <2>3, Zenon
    <3>2. b + q + w <= b + q + w
      OBVIOUS
    <3> QED
      BY <2>1, <3>1, <3>2, Zenon
  <2>4. CASE chan'[c] = << >> /\ chan'[c] # chan[c]
    <3>1. Len(chan'[c]) = 0
      BY <2>4, EmptySeq
    <3>2. Received'[c] = b + 0 + w
      BY <2>2, <3>1, Zenon
    <3>3. b + 0 + w <= b + q + w
      OBVIOUS
    <3> QED
      BY <2>1, <2>4, <3>2, <3>3, Zenon
  <2> QED
    BY <2>3, <2>4
<1>4. \A c \in Calls : taskSent[c] > 0 /\ Listening(c)' =>
                          Listening(c) /\ Received'[c] = Received[c]
  BY <1>3
<1>5. RepliesInv'
  BY <1>1, <1>2, <1>3, <1>4, RepliesKept DEF ResponseInv
<1>6. ResponseHeld'
  <2>1. SUFFICES ASSUME held # << >> PROVE ResponseHeld'
    BY DEF ResponseHeld
  <2>2. PICK f : f = Head(held)
    OBVIOUS
  <2>3. /\ held = <<f>> /\ f = ResponseFrame(f.from, id[f.from], f.seq, reply[f.from])
        /\ senders[f.id] = f.from /\ Len(got[f.from]) < f.seq /\ f.seq <= taskSent[f.from]
        /\ Listening(f.from) => f.seq = Received[f.from]
    BY <2>1, <2>2 DEF ResponseInv, ResponseHeld
  <2>4. f \in Frame
    BY <2>1, <2>2 DEF TypeOK, ClientTypeOK
  <2>5. PICK c \in Calls : c = f.from
    BY <2>4 DEF Frame
  <2>6. taskSent[c] > 0
    <3>1. f.seq \in Nat /\ taskSent[c] \in Nat
      BY <1>1, <2>4 DEF Frame, ResponseTypesOK
    <3>2. Len(got[c]) \in Nat
      BY ReceivedValue
    <3> QED
      BY <2>3, <2>5, <3>1, <3>2
  <2>7. /\ id'[c] = id[c] /\ reply'[c] = reply[c]
        /\ Listening(c)' => f.seq = Received'[c]
    BY <1>4, <2>3, <2>5, <2>6
  <2> QED
    BY <2>1, <2>2, <2>3, <2>5, <2>7 DEF ResponseHeld, Listening
<1>7. ASSUME NEW c \in Calls PROVE ReadInv(c)'
  <2>1. got'[c] = Whole(c, Len(got'[c]))
    BY DEF ResponseInv, ReadInv
  <2>2. Received'[c] <= taskSent'[c]
    <3>1. Received'[c] \in Nat /\ Received[c] \in Nat /\ taskSent[c] \in Nat
      BY <1>1, <1>2 DEF ResponseTypesOK
    <3>2. Received[c] <= taskSent[c]
      BY DEF ResponseInv, ReadInv
    <3> QED
      BY <1>3, <3>1, <3>2
  <2>3. ASSUME NEW k \in 1 .. Len(chan'[c])
        PROVE  chan'[c][k] = ResponseFrame(c, id'[c], Len(got'[c]) + k, reply'[c])
    <3>1. chan'[c] = chan[c]
      BY <2>3, EmptySeq
    <3>2. taskSent[c] > 0
      <4>1. PICK b, q \in Nat, w \in 0 .. 1 :
               /\ b = Len(got[c]) /\ q = Len(chan[c]) /\ w = Waiting(held, c)
               /\ Received[c] = b + q + w
        BY ReceivedValue
      <4>2. b + q + w <= taskSent[c] /\ taskSent[c] \in Nat
        BY <1>1, <4>1 DEF ResponseInv, ReadInv, ResponseTypesOK
      <4>3. k \in 1 .. q
        BY <3>1, <4>1
      <4> QED
        BY <4>2, <4>3
    <3>3. id'[c] = id[c] /\ reply'[c] = reply[c]
      BY <3>2
    <3> QED
      BY <2>3, <3>1, <3>3 DEF ResponseInv, ReadInv
  <2>4. pc'[c] \in Closing => sent'[c] = 0 \/ taskSent'[c] > 0
    BY DEF ResponseInv, ReadInv
  <2>5. /\ result'[c] \in {"ok", "message_error"} => Len(got'[c]) = ResLen[c]
        /\ result'[c] # "rejected"
    BY DEF ResponseInv, ReadInv
  <2> QED
    BY <2>1, <2>2, <2>3, <2>4, <2>5 DEF ReadInv
<1> QED
  BY <1>5, <1>6, <1>7 DEF ResponseInv

----------------------------------------------------------------------------
(* The tasks that answer.                                                   *)
LEMMA AnswersStutter == AnswersInv /\ UNCHANGED <<task, runs, taskSent, reply>> => AnswersInv'
  BY DEF AnswersInv, AnswerInv, ResponseLen

LEMMA AnswersFail == ASSUME TypeOK, AnswersInv, FailConnection PROVE AnswersInv'
<1>1. /\ task' = [c \in Calls |-> IF c \in Active THEN "dropped" ELSE task[c]]
      /\ UNCHANGED <<runs, taskSent, reply>>
  BY DEF FailConnection
<1> SUFFICES ASSUME NEW c \in Calls PROVE AnswerInv(c)'
  BY DEF AnswersInv
<1>2. AnswerInv(c) /\ runs[c] \in Nat /\ taskSent[c] \in Nat /\ task[c] \in TaskStates
  BY DEF AnswersInv, TypeOK, ServerTypeOK
<1>3. CASE c \in Active
  <2>1. task'[c] = "dropped" /\ task[c] \in TaskStates \ {"none", "done", "dropped"}
    BY <1>1, <1>2, <1>3 DEF Active
  <2>2. runs[c] <= 1 /\ (taskSent[c] > 0 => runs[c] = 1) /\ taskSent[c] <= ResponseLen(c)
    BY <1>2, <2>1 DEF AnswerInv, TaskStates
  <2> QED
    BY <1>1, <2>1, <2>2 DEF AnswerInv, ResponseLen
<1>4. CASE c \notin Active
  <2>1. task'[c] = task[c]
    BY <1>1, <1>4
  <2> QED
    BY <1>1, <1>2, <2>1 DEF AnswerInv, ResponseLen
<1> QED
  BY <1>3, <1>4

(* A step of the task of c alone.                                           *)
LEMMA AnswerMoves ==
    ASSUME AnswersInv, NEW c \in Calls, AnswerInv(c)',
           \A d \in Calls \ {c} : UNCHANGED <<task[d], runs[d], taskSent[d], reply[d]>>
    PROVE  AnswersInv'
<1> SUFFICES ASSUME NEW d \in Calls, d # c PROVE AnswerInv(d)'
  BY DEF AnswersInv
<1> QED
  BY DEF AnswersInv, AnswerInv, ResponseLen

LEMMA AnswersTask ==
    ASSUME TypeOK, AnswersInv, NEW c \in Calls, TaskStep(c) PROVE AnswersInv'
<1>1. CASE FailConnection
  BY <1>1, AnswersFail
<1>2. CASE ~FailConnection
  <2>1. /\ task \in [Calls -> TaskStates] /\ runs \in [Calls -> Nat] /\ taskSent \in [Calls -> Nat]
        /\ reply \in [Calls -> Replies \cup {NoReply}] /\ ResLen[c] \in Nat /\ ResLen[c] > 0
        /\ AnswerInv(c)
    BY FramesAssumption DEF TypeOK, ServerTypeOK, AnswersInv
  <2>2. CASE ReadRequest(c)
    <3>1. /\ task[c] = "reading" /\ UNCHANGED <<runs, taskSent, reply>>
          /\ (task' = [task EXCEPT ![c] = "deregistering"] \/ UNCHANGED task)
      BY <1>2, <2>2 DEF ReadRequest
    <3>2. \A d \in Calls \ {c} : UNCHANGED <<task[d], runs[d], taskSent[d], reply[d]>>
      BY <2>1, <3>1
    <3>3. task'[c] \in {"reading", "deregistering"}
      BY <2>1, <3>1
    <3>4. AnswerInv(c)'
      BY <2>1, <3>1, <3>3 DEF AnswerInv, ResponseLen
    <3> QED
      BY <3>2, <3>4, AnswerMoves
  <2>3. CASE Deregister(c) \/ Route(c)
    <3>1. /\ task[c] \in {"deregistering", "routing"} /\ UNCHANGED <<runs, taskSent, reply>>
          /\ \E t \in {"routing", "locking"} : task' = [task EXCEPT ![c] = t]
      BY <1>2, <2>3 DEF Deregister, Route
    <3>2. \A d \in Calls \ {c} : UNCHANGED <<task[d], runs[d], taskSent[d], reply[d]>>
      BY <2>1, <3>1
    <3>3. task'[c] \in {"routing", "locking"}
      BY <2>1, <3>1
    <3>4. AnswerInv(c)'
      BY <2>1, <3>1, <3>3 DEF AnswerInv, ResponseLen
    <3> QED
      BY <3>2, <3>4, AnswerMoves
  <2>4. CASE LockHandler(c)
    <3>1. /\ task[c] = "locking" /\ task' = [task EXCEPT ![c] = "handling"]
          /\ runs' = [runs EXCEPT ![c] = @ + 1] /\ UNCHANGED <<taskSent, reply>>
      BY <2>4 DEF LockHandler
    <3>2. \A d \in Calls \ {c} : UNCHANGED <<task[d], runs[d], taskSent[d], reply[d]>>
      BY <2>1, <3>1
    <3>3. task'[c] = "handling" /\ runs'[c] = runs[c] + 1
      BY <2>1, <3>1
    <3>4. AnswerInv(c)'
      BY <2>1, <3>1, <3>3 DEF AnswerInv, ResponseLen
    <3> QED
      BY <3>2, <3>4, AnswerMoves
  <2>5. CASE HandlerReturns(c)
    <3>1. /\ task[c] = "handling" /\ task' = [task EXCEPT ![c] = "responding"]
          /\ \E r : reply' = [reply EXCEPT ![c] = r]
          /\ UNCHANGED <<runs, taskSent>>
      BY <1>2, <2>5 DEF HandlerReturns
    <3>2. \A d \in Calls \ {c} : UNCHANGED <<task[d], runs[d], taskSent[d], reply[d]>>
      BY <2>1, <3>1
    <3>3. task'[c] = "responding" /\ runs[c] = 1 /\ taskSent[c] = 0
      BY <2>1, <3>1 DEF AnswerInv
    <3>4. ResponseLen(c)' \in Nat /\ ResponseLen(c)' > 0
      BY <2>1 DEF ResponseLen
    <3>5. AnswerInv(c)'
      BY <3>1, <3>3, <3>4 DEF AnswerInv
    <3> QED
      BY <3>2, <3>5, AnswerMoves
  <2>6. CASE SendResponse(c)
    <3>1. /\ task[c] = "responding" /\ taskSent' = [taskSent EXCEPT ![c] = @ + 1]
          /\ task' = [task EXCEPT ![c] = IF taskSent[c] + 1 = ResponseLen(c) THEN "done"
                                         ELSE "responding"]
          /\ UNCHANGED <<runs, reply>>
      BY <2>6 DEF SendResponse
    <3>2. \A d \in Calls \ {c} : UNCHANGED <<task[d], runs[d], taskSent[d], reply[d]>>
      BY <2>1, <3>1
    <3>3. /\ task'[c] = IF taskSent[c] + 1 = ResponseLen(c) THEN "done" ELSE "responding"
          /\ taskSent'[c] = taskSent[c] + 1 /\ taskSent[c] \in Nat
      BY <2>1, <3>1
    <3>4. ResponseLen(c)' = ResponseLen(c) /\ ResponseLen(c) \in Nat
      BY <2>1, <3>1 DEF ResponseLen
    <3>5. runs'[c] = 1 /\ taskSent[c] < ResponseLen(c)
      BY <2>1, <3>1 DEF AnswerInv
    <3>6. AnswerInv(c)'
      BY <3>3, <3>4, <3>5 DEF AnswerInv
    <3> QED
      BY <3>2, <3>6, AnswerMoves
  <2> QED
    BY <2>2, <2>3, <2>4, <2>5, <2>6 DEF TaskStep
<1> QED
  BY <1>1, <1>2

(* Dispatch creates a task for a call that has none.                        *)
LEMMA AnswersStream ==
    ASSUME TypeOK, AnswersInv, StreamStep PROVE AnswersInv'
<1>1. CASE FailConnection
  BY <1>1, AnswersFail
<1>2. CASE ~FailConnection
  <2>1. CASE UNCHANGED task
    <3>1. UNCHANGED <<runs, taskSent, reply>>
      BY <1>2 DEF StreamStep, Dispatch, SrvDispatchResume, StreamEnds, taskVars
    <3> QED
      BY <2>1, <3>1, AnswersStutter, SMTT(30)
  <2>2. CASE ~UNCHANGED task
    <3>1. /\ c2s # << >> /\ task[Head(c2s).from] = "none"
          /\ task' = [task EXCEPT ![Head(c2s).from] = "reading"]
          /\ UNCHANGED <<runs, taskSent, reply>>
      BY <1>2, <2>2 DEF StreamStep, Dispatch, SrvDispatchResume, StreamEnds, taskVars
    <3>2. PICK c : c = Head(c2s).from
      OBVIOUS
    <3>3. c \in Calls /\ task[c] = "none"
      <4>1. c2s \in Seq(Frame) /\ c2s # << >>
        BY <3>1 DEF TypeOK, WiresTypeOK
      <4>2. Head(c2s) \in Frame
        BY <4>1
      <4> QED
        BY <3>1, <3>2, <4>2 DEF Frame
    <3>4. task \in [Calls -> TaskStates]
      BY DEF TypeOK, ServerTypeOK
    <3>5. \A d \in Calls \ {c} : UNCHANGED <<task[d], runs[d], taskSent[d], reply[d]>>
      BY <3>1, <3>2, <3>3, <3>4
    <3>6. task'[c] = "reading"
      BY <3>1, <3>2, <3>3, <3>4
    <3>7. AnswerInv(c)'
      BY <3>1, <3>3, <3>6 DEF AnswersInv, AnswerInv, ResponseLen
    <3> QED
      BY <3>3, <3>5, <3>7, AnswerMoves, SMTT(30)
  <2> QED
    BY <2>1, <2>2
<1> QED
  BY <1>1, <1>2

LEMMA AnswersStep ==
    ASSUME TypeOK, AnswersInv, [Next]_vars PROVE AnswersInv'
<1>1. ASSUME NEW c \in Calls, TaskStep(c) PROVE AnswersInv'
  BY <1>1, AnswersTask
<1>2. CASE StreamStep
  BY <1>2, AnswersStream
<1>3. CASE \/ UNCHANGED vars \/ ClientWrites \/ ServerWrites \/ ReceiverStep \/ Disconnect
           \/ \E c \in Calls : CallStep(c) \/ (Cancel(c) /\ UNCHANGED serverVars)
  <2>1. UNCHANGED <<task, runs, taskSent, reply>>
    BY <1>3 DEF vars, ClientWrites, ServerWrites, ReceiverStep, Disconnect, CallStep,
       serverVars, taskVars
  <2> QED
    BY <2>1, AnswersStutter
<1> QED
  BY <1>1, <1>2, <1>3 DEF Next, Progress, Fault

LEMMA ResponseInit == Init => AnswersInv /\ ResponseInv
<1> SUFFICES ASSUME Init PROVE AnswersInv /\ ResponseInv
  OBVIOUS
<1> USE FramesAssumption DEF Init, WiresInit, ClientInit, ServerInit
<1>1. AnswersInv
  BY DEF AnswersInv, AnswerInv, ResponseLen, NoReply
<1>2. ResponsePipe = << >>
  BY NoFrames, ConcatEmptySeq DEF ResponsePipe
<1>3. \A c \in Calls : Received[c] = 0
  BY DEF Received, Waiting
<1>4. Len(<< >>) = 0
  BY EmptySeq
<1>5. RepliesInv
  <2>1. ResponseFrames /\ InOrder(ResponsePipe)
    BY <1>2, <1>4 DEF ResponseFrames, InOrder
  <2>2. ResponsesComplete
    BY <1>3 DEF ResponsesComplete
  <2> QED
    BY <2>1, <2>2 DEF RepliesInv
<1>6. ResponseHeld
  BY DEF ResponseHeld
<1>7. ASSUME NEW c \in Calls PROVE ReadInv(c)
  <2>1. Whole(c, 0) = << >>
    BY DEF Whole
  <2> QED
    BY <1>3, <1>4, <2>1 DEF ReadInv, Closing
<1> QED
  BY <1>1, <1>5, <1>6, <1>7 DEF ResponseInv

----------------------------------------------------------------------------
(* A call that has sent nothing has no task and no answer.                  *)
LEMMA NothingSent ==
    ASSUME RequestInv, AnswersInv, NEW c \in Calls, sent[c] = 0
    PROVE  task[c] = "none" /\ taskSent[c] = 0
<1>1. task[c] = "none"
  BY DEF RequestInv, TaskInv
<1> QED
  BY <1>1 DEF AnswersInv, AnswerInv

(* ResponseKept where the pipe does not change.                             *)
LEMMA ResponseQuiet ==
    ASSUME TypeOK, TypeOK', ResponseInv,
           UNCHANGED <<s2c, srvChunk, srvQueue, link, taskSent, got, held>>,
           held # << >> => UNCHANGED senders,
           \A c \in Calls : result'[c] \in {result[c], "internal_error"},
           \A c \in Calls : chan'[c] \in {chan[c], << >>},
           \A c \in Calls : taskSent[c] > 0 => UNCHANGED <<id[c], reply[c]>>,
           \A c \in Calls : taskSent[c] > 0 /\ Listening(c)' => Listening(c) /\ UNCHANGED chan[c],
           \A c \in Calls : pc'[c] \in Closing =>
                \/ pc[c] \in Closing /\ UNCHANGED sent[c]
                \/ sent'[c] = 0
                \/ taskSent[c] > 0
    PROVE  ResponseInv'
<1>1. ResponsePipe' = ResponsePipe
  BY DEF ResponsePipe
<1>2. ResponsePipe \in Seq(Frame)
  BY ResponseTypes DEF ResponseTypesOK
<1>3. Cut(ResponsePipe, 0, ResponsePipe')
  BY <1>1, <1>2, NoCut
<1>4. link' = "up" => link = "up"
  OBVIOUS
<1>5. link' = "down" => s2c' = << >>
  BY DEF ResponseInv
<1>6. 0 \in Nat /\ (0 > 0 => link' = "down")
  OBVIOUS
<1> QED
  BY <1>3, <1>4, <1>5, <1>6, ResponseKept

LEMMA TakeIdResponse ==
    ASSUME TypeOK, TypeOK', CallInv, RequestInv, AnswersInv, ResponseInv, NEW c \in Calls,
           TakeId(c), UNCHANGED serverVars
    PROVE  ResponseInv'
<1>1. /\ pc[c] = "idle" /\ id' = [id EXCEPT ![c] = nextId]
      /\ pc' = [pc EXCEPT ![c] = "registering"]
      /\ UNCHANGED <<sent, got, result, senders, chan, held, s2c, link, taskSent, reply,
                     srvChunk, srvQueue>>
  BY DEF TakeId, mapVars, serverVars, taskVars
<1>2. sent[c] = 0 /\ taskSent[c] = 0
  BY <1>1, NothingSent DEF CallInv
<1>3. pc \in [Calls -> PCs] /\ id \in [Calls -> Ids]
  BY DEF TypeOK, ClientTypeOK
<1>4. \A d \in Calls : taskSent[d] > 0 => UNCHANGED <<id[d], reply[d], pc[d]>>
  BY <1>1, <1>2, <1>3
<1>5. \A d \in Calls : pc'[d] \in Closing => pc[d] \in Closing
  BY <1>1, <1>3 DEF Closing
<1>6. \A d \in Calls : taskSent[d] > 0 /\ Listening(d)' => Listening(d) /\ UNCHANGED chan[d]
  BY <1>1, <1>4 DEF Listening
<1> QED
  BY <1>1, <1>4, <1>5, <1>6, ResponseQuiet

LEMMA RegisterResponse ==
    ASSUME NoWrap, TypeOK, TypeOK', MapInv, CallInv, RequestInv, AnswersInv, ResponseInv,
           NEW c \in Calls, Register(c), UNCHANGED serverVars
    PROVE  ResponseInv'
<1>1. /\ pc[c] = "registering" /\ held = << >>
      /\ UNCHANGED <<id, sent, got, chan, held, s2c, link, taskSent, reply, srvChunk, srvQueue>>
  BY DEF Register, Unlocked, serverVars, taskVars
<1>2. sent[c] = 0 /\ taskSent[c] = 0
  BY <1>1, NothingSent DEF CallInv
<1>3. senders[id[c]] = NoCall
  BY <1>1, RegisterFree
<1>4. /\ \E p \in {"sending", "closing_again"} : pc' = [pc EXCEPT ![c] = p]
      /\ result' = [result EXCEPT ![c] = "internal_error"] \/ UNCHANGED result
  BY <1>3 DEF Register, AlreadyRegistered
<1>5. pc \in [Calls -> PCs] /\ result \in [Calls -> Results]
  BY DEF TypeOK, ClientTypeOK
<1>6. \A d \in Calls : d # c => UNCHANGED pc[d]
  BY <1>4, <1>5
<1>7. \A d \in Calls : result'[d] \in {result[d], "internal_error"}
  BY <1>4, <1>5
<1>8. \A d \in Calls : taskSent[d] > 0 /\ Listening(d)' => Listening(d) /\ UNCHANGED chan[d]
  BY <1>1, <1>2, <1>6 DEF Listening
<1>9. \A d \in Calls : pc'[d] \in Closing =>
         \/ (pc[d] \in Closing /\ UNCHANGED sent[d]) \/ sent'[d] = 0 \/ taskSent[d] > 0
  BY <1>1, <1>2, <1>6
<1> QED
  BY <1>1, <1>7, <1>8, <1>9, ResponseQuiet

LEMMA SendFrameResponse ==
    ASSUME TypeOK, TypeOK', ResponseInv, NEW c \in Calls, SendFrame(c), UNCHANGED serverVars
    PROVE  ResponseInv'
<1>1. /\ pc[c] = "sending" /\ sent' = [sent EXCEPT ![c] = @ + 1]
      /\ \E p \in {"sending", "receiving"} : pc' = [pc EXCEPT ![c] = p]
      /\ UNCHANGED <<id, got, result, senders, chan, held, s2c, link, taskSent, reply,
                     srvChunk, srvQueue>>
  BY DEF SendFrame, mapVars, serverVars, taskVars
<1>2. pc \in [Calls -> PCs] /\ sent \in [Calls -> Nat]
  BY DEF TypeOK, ClientTypeOK
<1>3. \A d \in Calls : Listening(d)' => Listening(d)
  BY <1>1, <1>2 DEF Listening
<1>4. \A d \in Calls : pc'[d] \in Closing => pc[d] \in Closing /\ UNCHANGED sent[d]
  BY <1>1, <1>2 DEF Closing
<1> QED
  BY <1>1, <1>3, <1>4, ResponseQuiet

LEMMA CloseResponse ==
    ASSUME TypeOK, TypeOK', ResponseInv, NEW c \in Calls, Close(c), UNCHANGED serverVars
    PROVE  ResponseInv'
<1>1. /\ pc[c] \in {"closing", "closing_again"} /\ held = << >>
      /\ \E p \in {"closing_again", "done"} : pc' = [pc EXCEPT ![c] = p]
      /\ UNCHANGED <<id, sent, got, result, chan, held, s2c, link, taskSent, reply,
                     srvChunk, srvQueue>>
  BY DEF Close, Unlocked, serverVars, taskVars
<1>2. pc \in [Calls -> PCs]
  BY DEF TypeOK, ClientTypeOK
<1>3. \A d \in Calls : Listening(d)' => Listening(d)
  BY <1>1, <1>2 DEF Listening
<1>4. \A d \in Calls : pc'[d] \in Closing => pc[d] \in Closing
  BY <1>1, <1>2 DEF Closing
<1> QED
  BY <1>1, <1>3, <1>4, ResponseQuiet

LEMMA CancelResponse ==
    ASSUME TypeOK, TypeOK', ResponseInv, NEW c \in Calls, Cancel(c), UNCHANGED serverVars
    PROVE  ResponseInv'
<1>1. /\ pc' = [pc EXCEPT ![c] = "cancelled"] /\ chan' = [chan EXCEPT ![c] = << >>]
      /\ UNCHANGED <<id, sent, got, result, senders, held, s2c, link, taskSent, reply,
                     srvChunk, srvQueue>>
  BY DEF Cancel, serverVars, taskVars
<1>2. pc \in [Calls -> PCs] /\ chan \in [Calls -> Seq(Frame)]
  BY DEF TypeOK, ClientTypeOK
<1>3. \A d \in Calls : Listening(d)' => Listening(d) /\ UNCHANGED chan[d]
  BY <1>1, <1>2 DEF Listening
<1>4. \A d \in Calls : pc'[d] \in Closing => pc[d] \in Closing
  BY <1>1, <1>2 DEF Closing
<1>5. \A d \in Calls : chan'[d] \in {chan[d], << >>}
  BY <1>1, <1>2
<1> QED
  BY <1>1, <1>3, <1>4, <1>5, ResponseQuiet

(* The Sender of a call that waits is in the map: recv() never returns None.*)
LEMMA NeverNone == ASSUME MapInv, NEW c \in Calls PROVE ~ReceiveNone(c)
  BY DEF ReceiveNone, MapInv, PendingMapped, Listening

LEMMA ServerWritesResponse ==
    ASSUME TypeOK, TypeOK', ResponseInv, ServerWrites
    PROVE  ResponseInv'
<1>1. UNCHANGED <<pc, id, sent, got, result, senders, chan, held, taskSent, reply, link>>
  BY DEF ServerWrites, clientVars, callVars, mapVars, taskVars
<1>2. s2c \in Seq(Frame) /\ srvChunk \in Seq(Frame) /\ srvQueue \in Seq(Frame)
  BY DEF TypeOK, WiresTypeOK, ServerTypeOK
<1>3. \A d \in Calls : Listening(d)' => Listening(d)
  BY <1>1 DEF Listening
<1>4. PICK n \in Nat : /\ Cut(ResponsePipe, n, ResponsePipe') /\ (n > 0 => link' = "down")
                       /\ link' = "down" => s2c' = << >>
  <2>1. Cut(ResponsePipe, 0, ResponsePipe)
    <3>1. ResponsePipe \in Seq(Frame)
      BY ResponseTypes DEF ResponseTypesOK
    <3> QED
      BY <3>1, NoCut
  <2>2. CASE SrvWriter!TakeChunk
    <3> DEFINE m == IF Len(srvQueue) < BufferSize THEN Len(srvQueue) ELSE BufferSize
    <3>1. m \in 0 .. Len(srvQueue)
      BY <1>2, FramesAssumption
    <3>2. /\ srvChunk = << >> /\ s2c' = s2c
          /\ srvChunk' = SubSeq(srvQueue, 1, m)
          /\ srvQueue' = SubSeq(srvQueue, m + 1, Len(srvQueue))
      BY <2>2 DEF SrvWriter!TakeChunk
    <3> HIDE DEF m
    <3>3. ResponsePipe' = ResponsePipe
      BY <1>2, <3>1, <3>2, PipeChunk DEF ResponsePipe
    <3> QED
      BY <1>1, <2>1, <3>2, <3>3 DEF ResponseInv
  <2>3. CASE link = "up" /\ SrvWriter!WriteFrame
    <3>1. /\ srvChunk # << >> /\ s2c' = Append(s2c, Head(srvChunk))
          /\ srvChunk' = Tail(srvChunk) /\ srvQueue' = srvQueue
      BY <2>3 DEF SrvWriter!WriteFrame
    <3>2. ResponsePipe' = ResponsePipe
      BY <1>2, <3>1, PipeMoves DEF ResponsePipe
    <3> QED
      BY <1>1, <2>1, <2>3, <3>2
  <2>4. CASE link = "down" /\ SrvWriter!WriteError
    <3>1. /\ srvChunk # << >> /\ srvChunk' = Tail(srvChunk) /\ srvQueue' = srvQueue
          /\ s2c' = s2c
      BY <2>4 DEF SrvWriter!WriteError
    <3>2. s2c = << >>
      BY <2>4 DEF ResponseInv
    <3>3. Cut(ResponsePipe, 1, ResponsePipe')
      BY <1>2, <3>1, <3>2, PipeCuts DEF ResponsePipe
    <3> QED
      BY <1>1, <2>4, <3>1, <3>2, <3>3
  <2> QED
    BY <2>2, <2>3, <2>4 DEF ServerWrites
<1> QED
  BY <1>1, <1>3, <1>4, ResponseKept

LEMMA DisconnectResponse ==
    ASSUME TypeOK, TypeOK', ResponseInv, Disconnect
    PROVE  ResponseInv'
<1>1. /\ UNCHANGED <<pc, id, sent, got, result, senders, chan, held, taskSent, reply,
                     srvChunk, srvQueue>>
      /\ s2c' = << >> /\ link' = "down"
  BY DEF Disconnect, clientVars, callVars, mapVars, serverVars, taskVars
<1>2. s2c \in Seq(Frame) /\ srvChunk \in Seq(Frame) /\ srvQueue \in Seq(Frame)
  BY DEF TypeOK, WiresTypeOK, ServerTypeOK
<1>3. Cut(ResponsePipe, Len(s2c), ResponsePipe') /\ Len(s2c) \in Nat
  BY <1>1, <1>2, PipeCuts DEF ResponsePipe
<1>4. \A d \in Calls : Listening(d)' => Listening(d)
  BY <1>1 DEF Listening
<1> QED
  BY <1>1, <1>3, <1>4, ResponseKept

(* The steps of the server but SendResponse: a handler returns before       *)
(* anything of its response is sent.                                        *)
LEMMA ServerResponse ==
    ASSUME TypeOK, TypeOK', AnswersInv, ResponseInv, UNCHANGED clientVars,
           StreamStep \/ \E c \in Calls : TaskStep(c) /\ ~SendResponse(c)
    PROVE  ResponseInv'
<1>1. UNCHANGED <<pc, id, sent, got, result, senders, chan, held>>
  BY SMTT(30) DEF clientVars, callVars, mapVars
<1>2. UNCHANGED <<s2c, link, taskSent, srvChunk, srvQueue>>
  BY ZenonT(40) DEF StreamStep, Dispatch, SrvDispatchResume, StreamEnds, TaskStep, ReadRequest, Deregister,
     Route, LockHandler, HandlerReturns, FailConnection, taskVars
<1>3. \A d \in Calls : taskSent[d] > 0 => UNCHANGED reply[d]
  <2>1. CASE UNCHANGED reply
    BY <2>1
  <2>2. CASE ~UNCHANGED reply
    <3>1. PICK c \in Calls : task[c] = "handling" /\ \E r : reply' = [reply EXCEPT ![c] = r]
      BY <2>2 DEF StreamStep, Dispatch, SrvDispatchResume, StreamEnds, TaskStep, ReadRequest,
         Deregister, Route, LockHandler, HandlerReturns, FailConnection, taskVars
    <3>2. taskSent[c] = 0
      BY <3>1 DEF AnswersInv, AnswerInv
    <3>3. reply \in [Calls -> Replies \cup {NoReply}]
      BY DEF TypeOK, ServerTypeOK
    <3> QED
      BY <3>1, <3>2, <3>3
  <2> QED
    BY <2>1, <2>2
<1>4. \A d \in Calls : Listening(d)' => Listening(d)
  BY <1>1 DEF Listening
<1> QED
  BY <1>1, <1>2, <1>3, <1>4, ResponseQuiet

(* A task sends the next frame of its response.                             *)
LEMMA SendResponseResponse ==
    ASSUME TypeOK, TypeOK', RequestInv, AnswersInv, ResponseInv, NEW c \in Calls,
           SendResponse(c), UNCHANGED clientVars
    PROVE  ResponseInv'
<1>1. /\ task[c] = "responding"
      /\ srvQueue' = Append(srvQueue, ResponseFrame(c, taskId[c], taskSent[c] + 1, reply[c]))
      /\ taskSent' = [taskSent EXCEPT ![c] = @ + 1]
      /\ UNCHANGED <<pc, id, sent, got, result, senders, chan, held, s2c, link, reply, srvChunk>>
  BY DEF SendResponse, clientVars, callVars, mapVars
<1>2. ResponseTypesOK
  BY ResponseTypes
<1>3. UNCHANGED Received
  BY <1>1 DEF Received, Waiting
<1>4. /\ taskSent[c] \in Nat /\ id[c] \in Ids /\ taskSent'[c] = taskSent[c] + 1
      /\ \A d \in Calls : taskSent[d] \in Nat /\ taskSent'[d] >= taskSent[d]
      /\ \A d \in Calls : d # c => taskSent'[d] = taskSent[d]
      /\ \A d \in Calls : Received[d] \in Nat
      /\ reply[c] \in Replies \cup {NoReply} /\ taskId[c] = id[c]
  <2>1. reply[c] \in Replies \cup {NoReply}
    BY DEF TypeOK, ServerTypeOK
  <2>2. taskId[c] = id[c]
    BY <1>1 DEF RequestInv, TaskInv
  <2> QED
    BY <1>1, <1>2, <2>1, <2>2 DEF ResponseTypesOK
<1>5. PICK f : f = ResponseFrame(c, id[c], taskSent[c] + 1, reply[c])
  OBVIOUS
<1>6. f \in Frame /\ f.from = c /\ f.seq = taskSent[c] + 1
  <2>1. taskSent[c] + 1 \in Nat
    BY <1>4
  <2>2. f \in Frame /\ f.from = c
    BY <1>4, <1>5, <2>1, ResponseFrameType, ResponseFrameFields
  <2>3. reply[c] # "Unfragmentable" => f.seq = taskSent[c] + 1
    BY <1>4, <1>5, <2>1, ResponseFrameFields
  <2>4. reply[c] = "Unfragmentable" => f.seq = 1 /\ taskSent[c] < 1
    BY <1>1, <1>4, <1>5, <2>1, ResponseFrameFields DEF AnswersInv, AnswerInv, ResponseLen
  <2> QED
    BY <1>4, <2>2, <2>3, <2>4
<1>7. ResponsePipe' = Append(ResponsePipe, f)
  <2>1. s2c \in Seq(Frame) /\ srvChunk \in Seq(Frame) /\ srvQueue \in Seq(Frame)
    BY DEF TypeOK, WiresTypeOK, ServerTypeOK
  <2>2. (s2c \o srvChunk) \o Append(srvQueue, f) = Append((s2c \o srvChunk) \o srvQueue, f)
    BY <1>6, <2>1, PipeMoves
  <2> QED
    BY <1>1, <1>4, <1>5, <2>2 DEF ResponsePipe
<1>8. /\ ResponsePipe \in Seq(Frame) /\ Len(ResponsePipe) \in Nat
      /\ Len(ResponsePipe') = Len(ResponsePipe) + 1
      /\ ResponsePipe'[Len(ResponsePipe) + 1] = f
      /\ \A i \in 1 .. Len(ResponsePipe) : ResponsePipe'[i] = ResponsePipe[i]
  <2>1. ResponsePipe \in Seq(Frame)
    BY <1>2 DEF ResponseTypesOK
  <2> QED
    BY <1>6, <1>7, <2>1, FrameAppended
<1>9. Received[c] <= taskSent[c]
  BY DEF ResponseInv, ReadInv
<1>10. ResponseFrames'
  <2> SUFFICES ASSUME NEW i \in 1 .. Len(ResponsePipe')
               PROVE  LET g == ResponsePipe'[i]
                      IN  /\ g = ResponseFrame(g.from, id[g.from], g.seq, reply[g.from])
                          /\ Received[g.from] < g.seq
                          /\ g.seq <= taskSent'[g.from]
    BY <1>1, <1>3 DEF ResponseFrames
  <2>1. CASE i = Len(ResponsePipe) + 1
    BY <1>4, <1>5, <1>6, <1>8, <1>9, <2>1
  <2>2. CASE i \in 1 .. Len(ResponsePipe)
    <3>1. PICK g : g = ResponsePipe[i]
      OBVIOUS
    <3>2. g = ResponseFrame(g.from, id[g.from], g.seq, reply[g.from])
          /\ Received[g.from] < g.seq /\ g.seq <= taskSent[g.from]
      BY <2>2, <3>1 DEF ResponseInv, RepliesInv, ResponseFrames
    <3>3. g.from \in Calls /\ g.seq \in Nat
      BY <1>2, <2>2, <3>1, InResponsePipe
    <3>4. g.seq <= taskSent'[g.from]
      BY <1>4, <3>2, <3>3
    <3> QED
      BY <1>8, <2>2, <3>1, <3>2, <3>4
  <2> QED
    BY <1>8, <2>1, <2>2
<1>11. InOrder(ResponsePipe')
  <2>1. ASSUME NEW i \in 1 .. Len(ResponsePipe), ResponsePipe[i].from = f.from
        PROVE  ResponsePipe[i].seq < f.seq
    <3>1. ResponsePipe[i].seq <= taskSent[c] /\ ResponsePipe[i].seq \in Nat
      BY <1>2, <1>6, <2>1, InResponsePipe DEF ResponseInv, RepliesInv, ResponseFrames
    <3> QED
      BY <1>4, <1>6, <3>1
  <2> QED
    BY <1>6, <1>7, <1>8, <2>1, InOrderAppend DEF ResponseInv, RepliesInv
<1>12. ResponsesComplete'
  <2> SUFFICES ASSUME link = "up", NEW d \in Calls, Listening(d), NEW k \in Nat,
                      Received[d] < k, k <= taskSent'[d]
               PROVE  Present(ResponsePipe', d, k)
    BY <1>1, <1>3 DEF ResponsesComplete, Present, Listening
  <2>1. CASE k <= taskSent[d]
    <3>1. Present(ResponsePipe, d, k)
      BY <2>1 DEF ResponseInv, RepliesInv, ResponsesComplete
    <3> QED
      BY <1>6, <1>7, <1>8, <3>1, PresentAppend
  <2>2. CASE ~(k <= taskSent[d])
    <3>1. d = c /\ k = f.seq
      BY <2>2, <1>4, <1>6
    <3> QED
      BY <1>6, <1>7, <1>8, <3>1, PresentAppend
  <2> QED
    BY <2>1, <2>2
<1>13. RepliesInv'
  BY <1>10, <1>11, <1>12 DEF RepliesInv, InOrder
<1>14. ResponseHeld'
  <2>1. SUFFICES ASSUME held # << >> PROVE ResponseHeld'
    BY <1>1 DEF ResponseHeld
  <2>2. PICK g : g = Head(held)
    OBVIOUS
  <2>3. /\ held = <<g>> /\ g = ResponseFrame(g.from, id[g.from], g.seq, reply[g.from])
        /\ senders[g.id] = g.from /\ Len(got[g.from]) < g.seq /\ g.seq <= taskSent[g.from]
        /\ Listening(g.from) => g.seq = Received[g.from]
    BY <2>1, <2>2 DEF ResponseInv, ResponseHeld
  <2>4. g \in Frame
    BY <2>1, <2>2 DEF TypeOK, ClientTypeOK
  <2>5. g.from \in Calls /\ g.seq \in Nat
    BY <2>4 DEF Frame
  <2>6. g.seq <= taskSent'[g.from]
    BY <1>4, <2>3, <2>5
  <2> QED
    BY <1>1, <1>3, <2>2, <2>3, <2>6 DEF ResponseHeld, Listening
<1>15. ASSUME NEW d \in Calls PROVE ReadInv(d)'
  <2>1. ReadInv(d)
    BY DEF ResponseInv
  <2>2. Received'[d] <= taskSent'[d] /\ (taskSent[d] > 0 => taskSent'[d] > 0)
    BY <1>3, <1>4, <2>1 DEF ReadInv
  <2> QED
    BY <1>1, <2>1, <2>2 DEF ReadInv
<1> QED
  BY <1>1, <1>13, <1>14, <1>15 DEF ResponseInv

(* What remains to be shown of a step of the client that reads or           *)
(* dispatches a frame of call c.                                            *)
LEMMA ReadOnly ==
    ASSUME TypeOK, ResponseInv, RepliesInv', ResponseHeld', link' = "down" => s2c' = << >>,
           UNCHANGED <<id, sent, reply, taskSent>>, NEW c \in Calls, ReadInv(c)',
           \A d \in Calls \ {c} :
              UNCHANGED <<got[d], chan[d], pc[d], result[d], Received[d]>>
    PROVE  ResponseInv'
<1> SUFFICES ASSUME NEW d \in Calls \ {c} PROVE ReadInv(d)'
  BY DEF ResponseInv
<1>1. UNCHANGED <<got[d], chan[d], pc[d], result[d]>> /\ Received'[d] = Received[d]
  OBVIOUS
<1> QED
  BY <1>1 DEF ResponseInv, ReadInv

(* The next frame on its way to the client, and whom FramesDispatcher finds *)
(* under its id: the call it is for, or nobody who listens.                 *)
LEMMA NextResponse ==
    ASSUME TypeOK, MapInv, CallInv, RequestInv, AnswersInv, ResponseInv, s2c # << >>
    PROVE  LET f == Head(s2c)
               t == senders[f.id]
           IN  /\ f \in Frame /\ f.from \in Calls /\ link = "up"
               /\ f = ResponseFrame(f.from, id[f.from], f.seq, reply[f.from])
               /\ Received[f.from] < f.seq /\ f.seq <= taskSent[f.from]
               /\ Listening(f.from) => f.seq = Received[f.from] + 1 /\ t = f.from
               /\ t # NoCall /\ Listening(t) => t = f.from
               /\ ResponsePipe # << >> /\ ResponsePipe[1] = f /\ Head(ResponsePipe) = f
               /\ (Tail(s2c) \o srvChunk) \o srvQueue = Tail(ResponsePipe)
<1>1. ResponseTypesOK
  BY ResponseTypes
<1>2. /\ ResponsePipe # << >> /\ Head(ResponsePipe) = Head(s2c)
      /\ (Tail(s2c) \o srvChunk) \o srvQueue = Tail(ResponsePipe)
  <2>1. s2c \in Seq(Frame) /\ srvChunk \in Seq(Frame) /\ srvQueue \in Seq(Frame)
    BY DEF TypeOK, WiresTypeOK, ServerTypeOK
  <2> QED
    BY <2>1, PipeMoves, SMTT(30) DEF ResponsePipe
<1>3. PICK f : f = Head(s2c)
  OBVIOUS
<1>4. ResponsePipe \in Seq(Frame) /\ 1 \in 1 .. Len(ResponsePipe) /\ ResponsePipe[1] = f
  BY <1>1, <1>2, <1>3 DEF ResponseTypesOK
<1>5. f \in Frame /\ f.from \in Calls /\ f.seq \in Nat
  BY <1>1, <1>4, InResponsePipe
<1>6. PICK c \in Calls : c = f.from
  BY <1>5
<1>7. f = ResponseFrame(c, id[c], f.seq, reply[c]) /\ Received[c] < f.seq /\ f.seq <= taskSent[c]
  BY <1>4, <1>6 DEF ResponseInv, RepliesInv, ResponseFrames
<1>8. Received[c] \in Nat /\ taskSent[c] \in Nat /\ id[c] \in Ids
  BY <1>1 DEF ResponseTypesOK
<1>9. link = "up"
  BY DEF ResponseInv, TypeOK, WiresTypeOK
<1>10. f.id = id[c]
  BY <1>5, <1>7, <1>8, ResponseFrameFields
<1>11. ASSUME Listening(c) PROVE f.seq = Received[c] + 1 /\ senders[f.id] = c
  <2>1. Received[c] + 1 \in Nat /\ Received[c] < Received[c] + 1 /\ Received[c] + 1 <= taskSent[c]
        /\ Received[c] + 1 <= f.seq
    BY <1>5, <1>7, <1>8
  <2>2. Present(ResponsePipe, c, Received[c] + 1)
    BY <1>9, <1>11, <2>1 DEF ResponseInv, RepliesInv, ResponsesComplete
  <2>3. InOrder(ResponsePipe) /\ Head(ResponsePipe) = f
    BY <1>2, <1>3 DEF ResponseInv, RepliesInv
  <2>4. f.seq = Received[c] + 1
    BY <1>2, <1>4, <1>6, <2>1, <2>2, <2>3, HeadIsFirst
  <2>5. senders[id[c]] = c
    BY <1>11 DEF MapInv, PendingMapped
  <2> QED
    BY <1>10, <2>4, <2>5
<1>12. ASSUME senders[f.id] # NoCall PROVE senders[f.id] = c
  <2>1. PICK t \in Calls : t = senders[f.id]
    BY <1>8, <1>10, <1>12 DEF TypeOK, ClientTypeOK
  <2>2. id[t] = id[c] /\ pc[t] # "idle"
    BY <1>8, <1>10, <1>12, <2>1 DEF MapInv, IdsReleased
  <2>3. pc[c] # "idle"
    <3>1. sent[c] # 0
      BY <1>5, <1>7, <1>8, NothingSent
    <3> QED
      BY <3>1 DEF CallInv
  <2> QED
    BY <2>1, <2>2, <2>3 DEF MapInv, IdsUnique, Started
<1> QED
  BY <1>2, <1>3, <1>4, <1>5, <1>6, <1>7, <1>9, <1>11, <1>12

(* FrameReceiver takes it off the wire.                                     *)
LEMMA RepliesTaken ==
    ASSUME TypeOK, MapInv, CallInv, RequestInv, AnswersInv, ResponseInv, s2c # << >>,
           s2c' = Tail(s2c), UNCHANGED <<srvChunk, srvQueue, link, pc, id, reply, taskSent>>,
           \A c \in Calls : Received'[c] = IF c = Head(s2c).from /\ Listening(c)
                                           THEN Received[c] + 1 ELSE Received[c]
    PROVE  RepliesInv'
<1>1. ResponseTypesOK
  BY ResponseTypes
<1>2. PICK f : f = Head(s2c)
  OBVIOUS
<1>3. /\ f \in Frame /\ f.from \in Calls /\ Received[f.from] < f.seq
      /\ Listening(f.from) => f.seq = Received[f.from] + 1
      /\ ResponsePipe # << >> /\ ResponsePipe[1] = f /\ Head(ResponsePipe) = f
      /\ (Tail(s2c) \o srvChunk) \o srvQueue = Tail(ResponsePipe)
  BY <1>2, NextResponse
<1>4. ResponsePipe' = Tail(ResponsePipe)
  BY <1>3 DEF ResponsePipe
<1>5. /\ ResponsePipe \in Seq(Frame) /\ Len(ResponsePipe) \in Nat
      /\ Len(ResponsePipe') = Len(ResponsePipe) - 1
      /\ \A i \in 1 .. Len(ResponsePipe') :
            i + 1 \in 1 .. Len(ResponsePipe) /\ ResponsePipe'[i] = ResponsePipe[i + 1]
  BY <1>1, <1>3, <1>4, HeadTailProperties DEF ResponseTypesOK
<1>6. ResponseFrames'
  <2> SUFFICES ASSUME NEW i \in 1 .. Len(ResponsePipe')
               PROVE  LET g == ResponsePipe'[i]
                      IN  /\ g = ResponseFrame(g.from, id[g.from], g.seq, reply[g.from])
                          /\ Received'[g.from] < g.seq
                          /\ g.seq <= taskSent[g.from]
    BY DEF ResponseFrames
  <2>1. PICK g : g = ResponsePipe[i + 1]
    OBVIOUS
  <2>2. ResponsePipe'[i] = g /\ i + 1 \in 1 .. Len(ResponsePipe) /\ 1 \in 1 .. Len(ResponsePipe)
    BY <1>5, <2>1
  <2>3. g = ResponseFrame(g.from, id[g.from], g.seq, reply[g.from])
        /\ Received[g.from] < g.seq /\ g.seq <= taskSent[g.from]
    BY <2>1, <2>2 DEF ResponseInv, RepliesInv, ResponseFrames
  <2>4. /\ g.from \in Calls /\ g.seq \in Nat /\ Received[g.from] \in Nat /\ f.seq \in Nat
    BY <1>1, <1>3, <2>1, <2>2, InResponsePipe DEF ResponseTypesOK, Frame
  <2>5. g.from = f.from => f.seq < g.seq
    BY <1>3, <2>1, <2>2 DEF ResponseInv, RepliesInv, InOrder
  <2>6. Received'[g.from] < g.seq
    <3>1. CASE g.from = f.from /\ Listening(g.from)
      <4>1. Received'[g.from] = Received[g.from] + 1
        BY <1>2, <2>4, <3>1
      <4> QED
        BY <1>3, <2>4, <2>5, <3>1, <4>1
    <3>2. CASE ~(g.from = f.from /\ Listening(g.from))
      BY <1>2, <2>3, <2>4, <3>2, SMTT(30)
    <3> QED
      BY <3>1, <3>2
  <2> QED
    BY <2>2, <2>3, <2>6
<1>7. InOrder(ResponsePipe')
  BY <1>3, <1>4, <1>5, InOrderTail, ZenonT(40) DEF ResponseInv, RepliesInv
<1>8. ResponsesComplete'
  <2> SUFFICES ASSUME link = "up", NEW c \in Calls, Listening(c), NEW k \in Nat,
                      Received'[c] < k, k <= taskSent[c]
               PROVE  Present(ResponsePipe', c, k)
    BY DEF ResponsesComplete, Present, Listening
  <2>1. Received[c] \in Nat /\ Received[c] < k
    <3>1. Received[c] \in Nat
      BY <1>1 DEF ResponseTypesOK
    <3>2. Received'[c] = Received[c] + 1 \/ Received'[c] = Received[c]
      OBVIOUS
    <3> QED
      BY <3>1, <3>2
  <2>2. Present(ResponsePipe, c, k)
    BY <2>1 DEF ResponseInv, RepliesInv, ResponsesComplete
  <2>3. ~(f.from = c /\ f.seq = k)
    BY <1>2, <1>3, <2>1
  <2> QED
    BY <1>3, <1>4, <1>5, <2>2, <2>3, PresentTail
<1> QED
  BY <1>6, <1>7, <1>8 DEF RepliesInv, InOrder

(* A frame that is appended to the channel of its call.                     *)
LEMMA ReadsGrow ==
    ASSUME TypeOK, NEW c \in Calls, ReadInv(c),
           NEW f \in Frame,
           f = ResponseFrame(c, id[c], Len(got[c]) + Len(chan[c]) + 1, reply[c]),
           chan' = [chan EXCEPT ![c] = Append(@, f)],
           UNCHANGED <<got, pc, id, sent, result, reply, taskSent>>,
           Received'[c] <= taskSent[c]
    PROVE  ReadInv(c)'
<1>1. PICK s \in Seq(Frame), b \in Nat :
         s = chan[c] /\ chan'[c] = Append(s, f) /\ b = Len(got[c])
  <2>1. chan[c] \in Seq(Frame) /\ chan'[c] = Append(chan[c], f)
    BY DEF TypeOK, ClientTypeOK
  <2>2. Len(got[c]) \in Nat
    BY ReceivedValue
  <2> QED
    BY <2>1, <2>2
<1>2. /\ Len(s) \in Nat /\ Len(Append(s, f)) = Len(s) + 1 /\ Append(s, f)[Len(s) + 1] = f
      /\ \A k \in 1 .. Len(s) : Append(s, f)[k] = s[k]
  BY FrameAppended
<1>3. f = ResponseFrame(c, id[c], b + (Len(s) + 1), reply[c])
  <2>1. b + Len(s) + 1 = b + (Len(s) + 1)
    BY <1>2
  <2>2. f = ResponseFrame(c, id[c], b + Len(s) + 1, reply[c])
    BY <1>1
  <2> QED
    BY <2>1, <2>2
<1>4. ASSUME NEW k \in 1 .. Len(chan'[c])
      PROVE  chan'[c][k] = ResponseFrame(c, id[c], Len(got[c]) + k, reply[c])
  <2>1. CASE k = Len(s) + 1
    BY <1>1, <1>2, <1>3, <2>1
  <2>2. CASE k \in 1 .. Len(s)
    BY <1>1, <1>2, <2>2 DEF ReadInv
  <2> QED
    BY <1>1, <1>2, <2>1, <2>2
<1> QED
  BY <1>4 DEF ReadInv

LEMMA ReceivedSame ==
    ASSUME NEW d \in Calls, UNCHANGED <<got[d], chan[d]>>, Waiting(held', d) = Waiting(held, d)
    PROVE  Received'[d] = Received[d]
<1>1. /\ Received'[d] = Len(got'[d]) + Len(chan'[d]) + Waiting(held', d)
      /\ Received[d] = Len(got[d]) + Len(chan[d]) + Waiting(held, d)
  BY DEF Received
<1> QED
  BY <1>1, Zenon

LEMMA DispatchFollowingResponse ==
    ASSUME TypeOK, TypeOK', MapInv, CallInv, RequestInv, AnswersInv, ResponseInv,
           DispatchFollowing, UNCHANGED serverVars
    PROVE  ResponseInv'
<1>1. /\ s2c # << >> /\ held = << >> /\ s2c' = Tail(s2c)
      /\ UNCHANGED <<pc, id, sent, got, result, senders, link, reply, taskSent, srvChunk, srvQueue>>
  BY DEF DispatchFollowing, Unlocked, callVars, serverVars, taskVars
<1>2. PICK f : f = Head(s2c)
  OBVIOUS
<1>3. PICK c : c = f.from
  OBVIOUS
<1>4. /\ f \in Frame /\ c \in Calls /\ link = "up"
      /\ f = ResponseFrame(c, id[c], f.seq, reply[c])
      /\ Received[c] < f.seq /\ f.seq <= taskSent[c]
      /\ Listening(c) => f.seq = Received[c] + 1 /\ senders[f.id] = c
      /\ senders[f.id] # NoCall /\ Listening(senders[f.id]) => senders[f.id] = c
  BY <1>1, <1>2, <1>3, NextResponse
<1>5. PICK b, q \in Nat, w \in 0 .. 1 :
         /\ b = Len(got[c]) /\ q = Len(chan[c]) /\ w = Waiting(held, c)
         /\ Received[c] = b + q + w
  BY <1>4, ReceivedValue
<1>6. w = 0
  BY <1>1, <1>5 DEF Waiting
<1>7. /\ chan \in [Calls -> Seq(Frame)] /\ c # NoCall
      /\ Listening(c) => senders[Head(s2c).id] = c /\ f.seq = b + q + 1
  <2>1. chan \in [Calls -> Seq(Frame)] /\ c # NoCall
    BY <1>4, FramesAssumption DEF TypeOK, ClientTypeOK
  <2>2. Listening(c) => senders[Head(s2c).id] = c /\ f.seq = (b + q + 0) + 1
    BY <1>2, <1>4, <1>5, <1>6, Zenon
  <2>3. (b + q + 0) + 1 = b + q + 1
    OBVIOUS
  <2> QED
    BY <2>1, <2>2, <2>3, Zenon
<1>8. ReadInv(c)
  BY <1>4 DEF ResponseInv
<1>9. CASE ~Listening(c)
  <2>1. UNCHANGED <<chan, held>>
    BY <1>2, <1>4, <1>9 DEF DispatchFollowing
  <2>2. UNCHANGED Received
    BY <1>1, <2>1 DEF Received, Waiting
  <2>3. RepliesInv'
    BY <1>1, <1>2, <1>3, <1>9, <2>2, RepliesTaken
  <2>4. ResponseHeld'
    BY <1>1, <2>1 DEF ResponseHeld
  <2>5. ReadInv(c)'
    BY <1>1, <1>8, <2>1, <2>2 DEF ReadInv
  <2> QED
    BY <1>1, <1>4, <2>1, <2>2, <2>3, <2>4, <2>5, ReadOnly
<1>10. CASE Listening(c) /\ Len(chan[c]) < BufferSize
  <2>1. chan' = [chan EXCEPT ![c] = Append(@, f)] /\ UNCHANGED held
    <3>1. ~(Len(chan[c]) >= BufferSize)
      BY <1>5, <1>10, FramesAssumption
    <3> QED
      BY <1>2, <1>7, <1>10, <3>1 DEF DispatchFollowing
  <2>2. Len(chan'[c]) = q + 1
    <3>1. PICK s \in Seq(Frame) : s = chan[c] /\ chan'[c] = Append(s, f)
      BY <1>4, <1>7, <2>1
    <3> QED
      BY <1>4, <1>5, <3>1, FrameAppended
  <2>3. Received'[c] = Received[c] + 1
    <3>1. Received'[c] = Len(got'[c]) + Len(chan'[c]) + Waiting(held', c)
      BY <1>4 DEF Received
    <3>2. Len(got'[c]) = b /\ Waiting(held', c) = 0
      BY <1>1, <1>5, <2>1 DEF Waiting
    <3>3. Received'[c] = b + (q + 1) + 0 /\ Received[c] = b + q + 0
      BY <1>5, <1>6, <2>2, <3>1, <3>2, Zenon
    <3> QED
      BY <3>3
  <2>4. \A d \in Calls \ {c} : UNCHANGED <<got[d], chan[d], pc[d], result[d], Received[d]>>
    <3>1. \A d \in Calls \ {c} : UNCHANGED <<got[d], chan[d], pc[d], result[d]>>
      BY <1>1, <1>4, <1>7, <2>1
    <3>2. \A d \in Calls \ {c} : Waiting(held', d) = Waiting(held, d)
      BY <2>1
    <3> QED
      BY <3>1, <3>2, ReceivedSame
  <2>5. RepliesInv'
    <3>1. \A d \in Calls : Received'[d] = IF d = Head(s2c).from /\ Listening(d)
                                          THEN Received[d] + 1 ELSE Received[d]
      BY <1>2, <1>3, <1>10, <2>3, <2>4
    <3> QED
      BY <1>1, <3>1, RepliesTaken
  <2>6. ResponseHeld'
    BY <1>1, <2>1 DEF ResponseHeld
  <2>7. ReadInv(c)'
    <3>1. f.seq = b + q + 1
      BY <1>7, <1>10
    <3>2. f = ResponseFrame(c, id[c], Len(got[c]) + Len(chan[c]) + 1, reply[c])
      BY <1>4, <1>5, <3>1
    <3>3. Received'[c] <= taskSent[c]
      BY <1>4, <1>10, <2>3
    <3> QED
      BY <1>1, <1>4, <1>8, <2>1, <3>2, <3>3, ReadsGrow
  <2> QED
    BY <1>1, <1>4, <2>4, <2>5, <2>6, <2>7, ReadOnly
<1>11. CASE Listening(c) /\ ~(Len(chan[c]) < BufferSize)
  <2>1. held' = <<f>> /\ UNCHANGED chan
    BY <1>2, <1>7, <1>11 DEF DispatchFollowing
  <2>2. held' # << >> /\ Head(held') = f
    BY <1>4, <2>1
  <2>3. Received'[c] = Received[c] + 1
    <3>1. Received'[c] = Len(got'[c]) + Len(chan'[c]) + Waiting(held', c)
      BY <1>4 DEF Received
    <3>2. Waiting(held', c) = 1
      BY <1>3, <2>2 DEF Waiting
    <3>3. Received'[c] = b + q + 1 /\ Received[c] = b + q + 0
      BY <1>1, <1>5, <1>6, <2>1, <3>1, <3>2, Zenon
    <3> QED
      BY <3>3
  <2>4. \A d \in Calls \ {c} : UNCHANGED <<got[d], chan[d], pc[d], result[d], Received[d]>>
    <3>1. \A d \in Calls \ {c} : Waiting(held, d) = 0 /\ Waiting(held', d) = 0
      BY <1>1, <1>3, <2>2 DEF Waiting
    <3> QED
      BY <1>1, <2>1, <3>1, ReceivedSame
  <2>5. RepliesInv'
    <3>1. \A d \in Calls : Received'[d] = IF d = Head(s2c).from /\ Listening(d)
                                          THEN Received[d] + 1 ELSE Received[d]
      BY <1>2, <1>3, <1>11, <2>3, <2>4
    <3> QED
      BY <1>1, <3>1, RepliesTaken
  <2>6. Received'[c] <= taskSent[c]
    BY <1>4, <1>11, <2>3
  <2>7. ResponseHeld'
    <3>1. Len(got'[c]) < f.seq
      <4>1. f.seq = b + q + 1 /\ Len(got'[c]) = b
        BY <1>1, <1>5, <1>7, <1>11
      <4>2. b < b + q + 1
        OBVIOUS
      <4> QED
        BY <4>1, <4>2
    <3>2. f.seq = Received'[c]
      BY <1>4, <1>11, <2>3
    <3> QED
      BY <1>1, <1>3, <1>4, <1>11, <2>1, <2>2, <3>1, <3>2 DEF ResponseHeld
  <2>8. ReadInv(c)'
    BY <1>1, <1>8, <2>1, <2>6 DEF ReadInv
  <2> QED
    BY <1>1, <1>4, <2>4, <2>5, <2>7, <2>8, ReadOnly
<1> QED
  BY <1>9, <1>10, <1>11

(* The call FrameReceiver waits for gets the frame, or has gone.            *)
LEMMA DispatchResumeResponse ==
    ASSUME TypeOK, TypeOK', ResponseInv, DispatchResume, UNCHANGED serverVars
    PROVE  ResponseInv'
<1>1. /\ held # << >> /\ held' = << >>
      /\ UNCHANGED <<pc, id, sent, got, result, senders, s2c, link, reply, taskSent, srvChunk,
                     srvQueue>>
  BY DEF DispatchResume, callVars, serverVars, taskVars
<1>2. PICK f : f = Head(held)
  OBVIOUS
<1>3. PICK c : c = f.from
  OBVIOUS
<1>4. /\ f \in Frame /\ c \in Calls /\ senders[f.id] = c
      /\ f = ResponseFrame(c, id[c], f.seq, reply[c]) /\ f.seq <= taskSent[c]
      /\ Listening(c) => f.seq = Received[c]
  <2>1. f \in Frame
    BY <1>1, <1>2 DEF TypeOK, ClientTypeOK
  <2> QED
    BY <1>1, <1>2, <1>3, <2>1 DEF ResponseInv, ResponseHeld, Frame
<1>5. PICK b, q \in Nat, w \in 0 .. 1 :
         /\ b = Len(got[c]) /\ q = Len(chan[c]) /\ w = Waiting(held, c)
         /\ Received[c] = b + q + w
  BY <1>4, ReceivedValue
<1>6. w = 1 /\ (Listening(c) => f.seq = b + q + 1)
  <2>1. w = 1
    BY <1>1, <1>2, <1>3, <1>5 DEF Waiting
  <2> QED
    BY <1>4, <1>5, <2>1, Zenon
<1>7. chan \in [Calls -> Seq(Frame)] /\ ReadInv(c)
  BY <1>4 DEF TypeOK, ClientTypeOK, ResponseInv
<1>8. \A d \in Calls \ {c} : Waiting(held', d) = Waiting(held, d)
  BY <1>1, <1>2, <1>3 DEF Waiting
<1>9. ResponseTypesOK
  BY ResponseTypes
<1>10. ResponseTypesOK'
  BY ResponseTypes, PTL
<1>11. Cut(ResponsePipe, 0, ResponsePipe')
  <2>1. ResponsePipe' = ResponsePipe /\ ResponsePipe \in Seq(Frame)
    BY <1>1, <1>9 DEF ResponsePipe, ResponseTypesOK
  <2> QED
    BY <2>1, NoCut
<1>12. ResponseHeld'
  BY <1>1 DEF ResponseHeld
<1>13. link' = "down" => s2c' = << >>
  BY <1>1 DEF ResponseInv
<1>14. CASE Listening(c)
  <2>1. chan' = [chan EXCEPT ![c] = Append(@, f)]
    BY <1>2, <1>4, <1>14 DEF DispatchResume
  <2>2. Len(chan'[c]) = q + 1
    <3>1. PICK s \in Seq(Frame) : s = chan[c] /\ chan'[c] = Append(s, f)
      BY <1>4, <1>7, <2>1
    <3> QED
      BY <1>4, <1>5, <3>1, FrameAppended
  <2>3. Received'[c] = Received[c]
    <3>1. Received'[c] = Len(got'[c]) + Len(chan'[c]) + Waiting(held', c)
      BY <1>4 DEF Received
    <3>2. Len(got'[c]) = b /\ Waiting(held', c) = 0
      BY <1>1, <1>5 DEF Waiting
    <3>3. Received'[c] = b + (q + 1) + 0 /\ Received[c] = b + q + 1
      BY <1>5, <1>6, <2>2, <3>1, <3>2, Zenon
    <3> QED
      BY <3>3
  <2>4. \A d \in Calls \ {c} : UNCHANGED <<got[d], chan[d], pc[d], result[d], Received[d]>>
    <3>1. \A d \in Calls \ {c} : UNCHANGED <<got[d], chan[d], pc[d], result[d]>>
      BY <1>1, <1>4, <1>7, <2>1
    <3> QED
      BY <1>8, <3>1, ReceivedSame
  <2>5. RepliesInv'
    <3>1. \A d \in Calls : Received'[d] = Received[d] /\ Received[d] \in Nat
      BY <1>9, <2>3, <2>4 DEF ResponseTypesOK
    <3>2. \A d \in Calls : Received'[d] <= Received[d]
      BY <3>1
    <3>3. \A d \in Calls : Listening(d)' => Listening(d)
      BY <1>1 DEF Listening
    <3> QED
      BY <1>1, <1>9, <1>10, <1>11, <3>1, <3>2, <3>3, RepliesKept DEF ResponseInv
  <2>6. ReadInv(c)'
    <3>1. f = ResponseFrame(c, id[c], Len(got[c]) + Len(chan[c]) + 1, reply[c])
      BY <1>4, <1>5, <1>6, <1>14
    <3>2. Received'[c] <= taskSent[c]
      BY <1>7, <2>3 DEF ReadInv
    <3> QED
      BY <1>1, <1>4, <1>7, <2>1, <3>1, <3>2, ReadsGrow
  <2> QED
    BY <1>1, <1>4, <1>12, <1>13, <2>4, <2>5, <2>6, ReadOnly
<1>15. CASE ~Listening(c)
  <2>1. UNCHANGED chan
    BY <1>2, <1>4, <1>15 DEF DispatchResume
  <2>2. \A d \in Calls \ {c} : UNCHANGED <<got[d], chan[d], pc[d], result[d], Received[d]>>
    BY <1>1, <1>8, <2>1, ReceivedSame
  <2>3. Received'[c] <= Received[c]
    <3>1. Received'[c] = Len(got'[c]) + Len(chan'[c]) + Waiting(held', c)
      BY <1>4 DEF Received
    <3>2. Waiting(held', c) = 0
      BY <1>1 DEF Waiting
    <3>3. Received'[c] = b + q + 0 /\ Received[c] = b + q + 1
      BY <1>1, <1>5, <1>6, <2>1, <3>1, <3>2, Zenon
    <3> QED
      BY <3>3
  <2>4. RepliesInv'
    <3>1. \A d \in Calls : Received[d] \in Nat /\ Received'[d] <= Received[d]
      BY <1>9, <2>2, <2>3 DEF ResponseTypesOK
    <3>2. \A d \in Calls : Listening(d)' => Listening(d) /\ Received'[d] = Received[d]
      BY <1>1, <1>15, <2>2 DEF Listening
    <3> QED
      BY <1>1, <1>9, <1>10, <1>11, <3>1, <3>2, RepliesKept DEF ResponseInv
  <2>5. ReadInv(c)'
    <3>1. Received'[c] <= taskSent[c]
      BY <1>4, <1>7, <1>9, <1>10, <2>3 DEF ReadInv, ResponseTypesOK
    <3> QED
      BY <1>1, <1>7, <2>1, <3>1 DEF ReadInv
  <2> QED
    BY <1>1, <1>4, <1>12, <1>13, <2>2, <2>4, <2>5, ReadOnly
<1> QED
  BY <1>14, <1>15

(* read_response takes the next frame of its own response, or gives up.     *)
LEMMA ReceiveFrameResponse ==
    ASSUME TypeOK, TypeOK', CallInv, ResponseInv, NEW c \in Calls, ReceiveFrame(c),
           UNCHANGED serverVars
    PROVE  ResponseInv'
<1>1. /\ pc[c] = "receiving" /\ chan[c] # << >>
      /\ UNCHANGED <<id, sent, senders, held, s2c, link, reply, taskSent, srvChunk, srvQueue>>
  BY DEF ReceiveFrame, serverVars, taskVars
<1>2. PICK f : f = Head(chan[c])
  OBVIOUS
<1>3. /\ chan \in [Calls -> Seq(Frame)] /\ pc \in [Calls -> PCs] /\ result \in [Calls -> Results]
      /\ got \in [Calls -> Seq(Calls \X Nat)] /\ id[c] \in Ids /\ taskSent[c] \in Nat
      /\ reply[c] \in Replies \cup {NoReply} /\ ResLen[c] \in Nat /\ ResLen[c] > 0
  BY FramesAssumption DEF TypeOK, ClientTypeOK, ServerTypeOK
<1>4. PICK s \in Seq(Frame) : s = chan[c]
  BY <1>3
<1>5. /\ Len(s) \in Nat /\ Len(s) > 0 /\ f = s[1]
      /\ Len(Tail(s)) = Len(s) - 1 /\ \A k \in 1 .. Len(Tail(s)) : Tail(s)[k] = s[k + 1]
  BY <1>1, <1>2, <1>4, HeadTailProperties
<1>6. PICK b, q \in Nat, w \in 0 .. 1 :
         /\ b = Len(got[c]) /\ q = Len(chan[c]) /\ w = Waiting(held, c)
         /\ Received[c] = b + q + w
  BY ReceivedValue
<1>7. /\ got[c] = Whole(c, b) /\ b + q + w <= taskSent[c] /\ q > 0 /\ q = Len(s)
      /\ \A k \in 1 .. q : s[k] = ResponseFrame(c, id[c], b + k, reply[c])
  <2>1. /\ got[c] = Whole(c, b) /\ Received[c] <= taskSent[c]
        /\ \A k \in 1 .. q : s[k] = ResponseFrame(c, id[c], b + k, reply[c])
    BY <1>4, <1>6 DEF ResponseInv, ReadInv
  <2>2. q = Len(s) /\ q > 0
    BY <1>4, <1>5, <1>6
  <2> QED
    BY <1>6, <2>1, <2>2
<1>8. f = ResponseFrame(c, id[c], b + 1, reply[c]) /\ taskSent[c] > 0
  BY <1>3, <1>5, <1>7
<1>9. CASE ~Readable(got[c], f, "CallResponse") \/ SchemeRefused(got[c], f)
  <2>1. /\ pc' = [pc EXCEPT ![c] = "closing"] /\ result' = [result EXCEPT ![c] = "internal_error"]
        /\ chan' = [chan EXCEPT ![c] = << >>] /\ UNCHANGED got
    BY <1>2, <1>9 DEF ReceiveFrame, StopReading
  <2>2. \A d \in Calls : Listening(d)' => Listening(d) /\ UNCHANGED chan[d]
    BY <1>3, <2>1 DEF Listening
  <2>3. \A d \in Calls : pc'[d] \in Closing => pc[d] \in Closing \/ taskSent[d] > 0
    BY <1>3, <1>8, <2>1 DEF Closing
  <2>4. /\ \A d \in Calls : chan'[d] \in {chan[d], << >>}
        /\ \A d \in Calls : result'[d] \in {result[d], "internal_error"}
    BY <1>3, <2>1
  <2> QED
    BY <1>1, <2>1, <2>2, <2>3, <2>4, ResponseQuiet
<1>10. CASE Readable(got[c], f, "CallResponse") /\ ~SchemeRefused(got[c], f)
  <2>1. /\ got' = [got EXCEPT ![c] = Append(@, <<f.from, f.seq>>)]
        /\ \/ IsLast(f) /\ \E r \in {"ok", "message_error"} : StopReading(c, r)
           \/ ~IsLast(f) /\ chan' = [chan EXCEPT ![c] = Tail(@)] /\ UNCHANGED <<pc, result>>
    <3>1. \A x : ResultOf(x) \in {"ok", "message_error"}
      BY DEF ResultOf
    <3> QED
      BY <1>2, <1>10, <3>1 DEF ReceiveFrame
  <2>2. reply[c] # "Unfragmentable"
    BY <1>3, <1>8, <1>10 DEF ResponseFrame, Readable
  <2>3. f.from = c /\ f.seq = b + 1 /\ (IsLast(f) <=> b + 1 = ResLen[c])
    <3>1. b + 1 \in Nat
      OBVIOUS
    <3> QED
      BY <1>3, <1>8, <2>2, <3>1, ResponseFrameFields
  <2>4. got'[c] = Whole(c, b + 1) /\ Len(got'[c]) = b + 1
    <3>1. got'[c] = Append(Whole(c, b), <<c, b + 1>>)
      BY <1>3, <1>7, <2>1, <2>3
    <3>2. Append(Whole(c, b), <<c, b + 1>>) = Whole(c, b + 1)
      BY WholeGrows, Zenon
    <3>3. b + 1 \in Nat
      OBVIOUS
    <3>4. Len(Whole(c, b + 1)) = b + 1
      BY <3>3, WholeGrows, Zenon
    <3> QED
      BY <3>1, <3>2, <3>4
  <2>5. \A d \in Calls \ {c} : UNCHANGED <<got[d], chan[d], pc[d], result[d], Received[d]>>
    <3>1. \A d \in Calls \ {c} : UNCHANGED <<got[d], chan[d], pc[d], result[d]>>
      BY <1>3, <2>1 DEF StopReading
    <3>2. \A d \in Calls \ {c} : Waiting(held', d) = Waiting(held, d)
      BY <1>1
    <3> QED
      BY <3>1, <3>2, ReceivedSame
  <2>6. /\ IsLast(f) => chan'[c] = << >> /\ Len(chan'[c]) = 0 /\ pc'[c] = "closing"
                        /\ result'[c] # "rejected"
        /\ ~IsLast(f) => chan'[c] = Tail(s) /\ Len(chan'[c]) = q - 1 /\ pc'[c] = pc[c]
                         /\ result'[c] = result[c]
    <3>1. CASE IsLast(f)
      BY <1>3, <2>1, <3>1, EmptySeq DEF StopReading
    <3>2. CASE ~IsLast(f)
      BY <1>3, <1>4, <1>5, <1>7, <2>1, <3>2
    <3> QED
      BY <3>1, <3>2
  <2>7. /\ Received'[c] <= b + q + w
        /\ ~IsLast(f) => Received'[c] = b + q + w
    <3>1. Received'[c] = Len(got'[c]) + Len(chan'[c]) + Waiting(held', c)
      BY DEF Received
    <3>2. Waiting(held', c) = w
      BY <1>1, <1>6
    <3>3. CASE IsLast(f)
      <4>1. Received'[c] = (b + 1) + 0 + w
        BY <2>4, <2>6, <3>1, <3>2, <3>3, Zenon
      <4>2. (b + 1) + 0 + w <= b + q + w
        BY <1>7
      <4> QED
        BY <3>3, <4>1, <4>2, Zenon
    <3>4. CASE ~IsLast(f)
      <4>1. Received'[c] = (b + 1) + (q - 1) + w
        BY <2>4, <2>6, <3>1, <3>2, <3>4, Zenon
      <4>2. (b + 1) + (q - 1) + w = b + q + w /\ b + q + w <= b + q + w
        OBVIOUS
      <4> QED
        BY <3>4, <4>1, <4>2, Zenon
    <3> QED
      BY <3>3, <3>4
  <2>8. ResponseTypesOK
    BY ResponseTypes
  <2>9. ResponseTypesOK'
    BY ResponseTypes, PTL
  <2>10. RepliesInv'
    <3>1. Cut(ResponsePipe, 0, ResponsePipe')
      <4>1. ResponsePipe' = ResponsePipe /\ ResponsePipe \in Seq(Frame)
        BY <1>1, <2>8 DEF ResponsePipe, ResponseTypesOK
      <4> QED
        BY <4>1, NoCut
    <3>2. ASSUME NEW d \in Calls
          PROVE  /\ Received'[d] <= Received[d]
                 /\ Listening(d)' => Listening(d) /\ Received'[d] = Received[d]
      <4>1. CASE d = c
        <5>1. Received'[c] <= Received[c] /\ (~IsLast(f) => Received'[c] = Received[c])
          BY <1>6, <2>7, Zenon
        <5>2. Listening(c) /\ (Listening(c)' => ~IsLast(f))
          BY <1>1, <2>6 DEF Listening
        <5> QED
          BY <4>1, <5>1, <5>2
      <4>2. CASE d # c
        <5>1. Received'[d] = Received[d] /\ pc'[d] = pc[d] /\ Received[d] \in Nat
          BY <2>5, <2>8, <4>2 DEF ResponseTypesOK
        <5> QED
          BY <5>1 DEF Listening
      <4> QED
        BY <4>1, <4>2
    <3> QED
      BY <1>1, <2>8, <2>9, <3>1, <3>2, RepliesKept DEF ResponseInv
  <2>11. ResponseHeld'
    <3>1. SUFFICES ASSUME held # << >> PROVE ResponseHeld'
      BY <1>1 DEF ResponseHeld
    <3>2. PICK g : g = Head(held)
      OBVIOUS
    <3>3. /\ held = <<g>> /\ g = ResponseFrame(g.from, id[g.from], g.seq, reply[g.from])
          /\ senders[g.id] = g.from /\ Len(got[g.from]) < g.seq /\ g.seq <= taskSent[g.from]
          /\ Listening(g.from) => g.seq = Received[g.from]
      BY <3>1, <3>2 DEF ResponseInv, ResponseHeld
    <3>4. g \in Frame
      BY <3>1, <3>2 DEF TypeOK, ClientTypeOK
    <3>5. PICK d \in Calls : d = g.from
      BY <3>4 DEF Frame
    <3>6. Len(got'[d]) < g.seq /\ (Listening(d)' => g.seq = Received'[d])
      <4>1. CASE d = c
        <5>1. w = 1
          BY <1>6, <3>1, <3>2, <3>5, <4>1 DEF Waiting
        <5>2. g.seq = b + q + 1
          BY <1>1, <1>6, <3>3, <3>5, <4>1, <5>1, Zenon DEF Listening
        <5>3. b + 1 < b + q + 1
          BY <1>7
        <5>4. Listening(c)' => Received'[c] = b + q + 1
          BY <2>6, <2>7, <5>1 DEF Listening
        <5> QED
          BY <2>4, <4>1, <5>2, <5>3, <5>4
      <4>2. CASE d # c
        <5>1. Received'[d] = Received[d] /\ pc'[d] = pc[d] /\ got'[d] = got[d]
          BY <2>5, <4>2
        <5> QED
          BY <3>3, <3>5, <5>1 DEF Listening
      <4> QED
        BY <4>1, <4>2
    <3>7. Len(got'[g.from]) < g.seq /\ (Listening(g.from)' => g.seq = Received'[g.from])
      BY <3>5, <3>6
    <3>8. held' # << >> /\ Head(held') = g
      BY <1>1, <3>1, <3>2
    <3> QED
      BY <1>1, <3>3, <3>5, <3>6, <3>8 DEF ResponseHeld, Listening
  <2>12. ReadInv(c)'
    <3>1. ASSUME NEW k \in 1 .. Len(chan'[c])
          PROVE  chan'[c][k] = ResponseFrame(c, id[c], (b + 1) + k, reply[c])
      <4>1. ~IsLast(f)
        BY <2>6
      <4>2. chan'[c] = Tail(s) /\ k + 1 \in 1 .. q /\ b + (k + 1) = (b + 1) + k
        BY <2>6, <4>1
      <4>3. Tail(s)[k] = s[k + 1]
        BY <1>5, <1>7, <2>6, <4>1, <4>2
      <4>4. s[k + 1] = ResponseFrame(c, id[c], b + (k + 1), reply[c])
        BY <1>7, <4>2
      <4> QED
        BY <4>2, <4>3, <4>4
    <3>2. Received'[c] <= taskSent[c]
      <4>1. Received'[c] \in Nat
        BY <2>9 DEF ResponseTypesOK
      <4> QED
        BY <1>3, <1>7, <2>7, <4>1
    <3>3. /\ result'[c] # "rejected"
          /\ result'[c] \in {"ok", "message_error"} => Len(got'[c]) = ResLen[c]
      <4>1. CASE IsLast(f)
        BY <2>3, <2>4, <2>6, <4>1
      <4>2. CASE ~IsLast(f)
        BY <1>1, <2>6, <4>2 DEF CallInv
      <4> QED
        BY <4>1, <4>2
    <3> QED
      BY <1>1, <1>8, <2>4, <3>1, <3>2, <3>3 DEF ReadInv
  <2>13. link' = "down" => s2c' = << >>
    BY <1>1 DEF ResponseInv
  <2> QED
    BY <1>1, <2>5, <2>10, <2>11, <2>12, <2>13, ReadOnly
<1> QED
  BY <1>9, <1>10

----------------------------------------------------------------------------
LEMMA ResponseStep ==
    ASSUME NoWrap, TypeOK, TypeOK', MapInv, CallInv, RequestInv, AnswersInv, ResponseInv,
           [Next]_vars
    PROVE  ResponseInv'
<1>1. CASE UNCHANGED vars \/ ClientWrites
  <2>1. UNCHANGED <<pc, id, sent, got, result, senders, chan, held, s2c, link, reply, taskSent,
                    srvChunk, srvQueue>>
    BY <1>1 DEF vars, ClientWrites, clientVars, callVars, mapVars, serverVars, taskVars
  <2>2. \A d \in Calls : Listening(d)' => Listening(d)
    BY <2>1 DEF Listening
  <2> QED
    BY <2>1, <2>2, ResponseQuiet
<1>2. ASSUME NEW c \in Calls, CallStep(c) PROVE ResponseInv'
  <2>1. UNCHANGED serverVars
    BY <1>2 DEF CallStep
  <2> QED
    BY <1>2, <2>1, TakeIdResponse, RegisterResponse, SendFrameResponse, ReceiveFrameResponse,
       NeverNone, CloseResponse DEF CallStep
<1>3. ASSUME NEW c \in Calls, Cancel(c), UNCHANGED serverVars PROVE ResponseInv'
  BY <1>3, CancelResponse
<1>4. ASSUME NEW c \in Calls, TaskStep(c) PROVE ResponseInv'
  <2>1. UNCHANGED clientVars
    BY <1>4 DEF TaskStep
  <2> QED
    BY <1>4, <2>1, ServerResponse, SendResponseResponse
<1>5. CASE ServerWrites
  BY <1>5, ServerWritesResponse
<1>6. CASE ReceiverStep
  BY <1>6, DispatchFollowingResponse, DispatchResumeResponse DEF ReceiverStep
<1>7. CASE StreamStep
  <2>1. UNCHANGED clientVars
    BY <1>7 DEF StreamStep
  <2> QED
    BY <1>7, <2>1, ServerResponse
<1>8. CASE Disconnect
  BY <1>8, DisconnectResponse
<1> QED
  BY <1>1, <1>2, <1>3, <1>4, <1>5, <1>6, <1>7, <1>8 DEF Next, Progress, Fault

(* All that is known of a connection.                                       *)
ConnectionInv == TypeOK /\ MapInv /\ CallInv /\ RequestInv /\ AnswersInv /\ ResponseInv

(* The frames of the responses are accounted for too: each is on its way in *)
(* order, with the call it answers, or was lost with the connection or with *)
(* the interest of the call in it.                                          *)
THEOREM ConnectionInvariant == ASSUME NoWrap PROVE Spec => []ConnectionInv
<1>1. Init => AnswersInv /\ ResponseInv
  BY ResponseInit
<1>2. TypeOK /\ TypeOK' /\ MapInv /\ (CallInv /\ RequestInv) /\ (AnswersInv /\ ResponseInv)
         /\ [Next]_vars => (AnswersInv /\ ResponseInv)'
  BY AnswersStep, ResponseStep
<1>3. Spec => []TypeOK
  BY MultiplexTypeCorrect
<1>4. Spec => []MapInv
  BY MapInvariant
<1>5. Spec => [](CallInv /\ RequestInv)
  BY RequestInvariant
<1>6. TypeOK /\ MapInv /\ (CallInv /\ RequestInv) /\ (AnswersInv /\ ResponseInv)
         => ConnectionInv
  BY DEF ConnectionInv
<1> QED
  BY <1>1, <1>2, <1>3, <1>4, <1>5, <1>6, PTL DEF Spec

(* A call that returns a response returns its own, the whole of it and in   *)
(* order: dispatching by message id never mixes responses up, for any       *)
(* number of calls, lengths and capacities and whatever breaks.             *)
THEOREM ResponsesMatch == ASSUME NoWrap PROVE Spec => []ResponseMatches
<1>1. ConnectionInv => ResponseMatches
  <2> SUFFICES ASSUME ConnectionInv, NEW c \in Calls, result[c] \in {"ok", "message_error"}
               PROVE  got[c] = Whole(c, ResLen[c])
    BY DEF ResponseMatches
  <2> QED
    BY DEF ConnectionInv, ResponseInv, ReadInv
<1> QED
  BY <1>1, ConnectionInvariant, PTL

(* The three parts of an empty pipe are empty.                              *)
LEMMA EmptyPipe ==
    ASSUME NEW w \in Seq(Frame), NEW ch \in Seq(Frame), NEW q \in Seq(Frame),
           Len((w \o ch) \o q) = 0
    PROVE  w = << >> /\ ch = << >> /\ q = << >>
<1>1. w \o ch \in Seq(Frame) /\ Len(w \o ch) = Len(w) + Len(ch)
  BY ConcatProperties
<1>2. Len((w \o ch) \o q) = Len(w \o ch) + Len(q)
  BY <1>1, ConcatProperties
<1>3. Len(w) \in Nat /\ Len(ch) \in Nat /\ Len(q) \in Nat
  OBVIOUS
<1>4. Len(w) = 0 /\ Len(ch) = 0 /\ Len(q) = 0
  BY <1>1, <1>2, <1>3
<1> QED
  BY <1>4, EmptySeq

(* A call that has its response has had all of it, after all of its request *)
(* was handled; one that could not be sent has sent nothing.                *)
LEMMA AnsweredCall ==
    ASSUME ConnectionInv, NEW c \in Calls, result[c] = "ok" \/ c \in Unsendable
    PROVE  /\ task[c] \in {"none", "done", "dropped"}
           /\ sent[c] <= Requested[c]
           /\ taskSent[c] <= Len(got[c])
<1>1. /\ TypeOK /\ TaskInv(c) /\ TaskReads(c) /\ AnswerInv(c) /\ ReadInv(c)
      /\ sent[c] <= ReqLen[c] /\ (c \in Unsendable => sent[c] = 0)
  BY DEF ConnectionInv, RequestInv, AnswersInv, ResponseInv, CallInv
<1>2. /\ sent[c] \in Nat /\ taskSent[c] \in Nat /\ task[c] \in TaskStates /\ runs[c] \in Nat
      /\ ReqLen[c] \in Nat /\ ResLen[c] \in Nat /\ ResLen[c] > 0
  BY <1>1, FramesAssumption DEF TypeOK, ClientTypeOK, ServerTypeOK
<1>3. PICK b, q \in Nat, w \in 0 .. 1 :
         /\ b = Len(taskBody[c]) /\ q = Len(taskChan[c]) /\ w = Waiting(srvHeld, c)
         /\ Requested[c] = b + q + w
  BY <1>1, RequestedValue
<1>4. PICK g, h \in Nat, v \in 0 .. 1 :
         /\ g = Len(got[c]) /\ h = Len(chan[c]) /\ v = Waiting(held, c)
         /\ Received[c] = g + h + v
  BY <1>1, ReceivedValue
<1>5. g + h + v <= taskSent[c]
  BY <1>1, <1>4 DEF ReadInv
<1>6. CASE c \in Unsendable
  <2>1. sent[c] = 0 /\ task[c] = "none"
    BY <1>1, <1>6 DEF TaskInv
  <2>2. taskSent[c] = 0
    BY <1>1, <2>1 DEF AnswerInv
  <2>3. 0 <= b + q + w /\ 0 <= g
    OBVIOUS
  <2> QED
    BY <1>3, <1>4, <2>1, <2>2, <2>3
<1>7. CASE result[c] = "ok"
  <2>1. g = ResLen[c]
    BY <1>1, <1>4, <1>7 DEF ReadInv
  <2>2. taskSent[c] >= ResLen[c] /\ taskSent[c] > 0
    BY <1>2, <1>5, <2>1
  <2>3. ResponseLen(c) \in Nat /\ ResponseLen(c) <= ResLen[c]
    BY <1>2 DEF ResponseLen
  <2>4. taskSent[c] <= ResponseLen(c)
    BY <1>1 DEF AnswerInv
  <2>5. taskSent[c] = g /\ taskSent[c] = ResponseLen(c)
    BY <1>2, <2>1, <2>2, <2>3, <2>4
  <2>6. task[c] \in {"done", "dropped"} /\ runs[c] = 1
    BY <1>1, <1>2, <2>2, <2>5 DEF AnswerInv, TaskStates
  <2>7. b = ReqLen[c]
    BY <1>1, <1>3, <2>6 DEF TaskInv
  <2>8. sent[c] <= b + q + w
    BY <1>1, <1>2, <2>7
  <2>9. g <= g
    OBVIOUS
  <2> QED
    BY <1>3, <1>4, <2>5, <2>6, <2>8, <2>9
<1> QED
  BY <1>6, <1>7

(* Once every call has its response (or could not be sent) nothing of them  *)
(* is left on either side: no frame, no map entry and no running task.      *)
THEOREM AnsweredIsQuiet == ASSUME NoWrap PROVE Spec => []AnsweredMeansQuiet
<1>1. ConnectionInv => AnsweredMeansQuiet
  <2> SUFFICES ASSUME ConnectionInv,
                      \A c \in Calls : pc[c] = "done" /\ (result[c] = "ok" \/ c \in Unsendable)
               PROVE  /\ Active = {}
                      /\ c2s = << >> /\ s2c = << >> /\ held = << >> /\ srvHeld = << >>
                      /\ outQueue = << >> /\ outChunk = << >>
                      /\ srvQueue = << >> /\ srvChunk = << >>
                      /\ \A i \in Ids : senders[i] = NoCall /\ srvSenders[i] = NoCall
    BY DEF AnsweredMeansQuiet
  <2>1. TypeOK /\ RequestTypesOK /\ ResponseTypesOK
    BY RequestTypes, ResponseTypes DEF ConnectionInv
  <2>2. \A c \in Calls : /\ task[c] \in {"none", "done", "dropped"}
                         /\ sent[c] <= Requested[c] /\ taskSent[c] <= Len(got[c])
    BY AnsweredCall
  <2>3. Active = {}
    BY <2>2 DEF Active
  <2>4. srvHeld = << >>
    <3>1. SUFFICES ASSUME srvHeld # << >> PROVE FALSE
      OBVIOUS
    <3>2. Head(srvHeld).from \in Calls /\ task[Head(srvHeld).from] = "reading"
      BY <2>1, <3>1, HeldTarget DEF ConnectionInv
    <3> QED
      BY <2>2, <3>2
  <2>5. held = << >>
    <3>1. SUFFICES ASSUME held # << >> PROVE FALSE
      OBVIOUS
    <3>2. PICK f : f = Head(held)
      OBVIOUS
    <3>3. Len(got[f.from]) < f.seq /\ f.seq <= taskSent[f.from]
      BY <3>1, <3>2 DEF ConnectionInv, ResponseInv, ResponseHeld
    <3>4. f \in Frame
      BY <2>1, <3>1, <3>2 DEF TypeOK, ClientTypeOK
    <3>5. f.from \in Calls /\ f.seq \in Nat
      BY <3>4 DEF Frame
    <3>6. PICK n \in Nat : n = Len(got[f.from])
      BY <2>1, <3>5, ReceivedValue
    <3>7. taskSent[f.from] \in Nat /\ taskSent[f.from] <= n /\ n < f.seq
      BY <2>1, <2>2, <3>3, <3>5, <3>6 DEF ResponseTypesOK
    <3> QED
      BY <3>3, <3>5, <3>7
  <2>6. Len(RequestPipe) = 0
    <3>1. Len(RequestPipe) \in Nat
      BY <2>1 DEF RequestTypesOK
    <3>2. SUFFICES ASSUME 1 \in 1 .. Len(RequestPipe) PROVE FALSE
      BY <3>1
    <3>3. PICK f : f = RequestPipe[1]
      OBVIOUS
    <3>4. f.from \in Calls /\ f.seq \in Nat
      BY <2>1, <3>2, <3>3, InPipe
    <3>5. Requested[f.from] < f.seq /\ f.seq <= sent[f.from]
      BY <3>2, <3>3 DEF ConnectionInv, RequestInv, PipeInv, RequestFrames
    <3>6. sent[f.from] <= Requested[f.from] /\ sent[f.from] \in Nat /\ Requested[f.from] \in Nat
      BY <2>1, <2>2, <3>4 DEF RequestTypesOK
    <3> QED
      BY <3>4, <3>5, <3>6
  <2>7. Len(ResponsePipe) = 0
    <3>1. Len(ResponsePipe) \in Nat
      BY <2>1 DEF ResponseTypesOK
    <3>2. SUFFICES ASSUME 1 \in 1 .. Len(ResponsePipe) PROVE FALSE
      BY <3>1
    <3>3. PICK f : f = ResponsePipe[1]
      OBVIOUS
    <3>4. f.from \in Calls /\ f.seq \in Nat
      BY <2>1, <3>2, <3>3, InResponsePipe
    <3>5. Received[f.from] < f.seq /\ f.seq <= taskSent[f.from]
      BY <3>2, <3>3 DEF ConnectionInv, ResponseInv, RepliesInv, ResponseFrames
    <3>6. PICK g, h \in Nat, v \in 0 .. 1 :
             /\ g = Len(got[f.from]) /\ h = Len(chan[f.from]) /\ v = Waiting(held, f.from)
             /\ Received[f.from] = g + h + v
      BY <2>1, <3>4, ReceivedValue
    <3>7. taskSent[f.from] <= g /\ taskSent[f.from] \in Nat /\ g + h + v < f.seq
      BY <2>1, <2>2, <3>4, <3>5, <3>6 DEF ResponseTypesOK
    <3> QED
      BY <3>4, <3>5, <3>7
  <2>8. c2s = << >> /\ outChunk = << >> /\ outQueue = << >>
    <3>1. c2s \in Seq(Frame) /\ outChunk \in Seq(Frame) /\ outQueue \in Seq(Frame)
      BY <2>1 DEF TypeOK, WiresTypeOK, ClientTypeOK
    <3> QED
      BY <2>6, <3>1, EmptyPipe DEF RequestPipe
  <2>9. s2c = << >> /\ srvChunk = << >> /\ srvQueue = << >>
    <3>1. s2c \in Seq(Frame) /\ srvChunk \in Seq(Frame) /\ srvQueue \in Seq(Frame)
      BY <2>1 DEF TypeOK, WiresTypeOK, ServerTypeOK
    <3> QED
      BY <2>7, <3>1, EmptyPipe DEF ResponsePipe
  <2>10. ASSUME NEW i \in Ids PROVE senders[i] = NoCall /\ srvSenders[i] = NoCall
    <3>1. senders[i] \in Calls \cup {NoCall} /\ srvSenders[i] \in Calls \cup {NoCall}
      BY <2>1 DEF TypeOK, ClientTypeOK, ServerTypeOK
    <3>2. senders[i] = NoCall
      BY <3>1 DEF ConnectionInv, MapInv, IdsReleased
    <3>3. srvSenders[i] = NoCall
      BY <2>2, <3>1 DEF ConnectionInv, RequestInv, SrvMapInv
    <3> QED
      BY <3>2, <3>3
  <2> QED
    BY <2>3, <2>4, <2>5, <2>8, <2>9, <2>10
<1> QED
  BY <1>1, ConnectionInvariant, PTL

----------------------------------------------------------------------------
(* The refinement mapping.                                                  *)
LEMMA StatusMoves ==
    ASSUME pc \in [Calls -> PCs], NEW c \in Calls, NEW to,
           \A d \in Calls \ {c} : UNCHANGED <<pc[d], result[d]>>, Status(c)' = to
    PROVE  [d \in Calls |-> Status(d)]' = [[d \in Calls |-> Status(d)] EXCEPT ![c] = to]
<1>1. \A d \in Calls \ {c} : Status(d)' = Status(d)
  BY DEF Status
<1> QED
  BY <1>1

LEMMA StatusKept ==
    ASSUME \A d \in Calls : Status(d)' = Status(d), UNCHANGED runs
    PROVE  UNCHANGED Service!vars
  BY DEF Service!vars

LEMMA ServiceInit == Init => Service!Init
  BY DEF Init, ClientInit, ServerInit, Service!Init, Status

(* What a call does is a step of its caller's view, or none.                *)
LEMMA ServiceCall ==
    ASSUME NoWrap, ConnectionInv, NEW c \in Calls,
           CallStep(c) \/ (Cancel(c) /\ UNCHANGED serverVars)
    PROVE  [Service!Next]_(Service!vars)
<1>1. /\ pc \in [Calls -> PCs] /\ result \in [Calls -> Results] /\ UNCHANGED runs
      /\ MapInv /\ CallInv
  BY DEF ConnectionInv, TypeOK, ClientTypeOK, CallStep, serverVars, taskVars
<1>2. CASE TakeId(c)
  <2>1. pc[c] = "idle" /\ pc' = [pc EXCEPT ![c] = "registering"] /\ UNCHANGED result
    BY <1>2 DEF TakeId
  <2>2. Status(c) = "idle" /\ Status(c)' = "pending"
    BY <1>1, <2>1 DEF Status
  <2>3. \A d \in Calls \ {c} : UNCHANGED <<pc[d], result[d]>>
    BY <1>1, <2>1
  <2>4. Service!Submit(c)
    BY <1>1, <2>2, <2>3, StatusMoves DEF Service!Submit, Service!Move
  <2> QED
    BY <2>4 DEF Service!Next
<1>3. CASE Cancel(c)
  <2>1. /\ pc[c] \notin {"idle", "done", "cancelled"} /\ pc' = [pc EXCEPT ![c] = "cancelled"]
        /\ UNCHANGED result
    BY <1>3 DEF Cancel
  <2>2. Status(c) = "pending" /\ Status(c)' = "abandoned"
    BY <1>1, <2>1 DEF Status
  <2>3. \A d \in Calls \ {c} : UNCHANGED <<pc[d], result[d]>>
    BY <1>1, <2>1
  <2>4. Service!Abandon(c)
    BY <1>1, <2>2, <2>3, StatusMoves DEF Service!Abandon, Service!Move
  <2> QED
    BY <2>4 DEF Service!Next
<1>4. CASE Register(c)
  <2>1. pc[c] = "registering" /\ senders[id[c]] = NoCall
    BY <1>1, <1>4, RegisterFree DEF Register
  <2>2. \E p \in {"sending", "closing_again"} : pc' = [pc EXCEPT ![c] = p]
    BY <1>4, <2>1 DEF Register, AlreadyRegistered
  <2>3. \E r : result' = [result EXCEPT ![c] = r]
    BY <1>1, <1>4, <2>1 DEF Register, AlreadyRegistered
  <2>4. \A d \in Calls : Status(d)' = Status(d)
    BY <1>1, <2>1, <2>2, <2>3 DEF Status
  <2> QED
    BY <1>1, <2>4, StatusKept
<1>5. CASE SendFrame(c)
  <2>1. /\ pc[c] = "sending" /\ \E p \in {"sending", "receiving"} : pc' = [pc EXCEPT ![c] = p]
        /\ UNCHANGED result
    BY <1>5 DEF SendFrame
  <2>2. \A d \in Calls : Status(d)' = Status(d)
    BY <1>1, <2>1 DEF Status
  <2> QED
    BY <1>1, <2>2, StatusKept
<1>6. CASE ReceiveFrame(c)
  <2>1. /\ pc[c] = "receiving" /\ (pc' = [pc EXCEPT ![c] = "closing"] \/ UNCHANGED pc)
        /\ (UNCHANGED result \/ \E r : result' = [result EXCEPT ![c] = r])
    BY <1>6 DEF ReceiveFrame, StopReading
  <2>2. \A d \in Calls : Status(d)' = Status(d)
    BY <1>1, <2>1 DEF Status
  <2> QED
    BY <1>1, <2>2, StatusKept
<1>7. CASE Close(c)
  <2>1. /\ pc[c] \in {"closing", "closing_again"} /\ UNCHANGED result
        /\ pc' = [pc EXCEPT ![c] = IF pc[c] = "closing" THEN "closing_again" ELSE "done"]
    BY <1>7 DEF Close
  <2>2. CASE pc[c] = "closing"
    <3>1. \A d \in Calls : Status(d)' = Status(d)
      BY <1>1, <2>1, <2>2 DEF Status
    <3> QED
      BY <1>1, <3>1, StatusKept
  <2>3. CASE pc[c] = "closing_again"
    <3>1. pc' = [pc EXCEPT ![c] = "done"]
      BY <2>1, <2>3
    <3>2. \A d \in Calls \ {c} : UNCHANGED <<pc[d], result[d]>>
      BY <1>1, <2>1, <3>1
    <3>3. CASE result[c] \in {"ok", "message_error"}
      <4>1. Status(c) = "pending" /\ Status(c)' = "answered"
        BY <1>1, <2>1, <2>3, <3>1, <3>3 DEF Status
      <4>2. runs[c] = 1
        <5>1. PICK g, h \in Nat, v \in 0 .. 1 :
                 /\ g = Len(got[c]) /\ h = Len(chan[c]) /\ v = Waiting(held, c)
                 /\ Received[c] = g + h + v
          BY ReceivedValue DEF ConnectionInv
        <5>2. g = ResLen[c] /\ g + h + v <= taskSent[c]
          BY <3>3, <5>1 DEF ConnectionInv, ResponseInv, ReadInv
        <5>3. ResLen[c] > 0 /\ taskSent[c] \in Nat /\ task[c] \in TaskStates
          BY FramesAssumption DEF ConnectionInv, TypeOK, ServerTypeOK
        <5>4. taskSent[c] > 0
          BY <5>2, <5>3
        <5> QED
          BY <5>3, <5>4 DEF ConnectionInv, AnswersInv, AnswerInv, TaskStates
      <4>3. Service!Answer(c)
        BY <1>1, <3>2, <4>1, <4>2, StatusMoves DEF Service!Answer, Service!Move
      <4> QED
        BY <4>3 DEF Service!Next
    <3>4. CASE result[c] \notin {"ok", "message_error"}
      <4>1. Status(c) = "pending" /\ Status(c)' = "failed"
        BY <1>1, <2>1, <2>3, <3>1, <3>4 DEF Status
      <4>2. Service!Fail(c)
        BY <1>1, <3>2, <4>1, StatusMoves DEF Service!Fail, Service!Move
      <4> QED
        BY <4>2 DEF Service!Next
    <3> QED
      BY <3>3, <3>4
  <2> QED
    BY <2>1, <2>2, <2>3
<1> QED
  BY <1>1, <1>2, <1>3, <1>4, <1>5, <1>6, <1>7, NeverNone DEF CallStep

(* A handler runs once for a call that was submitted and not yet answered.  *)
LEMMA ServiceHandle ==
    ASSUME ConnectionInv, NEW c \in Calls, LockHandler(c), UNCHANGED clientVars
    PROVE  Service!Next
<1>1. /\ task[c] = "locking" /\ runs' = [runs EXCEPT ![c] = @ + 1]
      /\ UNCHANGED <<pc, result>>
  BY DEF LockHandler, clientVars, callVars
<1>2. runs[c] = 0 /\ taskSent[c] = 0 /\ sent[c] > 0
  BY <1>1 DEF ConnectionInv, AnswersInv, AnswerInv, RequestInv, TaskInv
<1>3. pc[c] \notin {"idle", "done"}
  <2>1. pc[c] # "idle"
    BY <1>2 DEF ConnectionInv, CallInv
  <2>2. pc[c] # "done"
    BY <1>2 DEF ConnectionInv, ResponseInv, ReadInv, Closing
  <2> QED
    BY <2>1, <2>2
<1>4. Status(c) \in {"pending", "abandoned"}
  BY <1>3 DEF Status
<1>5. runs' = [runs EXCEPT ![c] = 1]
  BY <1>1, <1>2
<1>6. [d \in Calls |-> Status(d)]' = [d \in Calls |-> Status(d)]
  BY <1>1 DEF Status
<1>7. Service!Handle(c)
  BY <1>2, <1>4, <1>5, <1>6 DEF Service!Handle
<1> QED
  BY <1>7 DEF Service!Next

(* The connection implements the service SubChannel::send promises: each    *)
(* request is handled at most once, and answered only after that.           *)
THEOREM ServiceImplemented == ASSUME NoWrap PROVE Spec => ImplementsService
<1>1. Init => Service!Init
  BY ServiceInit
<1>2. ConnectionInv /\ [Next]_vars => [Service!Next]_(Service!vars)
  <2> SUFFICES ASSUME ConnectionInv, [Next]_vars PROVE [Service!Next]_(Service!vars)
    OBVIOUS
  <2>1. ASSUME NEW c \in Calls, CallStep(c) \/ (Cancel(c) /\ UNCHANGED serverVars)
        PROVE  [Service!Next]_(Service!vars)
    BY <2>1, ServiceCall
  <2>2. ASSUME NEW c \in Calls, TaskStep(c), LockHandler(c)
        PROVE  [Service!Next]_(Service!vars)
    BY <2>2, ServiceHandle DEF TaskStep
  <2>3. CASE \/ UNCHANGED vars \/ ClientWrites \/ ServerWrites \/ ReceiverStep \/ StreamStep
             \/ Disconnect \/ \E c \in Calls : TaskStep(c) /\ ~LockHandler(c)
    <3>1. UNCHANGED <<pc, result>>
      BY <2>3, SMTT(30) DEF vars, ClientWrites, ServerWrites, ReceiverStep, DispatchFollowing,
         DispatchResume, StreamStep, Disconnect, TaskStep, clientVars, callVars
    <3>2. UNCHANGED runs
      BY <2>3 DEF vars, ClientWrites, ServerWrites, ReceiverStep, StreamStep, Disconnect,
         TaskStep, Dispatch, SrvDispatchResume, StreamEnds, FailConnection, ReadRequest,
         Deregister, Route, HandlerReturns, SendResponse, serverVars, taskVars
    <3>3. \A d \in Calls : Status(d)' = Status(d)
      BY <3>1 DEF Status
    <3> QED
      BY <3>2, <3>3, StatusKept, SMTT(30)
  <2> QED
    BY <2>1, <2>2, <2>3 DEF Next, Progress, Fault
<1>3. Spec => []ConnectionInv
  BY ConnectionInvariant
<1> QED
  BY <1>1, <1>2, <1>3, PTL DEF Spec, ImplementsService, Service!Spec

----------------------------------------------------------------------------
(* The frames of responses.                                                 *)
ResponsesGiven == GivenOf(got, chan, held)

ResponsesHanded == HandedOver(ResponsesGiven, ResponsePipe, taskSent)

ResponsesTyped ==
    /\ got \in [Calls -> Seq(Calls \X Nat)] /\ chan \in [Calls -> Seq(Frame)]
    /\ held \in Seq(Frame) /\ ResponsePipe \in Seq(Frame) /\ taskSent \in [Calls -> Nat]
    /\ s2c \in Seq(Frame) /\ srvChunk \in Seq(Frame) /\ srvQueue \in Seq(Frame)

LEMMA ResponsesType == TypeOK => ResponsesTyped
<1> SUFFICES ASSUME TypeOK PROVE ResponsesTyped
  OBVIOUS
<1>1. ResponsePipe \in Seq(Frame)
  BY ResponseTypes DEF ResponseTypesOK
<1> QED
  BY <1>1 DEF ResponsesTyped, TypeOK, ClientTypeOK, ServerTypeOK, WiresTypeOK

responseHandVars == <<got, chan, held, s2c, srvChunk, srvQueue, taskSent>>

LEMMA ResponsesStay == ResponsesHanded /\ UNCHANGED responseHandVars => ResponsesHanded'
<1> SUFFICES ASSUME ResponsesHanded, UNCHANGED responseHandVars PROVE ResponsesHanded'
  OBVIOUS
<1>1. ResponsesGiven' = ResponsesGiven
  BY DEF responseHandVars, ResponsesGiven, GivenOf
<1>2. ResponsePipe' = ResponsePipe /\ taskSent' = taskSent
  BY DEF responseHandVars, ResponsePipe
<1> QED
  BY <1>1, <1>2 DEF ResponsesHanded

(* Nothing new is given; channels and the head of the pipe may be lost.     *)
LEMMA ResponsesLost ==
    ASSUME ResponsesTyped, ResponsesTyped', ResponsesHanded, UNCHANGED <<got, taskSent>>,
           \A c \in Calls : chan'[c] \in {chan[c], << >>}, held' \in {held, << >>},
           NEW m \in Nat, Cut(ResponsePipe, m, ResponsePipe')
    PROVE  ResponsesHanded'
<1>1. /\ got \in [Calls -> Seq(Calls \X Nat)] /\ chan \in [Calls -> Seq(Frame)]
      /\ held \in Seq(Frame) /\ ResponsePipe \in Seq(Frame)
      /\ chan' \in [Calls -> Seq(Frame)] /\ held' \in Seq(Frame) /\ ResponsePipe' \in Seq(Frame)
  BY DEF ResponsesTyped
<1>2. HandedOver(GivenOf(got, chan, held), ResponsePipe, taskSent)
  BY DEF ResponsesHanded, ResponsesGiven
<1>3. HandedOver(GivenOf(got, chan', held'), ResponsePipe', taskSent)
  BY <1>1, <1>2, GivenDropped
<1> QED
  BY <1>3 DEF ResponsesHanded, ResponsesGiven

(* An error frame is the first and only frame of its response.              *)
LEMMA ResponsesSent ==
    ASSUME TypeOK, TypeOK', AnswersInv, ResponsesHanded, NEW c \in Calls, SendResponse(c),
           UNCHANGED clientVars
    PROVE  ResponsesHanded'
<1>1. /\ srvQueue' = Append(srvQueue, ResponseFrame(c, taskId[c], taskSent[c] + 1, reply[c]))
      /\ taskSent' = [taskSent EXCEPT ![c] = @ + 1] /\ task[c] = "responding"
      /\ UNCHANGED <<got, chan, held, s2c, srvChunk>>
  BY DEF SendResponse, clientVars, callVars, mapVars
<1>2. ResponsesTyped /\ taskId[c] \in Ids /\ reply[c] \in Replies \cup {NoReply}
  BY ResponsesType DEF TypeOK, ServerTypeOK
<1>3. taskSent[c] \in Nat /\ taskSent[c] + 1 \in Nat /\ taskSent[c] + 1 > 0
  BY <1>2 DEF ResponsesTyped
<1>4. PICK f \in Frame : f = ResponseFrame(c, taskId[c], taskSent[c] + 1, reply[c])
  BY <1>2, <1>3, ResponseFrameType
<1>5. f.from = c /\ f.seq = taskSent[f.from] + 1
  <2>1. /\ f.from = c /\ (reply[c] = "Unfragmentable" => f.seq = 1)
        /\ (reply[c] # "Unfragmentable" => f.seq = taskSent[c] + 1)
    BY <1>2, <1>3, <1>4, ResponseFrameFields
  <2>2. taskSent[c] < ResponseLen(c)
    BY <1>1 DEF AnswersInv, AnswerInv
  <2>3. reply[c] = "Unfragmentable" => taskSent[c] = 0
    BY <1>3, <2>2 DEF ResponseLen
  <2> QED
    BY <1>3, <2>1, <2>3
<1>6. ResponsePipe' = Append(ResponsePipe, f)
  <2>1. s2c \in Seq(Frame) /\ srvChunk \in Seq(Frame) /\ srvQueue \in Seq(Frame)
    BY <1>2 DEF ResponsesTyped
  <2>2. (s2c \o srvChunk) \o Append(srvQueue, f) = Append((s2c \o srvChunk) \o srvQueue, f)
    BY <1>4, <2>1, PipeMoves
  <2>3. srvQueue' = Append(srvQueue, f) /\ UNCHANGED <<s2c, srvChunk>>
    BY <1>1, <1>4
  <2> QED
    BY <2>2, <2>3 DEF ResponsePipe
<1>7. ResponsesGiven \in [Readers -> Seq(Calls \X Nat)]
  BY <1>2, GivenType DEF ResponsesTyped, ResponsesGiven, IsGiven
<1>8. HandedOver(ResponsesGiven, Append(ResponsePipe, f), [taskSent EXCEPT ![f.from] = @ + 1])
  <2>1. ResponsePipe \in Seq(Frame) /\ taskSent \in [Calls -> Nat]
    BY <1>2 DEF ResponsesTyped
  <2>2. HandedOver(ResponsesGiven, ResponsePipe, taskSent)
    BY DEF ResponsesHanded
  <2> QED
    BY <1>5, <1>7, <2>1, <2>2, HandedSend, Zenon
<1>9. ResponsesGiven' = ResponsesGiven
  BY <1>1 DEF ResponsesGiven, GivenOf
<1> QED
  BY <1>1, <1>5, <1>6, <1>8, <1>9 DEF ResponsesHanded

LEMMA ResponsesWritten ==
    ASSUME TypeOK, TypeOK', WiresLost, ResponsesHanded, ServerWrites
    PROVE  ResponsesHanded'
<1>1. ResponsesTyped /\ UNCHANGED <<got, chan, held, taskSent>>
  BY ResponsesType DEF ServerWrites, clientVars, taskVars, callVars, mapVars
<1>2. ResponsesTyped'
  BY ResponsesType, PTL
<1>3. PICK m \in Nat : Cut(ResponsePipe, m, ResponsePipe')
  <2>1. s2c \in Seq(Frame) /\ srvChunk \in Seq(Frame) /\ srvQueue \in Seq(Frame)
    BY <1>1 DEF ResponsesTyped
  <2>2. Cut(ResponsePipe, 0, ResponsePipe)
    BY <1>1, NoCut DEF ResponsesTyped
  <2>3. CASE SrvWriter!TakeChunk
    <3> DEFINE n == IF Len(srvQueue) < BufferSize THEN Len(srvQueue) ELSE BufferSize
    <3>1. n \in 0 .. Len(srvQueue)
      BY <2>1, FramesAssumption
    <3>2. /\ srvChunk = << >> /\ s2c' = s2c
          /\ srvChunk' = SubSeq(srvQueue, 1, n)
          /\ srvQueue' = SubSeq(srvQueue, n + 1, Len(srvQueue))
      BY <2>3 DEF SrvWriter!TakeChunk
    <3> HIDE DEF n
    <3>3. ResponsePipe' = ResponsePipe
      BY <2>1, <3>1, <3>2, PipeChunk DEF ResponsePipe
    <3> QED
      BY <2>2, <3>3
  <2>4. CASE SrvWriter!WriteFrame
    <3>1. /\ srvChunk # << >> /\ s2c' = Append(s2c, Head(srvChunk))
          /\ srvChunk' = Tail(srvChunk) /\ srvQueue' = srvQueue
      BY <2>4 DEF SrvWriter!WriteFrame
    <3>2. ResponsePipe' = ResponsePipe
      BY <2>1, <3>1, PipeMoves DEF ResponsePipe
    <3> QED
      BY <2>2, <3>2
  <2>5. CASE link = "down" /\ SrvWriter!WriteError
    <3>1. /\ srvChunk # << >> /\ srvChunk' = Tail(srvChunk) /\ srvQueue' = srvQueue /\ s2c' = s2c
      BY <2>5 DEF SrvWriter!WriteError
    <3>2. s2c = << >>
      BY <2>5 DEF WiresLost
    <3>3. Cut(ResponsePipe, 1, ResponsePipe')
      BY <2>1, <3>1, <3>2, PipeCuts DEF ResponsePipe
    <3> QED
      BY <3>3
  <2> QED
    BY <2>3, <2>4, <2>5 DEF ServerWrites
<1> QED
  BY <1>1, <1>2, <1>3, ResponsesLost

LEMMA ResponsesCut ==
    ASSUME TypeOK, TypeOK', ResponsesHanded, Disconnect
    PROVE  ResponsesHanded'
<1>1. UNCHANGED <<got, taskSent, srvChunk, srvQueue, chan, held>> /\ s2c' = << >>
  BY DEF Disconnect, clientVars, callVars, mapVars, serverVars, taskVars
<1>2. ResponsesTyped
  BY ResponsesType
<1>3. ResponsesTyped'
  BY ResponsesType, PTL
<1>4. Cut(ResponsePipe, Len(s2c), ResponsePipe') /\ Len(s2c) \in Nat
  BY <1>1, <1>2, PipeCuts DEF ResponsePipe, ResponsesTyped
<1> QED
  BY <1>1, <1>2, <1>3, <1>4, ResponsesLost

(* A call that stops, or whose future is dropped, drops its channel.        *)
LEMMA ResponsesDropped ==
    ASSUME TypeOK, TypeOK', ResponsesHanded, NEW c \in Calls, chan' = [chan EXCEPT ![c] = << >>],
           UNCHANGED <<got, held, s2c, srvChunk, srvQueue, taskSent>>
    PROVE  ResponsesHanded'
<1>1. ResponsesTyped
  BY ResponsesType
<1>2. ResponsesTyped'
  BY ResponsesType, PTL
<1>3. ResponsePipe' = ResponsePipe /\ ResponsePipe \in Seq(Frame) /\ chan \in [Calls -> Seq(Frame)]
  BY <1>1 DEF ResponsePipe, ResponsesTyped
<1>4. Cut(ResponsePipe, 0, ResponsePipe') /\ 0 \in Nat
  BY <1>3, NoCut
<1>5. \A d \in Calls : chan'[d] \in {chan[d], << >>}
  BY <1>3
<1> QED
  BY <1>1, <1>2, <1>4, <1>5, ResponsesLost

LEMMA ResponsesRead ==
    ASSUME TypeOK, TypeOK', ResponsesHanded, NEW c \in Calls, CallStep(c)
    PROVE  ResponsesHanded'
<1>1. UNCHANGED <<taskSent, srvChunk, srvQueue>>
  BY DEF CallStep, serverVars, taskVars
<1>2. CASE ReceiveFrame(c)
  <2>1. ResponsesTyped /\ chan[c] # << >> /\ UNCHANGED <<held, s2c>>
    BY <1>2, ResponsesType DEF ReceiveFrame
  <2>2. \/ UNCHANGED got /\ chan' = [chan EXCEPT ![c] = << >>]
        \/ /\ got' = [got EXCEPT ![c] = Append(@, Key(Head(chan[c])))]
           /\ \E t \in {Tail(chan[c]), << >>} : chan' = [chan EXCEPT ![c] = t]
    BY <1>2 DEF ReceiveFrame, StopReading, Key
  <2>3. CASE UNCHANGED got /\ chan' = [chan EXCEPT ![c] = << >>]
    BY <1>1, <2>1, <2>3, ResponsesDropped
  <2>4. CASE /\ got' = [got EXCEPT ![c] = Append(@, Key(Head(chan[c])))]
             /\ \E t \in {Tail(chan[c]), << >>} : chan' = [chan EXCEPT ![c] = t]
    <3>1. PICK t \in {Tail(chan[c]), << >>} : chan' = [chan EXCEPT ![c] = t]
      BY <2>4
    <3>2. /\ got \in [Calls -> Seq(Calls \X Nat)] /\ chan \in [Calls -> Seq(Frame)]
          /\ held \in Seq(Frame) /\ ResponsePipe \in Seq(Frame)
          /\ HandedOver(GivenOf(got, chan, held), ResponsePipe, taskSent)
      BY <2>1 DEF ResponsesTyped, ResponsesHanded, ResponsesGiven
    <3>3. HandedOver(GivenOf([got EXCEPT ![c] = Append(@, Key(Head(chan[c])))],
                             [chan EXCEPT ![c] = t], held), ResponsePipe, taskSent)
      BY <2>1, <3>2, GivenRead, Zenon
    <3>4. ResponsePipe' = ResponsePipe /\ taskSent' = taskSent /\ held' = held
      BY <1>1, <2>1 DEF ResponsePipe
    <3> QED
      BY <2>4, <3>1, <3>3, <3>4 DEF ResponsesHanded, ResponsesGiven
  <2> QED
    BY <2>2, <2>3, <2>4
<1>3. CASE ReceiveNone(c)
  <2>1. chan' = [chan EXCEPT ![c] = << >>] /\ UNCHANGED <<got, held, s2c>>
    BY <1>3 DEF ReceiveNone, StopReading
  <2> QED
    BY <1>1, <2>1, ResponsesDropped
<1>4. CASE ~ReceiveFrame(c) /\ ~ReceiveNone(c)
  <2>1. UNCHANGED responseHandVars
    BY <1>1, <1>4 DEF CallStep, TakeId, Register, SendFrame, Close, mapVars, responseHandVars
  <2> QED
    BY <2>1, ResponsesStay
<1> QED
  BY <1>2, <1>3, <1>4

LEMMA ResponsesDispatched ==
    ASSUME TypeOK, TypeOK', ResponsesHanded, ReceiverStep
    PROVE  ResponsesHanded'
<1>1. UNCHANGED <<taskSent, srvChunk, srvQueue, got>>
  BY DEF ReceiverStep, DispatchFollowing, DispatchResume, serverVars, taskVars, callVars
<1>2. ResponsesTyped
  BY ResponsesType
<1>3. ResponsesTyped'
  BY ResponsesType, PTL
<1>4. /\ got \in [Calls -> Seq(Calls \X Nat)] /\ chan \in [Calls -> Seq(Frame)]
      /\ held \in Seq(Frame) /\ ResponsePipe \in Seq(Frame) /\ taskSent \in [Calls -> Nat]
      /\ HandedOver(GivenOf(got, chan, held), ResponsePipe, taskSent)
  BY <1>2 DEF ResponsesTyped, ResponsesHanded, ResponsesGiven
<1>5. CASE DispatchFollowing
  <2>1. s2c # << >> /\ held = << >> /\ s2c' = Tail(s2c)
    BY <1>5 DEF DispatchFollowing, Unlocked
  <2>2. PICK f \in Frame, t \in Calls \cup {NoCall} : f = Head(s2c) /\ t = senders[f.id]
    <3>1. Head(s2c) \in Frame
      BY <1>2, <2>1, Beheaded DEF ResponsesTyped
    <3>2. Head(s2c).id \in Ids
      BY <3>1 DEF Frame
    <3>3. senders[Head(s2c).id] \in Calls \cup {NoCall}
      BY <3>2, SMTT(30) DEF TypeOK, ClientTypeOK
    <3> QED
      BY <3>1, <3>3, Zenon
  <2>3. \/ UNCHANGED <<chan, held>>
        \/ t # NoCall /\ chan' = [chan EXCEPT ![t] = Append(@, f)] /\ UNCHANGED held
        \/ UNCHANGED chan /\ held' = <<f>>
    BY <1>5, <2>2 DEF DispatchFollowing
  <2>4. ResponsePipe # << >> /\ Head(ResponsePipe) = f /\ ResponsePipe' = Tail(ResponsePipe)
    <3>1. s2c \in Seq(Frame) /\ srvChunk \in Seq(Frame) /\ srvQueue \in Seq(Frame)
      BY <1>2 DEF ResponsesTyped
    <3>2. /\ (s2c \o srvChunk) \o srvQueue # << >>
          /\ Head((s2c \o srvChunk) \o srvQueue) = Head(s2c)
          /\ (Tail(s2c) \o srvChunk) \o srvQueue = Tail((s2c \o srvChunk) \o srvQueue)
      BY <2>1, <3>1, PipeMoves, Zenon
    <3> QED
      BY <1>1, <2>1, <2>2, <3>2 DEF ResponsePipe
  <2>5. /\ \A c \in Calls : HandedOver(GivenOf(got, [chan EXCEPT ![c] = Append(@, f)], held),
                                       Tail(ResponsePipe), taskSent)
        /\ HandedOver(GivenOf(got, chan, <<f>>), Tail(ResponsePipe), taskSent)
    BY <1>4, <2>1, <2>4, GivenTaken, Zenon
  <2>6. CASE UNCHANGED chan /\ held' = <<f>>
    BY <1>1, <2>4, <2>5, <2>6 DEF ResponsesHanded, ResponsesGiven
  <2>7. CASE t # NoCall /\ chan' = [chan EXCEPT ![t] = Append(@, f)] /\ UNCHANGED held
    BY <1>1, <2>2, <2>4, <2>5, <2>7 DEF ResponsesHanded, ResponsesGiven
  <2>8. CASE UNCHANGED <<chan, held>>
    <3>1. Cut(ResponsePipe, 1, ResponsePipe') /\ 1 \in Nat
      BY <1>4, <2>4, Beheaded DEF Cut
    <3> QED
      BY <1>1, <1>2, <1>3, <2>8, <3>1, ResponsesLost
  <2> QED
    BY <2>3, <2>6, <2>7, <2>8
<1>6. CASE DispatchResume
  <2>1. PICK f, t : /\ f = Head(held) /\ t = senders[f.id]
                    /\ held # << >> /\ held' = << >> /\ UNCHANGED s2c
                    /\ chan' = [chan EXCEPT ![t] = Append(@, f)] \/ UNCHANGED chan
    BY <1>6 DEF DispatchResume
  <2>2. ResponsePipe' = ResponsePipe
    BY <1>1, <2>1 DEF ResponsePipe
  <2>3. CASE t \in Calls /\ chan' = [chan EXCEPT ![t] = Append(@, f)]
    <3>1. HandedOver(GivenOf(got, [chan EXCEPT ![t] = Append(@, f)], << >>), ResponsePipe, taskSent)
      BY <1>4, <2>1, <2>3, GivenMoved, Zenon
    <3> QED
      BY <1>1, <2>1, <2>2, <2>3, <3>1 DEF ResponsesHanded, ResponsesGiven
  <2>4. CASE chan' = chan
    <3>1. Cut(ResponsePipe, 0, ResponsePipe') /\ 0 \in Nat
      BY <1>4, <2>2, NoCut
    <3> QED
      BY <1>1, <1>2, <1>3, <2>1, <2>4, <3>1, ResponsesLost
  <2>5. t \in Calls \/ chan' = chan
    BY <1>4, <2>1
  <2> QED
    BY <2>1, <2>3, <2>4, <2>5
<1> QED
  BY <1>5, <1>6, SMTT(30) DEF ReceiverStep

LEMMA ResponsesHandedStep ==
    ASSUME TypeOK, TypeOK', AnswersInv, WiresLost, ResponsesHanded, [Next]_vars
    PROVE  ResponsesHanded'
<1>1. ASSUME NEW c \in Calls, CallStep(c) PROVE ResponsesHanded'
  BY <1>1, ResponsesRead
<1>2. ASSUME NEW c \in Calls, TaskStep(c) PROVE ResponsesHanded'
  <2>1. CASE SendResponse(c)
    BY <1>2, <2>1, ResponsesSent DEF TaskStep
  <2>2. CASE ~SendResponse(c)
    <3>1. UNCHANGED responseHandVars
      BY <1>2, <2>2 DEF TaskStep, ReadRequest, Deregister, Route, LockHandler, HandlerReturns,
         FailConnection, clientVars, callVars, mapVars, responseHandVars
    <3> QED
      BY <3>1, ResponsesStay
  <2> QED
    BY <2>1, <2>2
<1>3. CASE ServerWrites
  BY <1>3, ResponsesWritten
<1>4. CASE ReceiverStep
  BY <1>4, ResponsesDispatched
<1>5. CASE Disconnect
  BY <1>5, ResponsesCut
<1>6. ASSUME NEW c \in Calls, Cancel(c) /\ UNCHANGED serverVars PROVE ResponsesHanded'
  <2>1. /\ chan' = [chan EXCEPT ![c] = << >>]
        /\ UNCHANGED <<got, held, s2c, srvChunk, srvQueue, taskSent>>
    BY <1>6 DEF Cancel, serverVars, taskVars
  <2> QED
    BY <2>1, ResponsesDropped
<1>7. CASE ClientWrites \/ StreamStep \/ UNCHANGED vars
  <2>1. UNCHANGED responseHandVars
    BY <1>7 DEF ClientWrites, StreamStep, Dispatch, SrvDispatchResume, StreamEnds, FailConnection,
       vars, clientVars, callVars, mapVars, serverVars, taskVars, responseHandVars
  <2> QED
    BY <2>1, ResponsesStay
<1> QED
  BY <1>1, <1>2, <1>3, <1>4, <1>5, <1>6, <1>7 DEF Next, Progress, Fault

LEMMA WiresLostStep == ASSUME TypeOK, WiresLost, [Next]_vars PROVE WiresLost'
<1>1. CASE FailConnection
  BY <1>1 DEF FailConnection, WiresLost, Connected
<1>2. CASE ~FailConnection
  <2>1. \/ UNCHANGED <<link, stream>>
        \/ link' = "down" /\ c2s' = << >> /\ s2c' = << >>
        \/ link = "down" /\ UNCHANGED <<link, c2s, s2c>>
    BY <1>2, ZenonT(40) DEF Next, Progress, Fault, CallStep, TakeId, Register, SendFrame, ReceiveFrame,
       ReceiveNone, Close, Cancel, ClientWrites, ServerWrites, ReceiverStep, DispatchFollowing,
       DispatchResume, TaskStep, ReadRequest, Deregister, Route, LockHandler, HandlerReturns,
       SendResponse, StreamStep, Dispatch, SrvDispatchResume, StreamEnds, Disconnect, vars,
       serverVars, taskVars
  <2>2. CASE UNCHANGED <<link, stream>>
    <3>1. ~Connected /\ c2s = << >> => c2s' = << >>
      BY <1>2, <2>2, ZenonT(40) DEF Next, Progress, Fault, CallStep, TakeId, Register, SendFrame, ReceiveFrame,
         ReceiveNone, Close, Cancel, ClientWrites, ServerWrites, ReceiverStep, DispatchFollowing,
         DispatchResume, TaskStep, ReadRequest, Deregister, Route, LockHandler, HandlerReturns,
         SendResponse, StreamStep, Dispatch, SrvDispatchResume, StreamEnds, Disconnect, vars,
         serverVars, taskVars, Writer!TakeChunk, Writer!WriteFrame, Writer!WriteError, Connected
    <3>2. link = "down" /\ s2c = << >> => s2c' = << >>
      BY <1>2, <2>2, ZenonT(40) DEF Next, Progress, Fault, CallStep, TakeId, Register, SendFrame, ReceiveFrame,
         ReceiveNone, Close, Cancel, ClientWrites, ServerWrites, ReceiverStep, DispatchFollowing,
         DispatchResume, TaskStep, ReadRequest, Deregister, Route, LockHandler, HandlerReturns,
         SendResponse, StreamStep, Dispatch, SrvDispatchResume, StreamEnds, Disconnect, vars,
         serverVars, taskVars, SrvWriter!TakeChunk, SrvWriter!WriteFrame, SrvWriter!WriteError
    <3> QED
      BY <2>2, <3>1, <3>2 DEF WiresLost, Connected
  <2>3. CASE link' = "down" /\ c2s' = << >> /\ s2c' = << >>
    BY <2>3 DEF WiresLost
  <2>4. CASE link = "down" /\ UNCHANGED <<link, c2s, s2c>>
    BY <2>4 DEF WiresLost, Connected
  <2> QED
    BY <2>1, <2>2, <2>3, <2>4, SMTT(30)
<1> QED
  BY <1>1, <1>2

LEMMA NothingGiven ==
    ASSUME NEW b, NEW q, NEW h, NEW p, NEW n, b = [c \in Calls |-> << >>],
           q = [c \in Calls |-> << >>], h = << >>, p = << >>
    PROVE  HandedOver(GivenOf(b, q, h), p, n)
<1>1. Len(p) = 0
  BY EmptySeq
<1>2. ASSUME NEW r \in Readers PROVE Len(GivenOf(b, q, h)[r]) = 0
  <2>1. Keys(<< >>) = << >>
    BY EmptySeq DEF Keys
  <2>2. << >> \o << >> = << >>
    BY EmptySeq, ConcatEmptySeq
  <2>3. GivenOf(b, q, h)[r] = << >>
    BY <2>1, <2>2, FramesAssumption DEF GivenOf, Readers
  <2> QED
    BY <2>3, EmptySeq
<1> QED
  BY <1>1, <1>2 DEF HandedOver, GivenOnce, GivenFirst, GivenSent, PipeSentUpTo, InOrder

LEMMA HandedInit == Init => AnswersInv /\ WiresLost /\ RequestsHanded /\ ResponsesHanded
<1> SUFFICES ASSUME Init PROVE AnswersInv /\ WiresLost /\ RequestsHanded /\ ResponsesHanded
  OBVIOUS
<1>1. (<< >> \o << >>) \o << >> = << >>
  BY EmptySeq, ConcatEmptySeq
<1>2. RequestsHanded
  <2>1. RequestPipe = << >>
    BY <1>1 DEF RequestPipe, Init, WiresInit, ClientInit
  <2> QED
    BY <2>1, NothingGiven DEF RequestsHanded, RequestsGiven, Init, ServerInit
<1>3. ResponsesHanded
  <2>1. ResponsePipe = << >>
    BY <1>1 DEF ResponsePipe, Init, WiresInit, ServerInit
  <2> QED
    BY <2>1, NothingGiven DEF ResponsesHanded, ResponsesGiven, Init, ClientInit
<1>4. WiresLost
  BY DEF WiresLost, Init, WiresInit
<1> QED
  BY <1>2, <1>3, <1>4, ResponseInit

HandOverInv == IdInv /\ AnswersInv /\ WiresLost /\ RequestsHanded /\ ResponsesHanded

(* However message ids are reused, every frame is handed from one side to   *)
(* one reader of the other: the FrameSenders, the dispatchers and the       *)
(* channels keep the order of each call's frames and none is given twice.   *)
THEOREM HandOverInvariant == Spec => []HandOverInv
<1>1. Init => HandOverInv
  BY IdInit, HandedInit DEF HandOverInv
<1>2. TypeOK /\ TypeOK' /\ HandOverInv /\ [Next]_vars => HandOverInv'
  BY IdStep, AnswersStep, WiresLostStep, RequestsHandedStep, ResponsesHandedStep DEF HandOverInv
<1> QED
  BY <1>1, <1>2, MultiplexTypeCorrect, PTL DEF Spec

(* No frame is read twice, by one reader or by two, for all calls, lengths  *)
(* and capacities and also when the counter of message ids wraps around.    *)
THEOREM FramesReadOnce == Spec => []ReadOnce
<1>1. ASSUME NEW b \in [Calls -> Seq(Calls \X Nat)], NEW q \in [Calls -> Seq(Frame)],
             NEW h \in Seq(Frame), GivenOnce(GivenOf(b, q, h))
      PROVE  AllDistinct(b)
  <2> SUFFICES ASSUME NEW c \in Calls, NEW e \in Calls, NEW i \in 1 .. Len(b[c]),
                      NEW j \in 1 .. Len(b[e]), b[c][i] = b[e][j]
               PROVE  c = e /\ i = j
    BY DEF AllDistinct
  <2> DEFINE g == GivenOf(b, q, h)
  <2>1. IsGiven(g, b, q, h)
    BY GivenType, Zenon
  <2>2. GivenOnce(g)
    BY <1>1
  <2> HIDE DEF g
  <2>3. ASSUME NEW d \in Calls, NEW k \in 1 .. Len(b[d])
        PROVE  d \in Readers /\ k \in 1 .. Len(g[d]) /\ g[d][k] = b[d][k]
    <3>1. g[d] = b[d] \o Keys(q[d]) /\ b[d] \in Seq(Calls \X Nat)
      BY <2>1 DEF IsGiven
    <3>2. Keys(q[d]) \in Seq(Calls \X Nat)
      BY KeysType
    <3>3. PICK s \in Seq(Calls \X Nat), t \in Seq(Calls \X Nat) : s = b[d] /\ t = Keys(q[d])
      BY <3>1, <3>2
    <3>4. Len(s \o t) = Len(s) + Len(t) /\ Len(s) \in Nat /\ Len(t) \in Nat
          /\ \A x \in 1 .. Len(s) : (s \o t)[x] = s[x]
      BY Joined
    <3> QED
      BY <3>1, <3>3, <3>4 DEF Readers
  <2>4. i \in 1 .. Len(g[c]) /\ j \in 1 .. Len(g[e]) /\ g[c][i] = g[e][j]
        /\ c \in Readers /\ e \in Readers
    BY <2>3
  <2>5. \A y \in 1 .. Len(g[e]) : g[c][i] = g[e][y] => c = e /\ i = y
    <3>1. i \in 1 .. Len(g[c]) /\ c \in Readers /\ e \in Readers
      BY <2>4
    <3>2. \A x \in 1 .. Len(g[c]) : \A y \in 1 .. Len(g[e]) : g[c][x] = g[e][y] => c = e /\ x = y
      BY <2>2, <3>1, SameEntry, Zenon
    <3> QED
      BY <3>1, <3>2, Zenon
  <2>6. j \in 1 .. Len(g[e]) /\ g[c][i] = g[e][j]
    BY <2>4
  <2> QED
    BY <2>5, <2>6, Zenon
<1>2. TypeOK /\ HandOverInv => ReadOnce
  <2> SUFFICES ASSUME TypeOK, HandOverInv PROVE ReadOnce
    OBVIOUS
  <2>1. GivenOnce(GivenOf(taskBody, taskChan, srvHeld)) /\ GivenOnce(GivenOf(got, chan, held))
    BY DEF HandOverInv, RequestsHanded, ResponsesHanded, HandedOver, RequestsGiven, ResponsesGiven
  <2>2. /\ taskBody \in [Calls -> Seq(Calls \X Nat)] /\ taskChan \in [Calls -> Seq(Frame)]
        /\ srvHeld \in Seq(Frame) /\ got \in [Calls -> Seq(Calls \X Nat)]
        /\ chan \in [Calls -> Seq(Frame)] /\ held \in Seq(Frame)
    BY DEF TypeOK, ClientTypeOK, ServerTypeOK
  <2> QED
    BY <1>1, <2>1, <2>2 DEF ReadOnce
<1> QED
  BY <1>2, HandOverInvariant, MultiplexTypeCorrect, PTL

(* A handler is run at most once for a call, and before anything of the     *)
(* response is sent, also when message ids are reused.                      *)
THEOREM HandledOnce ==
    Spec => [](\A c \in Calls : runs[c] <= 1 /\ (taskSent[c] > 0 => runs[c] = 1))
<1>1. TypeOK /\ HandOverInv => \A c \in Calls : runs[c] <= 1 /\ (taskSent[c] > 0 => runs[c] = 1)
  <2> SUFFICES ASSUME TypeOK, HandOverInv, NEW c \in Calls
               PROVE  runs[c] <= 1 /\ (taskSent[c] > 0 => runs[c] = 1)
    OBVIOUS
  <2>1. AnswerInv(c) /\ task[c] \in TaskStates /\ runs[c] \in Nat /\ taskSent[c] \in Nat
    BY DEF HandOverInv, AnswersInv, TypeOK, ServerTypeOK
  <2> QED
    BY <2>1 DEF AnswerInv, TaskStates
<1> QED
  BY <1>1, HandOverInvariant, MultiplexTypeCorrect, PTL
=============================================================================
