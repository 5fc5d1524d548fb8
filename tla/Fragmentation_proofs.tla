------------------------ MODULE Fragmentation_proofs ------------------------
(***************************************************************************)
(* What holds of the transfer of a message for every frame size, fields     *)
(* length and message: encode_args only refuses a message with a Tight      *)
(* argument, the frames create_frames hands out are well formed, and for    *)
(* every message without one ArgsDefragmenter puts together what            *)
(* ArgsFragmenter took apart.                                               *)
(*                                                                         *)
(* Proved of MessageTransfer.  The first part is about the sender alone     *)
(* (FragInv).  The second relates both ends: the bytes the reader has and   *)
(* those the sender still has make up the message (Clean, Cut), and the     *)
(* channel holds the frames in between (Flow).                              *)
(*                                                                         *)
(* The last part holds of Tight messages too, whose boundaries may be lost: *)
(* no byte is, no boundary is found where there was none (BoundaryInv), and *)
(* therefore no JsonMessage is accepted changed.                            *)
(***************************************************************************)
EXTENDS MessageTransfer, Induction, SequenceTheorems, TLAPS

(* The frame being filled: bytes used and bytes left add up to the payload, *)
(* there is room for one more length field unless the message is tight, and *)
(* the frame cannot collect more than the three arguments of the message.   *)
FillingInv ==
    fstate = "filling" =>
        /\ Len(frame) + Len(args) <= MAX_FRAME_ARGS
        /\ size + limit = MaxPayload
        /\ frame = << >> => args # << >> /\ limit > ARG_LEN_LEN
        /\ \/ Tight
           \/ limit >= 0 /\ (args # << >> => limit >= ARG_LEN_LEN)

(* A frame that was cut by its capacity is one that encode_args accepts.    *)
FullInv ==
    fstate = "full" =>
        /\ 1 <= Len(frame) /\ Len(frame) <= MAX_FRAME_ARGS
        /\ Tight \/ size <= MaxPayload

(* The inductive invariant of fragmentation.                                *)
FragInv ==
    /\ FragTypeOK
    /\ Len(args) <= MAX_FRAME_ARGS
    /\ fstate = "next" => args # << >>
    /\ FillingInv
    /\ FullInv
    /\ FramesWellFormed
    /\ FailsOnlyWhenTight

(* The four cases of next_arg_fragment, with the piece it takes.            *)
LEMMA NextArgFragment ==
    ASSUME NEW arg \in Nat, NEW l \in Int
    PROVE  LET next == next_arg_fragment(arg, l)
           IN  \/ /\ next.status = "Complete" /\ next.fragment = <<arg>>
                  /\ arg = 0 \/ arg < l
               \/ /\ next.status = "Incomplete" /\ next.fragment = << >>
                  /\ arg > 0 /\ l < 0
               \/ /\ next.status = "Incomplete" /\ next.fragment = <<l>>
                  /\ l >= 0 /\ arg > l
               \/ /\ next.status = "CompleteAtTheEnd" /\ next.fragment = <<arg>>
                  /\ arg > 0 /\ arg = l
  BY DEF next_arg_fragment

LEMMA SingletonSeq ==
    ASSUME NEW x
    PROVE  Len(<<x>>) = 1 /\ <<x>>[1] = x /\ <<x>> # << >>
  OBVIOUS

LEMMA FragInvInit == FragInit => FragInv
<1> SUFFICES ASSUME FragInit PROVE FragInv
  OBVIOUS
<1>1. PICK arg1, arg2, arg3 \in Nat : input = <<arg1, arg2, arg3>>
  BY FragmentationAssumption DEF FragInit
<1>2. input \in Seq(Nat) /\ Len(input) = 3 /\ input # << >>
  BY <1>1
<1> QED
  BY <1>2 DEF FragInit, FragInv, FragTypeOK, FillingInv, FullInv,
     FramesWellFormed, FailsOnlyWhenTight, FStates, MAX_FRAME_ARGS

LEMMA BeginFrameInv == FragInv /\ BeginFrame => FragInv'
<1> SUFFICES ASSUME FragInv, BeginFrame PROVE FragInv'
  OBVIOUS
<1>1. CurrentFieldsLen \in 0 .. FieldsLen
  BY FragmentationAssumption DEF CurrentFieldsLen
<1>2. /\ limit' \in Int /\ limit' > ARG_LEN_LEN
      /\ size' \in Nat /\ size' + limit' = MaxPayload
  BY <1>1, FragmentationAssumption DEF BeginFrame, calculate_payload_limit,
     MaxPayload, FRAME_HEADER_LENGTH, ARG_LEN_LEN, checksum_len
<1>3. FramesWellFormed'
  BY DEF BeginFrame, FragInv, FramesWellFormed
<1> QED
  BY <1>2, <1>3 DEF BeginFrame, FragInv, FragTypeOK, FillingInv, FullInv,
     FailsOnlyWhenTight, FStates, MAX_FRAME_ARGS, ARG_LEN_LEN

LEMMA FillArgInv == FragInv /\ FillArg => FragInv'
<1> SUFFICES ASSUME FragInv, FillArg PROVE FragInv'
  OBVIOUS
<1> DEFINE arg   == Head(args)
           rest  == Tail(args)
           next  == next_arg_fragment(arg, limit - ARG_LEN_LEN)
           taken == IF next.fragment = << >> THEN 0 ELSE next.fragment[1]
           front == PushFront(next.status, arg, taken)
<1>1. /\ fstate = "filling" /\ args # << >>
      /\ args \in Seq(Nat) /\ frame \in Seq(Nat) /\ limit \in Int /\ size \in Nat /\ tightEnds \in Nat
  BY DEF FillArg, FragInv, FragTypeOK
<1>2. arg \in Nat /\ rest \in Seq(Nat) /\ Len(rest) = Len(args) - 1
  BY <1>1
<1>3. limit - ARG_LEN_LEN \in Int
  BY <1>1 DEF ARG_LEN_LEN
<1>4. /\ frame' = frame \o next.fragment
      /\ limit' = limit - ARG_LEN_LEN - taken
      /\ size' = size + ARG_LEN_LEN * Len(next.fragment) + taken
      /\ args' = front \o rest
      /\ fstate' = IF next.status = "Complete" THEN "filling" ELSE "full"
      /\ tightEnds' = IF /\ next.status # "Incomplete"
                         /\ limit' < ARG_LEN_LEN
                         /\ rest # << >>
                      THEN tightEnds + 1
                      ELSE tightEnds
      /\ UNCHANGED <<input, frames>>
  BY DEF FillArg
<1>5. /\ next.fragment \in Seq(Nat)
      /\ \/ /\ next.status = "Complete" /\ taken = arg /\ Len(next.fragment) = 1
            /\ arg = 0 \/ arg < limit - ARG_LEN_LEN
         \/ /\ next.status = "Incomplete" /\ taken = 0 /\ Len(next.fragment) = 0
            /\ limit < ARG_LEN_LEN
         \/ /\ next.status = "Incomplete" /\ taken = limit - ARG_LEN_LEN
            /\ Len(next.fragment) = 1 /\ limit >= ARG_LEN_LEN /\ arg > taken
         \/ /\ next.status = "CompleteAtTheEnd" /\ taken = arg /\ Len(next.fragment) = 1
            /\ arg = limit - ARG_LEN_LEN
  <2> DEFINE l == limit - ARG_LEN_LEN
  <2>1. CASE /\ next.status = "Complete" /\ next.fragment = <<arg>>
             /\ arg = 0 \/ arg < l
    <3> HIDE DEF next
    <3> QED BY <2>1, <1>2, SingletonSeq
  <2>2. CASE next.status = "Incomplete" /\ next.fragment = << >> /\ l < 0
    <3> HIDE DEF next
    <3> QED BY <2>2, <1>1 DEF ARG_LEN_LEN
  <2>3. CASE next.status = "Incomplete" /\ next.fragment = <<l>> /\ l >= 0 /\ arg > l
    <3> HIDE DEF next
    <3>1. l \in Nat /\ limit >= ARG_LEN_LEN
      BY <2>3, <1>1 DEF ARG_LEN_LEN
    <3>2. taken = l /\ Len(next.fragment) = 1 /\ next.fragment \in Seq(Nat)
      BY <3>1, <2>3, SingletonSeq
    <3> QED BY <3>1, <3>2, <2>3
  <2>4. CASE next.status = "CompleteAtTheEnd" /\ next.fragment = <<arg>> /\ arg = l
    <3> HIDE DEF next
    <3> QED BY <2>4, <1>2, SingletonSeq
  <2> QED
    BY <1>2, <1>3, <2>1, <2>2, <2>3, <2>4, NextArgFragment
<1> HIDE DEF next
<1>taken. taken \in Nat /\ taken <= arg
  BY <1>5, <1>1, <1>2 DEF ARG_LEN_LEN
<1>front. /\ front \in Seq(Nat)
      /\ Len(front) = IF next.status = "Complete" THEN 0 ELSE 1
  BY <1>2, <1>taken DEF PushFront
<1> HIDE DEF arg, rest, taken, front
<1>lens. Len(frame) \in Nat /\ Len(args) \in Nat /\ Len(args) >= 1 /\ Len(rest) \in Nat
  BY <1>1, <1>2
<1>6. /\ frame' \in Seq(Nat) /\ Len(frame') = Len(frame) + Len(next.fragment)
      /\ args' \in Seq(Nat) /\ Len(args') = Len(front) + Len(rest)
  BY <1>1, <1>2, <1>4, <1>5, <1>front, ConcatProperties
<1>7. limit' \in Int /\ size' \in Nat /\ tightEnds' \in Nat
  BY <1>1, <1>4, <1>5, <1>taken DEF ARG_LEN_LEN
<1>8. FragTypeOK'
  BY <1>4, <1>6, <1>7 DEF FragInv, FragTypeOK, FStates
<1>9. Len(args') <= MAX_FRAME_ARGS
  BY <1>2, <1>front, <1>lens, <1>6 DEF FragInv, MAX_FRAME_ARGS
<1>10. /\ Len(frame) + Len(args) <= MAX_FRAME_ARGS
       /\ size + limit = MaxPayload
       /\ frame = << >> => limit > ARG_LEN_LEN
       /\ tightEnds > 0 \/ limit >= ARG_LEN_LEN
  BY <1>1 DEF FragInv, FillingInv, Tight
<1>11. FillingInv'
  <2> SUFFICES ASSUME next.status = "Complete" PROVE FillingInv'
    BY <1>4 DEF FillingInv
  <2>1. taken = arg /\ Len(next.fragment) = 1 /\ (arg = 0 \/ arg < limit - ARG_LEN_LEN)
    BY <1>5
  <2>2. Len(frame') + Len(args') <= MAX_FRAME_ARGS /\ frame' # << >>
    BY <1>1, <1>2, <1>front, <1>6, <1>10, <2>1 DEF MAX_FRAME_ARGS
  <2>3. size' + limit' = MaxPayload
    BY <1>1, <1>2, <1>4, <1>10, <2>1 DEF ARG_LEN_LEN
  <2>4. args' # << >> => rest # << >>
    BY <1>2, <1>front, <1>6
  <2>5. tightEnds' > 0 \/ (limit' >= 0 /\ (args' # << >> => limit' >= ARG_LEN_LEN))
    BY <1>1, <1>2, <1>4, <1>10, <2>1, <2>4 DEF ARG_LEN_LEN
  <2> QED
    BY <2>2, <2>3, <2>5 DEF FillingInv, Tight
<1>12. FullInv'
  <2> SUFFICES ASSUME next.status # "Complete" PROVE FullInv'
    BY <1>4 DEF FullInv
  <2>1. 1 <= Len(frame') /\ Len(frame') <= MAX_FRAME_ARGS
    <3>1. frame = << >> => Len(next.fragment) = 1
      BY <1>1, <1>5, <1>10 DEF ARG_LEN_LEN
    <3>2. Len(next.fragment) = 0 \/ Len(next.fragment) = 1
      BY <1>5
    <3>3. CASE Len(next.fragment) = 0
      <4>1. Len(frame) >= 1
        BY <3>1, <3>3, <1>1
      <4> QED
        BY <4>1, <3>3, <1>lens, <1>6, <1>10 DEF MAX_FRAME_ARGS
    <3>4. CASE Len(next.fragment) = 1
      <4>1. Len(frame') = Len(frame) + 1
        BY <3>4, <1>6
      <4>2. Len(frame) <= 2
        BY <1>lens, <1>10 DEF MAX_FRAME_ARGS
      <4> QED
        BY <4>1, <4>2, <1>lens DEF MAX_FRAME_ARGS
    <3> QED
      BY <3>2, <3>3, <3>4
  <2>2. tightEnds' > 0 \/ size' <= MaxPayload
    <3>1. CASE limit < ARG_LEN_LEN
      BY <3>1, <1>1, <1>4, <1>10 DEF ARG_LEN_LEN
    <3>2. CASE taken = limit - ARG_LEN_LEN /\ Len(next.fragment) = 1
      BY <3>2, <1>1, <1>4, <1>10 DEF ARG_LEN_LEN
    <3> QED
      BY <3>1, <3>2, <1>1, <1>5
  <2> QED
    BY <2>1, <2>2 DEF FullInv, Tight
<1>13. FramesWellFormed' /\ FailsOnlyWhenTight'
  BY <1>1, <1>4 DEF FragInv, FramesWellFormed, FailsOnlyWhenTight, Tight
<1> QED
  BY <1>4, <1>8, <1>9, <1>11, <1>12, <1>13 DEF FragInv

LEMMA EndFrameInv == FragInv /\ EndFrame => FragInv'
<1> SUFFICES ASSUME FragInv, EndFrame PROVE FragInv'
  OBVIOUS
<1>1. /\ frame \in Seq(Nat) /\ args \in Seq(Nat) /\ size \in Nat /\ limit \in Int
      /\ 1 <= Len(frame) /\ Len(frame) <= MAX_FRAME_ARGS
      /\ Tight \/ size <= MaxPayload
      /\ fstate # "done" /\ fstate # "error"
  <2>1. /\ frame \in Seq(Nat) /\ args \in Seq(Nat) /\ size \in Nat /\ limit \in Int
    BY DEF FragInv, FragTypeOK
  <2>2. CASE fstate = "full"
    BY <2>1, <2>2 DEF FragInv, FullInv
  <2>3. CASE fstate = "filling" /\ args = << >>
    <3>1. /\ Len(frame) + Len(args) <= MAX_FRAME_ARGS /\ frame # << >>
          /\ size + limit = MaxPayload
          /\ Tight \/ limit >= 0
      BY <2>3 DEF FragInv, FillingInv
    <3>2. 1 <= Len(frame) /\ Len(frame) <= MAX_FRAME_ARGS
      <4>1. Len(args) = 0 /\ Len(frame) \in Nat /\ Len(frame) # 0
        BY <3>1, <2>1, <2>3, EmptySeq
      <4> QED
        BY <3>1, <4>1 DEF MAX_FRAME_ARGS
    <3>3. Tight \/ size <= MaxPayload
      BY <3>1, <2>1
    <3> QED
      BY <2>1, <2>3, <3>2, <3>3
  <2> QED
    BY <2>2, <2>3 DEF EndFrame
<1>2. CASE Encodable
  <2> DEFINE new == [flags |-> current_frame_flag, args |-> frame]
  <2>1. /\ frames' = Append(frames, new)
        /\ fstate' = IF args = << >> THEN "done" ELSE "next"
        /\ UNCHANGED <<input, args, limit, frame, size, tightEnds>>
    BY <1>2 DEF EndFrame
  <2>2. new \in [flags : Flags, args : Seq(Nat)]
    BY <1>1 DEF Flags, current_frame_flag
  <2>3. frames \in Seq([flags : Flags, args : Seq(Nat)])
    BY DEF FragInv, FragTypeOK
  <2>4. /\ Len(frames') = Len(frames) + 1
        /\ \A i \in 1 .. Len(frames) : frames'[i] = frames[i]
        /\ frames'[Len(frames) + 1] = new
        /\ frames' \in Seq([flags : Flags, args : Seq(Nat)])
    <3> HIDE DEF new
    <3> QED
      BY <2>1, <2>2, <2>3
  <2>5. FramesWellFormed'
    <3> SUFFICES ASSUME NEW i \in 1 .. Len(frames')
                 PROVE  /\ 1 <= Len(frames'[i].args) /\ Len(frames'[i].args) <= MAX_FRAME_ARGS
                        /\ frames'[i].flags = "MORE_FRAGMENTS_FOLLOW" <=> (i < Len(frames') \/ fstate' # "done")
      BY DEF FramesWellFormed
    <3>1. CASE i \in 1 .. Len(frames)
      <4>1. /\ 1 <= Len(frames[i].args) /\ Len(frames[i].args) <= MAX_FRAME_ARGS
            /\ frames[i].flags = "MORE_FRAGMENTS_FOLLOW"
        BY <3>1, <1>1 DEF FragInv, FramesWellFormed
      <4>2. i < Len(frames')
        BY <3>1, <2>3, <2>4
      <4> QED
        BY <3>1, <4>1, <4>2, <2>4
    <3>2. CASE i = Len(frames) + 1
      <4>1. frames'[i].args = frame /\ frames'[i].flags = current_frame_flag
        BY <3>2, <2>4
      <4>2. i < Len(frames') <=> FALSE
        BY <3>2, <2>3, <2>4
      <4>3. current_frame_flag = "MORE_FRAGMENTS_FOLLOW" <=> fstate' # "done"
        BY <2>1 DEF current_frame_flag
      <4> QED
        BY <4>1, <4>2, <4>3, <1>1
    <3> QED
      BY <3>1, <3>2, <2>3, <2>4
  <2> QED
    BY <2>1, <2>4, <2>5 DEF FragInv, FragTypeOK, FillingInv, FullInv, FailsOnlyWhenTight,
       FStates, Tight
<1>3. CASE ~Encodable
  <2>1. /\ frames' = << >> /\ fstate' = "error"
        /\ UNCHANGED <<input, args, limit, frame, size, tightEnds>>
    BY <1>3 DEF EndFrame
  <2>2. Tight
    BY <1>1, <1>3 DEF Encodable
  <2> QED
    BY <2>1, <2>2 DEF FragInv, FragTypeOK, FillingInv, FullInv, FramesWellFormed,
       FailsOnlyWhenTight, FStates, Tight
<1> QED
  BY <1>2, <1>3

LEMMA FieldsRefusedInv == FragInv /\ FieldsRefused => FragInv'
<1> SUFFICES ASSUME FragInv, FieldsRefused PROVE FragInv'
  OBVIOUS
<1>1. /\ fstate' = "refused" /\ frames = << >>
      /\ UNCHANGED <<input, args, limit, frame, size, frames, tightEnds>>
  BY DEF FieldsRefused
<1>2. FragTypeOK'
  BY <1>1 DEF FragInv, FragTypeOK, FStates
<1>3. FramesWellFormed'
  <2>1. Len(frames') = 0
    BY <1>1
  <2> QED
    BY <2>1 DEF FramesWellFormed
<1> QED
  BY <1>1, <1>2, <1>3 DEF FragInv, FillingInv, FullInv, FailsOnlyWhenTight

LEMMA FragInvStutter == FragInv /\ UNCHANGED fragVars => FragInv'
  BY DEF FragInv, fragVars, FragTypeOK, FillingInv, FullInv, FramesWellFormed,
     FailsOnlyWhenTight, Tight

(* Fragmentation keeps its invariant, whatever the rest of the transfer of  *)
(* the message does in between.                                             *)
THEOREM FragmentationInvariant == Spec => []FragInv
<1>1. Init => FragInv
  BY FragInvInit DEF Init
<1>2. FragInv /\ [Next]_vars => FragInv'
  <2> SUFFICES ASSUME FragInv, [Next]_vars PROVE FragInv'
    OBVIOUS
  <2>1. CASE Fragment
    BY <2>1, BeginFrameInv, FillArgInv, EndFrameInv DEF Fragment, FragNext
  <2>2. CASE UNCHANGED fragVars
    BY <2>2, FragInvStutter
  <2>3. CASE FieldsRefused
    BY <2>3, FieldsRefusedInv
  <2> QED
    BY <2>1, <2>2, <2>3 DEF Next, vars, Deliver, RequestFails, ResponseFails, SenderDropped, Read
<1> QED
  BY <1>1, <1>2, PTL DEF Spec

(* Once the fields are encoded, create_frames fails only on a message with  *)
(* a Tight argument, for every frame size, fields length and message.       *)
THEOREM CreateFramesFailsOnlyWhenTight == Spec => []FailsOnlyWhenTight
  BY FragmentationInvariant, PTL DEF FragInv

(* Every frame has one to three arguments, and the MORE_FRAGMENTS_FOLLOW    *)
(* flag is missing from the last frame only.                                *)
THEOREM FramesAreWellFormed == Spec => []FramesWellFormed
  BY FragmentationInvariant, PTL DEF FragInv

----------------------------------------------------------------------------
(* s holds the sums of the first elements of a, up to the n-th.             *)
IsSums(a, n, s) ==
    /\ s \in [0 .. n -> Nat]
    /\ s[0] = 0
    /\ \A k \in 1 .. n : s[k] = s[k - 1] + a[k]

LEMMA SumsExist ==
    ASSUME NEW a \in Seq(Nat)
    PROVE  \E s : IsSums(a, Len(a), s)
<1> DEFINE S == {n \in Nat : n <= Len(a) => \E s : IsSums(a, n, s)}
<1>0. Len(a) \in Nat /\ \A k \in 1 .. Len(a) : a[k] \in Nat
  BY LenProperties, ElementOfSeq
<1>1. 0 \in S
  <2>1. IsSums(a, 0, [k \in 0 .. 0 |-> 0])
    BY DEF IsSums
  <2> QED
    BY <2>1
<1>2. ASSUME NEW n \in Nat, n \in S PROVE n + 1 \in S
  <2> SUFFICES ASSUME n + 1 <= Len(a) PROVE \E s : IsSums(a, n + 1, s)
    OBVIOUS
  <2>1. n <= Len(a) /\ n + 1 \in 1 .. Len(a)
    BY <1>0
  <2>2. PICK s : IsSums(a, n, s)
    BY <1>2, <2>1
  <2>3. a[n + 1] \in Nat /\ s[n] \in Nat
    BY <1>0, <2>1, <2>2 DEF IsSums
  <2>4. PICK t : t = [k \in 0 .. n + 1 |-> IF k = n + 1 THEN s[n] + a[n + 1] ELSE s[k]]
    OBVIOUS
  <2>5. t[n + 1] = s[n] + a[n + 1] /\ \A k \in 0 .. n : t[k] = s[k]
    BY <2>4
  <2>6. t \in [0 .. n + 1 -> Nat]
    <3>1. \A k \in 0 .. n + 1 : k # n + 1 => s[k] \in Nat
      BY <2>2 DEF IsSums
    <3> QED
      BY <2>3, <2>4, <3>1
  <2>7. \A k \in 1 .. n + 1 : t[k] = t[k - 1] + a[k]
    <3> SUFFICES ASSUME NEW k \in 1 .. n + 1 PROVE t[k] = t[k - 1] + a[k]
      OBVIOUS
    <3>1. CASE k = n + 1
      BY <2>5, <3>1
    <3>2. CASE k # n + 1
      <4>1. k \in 1 .. n /\ k \in 0 .. n /\ k - 1 \in 0 .. n
        BY <3>2
      <4> QED
        BY <2>2, <2>5, <4>1 DEF IsSums
    <3> QED
      BY <3>1, <3>2
  <2>8. t[0] = 0
    BY <2>2, <2>5 DEF IsSums
  <2> QED
    BY <2>6, <2>7, <2>8 DEF IsSums
<1> HIDE DEF S
<1>3. Len(a) \in S
  BY <1>0, <1>1, <1>2, SetInduction, Zenon
<1> QED
  BY <1>0, <1>3 DEF S

(* The recursive function Sums(a) is what its definition says.              *)
LEMMA SumsDefined ==
    ASSUME NEW a \in Seq(Nat)
    PROVE  IsSums(a, Len(a), Sums(a))
<1> DEFINE L == Len(a)
           Rec(s) == s = [n \in 0 .. L |-> IF n = 0 THEN 0 ELSE s[n - 1] + a[n]]
<1>0. Len(a) \in Nat /\ \A k \in 1 .. Len(a) : a[k] \in Nat
  BY LenProperties, ElementOfSeq
<1>1. PICK s : IsSums(a, L, s)
  BY SumsExist
<1>2. Rec(s)
  <2>1. s = [n \in 0 .. L |-> s[n]]
    BY <1>1 DEF IsSums
  <2>2. \A n \in 0 .. L : s[n] = IF n = 0 THEN 0 ELSE s[n - 1] + a[n]
    BY <1>0, <1>1 DEF IsSums
  <2> QED
    BY <2>1, <2>2
<1>3. PICK g : g = Sums(a)
  OBVIOUS
<1>4. Rec(g)
  BY <1>2, <1>3 DEF Sums
<1>5. /\ g = [n \in 0 .. L |-> g[n]] /\ g[0] = 0
      /\ \A k \in 1 .. L : g[k] = g[k - 1] + a[k]
  BY <1>0, <1>4
<1>6. \A n \in 0 .. L : g[n] \in Nat
  <2> DEFINE S == {n \in Nat : n <= L => g[n] \in Nat}
  <2>1. 0 \in S
    BY <1>5
  <2>2. ASSUME NEW n \in Nat, n \in S PROVE n + 1 \in S
    <3> SUFFICES ASSUME n + 1 <= L PROVE g[n + 1] \in Nat
      OBVIOUS
    <3>1. n <= L /\ n + 1 \in 1 .. L /\ (n + 1) - 1 = n
      BY <1>0
    <3>2. g[n] \in Nat /\ a[n + 1] \in Nat
      BY <1>0, <2>2, <3>1
    <3>3. g[n + 1] = g[(n + 1) - 1] + a[n + 1]
      BY <1>5, <3>1, Zenon
    <3> QED
      BY <3>1, <3>2, <3>3
  <2> HIDE DEF S
  <2>3. \A n \in Nat : n \in S
    BY <2>1, <2>2, SetInduction, Zenon
  <2> QED
    BY <1>0, <2>3 DEF S
<1>7. g \in [0 .. L -> Nat]
  BY <1>5, <1>6
<1> QED
  BY <1>3, <1>5, <1>7 DEF IsSums

(* The recursion step, for numbers the provers can do arithmetic with.      *)
LEMMA SumsStep ==
    ASSUME NEW a \in Seq(Nat), NEW n \in Nat, n < Len(a)
    PROVE  /\ Sums(a)[n] \in Nat /\ a[n + 1] \in Nat
           /\ Sums(a)[n + 1] = Sums(a)[n] + a[n + 1]
<1>1. PICK L \in Nat : L = Len(a)
  BY LenProperties
<1>2. PICK s : s = Sums(a)
  OBVIOUS
<1>3. s \in [0 .. L -> Nat] /\ \A k \in 1 .. L : s[k] = s[k - 1] + a[k]
  BY <1>1, <1>2, SumsDefined DEF IsSums
<1>4. n \in 0 .. L /\ n + 1 \in 1 .. L /\ (n + 1) - 1 = n
  BY <1>1
<1>5. s[n + 1] = s[(n + 1) - 1] + a[n + 1]
  BY <1>3, <1>4, Zenon
<1>6. a[n + 1] \in Nat
  BY <1>1, <1>4, ElementOfSeq
<1> QED
  BY <1>2, <1>3, <1>4, <1>5, <1>6

LEMMA SumsFirst ==
    ASSUME NEW a \in Seq(Nat)
    PROVE  Sums(a)[0] = 0 /\ Bytes(a) \in Nat /\ \A n \in 0 .. Len(a) : Sums(a)[n] \in Nat
<1>1. Len(a) \in Nat
  BY LenProperties
<1>2. PICK s : s = Sums(a)
  OBVIOUS
<1>3. s \in [0 .. Len(a) -> Nat] /\ s[0] = 0
  BY <1>2, SumsDefined DEF IsSums
<1>4. Len(a) \in 0 .. Len(a)
  BY <1>1
<1> QED
  BY <1>2, <1>3, <1>4 DEF Bytes

(* The sum of a prefix depends on nothing but that prefix.                  *)
LEMMA SumsPrefix ==
    ASSUME NEW a \in Seq(Nat), NEW b \in Seq(Nat), NEW m \in Nat, m <= Len(a), m <= Len(b),
           \A i \in 1 .. m : a[i] = b[i]
    PROVE  Sums(a)[m] = Sums(b)[m]
<1> DEFINE S == {n \in Nat : n <= m => Sums(a)[n] = Sums(b)[n]}
<1>1. 0 \in S
  BY SumsFirst
<1>2. ASSUME NEW n \in Nat, n \in S PROVE n + 1 \in S
  <2> SUFFICES ASSUME n + 1 <= m PROVE Sums(a)[n + 1] = Sums(b)[n + 1]
    OBVIOUS
  <2>1. n <= m /\ n + 1 \in 1 .. m /\ n < Len(a) /\ n < Len(b)
    <3>1. Len(a) \in Nat /\ Len(b) \in Nat
      BY LenProperties
    <3> QED
      BY <3>1
  <2>2. Sums(a)[n] = Sums(b)[n] /\ a[n + 1] = b[n + 1]
    BY <1>2, <2>1
  <2>3. Sums(a)[n + 1] = Sums(a)[n] + a[n + 1] /\ Sums(b)[n + 1] = Sums(b)[n] + b[n + 1]
    BY <2>1, SumsStep
  <2> QED
    BY <2>2, <2>3
<1> HIDE DEF S
<1>3. m \in S
  BY <1>1, <1>2, SetInduction, Zenon
<1> QED
  BY <1>3 DEF S

LEMMA BytesEmpty == Bytes(<< >>) = 0
<1>1. << >> \in Seq(Nat) /\ Len(<< >>) = 0
  OBVIOUS
<1>2. Sums(<< >>)[0] = 0
  BY <1>1, SumsFirst
<1> QED
  BY <1>1, <1>2 DEF Bytes

LEMMA BytesConcat ==
    ASSUME NEW x \in Seq(Nat), NEW t \in Seq(Nat)
    PROVE  Bytes(x \o t) = Bytes(x) + Bytes(t)
<1>1. PICK c : c = x \o t
  OBVIOUS
<1>2. PICK l, m \in Nat : l = Len(x) /\ m = Len(t)
  BY LenProperties
<1>3. /\ c \in Seq(Nat) /\ Len(c) = l + m
      /\ \A i \in 1 .. l + m : c[i] = IF i <= l THEN x[i] ELSE t[i - l]
  BY <1>1, <1>2, ConcatProperties
<1>4. Sums(c)[l] = Bytes(x) /\ Bytes(x) \in Nat
  <2>1. \A i \in 1 .. l : c[i] = x[i]
    BY <1>3
  <2>2. l <= Len(c) /\ l <= Len(x)
    BY <1>2, <1>3
  <2>3. Sums(c)[l] = Sums(x)[l]
    BY <1>3, <2>1, <2>2, SumsPrefix
  <2> QED
    BY <1>2, <2>3, SumsFirst DEF Bytes
<1> DEFINE S == {n \in Nat : n <= m => Sums(c)[l + n] = Bytes(x) + Sums(t)[n]}
<1>5. 0 \in S
  <2>1. Sums(t)[0] = 0 /\ l + 0 = l
    BY SumsFirst
  <2> QED
    BY <1>4, <2>1
<1>6. ASSUME NEW n \in Nat, n \in S PROVE n + 1 \in S
  <2> SUFFICES ASSUME n + 1 <= m PROVE Sums(c)[l + (n + 1)] = Bytes(x) + Sums(t)[n + 1]
    OBVIOUS
  <2>1. /\ n <= m /\ n < Len(t) /\ l + n \in Nat /\ l + n < Len(c)
        /\ (l + n) + 1 = l + (n + 1) /\ (l + n) + 1 \in 1 .. l + m
        /\ ~ ((l + n) + 1 <= l) /\ ((l + n) + 1) - l = n + 1
    BY <1>2, <1>3
  <2>2. Sums(c)[l + n] = Bytes(x) + Sums(t)[n]
    BY <1>6, <2>1
  <2>3. c[(l + n) + 1] = t[n + 1]
    BY <1>3, <2>1
  <2>4. Sums(c)[(l + n) + 1] = Sums(c)[l + n] + c[(l + n) + 1]
    BY <1>3, <2>1, SumsStep
  <2>5. Sums(t)[n + 1] = Sums(t)[n] + t[n + 1] /\ Sums(t)[n] \in Nat /\ t[n + 1] \in Nat
    BY <2>1, SumsStep
  <2> QED
    BY <1>4, <2>1, <2>2, <2>3, <2>4, <2>5
<1> HIDE DEF S
<1>7. m \in S
  BY <1>5, <1>6, SetInduction, Zenon
<1>8. Sums(c)[l + m] = Bytes(x) + Sums(t)[m]
  BY <1>7 DEF S
<1> QED
  BY <1>1, <1>2, <1>3, <1>8 DEF Bytes

LEMMA BytesSingle == ASSUME NEW p \in Nat PROVE Bytes(<<p>>) = p
<1>1. PICK q : q = <<p>>
  OBVIOUS
<1>2. q \in Seq(Nat) /\ Len(q) = 1 /\ q[1] = p
  BY <1>1
<1>3. Sums(q)[0] = 0
  BY <1>2, SumsFirst
<1>4. 0 \in Nat /\ 0 < Len(q) /\ 0 + 1 = 1
  BY <1>2
<1>5. Sums(q)[0 + 1] = Sums(q)[0] + q[0 + 1]
  BY <1>2, <1>4, SumsStep, Zenon
<1> QED
  BY <1>1, <1>2, <1>3, <1>4, <1>5 DEF Bytes

LEMMA BytesFront ==
    ASSUME NEW f \in Seq(Nat), f # << >>
    PROVE  Bytes(f) = Head(f) + Bytes(Tail(f)) /\ Head(f) \in Nat /\ Bytes(Tail(f)) \in Nat
<1>1. Head(f) \in Nat /\ Tail(f) \in Seq(Nat) /\ f = <<Head(f)>> \o Tail(f)
  BY HeadTailProperties
<1>2. <<Head(f)>> \in Seq(Nat)
  BY <1>1
<1>3. Bytes(<<Head(f)>> \o Tail(f)) = Bytes(<<Head(f)>>) + Bytes(Tail(f))
  BY <1>1, <1>2, BytesConcat
<1>4. Bytes(<<Head(f)>>) = Head(f)
  BY <1>1, BytesSingle
<1> QED
  BY <1>1, <1>3, <1>4, SumsFirst

----------------------------------------------------------------------------
(* The two ends of the transfer.  What the reader has put together and what *)
(* the sender has not yet cut make up the message m: between two arguments  *)
(* (a message whose last argument ends with its frame is followed by an     *)
(* empty argument, which TryFrom<MessageArgs> ignores) ...                  *)
Clean(m, o, a) ==
    /\ Len(o) + Len(a) = 3 \/ (Len(o) = 4 /\ Len(a) = 0)
    /\ \A i \in 1 .. 3 : i <= Len(o) => o[i] = m[i]
    /\ \A j \in 1 .. Len(a) : a[j] = m[Len(o) + j]

(* ... or inside one.                                                       *)
Cut(m, o, a) ==
    /\ Len(o) >= 1 /\ Len(a) >= 1 /\ Len(o) + Len(a) = 4
    /\ \A i \in 1 .. Len(o) - 1 : o[i] = m[i]
    /\ o[Len(o)] + a[1] = m[Len(o)]
    /\ \A j \in 2 .. Len(a) : a[j] = m[Len(o) + j - 1]
    /\ a[1] > 0 \/ Len(a) = 1

(* The last argument goes on by p bytes.                                    *)
Grow(o, p) == [o EXCEPT ![Len(o)] = @ + p]

LEMMA GrowProperties ==
    ASSUME NEW o \in Seq(Nat), o # << >>, NEW p \in Nat
    PROVE  /\ Grow(o, p) \in Seq(Nat) /\ Len(Grow(o, p)) = Len(o)
           /\ \A i \in 1 .. Len(o) - 1 : Grow(o, p)[i] = o[i]
           /\ Grow(o, p)[Len(o)] = o[Len(o)] + p
<1>1. Len(o) \in 1 .. Len(o) /\ Len(o) \in Nat /\ o[Len(o)] \in Nat
  BY EmptySeq, LenProperties
<1>2. PICK e : e = o[Len(o)] + p
  OBVIOUS
<1>3. e \in Nat /\ Grow(o, p) = [o EXCEPT ![Len(o)] = e]
  BY <1>1, <1>2 DEF Grow
<1>4. /\ Grow(o, p) \in Seq(Nat) /\ Len(Grow(o, p)) = Len(o)
      /\ \A j \in 1 .. Len(o) : Grow(o, p)[j] = IF j = Len(o) THEN e ELSE o[j]
  BY <1>1, <1>3, ExceptSeq
<1> QED
  BY <1>1, <1>2, <1>4

(* The front of the arguments is replaced.                                  *)
LEMMA NewFront ==
    ASSUME NEW a \in Seq(Nat), a # << >>, NEW x \in Nat
    PROVE  /\ Head(a) = a[1] /\ Head(a) \in Nat /\ Len(a) \in Nat /\ Len(a) >= 1
           /\ Tail(a) \in Seq(Nat) /\ Len(Tail(a)) = Len(a) - 1
           /\ \A i \in 1 .. Len(a) - 1 : Tail(a)[i] = a[i + 1]
           /\ <<x>> \o Tail(a) \in Seq(Nat) /\ Len(<<x>> \o Tail(a)) = Len(a)
           /\ (<<x>> \o Tail(a))[1] = x
           /\ \A i \in 2 .. Len(a) : (<<x>> \o Tail(a))[i] = a[i]
<1>1. /\ Head(a) = a[1] /\ Head(a) \in Nat /\ Len(a) \in Nat /\ Len(a) >= 1
      /\ Tail(a) \in Seq(Nat) /\ Len(Tail(a)) = Len(a) - 1
      /\ \A i \in 1 .. Len(a) - 1 : Tail(a)[i] = a[i + 1]
  OBVIOUS
<1>2. <<x>> \in Seq(Nat) /\ Len(<<x>>) = 1 /\ <<x>>[1] = x
  OBVIOUS
<1>3. PICK s, t : s = <<x>> /\ t = Tail(a)
  OBVIOUS
<1>4. /\ s \o t \in Seq(Nat) /\ Len(s \o t) = Len(s) + Len(t)
      /\ \A i \in 1 .. Len(s) + Len(t) : (s \o t)[i] = IF i <= Len(s) THEN s[i] ELSE t[i - Len(s)]
  BY <1>1, <1>2, <1>3, ConcatProperties
<1> QED
  BY <1>1, <1>2, <1>3, <1>4

LEMMA TakeWhole ==
    ASSUME NEW m \in Seq(Nat), Len(m) = 3, NEW o \in Seq(Nat), NEW a \in Seq(Nat), a # << >>,
           Clean(m, o, a)
    PROVE  Clean(m, Append(o, Head(a)), Tail(a))
<1>1. PICK q, r : q = Append(o, Head(a)) /\ r = Tail(a)
  OBVIOUS
<1>2. /\ q \in Seq(Nat) /\ Len(q) = Len(o) + 1 /\ Len(o) \in Nat
      /\ \A i \in 1 .. Len(o) : q[i] = o[i]
      /\ q[Len(o) + 1] = a[1]
  BY <1>1, NewFront, AppendProperties, LenProperties
<1>3. /\ Len(a) \in Nat /\ Len(a) >= 1 /\ Len(r) = Len(a) - 1
      /\ \A i \in 1 .. Len(a) - 1 : r[i] = a[i + 1]
  BY <1>1, NewFront
<1>4. Clean(m, q, r)
  <2>1. PICK n \in Nat, k \in Nat : n = Len(o) /\ k = Len(a) /\ k >= 1
    BY <1>2, <1>3
  <2>2. /\ n + k = 3
        /\ \A i \in 1 .. 3 : i <= n => o[i] = m[i]
        /\ \A i \in 1 .. k : a[i] = m[n + i]
    <3>1. /\ Len(o) + Len(a) = 3 \/ (Len(o) = 4 /\ Len(a) = 0)
          /\ \A i \in 1 .. 3 : i <= Len(o) => o[i] = m[i]
          /\ \A i \in 1 .. Len(a) : a[i] = m[Len(o) + i]
      BY Zenon DEF Clean
    <3>2. n + k = 3 \/ (n = 4 /\ k = 0)
      BY <2>1, <3>1, Zenon
    <3>3. n + k = 3
      BY <2>1, <3>2
    <3> QED
      BY <2>1, <3>1, <3>3, Zenon
  <2>3. Len(q) = n + 1 /\ Len(r) = k - 1 /\ (n + 1) + (k - 1) = 3
    BY <1>2, <1>3, <2>1, <2>2
  <2>4. ASSUME NEW i \in 1 .. 3, i <= n + 1 PROVE q[i] = m[i]
    <3>1. CASE i <= n
      <4>1. i \in 1 .. n
        BY <3>1
      <4> QED
        BY <1>2, <2>1, <2>2, <3>1, <4>1
    <3>2. CASE i = n + 1
      <4>1. 1 \in 1 .. k
        BY <2>1
      <4> QED
        BY <1>2, <2>1, <2>2, <3>2, <4>1
    <3> QED
      BY <2>4, <3>1, <3>2
  <2>5. ASSUME NEW i \in 1 .. k - 1 PROVE r[i] = m[(n + 1) + i]
    <3>1. i + 1 \in 1 .. k /\ n + (i + 1) = (n + 1) + i
      OBVIOUS
    <3>2. r[i] = a[i + 1]
      BY <1>3, <2>1
    <3> QED
      BY <2>2, <3>1, <3>2
  <2> QED
    BY <2>3, <2>4, <2>5 DEF Clean
<1> QED
  BY <1>1, <1>4

(* What is left of the arguments when p bytes of the first are taken.       *)
LEMMA LeftOver ==
    ASSUME NEW a \in Seq(Nat), a # << >>, NEW p \in Nat, p <= Head(a)
    PROVE  /\ <<Head(a) - p>> \o Tail(a) \in Seq(Nat)
           /\ Len(<<Head(a) - p>> \o Tail(a)) = Len(a) /\ Len(a) \in Nat /\ Len(a) >= 1
           /\ (<<Head(a) - p>> \o Tail(a))[1] \in Nat
           /\ (<<Head(a) - p>> \o Tail(a))[1] + p = a[1]
           /\ \A i \in 2 .. Len(a) : (<<Head(a) - p>> \o Tail(a))[i] = a[i]
<1>1. Head(a) = a[1] /\ Head(a) \in Nat /\ Len(a) \in Nat /\ Len(a) >= 1
  OBVIOUS
<1>2. PICK h \in Nat : h = Head(a)
  BY <1>1
<1>3. PICK x \in Nat : x = h - p /\ x + p = h
  <2>1. h - p \in Nat /\ (h - p) + p = h
    BY <1>2
  <2> QED
    BY <2>1
<1>4. Head(a) - p = x
  BY <1>2, <1>3
<1>5. /\ <<x>> \o Tail(a) \in Seq(Nat) /\ Len(<<x>> \o Tail(a)) = Len(a)
      /\ (<<x>> \o Tail(a))[1] = x
      /\ \A i \in 2 .. Len(a) : (<<x>> \o Tail(a))[i] = a[i]
  BY NewFront
<1>6. x + p = a[1]
  BY <1>1, <1>2, <1>3
<1> QED
  BY <1>1, <1>4, <1>5, <1>6

(* A piece of the first argument, which is not all of it unless it is the   *)
(* last argument, is appended ...                                           *)
LEMMA TakePart ==
    ASSUME NEW m \in Seq(Nat), Len(m) = 3, NEW o \in Seq(Nat), NEW a \in Seq(Nat),
           Len(a) >= 1, Clean(m, o, a),
           NEW p \in Nat, NEW r \in Seq(Nat), Len(r) = Len(a), r[1] + p = a[1],
           \A i \in 2 .. Len(a) : r[i] = a[i],
           r[1] > 0 \/ Len(a) = 1
    PROVE  Cut(m, Append(o, p), r)
<1>1. PICK q : q = Append(o, p)
  OBVIOUS
<1>2. /\ q \in Seq(Nat) /\ Len(q) = Len(o) + 1 /\ Len(o) \in Nat /\ Len(a) \in Nat
      /\ \A i \in 1 .. Len(o) : q[i] = o[i]
      /\ q[Len(o) + 1] = p
  BY <1>1, AppendProperties, LenProperties
<1>3. PICK x \in Nat : x = r[1]
  BY ElementOfSeq, LenProperties
<1>4. q[Len(q)] + r[1] = m[Len(q)]
  <2>1. a[1] = m[Len(o) + 1]
    BY <1>2 DEF Clean
  <2>2. p + x = x + p
    OBVIOUS
  <2> QED
    BY <1>2, <1>3, <2>1, <2>2
<1>5. /\ Len(o) + Len(a) = 3
      /\ \A i \in 1 .. 3 : i <= Len(o) => o[i] = m[i]
      /\ \A j \in 1 .. Len(a) : a[j] = m[Len(o) + j]
  BY <1>2 DEF Clean
<1>6. PICK n, l \in Nat : n = Len(o) /\ l = Len(a)
  BY <1>2
<1>7. n + l = 3 /\ l >= 1 /\ Len(q) = n + 1 /\ Len(r) = l
  BY <1>2, <1>5, <1>6
<1>8. \A i \in 1 .. Len(q) - 1 : q[i] = m[i]
  <2> SUFFICES ASSUME NEW i \in 1 .. n PROVE q[i] = m[i]
    BY <1>7
  <2>1. i \in 1 .. 3 /\ i <= n
    BY <1>7
  <2> QED
    BY <1>2, <1>5, <1>6, <2>1
<1>9. \A j \in 2 .. Len(r) : r[j] = m[Len(q) + j - 1]
  <2>1. \A j \in 2 .. l : r[j] = m[n + j]
    BY <1>5, <1>6, <1>7
  <2>2. \A j \in 2 .. l : Len(q) + j - 1 = n + j
    BY <1>7
  <2> QED
    BY <1>7, <2>1, <2>2
<1>10. /\ Len(q) >= 1 /\ Len(r) >= 1 /\ Len(q) + Len(r) = 4
       /\ r[1] > 0 \/ Len(r) = 1
  BY <1>6, <1>7
<1>11. Cut(m, q, r)
  BY <1>4, <1>8, <1>9, <1>10, Zenon DEF Cut
<1> QED
  BY <1>1, <1>11

LEMMA GoOnWhole ==
    ASSUME NEW m \in Seq(Nat), Len(m) = 3, NEW o \in Seq(Nat), NEW a \in Seq(Nat), a # << >>,
           o # << >>, Cut(m, o, a)
    PROVE  Clean(m, Grow(o, Head(a)), Tail(a))
<1>1. PICK q, r : q = Grow(o, Head(a)) /\ r = Tail(a)
  OBVIOUS
<1>2. /\ Len(q) = Len(o) /\ Len(o) \in Nat
      /\ \A i \in 1 .. Len(o) - 1 : q[i] = o[i]
      /\ q[Len(o)] = o[Len(o)] + a[1]
  <2>1. Head(a) = a[1] /\ Head(a) \in Nat
    OBVIOUS
  <2>2. PICK p \in Nat : p = Head(a) /\ p = a[1]
    BY <2>1, Zenon
  <2>3. /\ Len(Grow(o, p)) = Len(o)
        /\ \A i \in 1 .. Len(o) - 1 : Grow(o, p)[i] = o[i]
        /\ Grow(o, p)[Len(o)] = o[Len(o)] + p
    BY GrowProperties, Zenon
  <2>4. Len(o) \in Nat
    BY LenProperties
  <2> QED
    BY <1>1, <2>2, <2>3, <2>4, Zenon
<1>3. /\ Len(a) \in Nat /\ Len(a) >= 1 /\ Len(r) = Len(a) - 1
      /\ \A i \in 1 .. Len(a) - 1 : r[i] = a[i + 1]
  BY <1>1, NewFront
<1>4. /\ Len(o) >= 1 /\ Len(o) + Len(a) = 4
      /\ \A i \in 1 .. Len(o) - 1 : o[i] = m[i]
      /\ o[Len(o)] + a[1] = m[Len(o)]
      /\ \A j \in 2 .. Len(a) : a[j] = m[Len(o) + j - 1]
  BY DEF Cut
<1>5. PICK n, l \in Nat : n = Len(o) /\ l = Len(a)
  BY <1>2, <1>3
<1>6. n + l = 4 /\ n >= 1 /\ l >= 1 /\ Len(q) = n /\ Len(r) = l - 1
  BY <1>2, <1>3, <1>4, <1>5
<1>7. \A i \in 1 .. n : q[i] = m[i]
  <2>1. \A i \in 1 .. n - 1 : q[i] = m[i]
    BY <1>2, <1>4, <1>5
  <2>2. q[n] = m[n]
    BY <1>2, <1>4, <1>5
  <2> SUFFICES ASSUME NEW i \in 1 .. n PROVE q[i] = m[i]
    OBVIOUS
  <2>3. i = n \/ i \in 1 .. n - 1
    OBVIOUS
  <2> QED
    BY <2>1, <2>2, <2>3
<1>8. \A j \in 1 .. l - 1 : r[j] = m[n + j]
  <2> SUFFICES ASSUME NEW j \in 1 .. l - 1 PROVE r[j] = m[n + j]
    OBVIOUS
  <2>1. j + 1 \in 2 .. l /\ n + (j + 1) - 1 = n + j
    BY <1>5
  <2>2. r[j] = a[j + 1] /\ a[j + 1] = m[n + (j + 1) - 1]
    BY <1>3, <1>4, <1>5, <2>1
  <2> QED
    BY <2>1, <2>2
<1>9. Clean(m, q, r)
  BY <1>5, <1>6, <1>7, <1>8 DEF Clean
<1> QED
  BY <1>1, <1>9

(* ... or the last argument goes on with it.                                *)
LEMMA GoOnPart ==
    ASSUME NEW m \in Seq(Nat), Len(m) = 3, NEW o \in Seq(Nat), NEW a \in Seq(Nat),
           o # << >>, Len(a) >= 1, Cut(m, o, a),
           NEW p \in Nat, NEW r \in Seq(Nat), Len(r) = Len(a), r[1] + p = a[1],
           \A i \in 2 .. Len(a) : r[i] = a[i],
           r[1] > 0 \/ Len(a) = 1
    PROVE  Cut(m, Grow(o, p), r)
<1>1. PICK q : q = Grow(o, p)
  OBVIOUS
<1>2. /\ Len(q) = Len(o) /\ Len(o) \in Nat /\ Len(a) \in Nat
      /\ \A i \in 1 .. Len(o) - 1 : q[i] = o[i]
      /\ q[Len(o)] = o[Len(o)] + p
  BY <1>1, GrowProperties, LenProperties
<1>3. PICK x \in Nat, y \in Nat : x = r[1] /\ y = o[Len(o)]
  BY ElementOfSeq, LenProperties, EmptySeq
<1>4. q[Len(q)] + r[1] = m[Len(q)]
  <2>1. y + a[1] = m[Len(o)]
    BY <1>3 DEF Cut
  <2>2. (y + p) + x = y + (x + p)
    OBVIOUS
  <2> QED
    BY <1>2, <1>3, <2>1, <2>2
<1>5. Cut(m, q, r)
  BY <1>2, <1>4 DEF Cut
<1> QED
  BY <1>1, <1>5

(* An argument that ended with its frame is followed by an empty piece.     *)
LEMMA AddEmpty ==
    ASSUME NEW m \in Seq(Nat), Len(m) = 3, NEW o \in Seq(Nat), NEW a \in Seq(Nat), a # << >>,
           Cut(m, o, a), Head(a) = 0
    PROVE  Tail(a) = << >> /\ Clean(m, Append(o, 0), << >>)
<1>1. Len(a) = 1 /\ a[1] = 0 /\ Len(Tail(a)) = 0
  BY NewFront DEF Cut
<1>2. Tail(a) = << >>
  BY <1>1, NewFront, EmptySeq
<1>3. PICK q : q = Append(o, 0)
  OBVIOUS
<1>4. /\ Len(q) = Len(o) + 1 /\ Len(o) \in Nat /\ \A i \in 1 .. Len(o) : q[i] = o[i] /\ o[i] \in Nat
  BY <1>3, AppendProperties, LenProperties
<1>5. Len(o) = 3 /\ \A i \in 1 .. 3 : o[i] = m[i]
  <2>0. Len(o) + Len(a) = 4 /\ \A i \in 1 .. Len(o) - 1 : o[i] = m[i]
    BY DEF Cut
  <2>a. Len(o) = 3
    <3>1. PICK n \in Nat : n = Len(o)
      BY <1>4
    <3>2. n + 1 = 4
      BY <1>1, <2>0, <3>1
    <3>3. n = 3
      BY <3>2
    <3> QED
      BY <3>1, <3>3
  <2>1. Len(o) = 3 /\ \A i \in 1 .. 2 : o[i] = m[i]
    BY <2>0, <2>a
  <2>2. o[3] + 0 = m[3] /\ o[3] \in Nat
    <3>1. o[Len(o)] + a[1] = m[Len(o)]
      BY DEF Cut
    <3> QED
      BY <1>1, <1>4, <2>1, <3>1
  <2>3. o[3] = m[3]
    BY <2>2
  <2> QED
    BY <2>1, <2>3
<1>6. Clean(m, q, << >>)
  BY <1>4, <1>5, EmptySeq DEF Clean
<1> QED
  BY <1>2, <1>3, <1>6

(* What ArgsDefragmenter::add makes of the pieces of a frame, one by one.   *)
LEMMA AddNone == ASSUME NEW o PROVE add(o, << >>) = o
  BY DEF add

LEMMA AddFirst ==
    ASSUME NEW o \in Seq(Nat), NEW p \in Nat
    PROVE  /\ p # 0 /\ o # << >> => add(o, <<p>>) = Grow(o, p)
           /\ p = 0 \/ o = << >> => add(o, <<p>>) = Append(o, p)
           /\ add_first_arg(o, p) \in Seq(Nat)
<1>1. Head(<<p>>) = p /\ Tail(<<p>>) = << >> /\ <<p>> # << >>
  OBVIOUS
<1>2. add(o, <<p>>) = add_first_arg(o, p) \o << >>
  BY <1>1 DEF add
<1>3. CASE p # 0 /\ o # << >>
  <2>1. add_first_arg(o, p) = Grow(o, p)
    BY <1>3 DEF add_first_arg, Grow
  <2>2. Grow(o, p) \in Seq(Nat)
    BY <1>3, GrowProperties
  <2> QED
    BY <1>2, <1>3, <2>1, <2>2, ConcatEmptySeq
<1>4. CASE ~ (p # 0 /\ o # << >>)
  <2>1. add_first_arg(o, p) = Append(o, p)
    BY <1>4 DEF add_first_arg
  <2>2. Append(o, p) \in Seq(Nat)
    BY AppendProperties
  <2> QED
    BY <1>2, <1>4, <2>1, <2>2, ConcatEmptySeq
<1> QED
  BY <1>3, <1>4

LEMMA AddType ==
    ASSUME NEW o \in Seq(Nat), NEW f \in Seq(Nat)
    PROVE  add(o, f) \in Seq(Nat)
<1>1. CASE f = << >>
  BY <1>1, AddNone
<1>2. CASE f # << >>
  <2>1. Head(f) \in Nat /\ Tail(f) \in Seq(Nat)
    BY <1>2, HeadTailProperties
  <2>2. add_first_arg(o, Head(f)) \in Seq(Nat)
    BY <2>1, AddFirst
  <2>3. add_first_arg(o, Head(f)) \o Tail(f) \in Seq(Nat)
    BY <2>1, <2>2, ConcatProperties
  <2> QED
    BY <1>2, <2>3 DEF add
<1> QED
  BY <1>1, <1>2

LEMMA ConcatAppend ==
    ASSUME NEW x \in Seq(Nat), NEW t \in Seq(Nat), NEW p \in Nat
    PROVE  x \o Append(t, p) = Append(x \o t, p)
<1>1. PICK u, v, w : u = Append(t, p) /\ v = x \o t /\ w = x \o Append(t, p)
  OBVIOUS
<1>2. /\ u \in Seq(Nat) /\ Len(u) = Len(t) + 1 /\ Len(x) \in Nat /\ Len(t) \in Nat
      /\ \A i \in 1 .. Len(t) : u[i] = t[i]
      /\ u[Len(t) + 1] = p
  BY <1>1, AppendProperties, LenProperties
<1>3. /\ v \in Seq(Nat) /\ Len(v) = Len(x) + Len(t)
      /\ \A i \in 1 .. Len(x) + Len(t) : v[i] = IF i <= Len(x) THEN x[i] ELSE t[i - Len(x)]
  BY <1>1, ConcatProperties
<1>4. /\ w \in Seq(Nat) /\ Len(w) = Len(x) + Len(u)
      /\ \A i \in 1 .. Len(x) + Len(u) : w[i] = IF i <= Len(x) THEN x[i] ELSE u[i - Len(x)]
  BY <1>1, <1>2, ConcatProperties, SMTT(30)
<1>5. PICK z : z = Append(v, p)
  OBVIOUS
<1>6. /\ z \in Seq(Nat) /\ Len(z) = Len(v) + 1
      /\ \A i \in 1 .. Len(v) : z[i] = v[i]
      /\ z[Len(v) + 1] = p
  <2>1. v \in Seq(Nat)
    BY <1>3
  <2> QED
    BY <1>5, <2>1, AppendProperties
<1>7. PICK a, b \in Nat : a = Len(x) /\ b = Len(t)
  BY <1>2
<1>l. Len(u) = b + 1 /\ Len(v) = a + b /\ Len(w) = a + b + 1 /\ Len(z) = a + b + 1
  BY <1>2, <1>3, <1>4, <1>6, <1>7
<1>u. (\A i \in 1 .. b : u[i] = t[i]) /\ u[b + 1] = p
  BY <1>2, <1>7
<1>v. \A i \in 1 .. a + b : v[i] = IF i <= a THEN x[i] ELSE t[i - a]
  BY <1>3, <1>7
<1>w. \A i \in 1 .. a + b + 1 : w[i] = IF i <= a THEN x[i] ELSE u[i - a]
  BY <1>4, <1>7, <1>l
<1>z. (\A i \in 1 .. a + b : z[i] = v[i]) /\ z[a + b + 1] = p
  BY <1>6, <1>l
<1>8. \A i \in 1 .. Len(w) : w[i] = z[i]
  <2> SUFFICES ASSUME NEW i \in 1 .. a + b + 1 PROVE w[i] = z[i]
    BY <1>l
  <2>1. CASE i <= a
    <3>1. w[i] = x[i]
      BY <1>w, <2>1
    <3>2. z[i] = v[i] /\ v[i] = x[i]
      BY <1>v, <1>z, <2>1
    <3> QED
      BY <3>1, <3>2
  <2>2. CASE i > a /\ i <= a + b
    <3>1. i - a \in 1 .. b /\ i \in 1 .. a + b
      BY <2>2
    <3>2. w[i] = u[i - a] /\ u[i - a] = t[i - a]
      BY <1>u, <1>w, <2>2, <3>1
    <3>3. z[i] = v[i] /\ v[i] = t[i - a]
      BY <1>v, <1>z, <2>2, <3>1
    <3> QED
      BY <3>2, <3>3
  <2>3. CASE i = a + b + 1
    <3>1. i - a = b + 1 /\ ~ (i <= a)
      BY <2>3
    <3>2. w[i] = u[b + 1] /\ u[b + 1] = p
      BY <1>u, <1>w, <2>3, <3>1
    <3>3. z[i] = p
      BY <1>z, <2>3
    <3> QED
      BY <3>2, <3>3
  <2> QED
    BY <2>1, <2>2, <2>3
<1>9. w = z
  BY <1>4, <1>6, <1>l, <1>8, SeqEqual
<1> QED
  BY <1>1, <1>5, <1>9

LEMMA AddMore ==
    ASSUME NEW o \in Seq(Nat), NEW f \in Seq(Nat), f # << >>, NEW p \in Nat
    PROVE  add(o, f \o <<p>>) = Append(add(o, f), p)
<1>1. f \o <<p>> = Append(f, p)
  BY AppendIsConcat
<1>2. /\ Append(f, p) # << >> /\ Head(Append(f, p)) = Head(f)
      /\ Tail(Append(f, p)) = Append(Tail(f), p)
  BY HeadTailAppend, AppendProperties, ZenonT(40)
<1>3. PICK x, t : x = add_first_arg(o, Head(f)) /\ t = Tail(f)
  OBVIOUS
<1>4. x \in Seq(Nat) /\ t \in Seq(Nat)
  <2>1. Head(f) \in Nat /\ Tail(f) \in Seq(Nat)
    BY HeadTailProperties
  <2> QED
    BY <1>3, <2>1, AddFirst
<1>5. x \o t \in Seq(Nat)
  BY <1>4, ConcatProperties
<1>6. x \o Append(t, p) = Append(x \o t, p)
  BY <1>4, ConcatAppend
<1>7. add(o, Append(f, p)) = x \o Append(t, p)
  BY <1>2, <1>3 DEF add
<1>8. add(o, f) = x \o t
  BY <1>3 DEF add
<1> QED
  BY <1>1, <1>6, <1>7, <1>8

(* Neither joining a piece with an argument nor making it one of its own    *)
(* changes the number of bytes.                                             *)
LEMMA BytesGrow ==
    ASSUME NEW o \in Seq(Nat), o # << >>, NEW p \in Nat
    PROVE  Bytes(Grow(o, p)) = Bytes(o) + p
<1>1. PICK g : g = Grow(o, p)
  OBVIOUS
<1>2. PICK n \in Nat : n + 1 = Len(o)
  <2>1. Len(o) \in Nat /\ Len(o) # 0
    BY LenProperties, EmptySeq
  <2>2. Len(o) - 1 \in Nat /\ (Len(o) - 1) + 1 = Len(o)
    BY <2>1
  <2> QED
    BY <2>2
<1>3. /\ g \in Seq(Nat) /\ Len(g) = n + 1 /\ g[n + 1] = o[n + 1] + p
      /\ \A i \in 1 .. n : g[i] = o[i]
  <2>1. /\ g \in Seq(Nat) /\ Len(g) = Len(o) /\ g[Len(o)] = o[Len(o)] + p
        /\ \A i \in 1 .. Len(o) - 1 : g[i] = o[i]
    BY <1>1, GrowProperties
  <2>2. Len(o) - 1 = n
    BY <1>2
  <2> QED
    BY <1>2, <2>1, <2>2
<1>n. n < Len(g) /\ n <= Len(g) /\ n < Len(o) /\ n <= Len(o)
  BY <1>2, <1>3
<1>4. Sums(g)[n] = Sums(o)[n]
  BY <1>n, <1>3, SumsPrefix
<1>5. Sums(g)[n + 1] = Sums(g)[n] + g[n + 1]
  BY <1>n, <1>3, SumsStep
<1>6. Sums(o)[n + 1] = Sums(o)[n] + o[n + 1] /\ Sums(o)[n] \in Nat /\ o[n + 1] \in Nat
  BY <1>n, SumsStep
<1>7. Sums(g)[n + 1] = Sums(o)[n + 1] + p
  <2>1. PICK x, y \in Nat : x = Sums(o)[n] /\ y = o[n + 1]
    BY <1>6
  <2>2. Sums(g)[n + 1] = x + (y + p) /\ Sums(o)[n + 1] = x + y
    BY <1>3, <1>4, <1>5, <1>6, <2>1
  <2>3. x + (y + p) = (x + y) + p
    OBVIOUS
  <2> QED
    BY <2>2, <2>3, Zenon
<1> QED
  BY <1>1, <1>2, <1>3, <1>7, SMTT(30) DEF Bytes

LEMMA BytesAdd ==
    ASSUME NEW o \in Seq(Nat), NEW f \in Seq(Nat)
    PROVE  Bytes(add(o, f)) = Bytes(o) + Bytes(f) /\ Bytes(o) \in Nat /\ Bytes(f) \in Nat
<1>0. Bytes(o) \in Nat /\ Bytes(f) \in Nat
  BY SumsFirst
<1>1. CASE f = << >>
  BY <1>0, <1>1, AddNone, BytesEmpty
<1>2. CASE f # << >>
  <2>1. PICK h, t : h = Head(f) /\ t = Tail(f)
    OBVIOUS
  <2>2. h \in Nat /\ t \in Seq(Nat) /\ Bytes(f) = h + Bytes(t) /\ Bytes(t) \in Nat
    BY <1>2, <2>1, HeadTailProperties, BytesFront
  <2>3. PICK x : x = add_first_arg(o, h)
    OBVIOUS
  <2>4. add(o, f) = x \o t
    BY <1>2, <2>1, <2>3 DEF add
  <2>5. x \in Seq(Nat)
    BY <2>2, <2>3, AddFirst
  <2>6. Bytes(x) = Bytes(o) + h
    <3>1. CASE h # 0 /\ o # << >>
      BY <2>2, <2>3, <3>1, BytesGrow DEF add_first_arg, Grow
    <3>2. CASE ~ (h # 0 /\ o # << >>)
      <4>1. x = Append(o, h)
        BY <2>3, <3>2 DEF add_first_arg
      <4>2. x = o \o <<h>> /\ <<h>> \in Seq(Nat)
        BY <2>2, <4>1, AppendIsConcat
      <4> QED
        BY <2>2, <4>2, BytesConcat, BytesSingle
    <3> QED
      BY <3>1, <3>2
  <2>7. Bytes(x \o t) = Bytes(x) + Bytes(t)
    BY <2>2, <2>5, BytesConcat
  <2> QED
    BY <1>0, <2>2, <2>4, <2>6, <2>7
<1> QED
  BY <1>1, <1>2

(* One iteration of next_frame_args_vec moves bytes from the arguments to   *)
(* the frame and loses none, whether an argument is tight or not.           *)
LEMMA FillArgBytes ==
    ASSUME FragInv, FillArg
    PROVE  Bytes(frame') + Bytes(args') = Bytes(frame) + Bytes(args)
<1> DEFINE arg   == Head(args)
           rest  == Tail(args)
           l     == limit - ARG_LEN_LEN
           next  == next_arg_fragment(arg, l)
           taken == IF next.fragment = << >> THEN 0 ELSE next.fragment[1]
<1>1. /\ args # << >> /\ args \in Seq(Nat) /\ frame \in Seq(Nat) /\ limit \in Int
  BY DEF FillArg, FragInv, FragTypeOK
<1>2. /\ arg \in Nat /\ rest \in Seq(Nat) /\ l \in Int
      /\ Bytes(args) = arg + Bytes(rest) /\ Bytes(rest) \in Nat /\ Bytes(frame) \in Nat
  <2>1. l \in Int
    BY <1>1 DEF ARG_LEN_LEN
  <2> QED
    BY <1>1, <2>1, HeadTailProperties, BytesFront, SumsFirst
<1>3. /\ frame' = frame \o next.fragment
      /\ args' = PushFront(next.status, arg, taken) \o rest
  BY DEF FillArg
<1>4. PICK n : n = next
  OBVIOUS
<1> HIDE DEF arg, rest
<1>5. ASSUME NEW p \in Nat, NEW r \in Nat, p + r = arg,
             frame' = frame \o <<p>>, args' = <<r>> \o rest
      PROVE  Bytes(frame') + Bytes(args') = Bytes(frame) + Bytes(args)
  <2>1. <<p>> \in Seq(Nat) /\ <<r>> \in Seq(Nat)
    OBVIOUS
  <2>2. Bytes(frame') = Bytes(frame) + p /\ Bytes(args') = r + Bytes(rest)
    BY <1>1, <1>2, <1>5, <2>1, BytesConcat, BytesSingle, ZenonT(40)
  <2>3. PICK x, y \in Nat : x = Bytes(frame) /\ y = Bytes(rest)
    BY <1>2
  <2>4. (x + p) + (r + y) = x + ((p + r) + y)
    OBVIOUS
  <2> QED
    BY <1>2, <1>5, <2>2, <2>3, <2>4
<1>6. \/ /\ n.status = "Complete" /\ n.fragment = <<arg>>
      \/ /\ n.status = "Incomplete" /\ n.fragment = << >>
      \/ /\ n.status = "Incomplete" /\ n.fragment = <<l>> /\ l >= 0 /\ arg > l
      \/ /\ n.status = "CompleteAtTheEnd" /\ n.fragment = <<arg>>
  BY <1>2, <1>4, NextArgFragment
<1>7. CASE n.status = "Complete" /\ n.fragment = <<arg>>
  <2>1. frame' = frame \o <<arg>> /\ args' = << >> \o rest
    BY <1>3, <1>4, <1>7 DEF PushFront
  <2>2. args' = rest
    BY <1>2, <2>1, ConcatEmptySeq
  <2>3. <<arg>> \in Seq(Nat)
    BY <1>2
  <2>4. Bytes(frame') = Bytes(frame) + arg
    BY <1>1, <1>2, <2>1, <2>3, BytesConcat, BytesSingle
  <2>5. PICK x, y \in Nat : x = Bytes(frame) /\ y = Bytes(rest)
    BY <1>2
  <2>6. (x + arg) + y = x + (arg + y)
    BY <1>2
  <2> QED
    BY <1>2, <2>2, <2>4, <2>5, <2>6
<1>8. CASE n.status = "Incomplete" /\ n.fragment = << >>
  <2>1. taken = 0
    BY <1>4, <1>8
  <2>2. frame' = frame \o << >> /\ args' = <<arg - 0>> \o rest
    BY <1>3, <1>4, <1>8, <2>1 DEF PushFront
  <2>3. arg - 0 = arg
    BY <1>2
  <2>4. args' = args /\ frame' = frame
    BY <1>1, <2>2, <2>3, ConcatEmptySeq, HeadTailProperties DEF arg, rest
  <2> QED
    BY <2>4
<1>9. CASE n.status = "Incomplete" /\ n.fragment = <<l>> /\ l >= 0 /\ arg > l
  <2>1. taken = l
    BY <1>4, <1>9, SingletonSeq
  <2>2. args' = <<arg - l>> \o rest /\ frame' = frame \o <<l>>
    BY <1>3, <1>4, <1>9, <2>1 DEF PushFront
  <2>3. l \in Nat /\ arg - l \in Nat /\ l + (arg - l) = arg
    BY <1>2, <1>9
  <2> QED
    BY <1>5, <2>2, <2>3
<1>10. CASE n.status = "CompleteAtTheEnd" /\ n.fragment = <<arg>>
  <2>1. args' = <<0>> \o rest /\ frame' = frame \o <<arg>>
    BY <1>3, <1>4, <1>10 DEF PushFront
  <2>2. arg + 0 = arg /\ 0 \in Nat
    BY <1>2
  <2> QED
    BY <1>2, <1>5, <2>1, <2>2
<1> QED
  BY <1>6, <1>7, <1>8, <1>9, <1>10

(* What one iteration of next_frame_args_vec does when no argument is tight.*)
LEMMA FillArgCases ==
    ASSUME FragInv, FillArg, ~Tight'
    PROVE  /\ ~Tight /\ UNCHANGED <<input, frames>> /\ fstate = "filling" /\ args # << >>
           /\ \E p \in Nat :
                 /\ p <= Head(args) /\ frame' = frame \o <<p>>
                 /\ \/ p = Head(args) /\ args' = Tail(args) /\ fstate' = "filling"
                    \/ /\ p < Head(args) \/ Tail(args) = << >>
                       /\ args' = <<Head(args) - p>> \o Tail(args) /\ fstate' = "full"
                       /\ frame = << >> => p > 0
<1> DEFINE arg   == Head(args)
           rest  == Tail(args)
           l     == limit - ARG_LEN_LEN
           next  == next_arg_fragment(arg, l)
           taken == IF next.fragment = << >> THEN 0 ELSE next.fragment[1]
<1>1. /\ fstate = "filling" /\ args # << >>
      /\ args \in Seq(Nat) /\ frame \in Seq(Nat) /\ limit \in Int /\ tightEnds \in Nat
  BY DEF FillArg, FragInv, FragTypeOK
<1>2. arg \in Nat /\ rest \in Seq(Nat) /\ l \in Int
  BY <1>1 DEF ARG_LEN_LEN
<1>3. /\ frame' = frame \o next.fragment
      /\ limit' = limit - ARG_LEN_LEN - taken
      /\ args' = PushFront(next.status, arg, taken) \o rest
      /\ fstate' = IF next.status = "Complete" THEN "filling" ELSE "full"
      /\ tightEnds' = IF /\ next.status # "Incomplete"
                         /\ limit' < ARG_LEN_LEN
                         /\ rest # << >>
                      THEN tightEnds + 1
                      ELSE tightEnds
      /\ UNCHANGED <<input, frames>>
  BY DEF FillArg
<1>4. ~Tight
  BY <1>1, <1>3 DEF Tight
<1>5. limit >= ARG_LEN_LEN /\ (frame = << >> => limit > ARG_LEN_LEN)
  BY <1>1, <1>4 DEF FragInv, FillingInv
<1>6. l >= 0 /\ (frame = << >> => l > 0)
  BY <1>1, <1>5 DEF ARG_LEN_LEN
<1>7. PICK n : n = next
  OBVIOUS
<1>8. \/ /\ n.status = "Complete" /\ n.fragment = <<arg>>
         /\ arg = 0 \/ arg < l
      \/ /\ n.status = "Incomplete" /\ n.fragment = <<l>>
         /\ l >= 0 /\ arg > l
      \/ /\ n.status = "CompleteAtTheEnd" /\ n.fragment = <<arg>>
         /\ arg > 0 /\ arg = l
  BY <1>2, <1>6, <1>7, NextArgFragment, SMTT(30)
<1>9. CASE n.status = "Complete" /\ n.fragment = <<arg>>
  <2>1. args' = << >> \o rest
    BY <1>3, <1>7, <1>9 DEF PushFront
  <2>2. args' = rest
    BY <1>2, <2>1, ConcatEmptySeq
  <2>3. frame' = frame \o <<arg>> /\ fstate' = "filling"
    BY <1>3, <1>7, <1>9
  <2> HIDE DEF arg, rest
  <2>4. arg <= arg
    BY <1>2
  <2> QED
    BY <1>1, <1>2, <1>3, <1>4, <2>2, <2>3, <2>4 DEF arg, rest
<1>10. CASE n.status = "Incomplete" /\ n.fragment = <<l>> /\ l >= 0 /\ arg > l
  <2>1. taken = l
    BY <1>7, <1>10, SingletonSeq
  <2>2. args' = <<arg - l>> \o rest /\ frame' = frame \o <<l>> /\ fstate' = "full"
    BY <1>3, <1>7, <1>10, <2>1 DEF PushFront
  <2>3. l \in Nat /\ l < arg /\ l <= arg
    BY <1>2, <1>10
  <2> QED
    BY <1>1, <1>3, <1>4, <1>6, <2>2, <2>3
<1>11. CASE n.status = "CompleteAtTheEnd" /\ n.fragment = <<arg>> /\ arg > 0 /\ arg = l
  <2>1. taken = arg
    BY <1>7, <1>11, SingletonSeq
  <2>2. args' = <<0>> \o rest /\ frame' = frame \o <<arg>> /\ fstate' = "full"
    BY <1>3, <1>7, <1>11 DEF PushFront
  <2>3. arg - arg = 0 /\ arg <= arg
    BY <1>2
  <2>4. rest = << >>
    <3>1. limit' = 0
      BY <1>1, <1>3, <1>11, <2>1 DEF ARG_LEN_LEN
    <3>2. rest # << >> => tightEnds' = tightEnds + 1
      BY <1>3, <1>7, <1>11, <3>1 DEF ARG_LEN_LEN
    <3> QED
      BY <1>1, <3>2 DEF Tight
  <2>5. args' = <<arg - arg>> \o rest
    BY <2>2, <2>3
  <2> QED
    BY <1>1, <1>2, <1>3, <1>4, <1>11, <2>2, <2>3, <2>4, <2>5
<1> QED
  BY <1>8, <1>9, <1>10, <1>11

(* Where the sender is, o being what the reader will have put together from *)
(* the frames made so far.                                                  *)
SenderInv(o) ==
    /\ fstate = "next" \/ (fstate = "filling" /\ frame = << >>) =>
          \/ o = << >> /\ Clean(input, o, args)
          \/ o # << >> /\ Cut(input, o, args)
    /\ fstate = "filling" /\ frame # << >> => Clean(input, add(o, frame), args)
    /\ fstate = "full" => Cut(input, add(o, frame), args)
    /\ fstate = "done" => Clean(input, o, << >>)

LEMMA SenderBeginFrame ==
    ASSUME FragInv, BeginFrame, NEW o \in Seq(Nat), SenderInv(o)
    PROVE  SenderInv(o)'
  BY DEF BeginFrame, SenderInv

LEMMA SenderFillArg ==
    ASSUME FragInv, FillArg, NEW o \in Seq(Nat), SenderInv(o), ~Tight'
    PROVE  SenderInv(o)'
<1>1. /\ input' = input /\ fstate = "filling" /\ args # << >>
      /\ input \in Seq(Nat) /\ Len(input) = 3
      /\ args \in Seq(Nat) /\ frame \in Seq(Nat) /\ Len(args) >= 1 /\ Len(args) \in Nat
      /\ Head(args) = args[1] /\ Head(args) \in Nat
  <2>1. input' = input /\ fstate = "filling" /\ args # << >>
    BY FillArgCases
  <2>2. /\ input \in Seq(Nat) /\ Len(input) = 3 /\ args \in Seq(Nat) /\ frame \in Seq(Nat)
    BY DEF FragInv, FragTypeOK
  <2> QED
    BY <2>1, <2>2, NewFront
<1>2. PICK p \in Nat :
         /\ p <= Head(args) /\ frame' = frame \o <<p>>
         /\ \/ p = Head(args) /\ args' = Tail(args) /\ fstate' = "filling"
            \/ /\ p < Head(args) \/ Tail(args) = << >>
               /\ args' = <<Head(args) - p>> \o Tail(args) /\ fstate' = "full"
               /\ frame = << >> => p > 0
  BY FillArgCases
<1>3. frame' # << >>
  BY <1>1, <1>2, AppendIsConcat, AppendProperties
<1>4. PICK c : c = add(o, frame')
  OBVIOUS
<1>5. fstate' = "filling" => Clean(input, c, args')
  <2> SUFFICES ASSUME fstate' = "filling" PROVE Clean(input, c, args')
    OBVIOUS
  <2>1. p = Head(args) /\ args' = Tail(args)
    BY <1>2
  <2>2. CASE frame # << >>
    <3>1. c = Append(add(o, frame), p)
      BY <1>1, <1>2, <1>4, <2>2, AddMore
    <3>2. Clean(input, add(o, frame), args) /\ add(o, frame) \in Seq(Nat)
      BY <1>1, <2>2, AddType DEF SenderInv
    <3> QED
      BY <1>1, <2>1, <3>1, <3>2, TakeWhole
  <2>3. CASE frame = << >>
    <3>1. frame' = <<p>>
      BY <1>1, <1>2, <2>3, ConcatEmptySeq
    <3>2. CASE o = << >> /\ Clean(input, o, args)
      <4>1. c = Append(o, p)
        BY <1>4, <3>1, <3>2, AddFirst
      <4> QED
        BY <1>1, <2>1, <3>2, <4>1, TakeWhole
    <3>3. CASE o # << >> /\ Cut(input, o, args)
      <4>1. CASE p = 0
        <5>1. c = Append(o, 0)
          BY <1>4, <3>1, <4>1, AddFirst
        <5> QED
          BY <1>1, <2>1, <3>3, <4>1, <5>1, AddEmpty
      <4>2. CASE p # 0
        <5>1. c = Grow(o, p)
          BY <1>4, <3>1, <3>3, <4>2, AddFirst
        <5> QED
          BY <1>1, <2>1, <3>3, <5>1, GoOnWhole
      <4> QED
        BY <4>1, <4>2
    <3> QED
      BY <1>1, <2>3, <3>2, <3>3 DEF SenderInv
  <2> QED
    BY <2>2, <2>3
<1>6. fstate' = "full" => Cut(input, c, args')
  <2> SUFFICES ASSUME fstate' = "full" PROVE Cut(input, c, args')
    OBVIOUS
  <2>1. /\ p < Head(args) \/ Tail(args) = << >>
        /\ args' = <<Head(args) - p>> \o Tail(args)
        /\ frame = << >> => p > 0
    BY <1>2
  <2>2. PICK r \in Seq(Nat) : r = args'
    BY <1>1, <1>2, <2>1, LeftOver
  <2>3. /\ Len(r) = Len(args) /\ r[1] \in Nat /\ r[1] + p = args[1]
        /\ \A i \in 2 .. Len(args) : r[i] = args[i]
    BY <1>1, <1>2, <2>1, <2>2, LeftOver
  <2>4. r[1] > 0 \/ Len(args) = 1
    <3>1. CASE p < Head(args)
      <4>1. PICK x \in Nat : x = r[1]
        BY <2>3
      <4>2. x + p = Head(args)
        BY <1>1, <2>3, <4>1
      <4>3. x > 0
        BY <3>1, <4>2
      <4> QED
        BY <4>1, <4>3
    <3>2. CASE Tail(args) = << >>
      <4>1. Len(Tail(args)) = Len(args) - 1 /\ Len(Tail(args)) = 0
        BY <1>1, <3>2, HeadTailProperties, EmptySeq
      <4>2. \A n \in Nat : 0 = n - 1 => n = 1
        OBVIOUS
      <4>3. Len(args) = 1
        BY <1>1, <4>1, <4>2
      <4> QED
        BY <4>3
    <3> QED
      BY <2>1, <3>1, <3>2
  <2>5. CASE frame # << >>
    <3>1. c = Append(add(o, frame), p)
      BY <1>1, <1>2, <1>4, <2>5, AddMore
    <3>2. Clean(input, add(o, frame), args) /\ add(o, frame) \in Seq(Nat)
      BY <1>1, <2>5, AddType DEF SenderInv
    <3>3. Cut(input, Append(add(o, frame), p), r)
      BY <1>1, <2>3, <2>4, <3>2, TakePart
    <3> QED
      BY <2>2, <3>1, <3>3
  <2>6. CASE frame = << >>
    <3>1. frame' = <<p>> /\ p # 0
      BY <1>1, <1>2, <2>1, <2>6, ConcatEmptySeq
    <3>2. CASE o = << >> /\ Clean(input, o, args)
      <4>1. c = Append(o, p)
        BY <1>4, <3>1, <3>2, AddFirst
      <4>2. Cut(input, Append(o, p), r)
        BY <1>1, <2>3, <2>4, <3>2, TakePart
      <4> QED
        BY <2>2, <4>1, <4>2
    <3>3. CASE o # << >> /\ Cut(input, o, args)
      <4>1. c = Grow(o, p)
        BY <1>4, <3>1, <3>3, AddFirst
      <4>2. Cut(input, Grow(o, p), r)
        BY <1>1, <2>3, <2>4, <3>3, GoOnPart
      <4> QED
        BY <2>2, <4>1, <4>2
    <3> QED
      BY <1>1, <2>6, <3>2, <3>3 DEF SenderInv
  <2> QED
    BY <2>5, <2>6
<1> QED
  BY <1>1, <1>2, <1>3, <1>4, <1>5, <1>6 DEF SenderInv

(* A frame that is encoded carries over what it holds.                      *)
LEMMA SenderEndFrame ==
    ASSUME FragInv, EndFrame, NEW o \in Seq(Nat), SenderInv(o), ~Tight,
           NEW c, c = add(o, frame)
    PROVE  SenderInv(c)' /\ Encodable
<1>1. /\ frame \in Seq(Nat) /\ args \in Seq(Nat) /\ input' = input /\ args' = args
      /\ frame # << >>
      /\ fstate = "full" \/ (fstate = "filling" /\ args = << >>)
  BY DEF FragInv, FragTypeOK, FillingInv, FullInv, EndFrame
<1>2. Encodable
  <2>1. fstate' = "error" => Tight'
    BY EndFrameInv DEF FragInv, FailsOnlyWhenTight
  <2>2. Tight' <=> Tight
    BY DEF EndFrame, Tight
  <2> QED
    BY <2>1, <2>2 DEF EndFrame
<1>3. fstate' = IF args = << >> THEN "done" ELSE "next"
  BY <1>2 DEF EndFrame
<1>4. CASE fstate = "full"
  <2>1. Cut(input, c, args)
    BY <1>4 DEF SenderInv
  <2>2. c # << >> /\ args # << >>
    <3>1. Len(c) >= 1 /\ Len(args) >= 1
      BY <2>1 DEF Cut
    <3> QED
      BY <3>1, EmptySeq
  <2> QED
    BY <1>1, <1>2, <1>3, <2>1, <2>2 DEF SenderInv
<1>5. CASE fstate = "filling" /\ args = << >>
  <2>1. Clean(input, c, << >>)
    BY <1>1, <1>5 DEF SenderInv
  <2> QED
    BY <1>1, <1>2, <1>3, <1>5, <2>1 DEF SenderInv
<1> QED
  BY <1>1, <1>4, <1>5

LEMMA SenderStutter ==
    ASSUME UNCHANGED fragVars, NEW o, SenderInv(o)
    PROVE  SenderInv(o)'
  BY DEF fragVars, SenderInv

(* No byte is lost on the sender's side: m being the bytes in the frames    *)
(* made so far, the rest of the message is in the frame or still to be cut. *)
SenderBytes(m) ==
    /\ fstate = "next" => m + Bytes(args) = Bytes(input)
    /\ fstate \in {"filling", "full"} => m + (Bytes(frame) + Bytes(args)) = Bytes(input)
    /\ fstate = "done" => m = Bytes(input)

LEMMA SenderBytesFilled ==
    ASSUME FragInv, BeginFrame \/ FillArg, NEW m \in Nat, SenderBytes(m)
    PROVE  SenderBytes(m)'
<1>1. args \in Seq(Nat) /\ Bytes(args) \in Nat
  BY SumsFirst DEF FragInv, FragTypeOK
<1>2. CASE BeginFrame
  <2>1. /\ fstate = "next" /\ fstate' = "filling" /\ frame' = << >>
        /\ args' = args /\ input' = input
    BY <1>2 DEF BeginFrame
  <2>2. Bytes(frame') = 0
    BY <2>1, BytesEmpty
  <2>3. Bytes(frame') + Bytes(args') = Bytes(args)
    BY <1>1, <2>1, <2>2
  <2> QED
    BY <2>1, <2>3 DEF SenderBytes
<1>3. CASE FillArg
  <2>1. fstate = "filling" /\ fstate' \in {"filling", "full"} /\ input' = input
    BY <1>3 DEF FillArg
  <2>2. Bytes(frame') + Bytes(args') = Bytes(frame) + Bytes(args)
    BY <1>3, FillArgBytes
  <2> QED
    BY <2>1, <2>2 DEF SenderBytes
<1> QED
  BY <1>2, <1>3

LEMMA SenderBytesEnded ==
    ASSUME FragInv, EndFrame, NEW o \in Seq(Nat), SenderBytes(Bytes(o)),
           NEW c, c = add(o, frame)
    PROVE  SenderBytes(Bytes(c))'
<1>1. /\ frame \in Seq(Nat) /\ args \in Seq(Nat) /\ Bytes(args) \in Nat
      /\ fstate \in {"filling", "full"} /\ input' = input /\ args' = args
      /\ fstate' \in {"done", "next", "error"} /\ (fstate' = "done" => args = << >>)
  BY SumsFirst DEF FragInv, FragTypeOK, EndFrame
<1>2. Bytes(c) = Bytes(o) + Bytes(frame) /\ Bytes(o) \in Nat /\ Bytes(frame) \in Nat
  BY <1>1, BytesAdd
<1>3. Bytes(o) + (Bytes(frame) + Bytes(args)) = Bytes(input)
  BY <1>1 DEF SenderBytes
<1>4. Bytes(c) + Bytes(args) = Bytes(input)
  BY <1>1, <1>2, <1>3
<1>5. args = << >> => Bytes(c) = Bytes(input)
  BY <1>2, <1>4, BytesEmpty
<1> QED
  BY <1>1, <1>4, <1>5 DEF SenderBytes

(* What the reader will have put together after each of the frames made so  *)
(* far.  A witness of this definition stands for the recursion over frames. *)
Partials(D) ==
    /\ D \in [0 .. Len(frames) -> Seq(Nat)]
    /\ D[0] = << >>
    /\ \A n \in 1 .. Len(frames) : D[n] = add(D[n - 1], frames[n].args)

(* The frames in the channel are the delivered ones that were not yet read, *)
(* and what was read of them has been put together.                         *)
Reading(D) ==
    /\ \A i \in 1 .. Len(frame_input) : frame_input[i].scheme = scheme
    /\ dstate \in {"continuation", "ok"} => SchemeAccepted(scheme)
    /\ dstate \in {"beginning", "continuation"} =>
          /\ Len(frame_input) <= delivered
          /\ \A i \in 1 .. Len(frame_input) :
                /\ frame_input[i].args = frames[delivered - Len(frame_input) + i].args
                /\ frame_input[i].flags = frames[delivered - Len(frame_input) + i].flags
    /\ dstate = "beginning" => delivered = Len(frame_input) /\ out = << >>
    /\ dstate = "continuation" => out = D[delivered - Len(frame_input)]
    /\ dstate = "ok" /\ input_open => out = D[Len(frames)]
    /\ \E n \in 0 .. Len(frames) : out = D[n]

(* No frame of the message is seen before all are made; a message that      *)
(* cannot be cut shows up as an error frame only.                           *)
NotReading ==
    /\ delivered = 0 /\ out = << >>
    /\ dstate \in {"beginning", "err"}
    /\ fstate # "error" => frame_input = << >>
    /\ \A i \in 1 .. Len(frame_input) : frame_input[i].type = "Error"

ReaderInv(D) == IF fstate = "done" THEN Reading(D) ELSE NotReading

FrameRecords ==
    [type : {kind, kind \o "Continue", "Error"}, scheme : Schemes \cup {"any"},
     flags : Flags, args : Seq(Nat)]

TransferTypes ==
    /\ out \in Seq(Nat)
    /\ dstate \in DStates
    /\ input_open \in BOOLEAN
    /\ delivered \in 0 .. Len(frames)
    /\ failed \in BOOLEAN
    /\ frame_input \in Seq(FrameRecords)
    /\ kind \in {"CallRequest", "CallResponse"}
    /\ scheme \in Schemes
    /\ expected.type = kind

Flow(D) ==
    /\ Partials(D)
    /\ Tight \/ SenderInv(D[Len(frames)])
    /\ SenderBytes(Bytes(D[Len(frames)]))
    /\ ReaderInv(D)

(* The inductive invariant of the transfer of a message.                    *)
TransferInv ==
    /\ FragInv
    /\ TransferTypes
    /\ \E D : Flow(D)

LEMMA PartialsType ==
    ASSUME FragInv, NEW D, Partials(D)
    PROVE  /\ \A n \in 0 .. Len(frames) : D[n] \in Seq(Nat)
           /\ Len(frames) \in Nat /\ Len(frames) \in 0 .. Len(frames)
<1>1. Len(frames) \in Nat
  BY LenProperties DEF FragInv, FragTypeOK
<1> QED
  BY <1>1 DEF Partials

LEMMA TransferInit == Init => TransferInv
<1> SUFFICES ASSUME Init PROVE TransferInv
  OBVIOUS
<1>1. FragInv /\ FragInit
  BY FragInvInit DEF Init
<1>2. TransferTypes
  <2>1. expected.type = kind
    BY DEF Init
  <2>2. delivered \in 0 .. Len(frames)
    <3>1. delivered = 0 /\ Len(frames) = 0
      BY <1>1 DEF Init, FragInit
    <3> QED
      BY <3>1
  <2>f. failed \in BOOLEAN
    BY Zenon DEF Init
  <2>3. out \in Seq(Nat) /\ frame_input \in Seq(FrameRecords) /\ dstate \in DStates
    BY DEF Init, DefragInit, DStates
  <2>4. input_open \in BOOLEAN
    BY DEF Init, DefragInit
  <2>5. kind \in {"CallRequest", "CallResponse"} /\ scheme \in Schemes
    BY DEF Init
  <2> QED
    BY <2>1, <2>2, <2>f, <2>3, <2>4, <2>5 DEF TransferTypes
<1>3. PICK D : D = [n \in 0 .. 0 |-> << >>]
  OBVIOUS
<1>4. D[0] = << >> /\ frames = << >> /\ Len(frames) = 0
  BY <1>1, <1>3 DEF FragInit
<1>5. Partials(D)
  BY <1>3, <1>4 DEF Partials
<1>6. SenderInv(D[Len(frames)])
  <2>1. Clean(input, << >>, args)
    <3>1. args = input /\ Len(input) = 3
      BY <1>1 DEF FragInit, FragInv, FragTypeOK
    <3>2. Len(<< >>) = 0
      OBVIOUS
    <3> QED
      BY <3>1, <3>2 DEF Clean
  <2> QED
    BY <1>1, <1>4, <2>1 DEF FragInit, SenderInv
<1>7. ReaderInv(D)
  BY <1>1 DEF Init, DefragInit, FragInit, ReaderInv, NotReading
<1>8. SenderBytes(Bytes(D[Len(frames)]))
  <2>1. args = input /\ fstate = "next" /\ input \in Seq(Nat)
    BY <1>1 DEF FragInit, FragInv, FragTypeOK
  <2>2. Bytes(D[Len(frames)]) = 0 /\ Bytes(input) \in Nat
    BY <1>4, <2>1, BytesEmpty, SumsFirst
  <2> QED
    BY <2>1, <2>2 DEF SenderBytes
<1> QED
  BY <1>1, <1>2, <1>5, <1>6, <1>7, <1>8 DEF TransferInv, Flow

(* A step of create_frames ...                                              *)
LEMMA FlowFrameFilled ==
    ASSUME FragInv, TransferTypes, NEW D, Flow(D),
           BeginFrame \/ FillArg, UNCHANGED <<defragVars, kind, scheme, delivered, failed>>
    PROVE  TransferTypes' /\ Flow(D)'
<1>1. /\ frames' = frames /\ fstate \notin {"done", "error"} /\ fstate' \notin {"done", "error"}
  BY DEF BeginFrame, FillArg
<1>2. TransferTypes'
  BY <1>1 DEF TransferTypes, defragVars, FrameRecords
<1>3. Partials(D)'
  BY <1>1 DEF Flow, Partials
<1>4. ReaderInv(D)'
  BY <1>1 DEF Flow, ReaderInv, NotReading, defragVars
<1>5. PICK o : o = D[Len(frames)]
  OBVIOUS
<1>6. o \in Seq(Nat)
  BY <1>5, PartialsType DEF Flow
<1>7. ~Tight' => ~Tight
  BY FillArgCases DEF BeginFrame, Tight
<1>8. ~Tight' => SenderInv(o)'
  <2>1. ~Tight' => SenderInv(o)
    BY <1>5, <1>7 DEF Flow
  <2> QED
    BY <1>6, <2>1, SenderBeginFrame, SenderFillArg
<1>9. Tight' \/ SenderInv(D[Len(frames)])'
  BY <1>1, <1>5, <1>8 DEF SenderInv
<1>10. SenderBytes(Bytes(D[Len(frames)]))'
  <2>1. PICK m : m = Bytes(o)
    OBVIOUS
  <2>2. m \in Nat /\ SenderBytes(m)
    BY <1>5, <1>6, <2>1, SumsFirst DEF Flow
  <2>3. SenderBytes(m)'
    BY <2>2, SenderBytesFilled
  <2>4. Bytes(D[Len(frames)])' = m
    BY <1>1, <1>5, <2>1 DEF Bytes, Sums
  <2> QED
    BY <2>3, <2>4 DEF SenderBytes
<1> QED
  BY <1>2, <1>3, <1>4, <1>9, <1>10 DEF Flow

LEMMA FlowFrameEnded ==
    ASSUME FragInv, TransferTypes, NEW D, Flow(D),
           EndFrame, UNCHANGED <<defragVars, kind, scheme, delivered, failed>>
    PROVE  TransferTypes' /\ \E E : Flow(E)'
<1>1. /\ fstate \notin {"done", "error"} /\ NotReading /\ delivered = 0 /\ frame_input = << >>
      /\ Tight' = Tight
  BY DEF EndFrame, Flow, ReaderInv, NotReading, Tight
<1>2. FragInv'
  BY EndFrameInv
<1>3. Len(frames) \in Nat /\ Len(frames') \in Nat
  BY <1>2, LenProperties DEF FragInv, FragTypeOK
<1>4. TransferTypes'
  <2>1. delivered' \in 0 .. Len(frames')
    BY <1>1, <1>3
  <2>2. FrameRecords' = FrameRecords
    BY DEF FrameRecords
  <2> QED
    BY <2>1, <2>2 DEF TransferTypes, defragVars
<1>5. CASE Encodable
  <2>1. PICK f : f = [flags |-> current_frame_flag, args |-> frame]
    OBVIOUS
  <2>2. f.args = frame /\ f \in [flags : Flags, args : Seq(Nat)]
    BY <2>1 DEF FragInv, FragTypeOK, Flags, current_frame_flag
  <2>3. frames' = Append(frames, f) /\ fstate' \in {"done", "next"}
    BY <1>5, <2>1 DEF EndFrame
  <2>4. /\ Len(frames') = Len(frames) + 1
        /\ \A i \in 1 .. Len(frames) : frames'[i] = frames[i]
        /\ frames'[Len(frames) + 1] = f
    BY <2>2, <2>3, AppendProperties DEF FragInv, FragTypeOK
  <2>5. PICK n \in Nat : n = Len(frames)
    BY <1>3
  <2>6. PICK o : o = D[n]
    OBVIOUS
  <2>7. PICK c : c = add(o, frame)
    OBVIOUS
  <2>8. o \in Seq(Nat) /\ c \in Seq(Nat)
    BY <2>5, <2>6, <2>7, PartialsType, AddType DEF Flow, FragInv, FragTypeOK
  <2>9. PICK E : E = [k \in 0 .. n + 1 |-> IF k <= n THEN D[k] ELSE c]
    OBVIOUS
  <2>10. /\ \A k \in 0 .. n : E[k] = D[k]
         /\ E[n + 1] = c
         /\ E \in [0 .. n + 1 -> Seq(Nat)]
    <3>1. \A k \in 0 .. n : D[k] \in Seq(Nat)
      BY <2>5, PartialsType DEF Flow
    <3> QED
      BY <2>8, <2>9, <3>1
  <2>11. Partials(E)'
    <3>1. E[0] = << >>
      BY <2>10 DEF Flow, Partials
    <3>2. \A k \in 1 .. n + 1 : E[k] = add(E[k - 1], frames'[k].args)
      <4> SUFFICES ASSUME NEW k \in 1 .. n + 1 PROVE E[k] = add(E[k - 1], frames'[k].args)
        OBVIOUS
      <4>1. CASE k \in 1 .. n
        <5>1. k \in 0 .. n /\ k - 1 \in 0 .. n
          BY <4>1
        <5>2. D[k] = add(D[k - 1], frames[k].args)
          BY <2>5, <4>1 DEF Flow, Partials
        <5>3. frames'[k] = frames[k]
          BY <2>4, <2>5, <4>1
        <5> QED
          BY <2>10, <5>1, <5>2, <5>3
      <4>2. CASE k = n + 1
        <5>1. k - 1 = n /\ n \in 0 .. n
          BY <4>2
        <5>2. E[k - 1] = o /\ E[k] = c
          BY <2>6, <2>10, <4>2, <5>1
        <5>3. frames'[k].args = frame
          BY <2>2, <2>4, <2>5, <4>2
        <5> QED
          BY <2>7, <5>2, <5>3
      <4> QED
        BY <4>1, <4>2
    <3>3. Len(frames') = n + 1
      BY <2>4, <2>5
    <3> QED
      BY <2>10, <3>1, <3>2, <3>3 DEF Partials
  <2>12. Tight' \/ SenderInv(E[Len(frames)])'
    <3> SUFFICES ASSUME ~Tight PROVE SenderInv(E[Len(frames)])'
      BY <1>1
    <3>1. SenderInv(o)
      BY <2>5, <2>6 DEF Flow
    <3>2. SenderInv(c)'
      BY <2>7, <2>8, <3>1, SenderEndFrame
    <3>3. E[Len(frames')] = c
      BY <2>4, <2>5, <2>10
    <3> QED
      BY <3>2, <3>3 DEF SenderInv
  <2>13. ReaderInv(E)'
    <3>1. NotReading'
      BY <1>1, <2>3 DEF NotReading, defragVars
    <3>2. Reading(E)'
      <4>1. Len(frame_input') = 0 /\ delivered' = 0 /\ dstate' \in {"beginning", "err"} /\ out' = << >>
        BY <1>1 DEF NotReading, defragVars
      <4>2. out' = E[0] /\ 0 \in 0 .. Len(frames')
        BY <1>3, <2>11, <4>1 DEF Partials
      <4> QED
        BY <4>1, <4>2 DEF Reading
    <3> QED
      BY <3>1, <3>2 DEF ReaderInv
  <2>14. SenderBytes(Bytes(E[Len(frames)]))'
    <3>1. SenderBytes(Bytes(o))
      BY <2>5, <2>6 DEF Flow
    <3>2. SenderBytes(Bytes(c))'
      BY <2>7, <2>8, <3>1, SenderBytesEnded
    <3>3. E[Len(frames')] = c
      BY <2>4, <2>5, <2>10
    <3> QED
      BY <3>2, <3>3 DEF SenderBytes
  <2> QED
    BY <1>4, <2>11, <2>12, <2>13, <2>14 DEF Flow
<1>6. CASE ~Encodable
  <2>1. frames' = << >> /\ fstate' = "error" /\ Len(frames') = 0
    BY <1>6 DEF EndFrame
  <2>2. Tight
    <3>1. fstate' = "error" => Tight'
      BY <1>2 DEF FragInv, FailsOnlyWhenTight
    <3> QED
      BY <1>1, <2>1, <3>1
  <2>3. PICK E : E = [k \in 0 .. 0 |-> << >>]
    OBVIOUS
  <2>4. E[0] = << >> /\ E \in [0 .. 0 -> Seq(Nat)]
    BY <2>3
  <2>5. Partials(E)'
    BY <2>1, <2>4 DEF Partials
  <2>6. ReaderInv(E)'
    BY <1>1, <2>1 DEF ReaderInv, NotReading, defragVars
  <2>7. SenderBytes(Bytes(E[Len(frames)]))'
    BY <2>1 DEF SenderBytes
  <2> QED
    BY <1>1, <1>4, <2>2, <2>5, <2>6, <2>7 DEF Flow
<1> QED
  BY <1>5, <1>6

(* ... and one of the reader's end.  The sender has come to its end.        *)
LEMMA FlowSenderStutter ==
    ASSUME FragInv, NEW D, Flow(D), UNCHANGED fragVars
    PROVE  /\ Partials(D)' /\ (Tight \/ SenderInv(D[Len(frames)]))'
           /\ SenderBytes(Bytes(D[Len(frames)]))'
<1>1. frames' = frames /\ Tight' = Tight
  BY DEF fragVars, Tight
<1>2. Partials(D)'
  BY <1>1 DEF Flow, Partials
<1>3. SenderInv(D[Len(frames)]) => SenderInv(D[Len(frames)])'
  BY DEF fragVars, SenderInv
<1>4. SenderBytes(Bytes(D[Len(frames)]))'
  <2>1. SenderBytes(Bytes(D[Len(frames)]))
    BY DEF Flow
  <2> QED
    BY <2>1 DEF fragVars, SenderBytes, Bytes, Sums
<1> QED
  BY <1>1, <1>2, <1>3, <1>4 DEF Flow

LEMMA FlowDeliver ==
    ASSUME FragInv, TransferTypes, NEW D, Flow(D), Deliver
    PROVE  TransferTypes' /\ Flow(D)'
<1>1. PICK f : f = [type   |-> FrameType(delivered + 1),
                    scheme |-> scheme,
                    flags  |-> frames[delivered + 1].flags,
                    args   |-> frames[delivered + 1].args]
  OBVIOUS
<1>2. /\ fstate = "done" /\ delivered < Len(frames) /\ delivered' = delivered + 1
      /\ frame_input' = Append(frame_input, f)
      /\ UNCHANGED <<fragVars, input_open, expected, out, dstate, kind, scheme, failed>>
  BY <1>1 DEF Deliver
<1>3. /\ frames \in Seq([flags : Flags, args : Seq(Nat)]) /\ Len(frames) \in Nat
      /\ frame_input \in Seq(FrameRecords) /\ Len(frame_input) \in Nat
      /\ delivered \in Nat /\ frames' = frames
  BY <1>2, LenProperties DEF FragInv, FragTypeOK, TransferTypes, fragVars
<1>4. delivered + 1 \in 1 .. Len(frames) /\ delivered + 1 \in 0 .. Len(frames)
  BY <1>2, <1>3
<1>5. frames[delivered + 1] \in [flags : Flags, args : Seq(Nat)]
  BY <1>3, <1>4, ElementOfSeq
<1>6. /\ f.scheme = scheme /\ f.args = frames[delivered + 1].args
      /\ f.flags = frames[delivered + 1].flags
  BY <1>1
<1>7. f \in FrameRecords
  <2>1. FrameType(delivered + 1) \in {kind, kind \o "Continue", "Error"}
    BY DEF FrameType
  <2>2. scheme \in Schemes \cup {"any"}
    BY DEF TransferTypes
  <2> QED
    BY <1>1, <1>5, <2>1, <2>2 DEF FrameRecords
<1>8. /\ frame_input' \in Seq(FrameRecords) /\ Len(frame_input') = Len(frame_input) + 1
      /\ \A i \in 1 .. Len(frame_input) : frame_input'[i] = frame_input[i]
      /\ frame_input'[Len(frame_input) + 1] = f
  BY <1>2, <1>3, <1>7, AppendProperties
<1>9. TransferTypes'
  <2>1. FrameRecords' = FrameRecords
    BY <1>2 DEF FrameRecords
  <2>2. delivered' \in 0 .. Len(frames')
    BY <1>2, <1>3, <1>4
  <2> QED
    BY <1>2, <1>8, <2>1, <2>2 DEF TransferTypes
<1>10. Reading(D)
  BY <1>2 DEF Flow, ReaderInv
<1>11. PICK l, n, d \in Nat : l = Len(frame_input) /\ n = Len(frames) /\ d = delivered
  BY <1>3
<1>12. Len(frame_input') = l + 1 /\ delivered' = d + 1
  BY <1>2, <1>8, <1>11
<1>13. \A i \in 1 .. l + 1 : frame_input'[i].scheme = scheme
  <2>1. \A i \in 1 .. l : frame_input'[i].scheme = scheme
    BY <1>8, <1>10, <1>11 DEF Reading
  <2>2. frame_input'[l + 1].scheme = scheme
    BY <1>6, <1>8, <1>11
  <2>3. \A i \in 1 .. l + 1 : i \in 1 .. l \/ i = l + 1
    OBVIOUS
  <2> QED
    BY <2>1, <2>2, <2>3
<1>14. dstate \in {"beginning", "continuation"} =>
         /\ l + 1 <= d + 1
         /\ \A i \in 1 .. l + 1 :
               /\ frame_input'[i].args = frames[(d + 1) - (l + 1) + i].args
               /\ frame_input'[i].flags = frames[(d + 1) - (l + 1) + i].flags
  <2> SUFFICES ASSUME dstate \in {"beginning", "continuation"}
               PROVE  /\ l + 1 <= d + 1
                      /\ \A i \in 1 .. l + 1 :
                            /\ frame_input'[i].args = frames[(d + 1) - (l + 1) + i].args
                            /\ frame_input'[i].flags = frames[(d + 1) - (l + 1) + i].flags
    OBVIOUS
  <2>1. /\ l <= d
        /\ \A i \in 1 .. l : /\ frame_input[i].args = frames[d - l + i].args
                             /\ frame_input[i].flags = frames[d - l + i].flags
    BY <1>10, <1>11 DEF Reading
  <2>2. l + 1 <= d + 1
    BY <2>1
  <2>3. ASSUME NEW i \in 1 .. l + 1
        PROVE  /\ frame_input'[i].args = frames[(d + 1) - (l + 1) + i].args
               /\ frame_input'[i].flags = frames[(d + 1) - (l + 1) + i].flags
    <3>1. CASE i \in 1 .. l
      <4>1. (d + 1) - (l + 1) + i = d - l + i
        BY <3>1
      <4>2. frame_input'[i] = frame_input[i]
        BY <1>8, <1>11, <3>1
      <4> QED
        BY <2>1, <3>1, <4>1, <4>2
    <3>2. CASE i = l + 1
      <4>1. (d + 1) - (l + 1) + i = d + 1
        BY <3>2
      <4> QED
        BY <1>6, <1>8, <1>11, <3>2, <4>1
    <3> QED
      BY <3>1, <3>2
  <2> QED
    BY <2>2, <2>3
<1>15. (d + 1) - (l + 1) = d - l
  OBVIOUS
<1>16. Reading(D)'
  <2>1. dstate = "beginning" => d = l /\ out = << >>
    BY <1>10, <1>11 DEF Reading
  <2>2. dstate = "continuation" => out = D[d - l]
    BY <1>10, <1>11 DEF Reading
  <2>3. dstate = "ok" /\ input_open => out = D[Len(frames)]
    BY <1>10 DEF Reading
  <2>4. dstate \in {"continuation", "ok"} => SchemeAccepted(scheme)'
    BY <1>2, <1>10 DEF Reading, SchemeAccepted
  <2>5. \E k \in 0 .. Len(frames') : out' = D[k]
    BY <1>2, <1>3, <1>10 DEF Reading
  <2> QED
    BY <1>2, <1>3, <1>12, <1>13, <1>14, <1>15, <2>1, <2>2, <2>3, <2>4, <2>5, ZenonT(40) DEF Reading
<1>17. ReaderInv(D)'
  BY <1>2, <1>16 DEF ReaderInv, fragVars
<1> QED
  BY <1>2, <1>9, <1>17, FlowSenderStutter DEF Flow

(* The transfer fails on the sender's side, or the reader loses its Sender. *)
LEMMA FlowFails ==
    ASSUME FragInv, TransferTypes, NEW D, Flow(D), RequestFails \/ ResponseFails \/ SenderDropped
    PROVE  TransferTypes' /\ Flow(D)'
<1>1. Len(frame_input) \in Nat /\ frame_input \in Seq(FrameRecords)
  BY LenProperties DEF TransferTypes
<1>2. CASE RequestFails
  <2>1. /\ UNCHANGED <<fragVars, defragVars, kind, scheme, delivered>> /\ failed' = TRUE
    BY <1>2 DEF RequestFails
  <2>2. TransferTypes'
    BY <2>1 DEF TransferTypes, defragVars, fragVars, FrameRecords
  <2>3. ReaderInv(D)'
    BY <2>1 DEF Flow, ReaderInv, Reading, NotReading, SchemeAccepted, fragVars, defragVars
  <2> QED
    BY <2>1, <2>2, <2>3, FlowSenderStutter DEF Flow
<1>3. CASE ResponseFails
  <2>1. /\ fstate = "error" /\ failed' = TRUE
        /\ frame_input' = Append(frame_input, ErrorFrame)
        /\ UNCHANGED <<fragVars, input_open, expected, out, dstate, kind, scheme, delivered>>
    BY <1>3 DEF ResponseFails
  <2>2. ErrorFrame \in FrameRecords /\ ErrorFrame.type = "Error"
    BY DEF ErrorFrame, FrameRecords, Flags
  <2>3. /\ frame_input' \in Seq(FrameRecords) /\ Len(frame_input') = Len(frame_input) + 1
        /\ \A i \in 1 .. Len(frame_input) : frame_input'[i] = frame_input[i]
        /\ frame_input'[Len(frame_input) + 1] = ErrorFrame
    BY <1>1, <2>1, <2>2, AppendProperties
  <2>4. TransferTypes'
    BY <2>1, <2>3 DEF TransferTypes, fragVars, FrameRecords
  <2>5. \A i \in 1 .. Len(frame_input') : frame_input'[i].type = "Error"
    <3>1. \A i \in 1 .. Len(frame_input) : frame_input'[i].type = "Error"
      BY <2>1, <2>3 DEF Flow, ReaderInv, NotReading
    <3>2. \A i \in 1 .. Len(frame_input') : i \in 1 .. Len(frame_input) \/ i = Len(frame_input) + 1
      BY <1>1, <2>3
    <3> QED
      BY <2>2, <2>3, <3>1, <3>2
  <2>6. ReaderInv(D)'
    BY <2>1, <2>5 DEF Flow, ReaderInv, NotReading, fragVars
  <2> QED
    BY <2>1, <2>4, <2>6, FlowSenderStutter DEF Flow
<1>4. CASE SenderDropped
  <2>1. /\ input_open' = FALSE
        /\ UNCHANGED <<fragVars, frame_input, expected, out, dstate, kind, scheme, delivered, failed>>
    BY <1>4 DEF SenderDropped
  <2>2. TransferTypes'
    BY <2>1 DEF TransferTypes, fragVars, FrameRecords
  <2>3. ReaderInv(D)'
    BY <2>1 DEF Flow, ReaderInv, Reading, NotReading, SchemeAccepted, fragVars
  <2> QED
    BY <2>1, <2>2, <2>3, FlowSenderStutter DEF Flow
<1> QED
  BY <1>2, <1>3, <1>4

(* The reader takes the frame that follows the ones it has put together.    *)
LEMMA NextFrameRead ==
    ASSUME FragInv, TransferTypes, NEW D, Partials(D), Reading(D), fstate = "done",
           dstate \in {"beginning", "continuation"}, frame_input # << >>
    PROVE  LET f == Head(frame_input)
               t == Tail(frame_input)
           IN  /\ f.scheme = scheme
               /\ \A i \in 1 .. Len(t) : t[i].scheme = scheme
               /\ Len(t) <= delivered
               /\ \A i \in 1 .. Len(t) : /\ t[i].args = frames[delivered - Len(t) + i].args
                                         /\ t[i].flags = frames[delivered - Len(t) + i].flags
               /\ add(out, f.args) = D[delivered - Len(t)]
               /\ delivered - Len(t) \in 0 .. Len(frames)
               /\ f.flags # "MORE_FRAGMENTS_FOLLOW" => add(out, f.args) = D[Len(frames)]
<1>1. PICK f, t : f = Head(frame_input) /\ t = Tail(frame_input)
  OBVIOUS
<1>2. /\ f = frame_input[1] /\ t \in Seq(FrameRecords)
      /\ Len(frame_input) \in Nat /\ Len(frame_input) >= 1 /\ Len(t) = Len(frame_input) - 1
      /\ \A i \in 1 .. Len(frame_input) - 1 : t[i] = frame_input[i + 1]
  <2>1. frame_input \in Seq(FrameRecords)
    BY DEF TransferTypes
  <2>2. Len(frame_input) \in Nat /\ Len(frame_input) >= 1
    BY <2>1, LenProperties, EmptySeq
  <2>3. /\ f = frame_input[1] /\ t \in Seq(FrameRecords) /\ Len(t) = Len(frame_input) - 1
        /\ \A i \in 1 .. Len(frame_input) - 1 : t[i] = frame_input[i + 1]
    <3>1. Len(t) = Len(frame_input) - 1 /\ t \in Seq(FrameRecords)
      BY <1>1, <2>1, HeadTailProperties
    <3> QED
      BY <1>1, <2>1, <2>2, <3>1
  <2> QED
    BY <2>2, <2>3
<1>3. Len(frames) \in Nat /\ delivered \in 0 .. Len(frames)
  BY LenProperties DEF FragInv, FragTypeOK, TransferTypes
<1>4. PICK l, n, d \in Nat : l = Len(frame_input) /\ n = Len(frames) /\ d = delivered
  BY <1>2, <1>3
<1>5. d <= n /\ l >= 1 /\ Len(t) = l - 1
  BY <1>2, <1>3, <1>4
<1>6. /\ l <= d
      /\ \A i \in 1 .. l : /\ frame_input[i].scheme = scheme
                           /\ frame_input[i].args = frames[d - l + i].args
                           /\ frame_input[i].flags = frames[d - l + i].flags
  BY <1>4 DEF Reading
<1>7. out = D[d - l]
  <2>1. CASE dstate = "continuation"
    BY <1>4, <2>1 DEF Reading
  <2>2. CASE dstate = "beginning"
    <3>1. d = l /\ out = << >>
      BY <1>4, <2>2 DEF Reading
    <3>2. d - l = 0
      BY <3>1
    <3> QED
      BY <3>1, <3>2 DEF Partials
  <2> QED
    BY <2>1, <2>2
<1>8. PICK r \in Nat : r = d - l
  BY <1>6
<1>9. /\ r + 1 \in 1 .. n /\ d - l + 1 = r + 1 /\ d - (l - 1) = r + 1
      /\ 1 \in 1 .. l /\ (r + 1) - 1 = r
  BY <1>5, <1>6, <1>8
<1>10. f.scheme = scheme /\ f.args = frames[r + 1].args /\ f.flags = frames[r + 1].flags
  BY <1>2, <1>6, <1>9
<1>11. D[r + 1] = add(D[(r + 1) - 1], frames[r + 1].args)
  BY <1>4, <1>9 DEF Partials
<1>12. add(out, f.args) = D[r + 1]
  BY <1>7, <1>8, <1>9, <1>10, <1>11
<1>13. f.flags # "MORE_FRAGMENTS_FOLLOW" => r + 1 = n
  <2>1. frames[r + 1].flags # "MORE_FRAGMENTS_FOLLOW" => ~ (r + 1 < n)
    BY <1>4, <1>9 DEF FragInv, FramesWellFormed
  <2> QED
    BY <1>9, <1>10, <2>1
<1>14. ASSUME NEW i \in 1 .. l - 1
       PROVE  /\ t[i].scheme = scheme
              /\ t[i].args = frames[d - (l - 1) + i].args
              /\ t[i].flags = frames[d - (l - 1) + i].flags
  <2>1. i + 1 \in 1 .. l /\ d - l + (i + 1) = d - (l - 1) + i
    BY <1>4
  <2>2. t[i] = frame_input[i + 1]
    BY <1>2, <1>4
  <2> QED
    BY <1>6, <2>1, <2>2
<1>15. Len(t) <= delivered /\ d - Len(t) = r + 1
  BY <1>4, <1>5, <1>6, <1>9
<1>16. /\ \A i \in 1 .. Len(t) : t[i].scheme = scheme
       /\ \A i \in 1 .. Len(t) : /\ t[i].args = frames[delivered - Len(t) + i].args
                                 /\ t[i].flags = frames[delivered - Len(t) + i].flags
  BY <1>4, <1>5, <1>14
<1>17. /\ add(out, f.args) = D[delivered - Len(t)]
       /\ delivered - Len(t) \in 0 .. Len(frames)
       /\ f.flags # "MORE_FRAGMENTS_FOLLOW" => add(out, f.args) = D[Len(frames)]
  BY <1>4, <1>9, <1>12, <1>13, <1>15
<1> QED
  BY <1>1, <1>10, <1>15, <1>16, <1>17

LEMMA FlowRead ==
    ASSUME FragInv, TransferTypes, NEW D, Flow(D), Read
    PROVE  TransferTypes' /\ Flow(D)'
<1>1. UNCHANGED <<fragVars, kind, scheme, delivered, failed>> /\ DefragNext
  BY DEF Read
<1>2. UNCHANGED <<input_open, expected>>
  BY <1>1 DEF DefragNext, ReadBeginning, ReadContinuation, ReadNone
<1>3. frame_input \in Seq(FrameRecords) /\ FrameRecords' = FrameRecords /\ out \in Seq(Nat)
  BY <1>1 DEF TransferTypes, FrameRecords
<1>4. PICK f, t : f = Head(frame_input) /\ t = Tail(frame_input)
  OBVIOUS
<1>5. frame_input # << >> =>
        /\ f \in FrameRecords /\ f.args \in Seq(Nat) /\ add(out, f.args) \in Seq(Nat)
        /\ t \in Seq(FrameRecords)
        /\ f = frame_input[1] /\ Len(frame_input) \in Nat /\ Len(frame_input) >= 1
        /\ Len(t) = Len(frame_input) - 1
        /\ \A i \in 1 .. Len(frame_input) - 1 : t[i] = frame_input[i + 1]
  <2> SUFFICES ASSUME frame_input # << >>
               PROVE  /\ f \in FrameRecords /\ f.args \in Seq(Nat) /\ add(out, f.args) \in Seq(Nat)
                      /\ t \in Seq(FrameRecords)
                      /\ f = frame_input[1] /\ Len(frame_input) \in Nat /\ Len(frame_input) >= 1
                      /\ Len(t) = Len(frame_input) - 1
                      /\ \A i \in 1 .. Len(frame_input) - 1 : t[i] = frame_input[i + 1]
    OBVIOUS
  <2>1. f \in FrameRecords /\ t \in Seq(FrameRecords) /\ Len(t) = Len(frame_input) - 1
    BY <1>3, <1>4, HeadTailProperties
  <2>2. f.args \in Seq(Nat)
    BY <2>1 DEF FrameRecords
  <2>3. add(out, f.args) \in Seq(Nat)
    BY <1>3, <2>2, AddType
  <2>4. Len(frame_input) \in Nat /\ Len(frame_input) >= 1
    BY <1>3, LenProperties, EmptySeq
  <2>5. f = frame_input[1] /\ \A i \in 1 .. Len(frame_input) - 1 : t[i] = frame_input[i + 1]
    BY <1>3, <1>4, <2>1, <2>4
  <2> QED
    BY <2>1, <2>2, <2>3, <2>4, <2>5
<1>6. TransferTypes'
  <2>1. out' \in Seq(Nat) /\ frame_input' \in Seq(FrameRecords) /\ dstate' \in DStates
    BY <1>1, <1>3, <1>4, <1>5 DEF DefragNext, ReadBeginning, ReadContinuation, ReadNone, DStates
  <2> QED
    BY <1>1, <1>2, <1>3, <2>1 DEF TransferTypes, fragVars
<1>7. CASE fstate = "done"
  <2>1. Reading(D) /\ Partials(D)
    BY <1>7 DEF Flow, ReaderInv
  <2>2. SchemeAccepted(scheme)' <=> SchemeAccepted(scheme)
    BY <1>1, <1>2 DEF SchemeAccepted
  <2>3. CASE ReadNone
    <3>1. /\ UNCHANGED <<frame_input, out>> /\ ~input_open /\ dstate' \in {"err", "ok"}
          /\ dstate' = "ok" => dstate = "continuation"
      BY <2>3 DEF ReadNone
    <3>2. Reading(D)'
      <4>1. frames' = frames /\ delivered' = delivered /\ scheme' = scheme
        BY <1>1 DEF fragVars
      <4>2. \E n \in 0 .. Len(frames') : out' = D[n]
        BY <2>1, <3>1, <4>1 DEF Reading
      <4> QED
        BY <1>2, <2>1, <2>2, <3>1, <4>1, <4>2 DEF Reading
    <3> QED
      BY <1>1, <1>6, <1>7, <3>2, FlowSenderStutter DEF Flow, ReaderInv, fragVars
  <2>4. CASE ReadBeginning \/ ReadContinuation
    <3>1. /\ frame_input # << >> /\ dstate \in {"beginning", "continuation"} /\ frame_input' = t
      BY <1>4, <2>4 DEF ReadBeginning, ReadContinuation
    <3>2. /\ f.scheme = scheme
          /\ \A i \in 1 .. Len(t) : t[i].scheme = scheme
          /\ Len(t) <= delivered
          /\ \A i \in 1 .. Len(t) : /\ t[i].args = frames[delivered - Len(t) + i].args
                                    /\ t[i].flags = frames[delivered - Len(t) + i].flags
          /\ add(out, f.args) = D[delivered - Len(t)]
          /\ delivered - Len(t) \in 0 .. Len(frames)
          /\ f.flags # "MORE_FRAGMENTS_FOLLOW" => add(out, f.args) = D[Len(frames)]
      BY <1>4, <1>7, <2>1, <3>1, NextFrameRead
    <3>3. \/ dstate' = "err" /\ (out' = out \/ out' = add(out, f.args))
          \/ /\ out' = add(out, f.args) /\ SchemeAccepted(scheme)
             /\ \/ dstate' = "continuation"
                \/ dstate' = "ok" /\ f.flags # "MORE_FRAGMENTS_FOLLOW"
      <4>1. CASE ReadBeginning
        BY <1>4, <3>2, <4>1 DEF ReadBeginning
      <4>2. CASE ReadContinuation
        <5>1. SchemeAccepted(scheme)
          BY <2>1, <4>2 DEF Reading, ReadContinuation
        <5> QED
          BY <1>4, <4>2, <5>1 DEF ReadContinuation
      <4> QED
        BY <2>4, <4>1, <4>2
    <3>4. frames' = frames /\ delivered' = delivered /\ scheme' = scheme
      BY <1>1 DEF fragVars
    <3>5. Reading(D)'
      <4>1. CASE dstate' = "err" /\ (out' = out \/ out' = add(out, f.args))
        <5>1. \E n \in 0 .. Len(frames) : out' = D[n]
          BY <2>1, <3>2, <4>1 DEF Reading
        <5> QED
          BY <3>1, <3>2, <3>4, <4>1, <5>1 DEF Reading
      <4>2. CASE /\ out' = add(out, f.args) /\ SchemeAccepted(scheme)
                 /\ dstate' = "continuation"
        BY <2>2, <3>1, <3>2, <3>4, <4>2 DEF Reading
      <4>3. CASE /\ out' = add(out, f.args) /\ SchemeAccepted(scheme)
                 /\ dstate' = "ok" /\ f.flags # "MORE_FRAGMENTS_FOLLOW"
        BY <2>2, <3>1, <3>2, <3>4, <4>3 DEF Reading
      <4> QED
        BY <3>3, <4>1, <4>2, <4>3
    <3> QED
      BY <1>1, <1>6, <1>7, <3>5, FlowSenderStutter DEF Flow, ReaderInv, fragVars
  <2> QED
    BY <1>1, <2>3, <2>4 DEF DefragNext
<1>8. CASE fstate # "done"
  <2>1. NotReading
    BY <1>8 DEF Flow, ReaderInv
  <2>2. CASE ReadNone
    <3>1. NotReading'
      BY <1>1, <2>1, <2>2 DEF NotReading, ReadNone, fragVars
    <3> QED
      BY <1>1, <1>6, <1>8, <3>1, FlowSenderStutter DEF Flow, ReaderInv, fragVars
  <2>3. CASE ReadBeginning
    <3>1. frame_input # << >> /\ frame_input' = t
      BY <1>4, <2>3 DEF ReadBeginning
    <3>2. f.type = "Error"
      <4>1. 1 \in 1 .. Len(frame_input)
        BY <1>5, <3>1
      <4> QED
        BY <1>5, <2>1, <3>1, <4>1 DEF NotReading
    <3>3. f.type # expected.type
      BY <3>2 DEF TransferTypes
    <3>4. dstate' = "err" /\ out' = out
      BY <1>4, <2>3, <3>3 DEF ReadBeginning
    <3>5. \A i \in 1 .. Len(t) : t[i].type = "Error"
      <4> SUFFICES ASSUME NEW i \in 1 .. Len(t) PROVE t[i].type = "Error"
        OBVIOUS
      <4>1. PICK l \in Nat : l = Len(frame_input) /\ Len(t) = l - 1
        BY <1>5, <3>1
      <4>2. i \in 1 .. l - 1 /\ i + 1 \in 1 .. l
        BY <4>1
      <4> QED
        BY <1>5, <2>1, <3>1, <4>1, <4>2 DEF NotReading
    <3>6. NotReading'
      BY <1>1, <2>1, <3>1, <3>4, <3>5 DEF NotReading, fragVars
    <3> QED
      BY <1>1, <1>6, <1>8, <3>6, FlowSenderStutter DEF Flow, ReaderInv, fragVars
  <2>4. CASE ReadContinuation
    BY <2>1, <2>4 DEF NotReading, ReadContinuation
  <2> QED
    BY <1>1, <2>2, <2>3, <2>4 DEF DefragNext
<1> QED
  BY <1>7, <1>8

LEMMA FlowFieldsRefused ==
    ASSUME FragInv, TransferTypes, NEW D, Flow(D), FieldsRefused
    PROVE  TransferTypes' /\ Flow(D)'
<1>1. /\ fstate = "next" /\ fstate' = "refused" /\ frames' = frames /\ Tight' = Tight
      /\ UNCHANGED <<defragVars, kind, scheme, delivered, failed>>
  BY DEF FieldsRefused, Tight
<1>2. TransferTypes'
  BY <1>1 DEF TransferTypes, defragVars, FrameRecords
<1>3. Partials(D)'
  BY <1>1 DEF Flow, Partials
<1>4. ReaderInv(D)'
  BY <1>1 DEF Flow, ReaderInv, NotReading, defragVars
<1>5. SenderInv(D[Len(frames)])' /\ SenderBytes(Bytes(D[Len(frames)]))'
  BY <1>1 DEF SenderInv, SenderBytes
<1> QED
  BY <1>2, <1>3, <1>4, <1>5 DEF Flow

LEMMA FlowStutter ==
    ASSUME FragInv, TransferTypes, NEW D, Flow(D), UNCHANGED vars
    PROVE  TransferTypes' /\ Flow(D)'
<1>1. UNCHANGED <<fragVars, defragVars, kind, scheme, delivered, failed>>
  BY DEF vars
<1>2. TransferTypes'
  BY <1>1 DEF TransferTypes, fragVars, defragVars, FrameRecords
<1>3. ReaderInv(D)'
  BY <1>1 DEF Flow, ReaderInv, Reading, NotReading, SchemeAccepted, fragVars, defragVars
<1> QED
  BY <1>1, <1>2, <1>3, FlowSenderStutter DEF Flow

(* The transfer of a message keeps its invariant.                           *)
THEOREM TransferInvariant == Spec => []TransferInv
<1>1. TransferInv /\ [Next]_vars => TransferInv'
  <2> SUFFICES ASSUME TransferInv, [Next]_vars PROVE TransferInv'
    OBVIOUS
  <2>1. FragInv /\ TransferTypes
    BY DEF TransferInv
  <2>2. PICK D : Flow(D)
    BY DEF TransferInv
  <2>3. FragInv'
    <3>1. CASE Fragment
      BY <2>1, <3>1, BeginFrameInv, FillArgInv, EndFrameInv DEF Fragment, FragNext
    <3>2. CASE UNCHANGED fragVars
      BY <2>1, <3>2, FragInvStutter
    <3>3. CASE FieldsRefused
      BY <2>1, <3>3, FieldsRefusedInv
    <3> QED
      BY <3>1, <3>2, <3>3 DEF Next, vars, Deliver, RequestFails, ResponseFails, SenderDropped, Read
  <2>4. TransferTypes' /\ \E E : Flow(E)'
    <3>1. CASE Fragment
      BY <2>1, <2>2, <3>1, FlowFrameFilled, FlowFrameEnded DEF Fragment, FragNext
    <3>2. CASE Deliver
      BY <2>1, <2>2, <3>2, FlowDeliver
    <3>3. CASE RequestFails \/ ResponseFails \/ SenderDropped
      BY <2>1, <2>2, <3>3, FlowFails
    <3>4. CASE Read
      BY <2>1, <2>2, <3>4, FlowRead
    <3>5. CASE UNCHANGED vars
      BY <2>1, <2>2, <3>5, FlowStutter
    <3>6. CASE FieldsRefused
      BY <2>1, <2>2, <3>6, FlowFieldsRefused
    <3> QED
      BY <3>1, <3>2, <3>3, <3>4, <3>5, <3>6 DEF Next
  <2> QED
    BY <2>3, <2>4 DEF TransferInv
<1> QED
  BY <1>1, TransferInit, PTL DEF Spec

(* No piece and no remainder of an argument has a negative length, and      *)
(* nothing is delivered that create_frames did not make.                    *)
THEOREM TransferTypeCorrect == Spec => []TypeOK
<1>1. TransferInv => TypeOK
  BY DEF TransferInv, TransferTypes, FragInv, TypeOK
<1> QED
  BY <1>1, TransferInvariant, PTL

(* read_and_check returns a message only of a sender that made all of its   *)
(* frames, and only of the scheme the reader asked for.                     *)
THEOREM OnlySentIsAccepted == Spec => []AcceptedOnlyIfSent
<1>1. TransferInv => AcceptedOnlyIfSent
  BY DEF TransferInv, Flow, ReaderInv, Reading, NotReading, SchemeAccepted, AcceptedOnlyIfSent
<1> QED
  BY <1>1, TransferInvariant, PTL

(* ArgsDefragmenter puts together what ArgsFragmenter took apart, for every *)
(* frame size, fields length and message without a Tight argument.          *)
THEOREM DefragmentInvertsFragment == Spec => []RoundTripUnlessTight
<1>1. TransferInv => RoundTripUnlessTight
  <2> SUFFICES ASSUME TransferInv, dstate = "ok", ~Tight, input_open
               PROVE  MessageOf(out) = input
    BY DEF RoundTripUnlessTight
  <2>1. PICK D : Flow(D)
    BY DEF TransferInv
  <2>2. fstate = "done" /\ Reading(D)
    BY <2>1 DEF Flow, ReaderInv, NotReading
  <2>3. out = D[Len(frames)]
    BY <2>2 DEF Reading
  <2>4. Clean(input, out, << >>)
    BY <2>1, <2>2, <2>3 DEF Flow, SenderInv
  <2>5. input \in Seq(Nat) /\ Len(input) = 3 /\ Len(out) \in Nat
    BY LenProperties DEF TransferInv, TransferTypes, FragInv, FragTypeOK
  <2>6. Len(out) >= 3 /\ \A i \in 1 .. 3 : out[i] = input[i]
    <3>1. /\ Len(out) + 0 = 3 \/ Len(out) = 4
          /\ \A i \in 1 .. 3 : i <= Len(out) => out[i] = input[i]
      BY <2>4 DEF Clean
    <3>2. Len(out) >= 3
      <4>1. PICK n \in Nat : n = Len(out)
        BY <2>5
      <4>2. n + 0 = 3 \/ n = 4
        BY <3>1, <4>1
      <4>3. n >= 3
        BY <4>2
      <4> QED
        BY <4>1, <4>3
    <3> QED
      BY <2>5, <3>1, <3>2
  <2>7. MessageOf(out) = [i \in 1 .. 3 |-> input[i]]
    BY <2>5, <2>6 DEF MessageOf
  <2>8. input = [i \in 1 .. 3 |-> input[i]]
    BY <2>5
  <2> QED
    BY <2>7, <2>8
<1> QED
  BY <1>1, TransferInvariant, PTL

(* With every frame that is read the reader has as many bytes or more.      *)
LEMMA PartialsGrow ==
    ASSUME FragInv, NEW D, Partials(D), NEW n \in 0 .. Len(frames)
    PROVE  Bytes(D[n]) <= Bytes(D[Len(frames)])
<1>1. PICK l \in Nat : l = Len(frames)
  BY PartialsType
<1>2. \A k \in 0 .. l : D[k] \in Seq(Nat) /\ Bytes(D[k]) \in Nat
  BY <1>1, PartialsType, SumsFirst
<1>3. n \in Nat /\ n <= l
  BY <1>1
<1> DEFINE S == {k \in Nat : n + k <= l => Bytes(D[n]) <= Bytes(D[n + k])}
<1>4. 0 \in S
  <2>1. n + 0 = n /\ n \in 0 .. l
    BY <1>3
  <2>2. Bytes(D[n]) <= Bytes(D[n])
    BY <1>2, <2>1
  <2> QED
    BY <2>1, <2>2
<1>5. ASSUME NEW k \in Nat, k \in S PROVE k + 1 \in S
  <2> SUFFICES ASSUME n + (k + 1) <= l PROVE Bytes(D[n]) <= Bytes(D[n + (k + 1)])
    OBVIOUS
  <2>1. PICK i \in Nat : i = n + k
    BY <1>3
  <2>2. /\ i <= l /\ i + 1 = n + (k + 1) /\ i + 1 \in 1 .. l /\ (i + 1) - 1 = i
        /\ i \in 0 .. l /\ i + 1 \in 0 .. l /\ n \in 0 .. l
    BY <1>3, <2>1
  <2>3. Bytes(D[n]) <= Bytes(D[i])
    BY <1>5, <2>1, <2>2
  <2>4. D[i + 1] = add(D[(i + 1) - 1], frames[i + 1].args)
    BY <1>1, <2>2 DEF Partials
  <2>5. frames[i + 1].args \in Seq(Nat)
    <3>1. frames[i + 1] \in [flags : Flags, args : Seq(Nat)]
      BY <1>1, <2>2, ElementOfSeq DEF FragInv, FragTypeOK
    <3> QED
      BY <3>1
  <2>6. /\ Bytes(D[i + 1]) = Bytes(D[i]) + Bytes(frames[i + 1].args)
        /\ Bytes(frames[i + 1].args) \in Nat
    BY <1>2, <2>2, <2>4, <2>5, BytesAdd, SMTT(30)
  <2>7. PICK x, y, z \in Nat : x = Bytes(D[n]) /\ y = Bytes(D[i]) /\ z = Bytes(frames[i + 1].args)
    BY <1>2, <2>2, <2>6
  <2>8. x <= y + z
    BY <2>3, <2>7
  <2> QED
    BY <2>2, <2>6, <2>7, <2>8
<1> HIDE DEF S
<1>6. \A k \in Nat : k \in S
  BY <1>4, <1>5, SetInduction, Zenon
<1>7. l - n \in Nat /\ n + (l - n) = l /\ l <= l
  BY <1>3
<1>8. l - n \in S
  BY <1>6, <1>7
<1> QED
  BY <1>1, <1>7, <1>8 DEF S

LEMMA ConservedBytes == TransferInv => BytesConserved
<1> SUFFICES ASSUME TransferInv PROVE BytesConserved
  OBVIOUS
<1>1. PICK D : Flow(D)
  BY DEF TransferInv
<1>2. FragInv /\ Partials(D) /\ ReaderInv(D) /\ SenderBytes(Bytes(D[Len(frames)]))
  BY <1>1 DEF TransferInv, Flow
<1>3. Bytes(input) \in Nat
  BY <1>2, SumsFirst DEF FragInv, FragTypeOK
<1>4. CASE fstate = "done"
  <2>1. Reading(D) /\ Bytes(D[Len(frames)]) = Bytes(input)
    BY <1>2, <1>4 DEF ReaderInv, SenderBytes
  <2>2. PICK n \in 0 .. Len(frames) : out = D[n]
    BY <2>1 DEF Reading
  <2>3. Bytes(out) <= Bytes(input)
    BY <1>2, <2>1, <2>2, PartialsGrow
  <2>4. dstate = "ok" /\ input_open => Bytes(out) = Bytes(input)
    BY <2>1 DEF Reading
  <2> QED
    BY <2>3, <2>4 DEF BytesConserved
<1>5. CASE fstate # "done"
  <2>1. out = << >> /\ dstate # "ok"
    BY <1>2, <1>5 DEF ReaderInv, NotReading
  <2>2. Bytes(out) = 0
    BY <2>1, BytesEmpty
  <2>3. Bytes(out) <= Bytes(input)
    BY <1>3, <2>2
  <2> QED
    BY <2>1, <2>3 DEF BytesConserved
<1> QED
  BY <1>4, <1>5

(* The reader never has more bytes than the message, and when it has read   *)
(* the whole message it has all of them, also where an argument is Tight    *)
(* and the boundaries between the arguments are lost.                       *)
THEOREM NoByteIsLost == Spec => []BytesConserved
  BY ConservedBytes, TransferInvariant, PTL

(* The bytes before the second and before the third argument.               *)
LEMMA BeforeArgs ==
    ASSUME NEW a \in Seq(Nat), Len(a) >= 3
    PROVE  /\ a[1] \in Nat /\ a[2] \in Nat /\ a[3] \in Nat
           /\ Before(a, 2) = a[1] /\ Before(a, 3) = a[1] + a[2]
<1>1. /\ 0 \in Nat /\ 1 \in Nat /\ 2 \in Nat /\ 0 < Len(a) /\ 1 < Len(a) /\ 2 < Len(a)
      /\ 0 + 1 = 1 /\ 1 + 1 = 2 /\ 2 + 1 = 3 /\ 2 - 1 = 1 /\ 3 - 1 = 2
  <2>1. Len(a) \in Nat
    BY LenProperties
  <2> QED
    BY <2>1
<1>2. Sums(a)[0 + 1] = Sums(a)[0] + a[0 + 1] /\ a[0 + 1] \in Nat
  BY <1>1, SumsStep, Zenon
<1>3. Sums(a)[1 + 1] = Sums(a)[1] + a[1 + 1] /\ a[1 + 1] \in Nat
  BY <1>1, SumsStep, Zenon
<1>4. a[2 + 1] \in Nat
  BY <1>1, SumsStep, Zenon
<1>5. Sums(a)[0] = 0
  BY SumsFirst
<1>6. Sums(a)[1] = a[1] /\ Sums(a)[2] = a[1] + a[2]
  BY <1>1, <1>2, <1>3, <1>5
<1> QED
  BY <1>1, <1>2, <1>3, <1>4, <1>6 DEF Before

(* The first three arguments hold no more bytes than all of them.           *)
LEMMA ThreeArgsBytes ==
    ASSUME NEW a \in Seq(Nat), Len(a) >= 3
    PROVE  /\ a[1] + a[2] + a[3] <= Bytes(a)
           /\ Len(a) = 3 => Bytes(a) = a[1] + a[2] + a[3]
<1>1. /\ a[1] \in Nat /\ a[2] \in Nat /\ a[3] \in Nat
      /\ Before(a, 3) = a[1] + a[2]
  BY BeforeArgs
<1>2. PICK l \in Nat : l = Len(a)
  BY LenProperties
<1>3. 2 \in Nat /\ 2 < Len(a) /\ 2 + 1 = 3 /\ 3 - 1 = 2
  BY <1>2
<1>4. Sums(a)[2 + 1] = Sums(a)[2] + a[2 + 1]
  BY <1>3, SumsStep, Zenon
<1>5. Sums(a)[3] = a[1] + a[2] + a[3]
  BY <1>1, <1>3, <1>4 DEF Before
<1>6. PICK t \in Nat : t = a[1] + a[2] + a[3]
  BY <1>1
<1> DEFINE S == {n \in Nat : 3 + n <= l => Sums(a)[3 + n] \in Nat /\ t <= Sums(a)[3 + n]}
<1>7. 0 \in S
  BY <1>5, <1>6
<1>8. ASSUME NEW n \in Nat, n \in S PROVE n + 1 \in S
  <2> SUFFICES ASSUME 3 + (n + 1) <= l
               PROVE  Sums(a)[3 + (n + 1)] \in Nat /\ t <= Sums(a)[3 + (n + 1)]
    OBVIOUS
  <2>1. PICK k \in Nat : k = 3 + n /\ k < l /\ k <= l /\ 3 + (n + 1) = k + 1
    OBVIOUS
  <2>2. Sums(a)[k] \in Nat /\ t <= Sums(a)[k]
    BY <1>8, <2>1
  <2>3. a[k + 1] \in Nat /\ Sums(a)[k + 1] = Sums(a)[k] + a[k + 1]
    BY <1>2, <2>1, SumsStep
  <2>4. PICK x, y \in Nat : x = Sums(a)[k] /\ y = a[k + 1]
    BY <2>2, <2>3
  <2>5. x + y \in Nat /\ t <= x + y
    <3>1. t <= x
      BY <2>2, <2>4
    <3> QED
      BY <3>1
  <2> QED
    BY <2>1, <2>3, <2>4, <2>5
<1> HIDE DEF S
<1>9. \A n \in Nat : n \in S
  BY <1>7, <1>8, SetInduction, Zenon
<1>10. l - 3 \in Nat /\ 3 + (l - 3) = l /\ l <= l
  BY <1>2
<1>11. l - 3 \in S
  BY <1>9, <1>10
<1>12. t <= Sums(a)[l]
  BY <1>10, <1>11 DEF S
<1> QED
  BY <1>2, <1>5, <1>6, <1>12 DEF Bytes

----------------------------------------------------------------------------
(* Where the reader's arguments begin, tight messages included.  What       *)
(* ArgsFragmenter still has is, behind its front, the end of the message.   *)
Suffixes(m) == {<< >>, <<m[3]>>, <<m[2], m[3]>>, m}

(* Where the arguments of the message m begin, and its end.                 *)
Ends(m) == {0, m[1], m[1] + m[2], m[1] + m[2] + m[3]}

(* A front that nothing was taken of is an argument of the message.         *)
CutInv ==
    /\ args # << >> => Tail(args) \in Suffixes(input)
    /\ fstate = "filling" /\ frame # << >> => args \in Suffixes(input)
    /\ frames = << >> /\ (fstate = "next" \/ (fstate = "filling" /\ frame = << >>)) => args = input

(* Every argument of o begins where one of the message does, and no empty   *)
(* argument was put before the first.                                       *)
Kept(o) ==
    /\ \A n \in Nat : n < Len(o) => Sums(o)[n] \in Ends(input)
    /\ o # << >> /\ o[1] = 0 => input[1] = 0

(* The inductive invariant: Kept holds of what the reader has after every   *)
(* frame made so far, and will hold after the one being filled.             *)
BoundaryInv ==
    /\ CutInv
    /\ \A D : Partials(D) =>
          /\ \A n \in 0 .. Len(frames) : Kept(D[n]) /\ (n > 0 => D[n] # << >>)
          /\ fstate \in {"filling", "full"} => Kept(add(D[Len(frames)], frame))

LEMMA ThreeArgs ==
    ASSUME NEW m \in Seq(Nat), Len(m) = 3
    PROVE  /\ m[1] \in Nat /\ m[2] \in Nat /\ m[3] \in Nat
           /\ m = <<m[1], m[2], m[3]>>
<1>1. m[1] \in Nat /\ m[2] \in Nat /\ m[3] \in Nat
  BY ElementOfSeq
<1> QED
  BY <1>1

LEMMA SuffixTail ==
    ASSUME NEW m \in Seq(Nat), Len(m) = 3, NEW a \in Suffixes(m), a # << >>
    PROVE  Tail(a) \in Suffixes(m)
<1>1. m[1] \in Nat /\ m[2] \in Nat /\ m[3] \in Nat /\ m = <<m[1], m[2], m[3]>>
  BY ThreeArgs
<1>2. PICK x, y, z \in Nat : x = m[1] /\ y = m[2] /\ z = m[3] /\ m = <<x, y, z>>
  BY <1>1
<1>3. a = <<z>> \/ a = <<y, z>> \/ a = <<x, y, z>>
  BY <1>2 DEF Suffixes
<1>4. Tail(<<z>>) = << >> /\ Tail(<<y, z>>) = <<z>> /\ Tail(<<x, y, z>>) = <<y, z>>
  OBVIOUS
<1> QED
  BY <1>2, <1>3, <1>4 DEF Suffixes

(* The bytes before an end of the message are those of whole arguments.     *)
LEMMA SuffixBytes ==
    ASSUME NEW m \in Seq(Nat), Len(m) = 3, NEW a \in Suffixes(m), NEW b \in Nat,
           b + Bytes(a) = Bytes(m)
    PROVE  b \in Ends(m)
<1>1. m[1] \in Nat /\ m[2] \in Nat /\ m[3] \in Nat /\ m = <<m[1], m[2], m[3]>>
  BY ThreeArgs
<1>2. PICK x, y, z \in Nat : x = m[1] /\ y = m[2] /\ z = m[3] /\ m = <<x, y, z>>
  BY <1>1
<1>3. Bytes(<<z>>) = z
  BY BytesSingle
<1>4. Bytes(<<y, z>>) = y + z
  <2>1. PICK s : s = <<y, z>>
    OBVIOUS
  <2>2. s \in Seq(Nat) /\ s # << >> /\ Head(s) = y /\ Tail(s) = <<z>>
    BY <2>1
  <2>3. Bytes(s) = Head(s) + Bytes(Tail(s))
    BY <2>2, BytesFront
  <2> QED
    BY <1>3, <2>1, <2>2, <2>3
<1>5. Bytes(<<x, y, z>>) = x + (y + z)
  <2>1. PICK s : s = <<x, y, z>>
    OBVIOUS
  <2>2. s \in Seq(Nat) /\ s # << >> /\ Head(s) = x /\ Tail(s) = <<y, z>>
    BY <2>1
  <2>3. Bytes(s) = Head(s) + Bytes(Tail(s))
    BY <2>2, BytesFront
  <2> QED
    BY <1>4, <2>1, <2>2, <2>3
<1>6. a = << >> \/ a = <<z>> \/ a = <<y, z>> \/ a = <<x, y, z>>
  BY <1>2 DEF Suffixes
<1>7. PICK t : t = Bytes(a)
  OBVIOUS
<1>8. b + t = x + (y + z)
  BY <1>2, <1>5, <1>7
<1>9. t = 0 \/ t = z \/ t = y + z \/ t = x + (y + z)
  <2>1. CASE a = << >>
    BY <1>7, <2>1, BytesEmpty
  <2>2. CASE a # << >>
    BY <1>3, <1>4, <1>5, <1>6, <1>7, <2>2
  <2> QED
    BY <2>1, <2>2
<1>10. b = 0 \/ b = x \/ b = x + y \/ b = x + y + z
  BY <1>8, <1>9
<1> QED
  BY <1>2, <1>10 DEF Ends

(* One iteration of next_frame_args_vec, tight or not.                      *)
LEMMA FillArgPieces ==
    ASSUME FragInv, FillArg
    PROVE  /\ UNCHANGED <<input, frames>> /\ fstate = "filling" /\ args # << >>
           /\ \/ frame' = frame /\ args' = args /\ fstate' = "full"
              \/ \E p \in Nat :
                    /\ frame' = frame \o <<p>>
                    /\ frame = << >> /\ p = 0 => Head(args) = 0
                    /\ \/ args' = Tail(args) /\ fstate' = "filling"
                       \/ \E r \in Nat : args' = <<r>> \o Tail(args) /\ fstate' = "full"
<1> DEFINE arg   == Head(args)
           rest  == Tail(args)
           l     == limit - ARG_LEN_LEN
           next  == next_arg_fragment(arg, l)
           taken == IF next.fragment = << >> THEN 0 ELSE next.fragment[1]
<1>1. /\ fstate = "filling" /\ args # << >> /\ UNCHANGED <<input, frames>>
      /\ args \in Seq(Nat) /\ frame \in Seq(Nat) /\ limit \in Int
  BY DEF FillArg, FragInv, FragTypeOK
<1>2. /\ arg \in Nat /\ rest \in Seq(Nat) /\ l \in Int
      /\ args = <<arg>> \o rest
  <2>1. l \in Int
    BY <1>1 DEF ARG_LEN_LEN
  <2> QED
    BY <1>1, <2>1, HeadTailProperties
<1>3. /\ frame' = frame \o next.fragment
      /\ args' = PushFront(next.status, arg, taken) \o rest
      /\ fstate' = IF next.status = "Complete" THEN "filling" ELSE "full"
  BY DEF FillArg
<1>4. PICK n : n = next
  OBVIOUS
<1>5. frame = << >> => l > 0
  <2>1. frame = << >> => limit > ARG_LEN_LEN
    BY <1>1 DEF FragInv, FillingInv
  <2> QED
    BY <1>1, <2>1 DEF ARG_LEN_LEN
<1>6. \/ /\ n.status = "Complete" /\ n.fragment = <<arg>>
      \/ /\ n.status = "Incomplete" /\ n.fragment = << >>
      \/ /\ n.status = "Incomplete" /\ n.fragment = <<l>> /\ l >= 0 /\ arg > l
      \/ /\ n.status = "CompleteAtTheEnd" /\ n.fragment = <<arg>>
  BY <1>2, <1>4, NextArgFragment
<1>7. CASE n.status = "Complete" /\ n.fragment = <<arg>>
  <2>1. frame' = frame \o <<arg>> /\ args' = << >> \o rest /\ fstate' = "filling"
    BY <1>3, <1>4, <1>7 DEF PushFront
  <2>2. args' = rest
    BY <1>2, <2>1, ConcatEmptySeq
  <2> QED
    BY <1>1, <1>2, <2>1, <2>2
<1>8. CASE n.status = "Incomplete" /\ n.fragment = << >>
  <2>1. taken = 0
    BY <1>4, <1>8
  <2>2. frame' = frame \o << >> /\ args' = <<arg - 0>> \o rest /\ fstate' = "full"
    BY <1>3, <1>4, <1>8, <2>1 DEF PushFront
  <2>3. arg - 0 = arg
    BY <1>2
  <2>4. args' = args /\ frame' = frame
    BY <1>1, <1>2, <2>2, <2>3, ConcatEmptySeq
  <2> QED
    BY <1>1, <2>2, <2>4
<1>9. CASE n.status = "Incomplete" /\ n.fragment = <<l>> /\ l >= 0 /\ arg > l
  <2>1. taken = l
    BY <1>4, <1>9, SingletonSeq
  <2>2. args' = <<arg - l>> \o rest /\ frame' = frame \o <<l>> /\ fstate' = "full"
    BY <1>3, <1>4, <1>9, <2>1 DEF PushFront
  <2>3. l \in Nat /\ arg - l \in Nat /\ (frame = << >> => l # 0)
    BY <1>2, <1>5, <1>9
  <2> QED
    BY <1>1, <2>2, <2>3
<1>10. CASE n.status = "CompleteAtTheEnd" /\ n.fragment = <<arg>>
  <2>1. args' = <<0>> \o rest /\ frame' = frame \o <<arg>> /\ fstate' = "full"
    BY <1>3, <1>4, <1>10 DEF PushFront
  <2>2. 0 \in Nat
    OBVIOUS
  <2> QED
    BY <1>1, <1>2, <2>1, <2>2
<1> QED
  BY <1>6, <1>7, <1>8, <1>9, <1>10

LEMMA CutFillArg ==
    ASSUME FragInv, CutInv, FillArg
    PROVE  CutInv'
<1>1. /\ UNCHANGED <<input, frames>> /\ fstate = "filling" /\ args # << >>
      /\ \/ frame' = frame /\ args' = args /\ fstate' = "full"
         \/ \E p \in Nat :
               /\ frame' = frame \o <<p>>
               /\ \/ args' = Tail(args) /\ fstate' = "filling"
                  \/ \E r \in Nat : args' = <<r>> \o Tail(args) /\ fstate' = "full"
  BY FillArgPieces
<1>2. /\ input \in Seq(Nat) /\ Len(input) = 3 /\ args \in Seq(Nat) /\ frame \in Seq(Nat)
      /\ Tail(args) \in Suffixes(input) /\ Tail(args) \in Seq(Nat)
  BY <1>1 DEF FragInv, FragTypeOK, CutInv
<1>3. CASE frame' = frame /\ args' = args /\ fstate' = "full"
  BY <1>1, <1>3 DEF CutInv
<1>4. CASE args' = Tail(args) /\ fstate' = "filling" /\ \E p \in Nat : frame' = frame \o <<p>>
  <2>1. PICK p \in Nat : frame' = frame \o <<p>>
    BY <1>4
  <2>2. frame' # << >>
    BY <1>2, <2>1
  <2>3. args' \in Suffixes(input')
    BY <1>1, <1>2, <1>4
  <2>4. args' # << >> => Tail(args') \in Suffixes(input')
    BY <1>1, <1>2, <1>4, SuffixTail
  <2> QED
    BY <1>4, <2>2, <2>3, <2>4 DEF CutInv
<1>5. CASE \E r \in Nat : args' = <<r>> \o Tail(args) /\ fstate' = "full"
  <2>1. PICK r \in Nat : args' = <<r>> \o Tail(args) /\ fstate' = "full"
    BY <1>5
  <2>2. Tail(args') = Tail(args)
    <3>1. PICK t \in Seq(Nat) : t = Tail(args)
      BY <1>2
    <3>2. Tail(<<r>> \o t) = t
      OBVIOUS
    <3> QED
      BY <2>1, <3>1, <3>2
  <2>3. Tail(args') \in Suffixes(input')
    BY <1>1, <1>2, <2>2
  <2> QED
    BY <2>1, <2>3 DEF CutInv
<1> QED
  BY <1>1, <1>3, <1>4, <1>5

LEMMA AddNonempty ==
    ASSUME NEW o \in Seq(Nat), NEW f \in Seq(Nat), f # << >>
    PROVE  add(o, f) # << >>
<1>1. PICK h, t : h = Head(f) /\ t = Tail(f)
  OBVIOUS
<1>2. h \in Nat /\ t \in Seq(Nat)
  BY <1>1, HeadTailProperties
<1>3. PICK x : x = add_first_arg(o, h)
  OBVIOUS
<1>4. x \in Seq(Nat) /\ Len(x) >= 1
  <2>1. CASE h # 0 /\ o # << >>
    <3>1. x = Grow(o, h) /\ Len(Grow(o, h)) = Len(o) /\ Grow(o, h) \in Seq(Nat)
      BY <1>2, <1>3, <2>1, GrowProperties DEF add_first_arg, Grow
    <3>2. Len(o) >= 1
      BY <2>1, LenProperties, EmptySeq
    <3> QED
      BY <3>1, <3>2
  <2>2. CASE ~ (h # 0 /\ o # << >>)
    <3>1. x = Append(o, h)
      BY <1>3, <2>2 DEF add_first_arg
    <3>2. Append(o, h) \in Seq(Nat) /\ Len(Append(o, h)) = Len(o) + 1 /\ Len(o) \in Nat
      BY <1>2, AppendProperties, LenProperties
    <3> QED
      BY <3>1, <3>2
  <2> QED
    BY <2>1, <2>2
<1>5. add(o, f) = x \o t
  BY <1>1, <1>3 DEF add
<1>6. Len(x \o t) = Len(x) + Len(t) /\ Len(t) \in Nat /\ Len(x) \in Nat
  BY <1>2, <1>4, ConcatProperties, LenProperties
<1>7. Len(x \o t) # 0
  BY <1>4, <1>6
<1> QED
  BY <1>5, <1>7, EmptySeq

(* A new argument begins at the end of what there is; an argument that goes *)
(* on begins where it did.                                                  *)
LEMMA KeptAppend ==
    ASSUME NEW o \in Seq(Nat), NEW p \in Nat, Kept(o), Bytes(o) \in Ends(input),
           o = << >> /\ p = 0 => input[1] = 0
    PROVE  Kept(Append(o, p))
<1>1. PICK g : g = Append(o, p)
  OBVIOUS
<1>2. PICK l \in Nat : l = Len(o)
  BY LenProperties
<1>3. /\ g \in Seq(Nat) /\ Len(g) = l + 1 /\ g[l + 1] = p
      /\ \A i \in 1 .. l : g[i] = o[i]
  BY <1>1, <1>2, AppendProperties
<1>4. ASSUME NEW n \in Nat, n < Len(g) PROVE Sums(g)[n] \in Ends(input)
  <2>1. n <= l /\ n <= Len(g) /\ n <= Len(o) /\ \A i \in 1 .. n : g[i] = o[i]
    BY <1>2, <1>3, <1>4
  <2>2. Sums(g)[n] = Sums(o)[n]
    BY <1>3, <2>1, SumsPrefix
  <2>3. CASE n < l
    BY <1>2, <2>2, <2>3 DEF Kept
  <2>4. CASE n = l
    BY <1>2, <2>2, <2>4 DEF Bytes
  <2> QED
    BY <2>1, <2>3, <2>4
<1>5. ASSUME g[1] = 0 PROVE input[1] = 0
  <2>1. CASE l = 0
    <3>1. o = << >>
      BY <1>2, <2>1, EmptySeq
    <3>2. g[1] = p
      BY <1>3, <2>1
    <3> QED
      BY <1>5, <3>1, <3>2
  <2>2. CASE l > 0
    <3>1. g[1] = o[1] /\ o # << >>
      BY <1>2, <1>3, <2>2
    <3> QED
      BY <1>5, <3>1 DEF Kept
  <2> QED
    BY <2>1, <2>2
<1> QED
  BY <1>1, <1>4, <1>5 DEF Kept

LEMMA KeptGrow ==
    ASSUME NEW o \in Seq(Nat), o # << >>, NEW p \in Nat, p # 0, Kept(o)
    PROVE  Kept(Grow(o, p))
<1>1. PICK g : g = Grow(o, p)
  OBVIOUS
<1>2. PICK l \in Nat : l = Len(o)
  BY LenProperties
<1>3. /\ g \in Seq(Nat) /\ Len(g) = l /\ g[l] = o[l] + p
      /\ \A i \in 1 .. l - 1 : g[i] = o[i]
  BY <1>1, <1>2, GrowProperties
<1>4. l > 0 /\ o[l] \in Nat
  <2>1. l # 0
    BY <1>2, EmptySeq
  <2>2. l \in 1 .. Len(o)
    BY <1>2, <2>1
  <2> QED
    BY <2>1, <2>2, ElementOfSeq
<1>5. ASSUME NEW n \in Nat, n < Len(g) PROVE Sums(g)[n] \in Ends(input)
  <2>1. n < Len(o) /\ n <= Len(g) /\ n <= Len(o) /\ \A i \in 1 .. n : g[i] = o[i]
    BY <1>2, <1>3, <1>5
  <2>2. Sums(g)[n] = Sums(o)[n]
    BY <1>3, <2>1, SumsPrefix
  <2> QED
    BY <2>1, <2>2 DEF Kept
<1>6. ASSUME g[1] = 0 PROVE input[1] = 0
  <2>1. CASE l = 1
    BY <1>3, <1>4, <1>6, <2>1
  <2>2. CASE l > 1
    <3>1. g[1] = o[1]
      BY <1>3, <2>2
    <3> QED
      BY <1>6, <3>1 DEF Kept
  <2> QED
    BY <1>4, <2>1, <2>2
<1> QED
  BY <1>1, <1>5, <1>6 DEF Kept

LEMMA KeptNone == Kept(<< >>)
<1>1. Len(<< >>) = 0
  OBVIOUS
<1> QED
  BY <1>1 DEF Kept

(* One more piece in the frame keeps the boundaries: behind a piece that    *)
(* ends its argument the rest of the message is whole arguments, and so it  *)
(* is behind an empty piece at the beginning of a frame.                    *)
LEMMA KeptFill ==
    ASSUME FragInv, CutInv, FillArg, NEW o \in Seq(Nat), SenderBytes(Bytes(o)),
           Kept(add(o, frame)), o = << >> => frames = << >>
    PROVE  Kept(add(o, frame'))
<1>1. /\ fstate = "filling" /\ args # << >> /\ args \in Seq(Nat) /\ frame \in Seq(Nat)
      /\ input \in Seq(Nat) /\ Len(input) = 3
  BY FillArgPieces DEF FragInv, FragTypeOK
<1>2. CASE frame' = frame
  BY <1>2
<1>3. ASSUME NEW p \in Nat, frame' = frame \o <<p>>, frame = << >> /\ p = 0 => Head(args) = 0
      PROVE  Kept(add(o, frame'))
  <2>1. PICK b, f, a \in Nat : b = Bytes(o) /\ f = Bytes(frame) /\ a = Bytes(args)
    BY <1>1, SumsFirst
  <2>2. b + (f + a) = Bytes(input)
    BY <1>1, <2>1 DEF SenderBytes
  <2>3. CASE frame # << >>
    <3>1. PICK x : x = add(o, frame)
      OBVIOUS
    <3>2. x \in Seq(Nat) /\ x # << >> /\ Bytes(x) = b + f
      BY <1>1, <2>1, <2>3, <3>1, AddType, AddNonempty, BytesAdd
    <3>3. add(o, frame') = Append(x, p)
      BY <1>1, <1>3, <2>3, <3>1, AddMore
    <3>4. args \in Suffixes(input)
      BY <1>1, <2>3 DEF CutInv
    <3>5. b + f \in Nat /\ (b + f) + Bytes(args) = Bytes(input)
      BY <2>1, <2>2, SMTT(30)
    <3>6. b + f \in Ends(input)
      BY <1>1, <3>4, <3>5, SuffixBytes
    <3>7. Kept(x) /\ Bytes(x) \in Ends(input)
      BY <3>1, <3>2, <3>6
    <3> QED
      BY <3>2, <3>3, <3>7, KeptAppend
  <2>4. CASE frame = << >>
    <3>1. Kept(o) /\ frame' = <<p>> /\ f = 0
      <4>1. << >> \o <<p>> = <<p>>
        OBVIOUS
      <4> QED
        BY <1>3, <2>1, <2>4, <4>1, AddNone, BytesEmpty
    <3>2. CASE p # 0 /\ o # << >>
      <4>1. add(o, frame') = Grow(o, p)
        BY <3>1, <3>2, AddFirst
      <4> QED
        BY <3>1, <3>2, <4>1, KeptGrow
    <3>3. CASE p = 0 \/ o = << >>
      <4>1. add(o, frame') = Append(o, p)
        BY <3>1, <3>3, AddFirst
      <4>2. o = << >> /\ p = 0 => input[1] = 0
        <5>1. o = << >> => args = input
          BY <1>1, <2>4 DEF CutInv
        <5>2. Head(input) = input[1]
          BY <1>1
        <5> QED
          BY <1>3, <2>4, <5>1, <5>2
      <4>3. Bytes(o) \in Ends(input)
        <5>1. CASE o = << >>
          BY <5>1, BytesEmpty DEF Ends
        <5>2. CASE p = 0
          <6>1. Bytes(args) = Head(args) + Bytes(Tail(args)) /\ Bytes(Tail(args)) \in Nat
            BY <1>1, BytesFront
          <6>2. Head(args) = 0
            BY <1>3, <2>4, <5>2
          <6>3. b + Bytes(Tail(args)) = Bytes(input)
            BY <2>1, <2>2, <3>1, <6>1, <6>2
          <6>4. Tail(args) \in Suffixes(input)
            BY <1>1 DEF CutInv
          <6>5. b \in Ends(input)
            BY <1>1, <6>3, <6>4, SuffixBytes
          <6> QED
            BY <2>1, <6>5
        <5> QED
          BY <3>3, <5>1, <5>2
      <4> QED
        BY <3>1, <4>1, <4>2, <4>3, KeptAppend
    <3> QED
      BY <3>2, <3>3
  <2> QED
    BY <2>3, <2>4
<1> QED
  BY <1>2, <1>3, FillArgPieces

(* What add makes of the frames is determined by the frames.                *)
LEMMA PartialsUnique ==
    ASSUME FragInv, NEW D, NEW E, Partials(D), Partials(E)
    PROVE  \A n \in 0 .. Len(frames) : D[n] = E[n]
<1>1. PICK l \in Nat : l = Len(frames)
  BY PartialsType
<1>2. /\ D[0] = << >> /\ E[0] = << >>
      /\ \A n \in 1 .. l : D[n] = add(D[n - 1], frames[n].args)
      /\ \A n \in 1 .. l : E[n] = add(E[n - 1], frames[n].args)
  BY <1>1 DEF Partials
<1> DEFINE S == {n \in Nat : n <= l => D[n] = E[n]}
<1>3. 0 \in S
  BY <1>2
<1>4. ASSUME NEW n \in Nat, n \in S PROVE n + 1 \in S
  <2> SUFFICES ASSUME n + 1 <= l PROVE D[n + 1] = E[n + 1]
    OBVIOUS
  <2>1. n + 1 \in 1 .. l /\ (n + 1) - 1 = n /\ n <= l
    OBVIOUS
  <2>2. D[n] = E[n]
    BY <1>4, <2>1
  <2>3. D[n + 1] = add(D[(n + 1) - 1], frames[n + 1].args)
    BY <1>2, <2>1, Zenon
  <2>4. E[n + 1] = add(E[(n + 1) - 1], frames[n + 1].args)
    BY <1>2, <2>1, Zenon
  <2> QED
    BY <2>1, <2>2, <2>3, <2>4
<1> HIDE DEF S
<1>5. \A n \in Nat : n \in S
  BY <1>3, <1>4, SetInduction, Zenon
<1> QED
  BY <1>1, <1>5 DEF S

LEMMA BoundaryFillArg ==
    ASSUME TransferInv, BoundaryInv, FillArg
    PROVE  BoundaryInv'
<1>1. FragInv /\ CutInv /\ CutInv'
  BY CutFillArg DEF TransferInv, BoundaryInv
<1>2. UNCHANGED <<input, frames>> /\ fstate = "filling"
  BY <1>1, FillArgPieces
<1>3. ASSUME NEW D, Partials(D)'
      PROVE  /\ \A n \in 0 .. Len(frames) : Kept(D[n]) /\ (n > 0 => D[n] # << >>)
             /\ Kept(add(D[Len(frames)], frame'))
  <2>1. Partials(D)
    BY <1>2, <1>3 DEF Partials
  <2>2. /\ \A n \in 0 .. Len(frames) : Kept(D[n]) /\ (n > 0 => D[n] # << >>)
        /\ Kept(add(D[Len(frames)], frame))
    BY <1>2, <2>1 DEF BoundaryInv
  <2>3. PICK E : Flow(E)
    BY DEF TransferInv
  <2>4. Len(frames) \in Nat /\ Len(frames) \in 0 .. Len(frames) /\ D[Len(frames)] \in Seq(Nat)
    BY <1>1, <2>1, PartialsType
  <2>5. D[Len(frames)] = E[Len(frames)]
    BY <1>1, <2>1, <2>3, <2>4, PartialsUnique DEF Flow
  <2>6. PICK o \in Seq(Nat) : o = D[Len(frames)]
    BY <2>4
  <2>7. SenderBytes(Bytes(o))
    BY <2>3, <2>5, <2>6 DEF Flow
  <2>8. o = << >> => frames = << >>
    <3>1. Len(frames) > 0 => o # << >>
      BY <2>2, <2>4, <2>6
    <3>2. Len(frames) = 0 => frames = << >>
      BY <1>1, EmptySeq DEF FragInv, FragTypeOK
    <3> QED
      BY <2>4, <3>1, <3>2
  <2>9. Kept(add(o, frame'))
    BY <1>1, <2>2, <2>6, <2>7, <2>8, KeptFill
  <2> QED
    BY <2>2, <2>6, <2>9
<1>4. \A o : Kept(o)' <=> Kept(o)
  BY <1>2 DEF Kept
<1> QED
  BY <1>1, <1>2, <1>3, <1>4 DEF BoundaryInv

LEMMA BoundaryEndFrame ==
    ASSUME TransferInv, BoundaryInv, EndFrame
    PROVE  BoundaryInv'
<1>1. FragInv /\ CutInv /\ FragInv'
  BY EndFrameInv DEF TransferInv, BoundaryInv
<1>2. /\ fstate \in {"filling", "full"} /\ input' = input /\ args' = args
      /\ frame \in Seq(Nat) /\ frames \in Seq([flags : Flags, args : Seq(Nat)])
  BY <1>1 DEF EndFrame, FragInv, FragTypeOK
<1>4. \A o : Kept(o)' <=> Kept(o)
  <2> SUFFICES ASSUME NEW o PROVE Kept(o)' <=> Kept(o)
    OBVIOUS
  <2> QED
    BY <1>2 DEF Kept
<1>5. CASE Encodable
  <2>1. PICK f : f = [flags |-> current_frame_flag, args |-> frame]
    OBVIOUS
  <2>2. f.args = frame /\ f \in [flags : Flags, args : Seq(Nat)] /\ frame # << >>
    BY <1>2, <1>5, <2>1 DEF Flags, current_frame_flag, Encodable
  <2>3. frames' = Append(frames, f) /\ fstate' \in {"done", "next"}
    BY <1>5, <2>1 DEF EndFrame
  <2>4. PICK l \in Nat : l = Len(frames)
    BY <1>2, LenProperties
  <2>5. /\ Len(frames') = l + 1 /\ frames'[l + 1] = f /\ frames' # << >>
        /\ \A i \in 1 .. l : frames'[i] = frames[i]
    <3>1. /\ Len(frames') = Len(frames) + 1 /\ frames'[Len(frames) + 1] = f
          /\ \A i \in 1 .. Len(frames) : frames'[i] = frames[i]
      BY <1>2, <2>2, <2>3, AppendProperties
    <3>2. Len(<< >>) = 0 /\ l + 1 # 0
      OBVIOUS
    <3> QED
      BY <2>4, <3>1, <3>2
  <2>6. CutInv'
    BY <1>1, <1>2, <2>3, <2>5 DEF CutInv
  <2>7. ASSUME NEW E, Partials(E)', NEW n \in 0 .. Len(frames')
        PROVE  Kept(E[n]) /\ (n > 0 => E[n] # << >>)
    <3>1. /\ E \in [0 .. l + 1 -> Seq(Nat)] /\ E[0] = << >>
          /\ \A k \in 1 .. l + 1 : E[k] = add(E[k - 1], frames'[k].args)
      BY <2>5, <2>7 DEF Partials
    <3>2. PICK D : D = [k \in 0 .. l |-> E[k]]
      OBVIOUS
    <3>3. \A k \in 0 .. l : D[k] = E[k] /\ E[k] \in Seq(Nat)
      BY <3>1, <3>2
    <3>4. Partials(D)
      <4>1. D \in [0 .. l -> Seq(Nat)] /\ D[0] = << >>
        BY <3>1, <3>2, <3>3
      <4>2. ASSUME NEW k \in 1 .. l PROVE D[k] = add(D[k - 1], frames[k].args)
        <5>1. k \in 1 .. l + 1 /\ k \in 0 .. l /\ k - 1 \in 0 .. l
          OBVIOUS
        <5>2. E[k] = add(E[k - 1], frames'[k].args)
          BY <3>1, <5>1
        <5> QED
          BY <2>5, <3>3, <5>1, <5>2
      <4> QED
        BY <2>4, <4>1, <4>2 DEF Partials
    <3>5. /\ \A k \in 0 .. l : Kept(D[k]) /\ (k > 0 => D[k] # << >>)
          /\ Kept(add(D[l], frame))
      BY <1>2, <2>4, <3>4 DEF BoundaryInv
    <3>6. CASE n \in 0 .. l
      BY <3>3, <3>5, <3>6
    <3>7. CASE n = l + 1
      <4>1. l + 1 \in 1 .. l + 1 /\ (l + 1) - 1 = l /\ l \in 0 .. l
        OBVIOUS
      <4>2. E[l + 1] = add(E[(l + 1) - 1], frames'[l + 1].args)
        BY <3>1, <4>1, Zenon
      <4>3. E[l + 1] = add(D[l], frame) /\ D[l] \in Seq(Nat)
        BY <2>2, <2>5, <3>3, <4>1, <4>2
      <4>4. add(D[l], frame) # << >>
        BY <1>2, <2>2, <4>3, AddNonempty
      <4> QED
        BY <3>5, <3>7, <4>3, <4>4
    <3> QED
      BY <2>5, <2>7, <3>6, <3>7
  <2> QED
    BY <1>4, <2>3, <2>6, <2>7 DEF BoundaryInv
<1>6. CASE ~Encodable
  <2>1. frames' = << >> /\ fstate' = "error" /\ Len(frames') = 0
    BY <1>6 DEF EndFrame
  <2>2. CutInv'
    BY <1>1, <1>2, <2>1 DEF CutInv
  <2>3. ASSUME NEW E, Partials(E)', NEW n \in 0 .. Len(frames')
        PROVE  Kept(E[n]) /\ ~ (n > 0)
    <3>1. n = 0 /\ E[0] = << >>
      BY <2>1, <2>3 DEF Partials
    <3> QED
      BY <3>1, KeptNone
  <2> QED
    BY <1>4, <2>1, <2>2, <2>3 DEF BoundaryInv
<1> QED
  BY <1>5, <1>6

(* The boundaries of the message are kept by every step of the transfer.    *)
THEOREM BoundaryInvariant == Spec => []BoundaryInv
<1>1. Init => BoundaryInv
  <2> SUFFICES ASSUME Init PROVE BoundaryInv
    OBVIOUS
  <2>1. /\ args = input /\ frames = << >> /\ fstate = "next" /\ Len(frames) = 0
        /\ input \in Seq(Nat) /\ Len(input) = 3
    BY FragInvInit DEF Init, FragInit, FragInv, FragTypeOK
  <2>2. CutInv
    <3>1. input \in Suffixes(input)
      BY DEF Suffixes
    <3> QED
      BY <2>1, <3>1, SuffixTail DEF CutInv
  <2>3. ASSUME NEW D, Partials(D), NEW n \in 0 .. Len(frames)
        PROVE  Kept(D[n]) /\ ~ (n > 0)
    <3>1. n = 0 /\ D[0] = << >>
      BY <2>1, <2>3 DEF Partials
    <3> QED
      BY <3>1, KeptNone
  <2> QED
    BY <2>1, <2>2, <2>3 DEF BoundaryInv
<1>2. TransferInv /\ BoundaryInv /\ [Next]_vars => BoundaryInv'
  <2> SUFFICES ASSUME TransferInv, BoundaryInv, [Next]_vars PROVE BoundaryInv'
    OBVIOUS
  <2>1. CASE BeginFrame \/ FieldsRefused
    <3>1. /\ UNCHANGED <<input, args, frames>> /\ fstate = "next"
          /\ \/ fstate' = "filling" /\ frame' = << >>
             \/ fstate' = "refused" /\ frame' = frame
      BY <2>1 DEF BeginFrame, FieldsRefused
    <3>2. CutInv'
      BY <3>1 DEF BoundaryInv, CutInv
    <3>3. \A o : Kept(o)' <=> Kept(o)
      BY <3>1 DEF Kept
    <3>4. ASSUME NEW D, Partials(D)'
          PROVE  /\ \A n \in 0 .. Len(frames) : Kept(D[n]) /\ (n > 0 => D[n] # << >>)
                 /\ fstate' \in {"filling", "full"} => Kept(add(D[Len(frames)], frame'))
      <4>1. Partials(D)
        BY <3>1, <3>4 DEF Partials
      <4>2. /\ \A n \in 0 .. Len(frames) : Kept(D[n]) /\ (n > 0 => D[n] # << >>)
            /\ Len(frames) \in 0 .. Len(frames)
        BY <4>1, PartialsType DEF BoundaryInv, TransferInv
      <4>3. fstate' \in {"filling", "full"} => frame' = << >>
        BY <3>1
      <4> QED
        BY <4>2, <4>3, AddNone
    <3> QED
      BY <3>1, <3>2, <3>3, <3>4 DEF BoundaryInv
  <2>2. CASE UNCHANGED fragVars
    <3>1. UNCHANGED <<input, args, frame, frames, fstate>>
      BY <2>2 DEF fragVars
    <3>2. CutInv'
      BY <3>1 DEF BoundaryInv, CutInv
    <3>3. \A o : Kept(o)' <=> Kept(o)
      BY <3>1 DEF Kept
    <3>4. \A D : Partials(D)' => Partials(D)
      BY <3>1 DEF Partials
    <3> QED
      BY <3>1, <3>2, <3>3, <3>4 DEF BoundaryInv
  <2> QED
    BY <2>1, <2>2, BoundaryFillArg, BoundaryEndFrame
    DEF Next, vars, Fragment, FragNext, Deliver, RequestFails, ResponseFails, SenderDropped, Read
<1> QED
  BY <1>1, <1>2, TransferInvariant, PTL DEF Spec

(* What the reader has is Kept, tight messages and closed channels included.*)
LEMMA OutKept ==
    ASSUME TransferInv, BoundaryInv
    PROVE  Kept(out)
<1>1. PICK D : Flow(D)
  BY DEF TransferInv
<1>2. FragInv /\ Partials(D) /\ ReaderInv(D)
  BY <1>1 DEF TransferInv, Flow
<1>3. CASE fstate = "done"
  <2>1. PICK n \in 0 .. Len(frames) : out = D[n]
    BY <1>2, <1>3 DEF ReaderInv, Reading
  <2> QED
    BY <1>2, <2>1 DEF BoundaryInv
<1>4. CASE fstate # "done"
  <2>1. out = << >>
    BY <1>2, <1>4 DEF ReaderInv, NotReading
  <2> QED
    BY <2>1, KeptNone
<1> QED
  BY <1>3, <1>4

(* add_first_arg may join arguments but never splits one, for every frame   *)
(* size and message, also where the reader's channel was closed half way.   *)
THEOREM ArgumentsStayWhole == Spec => []NoArgumentSplit
<1>1. TransferInv /\ BoundaryInv => NoArgumentSplit
  <2> SUFFICES ASSUME TransferInv, BoundaryInv, NEW i \in 1 .. Len(out)
               PROVE  Before(out, i) \in {Before(input, j) : j \in 1 .. 4}
    BY DEF NoArgumentSplit
  <2>1. /\ Kept(out) /\ out \in Seq(Nat) /\ Len(out) \in Nat
        /\ input \in Seq(Nat) /\ Len(input) = 3
    BY OutKept, LenProperties DEF TransferInv, TransferTypes, FragInv, FragTypeOK
  <2>2. PICK n \in Nat : n = i - 1
    BY <2>1
  <2>3. n < Len(out)
    BY <2>1, <2>2
  <2>4. Sums(out)[n] \in Ends(input)
    BY <2>1, <2>3 DEF Kept
  <2>5. /\ Before(input, 1) = 0 /\ Before(input, 2) = input[1]
        /\ Before(input, 3) = input[1] + input[2]
        /\ Before(input, 4) = input[1] + input[2] + input[3]
    <3>1. Len(input) >= 3 /\ 2 \in Nat /\ 2 < Len(input) /\ 2 + 1 = 3 /\ 4 - 1 = 3 /\ 3 - 1 = 2
          /\ 1 - 1 = 0
      BY <2>1
    <3>2. /\ Before(input, 2) = input[1] /\ Before(input, 3) = input[1] + input[2]
      BY <2>1, <3>1, BeforeArgs
    <3>3. Sums(input)[2 + 1] = Sums(input)[2] + input[2 + 1]
      BY <2>1, <3>1, SumsStep, Zenon
    <3>4. Sums(input)[0] = 0
      BY <2>1, SumsFirst
    <3>5. Sums(input)[2] = Before(input, 3)
      BY <3>1 DEF Before
    <3>6. Before(input, 4) = Before(input, 3) + input[3]
      BY <3>1, <3>3, <3>5 DEF Before
    <3> QED
      BY <3>1, <3>2, <3>4, <3>6 DEF Before
  <2>6. Before(out, i) = Sums(out)[n]
    BY <2>2 DEF Before
  <2>7. PICK b : b = Before(out, i)
    OBVIOUS
  <2>8. b = Before(input, 1) \/ b = Before(input, 2) \/ b = Before(input, 3) \/ b = Before(input, 4)
    BY <2>4, <2>5, <2>6, <2>7 DEF Ends
  <2>9. 1 \in 1 .. 4 /\ 2 \in 1 .. 4 /\ 3 \in 1 .. 4 /\ 4 \in 1 .. 4
    OBVIOUS
  <2>10. b \in {Before(input, j) : j \in 1 .. 4}
    BY <2>8, <2>9
  <2> QED
    BY <2>7, <2>10
<1> QED
  BY <1>1, TransferInvariant, BoundaryInvariant, PTL

(* An accepted JsonMessage is the one that was sent.  Its second and third  *)
(* argument are not empty and begin where arguments of the message do; the  *)
(* third can then only begin where the body does, and is the body, as       *)
(* from_slice takes no part of an object.  The second begins where the      *)
(* headers do, as the first is not empty unless the method name is.         *)
THEOREM JsonArrivesIntact == Spec => []JsonIntact
<1>1. Init => ArgsOf(scheme)
  BY DEF Init
<1>2. ArgsOf(scheme) /\ [Next]_vars => ArgsOf(scheme)'
  <2> SUFFICES ASSUME ArgsOf(scheme), [Next]_vars PROVE ArgsOf(scheme)'
    OBVIOUS
  <2>1. input' = input /\ scheme' = scheme
    <3>1. CASE Fragment
      BY <3>1 DEF Fragment, FragNext, BeginFrame, FillArg, EndFrame
    <3>2. CASE \/ FieldsRefused \/ Deliver \/ RequestFails \/ ResponseFails \/ SenderDropped
               \/ Read \/ UNCHANGED vars
      BY <3>2 DEF FieldsRefused, Deliver, RequestFails, ResponseFails, SenderDropped, Read, vars,
         fragVars
    <3> QED
      BY <3>1, <3>2 DEF Next
  <2> QED
    BY <2>1 DEF ArgsOf
<1>3. TransferInv /\ BoundaryInv /\ ArgsOf(scheme) => JsonIntact
  <2> SUFFICES ASSUME TransferInv, BoundaryInv, ArgsOf(scheme), JsonAccepted(out)
               PROVE  MessageOf(out) = input
    BY DEF JsonIntact
  <2>1. /\ out \in Seq(Nat) /\ input \in Seq(Nat) /\ Len(input) = 3 /\ Len(out) \in Nat
        /\ scheme = "json" /\ bytes_to_json(out, 2) /\ bytes_to_json(out, 3)
    BY LenProperties DEF TransferInv, TransferTypes, FragInv, FragTypeOK, JsonAccepted
  <2>2. /\ input[2] >= 2 /\ input[3] >= 2 /\ Len(out) >= 3 /\ out[2] >= 2 /\ out[3] >= 2
        /\ Before(out, 3) = Before(input, 3) => out[3] = input[3]
    BY <2>1 DEF ArgsOf, bytes_to_json
  <2>3. PICK x, y, z \in Nat :
           /\ x = out[1] /\ y = out[2] /\ z = out[3]
           /\ Before(out, 2) = x /\ Before(out, 3) = x + y
    BY <2>1, <2>2, BeforeArgs
  <2>4. PICK u, v, w \in Nat :
           /\ u = input[1] /\ v = input[2] /\ w = input[3]
           /\ Before(input, 2) = u /\ Before(input, 3) = u + v
    <3>1. Len(input) >= 3
      BY <2>1
    <3> QED
      BY <2>1, <3>1, BeforeArgs
  <2>5. x \in Ends(input) /\ x + y \in Ends(input) /\ (x = 0 => u = 0)
    <3>1. Kept(out) /\ out # << >>
      BY <2>1, <2>2, OutKept
    <3>2. 1 \in Nat /\ 2 \in Nat /\ 1 < Len(out) /\ 2 < Len(out) /\ 2 - 1 = 1 /\ 3 - 1 = 2
      BY <2>1, <2>2
    <3>3. Sums(out)[1] \in Ends(input) /\ Sums(out)[2] \in Ends(input)
      BY <3>1, <3>2 DEF Kept
    <3>4. Sums(out)[1] = x /\ Sums(out)[2] = x + y
      BY <2>3, <3>2 DEF Before
    <3> QED
      BY <2>3, <2>4, <3>1, <3>3, <3>4 DEF Kept
  <2>6. Bytes(out) <= Bytes(input) /\ x + y + z <= Bytes(out) /\ Bytes(input) = u + v + w
    <3>1. Bytes(out) <= Bytes(input)
      BY ConservedBytes DEF BytesConserved
    <3>2. x + y + z <= Bytes(out)
      BY <2>1, <2>2, <2>3, ThreeArgsBytes
    <3>3. Bytes(input) = u + v + w
      <4>1. Len(input) >= 3
        BY <2>1
      <4> QED
        BY <2>1, <2>4, <4>1, ThreeArgsBytes
    <3> QED
      BY <3>1, <3>2, <3>3
  <2>7. x + y + z <= u + v + w /\ y >= 2 /\ z >= 2 /\ v >= 2 /\ w >= 2
    <3>1. PICK b \in Nat : b = Bytes(out)
      BY <2>1, SumsFirst
    <3>2. x + y + z <= b /\ b <= u + v + w
      BY <2>6, <3>1
    <3>3. x + y + z <= u + v + w
      BY <3>2
    <3> QED
      BY <2>2, <2>3, <2>4, <3>3
  <2>8. /\ x = 0 \/ x = u \/ x = u + v \/ x = u + v + w
        /\ x + y = 0 \/ x + y = u \/ x + y = u + v \/ x + y = u + v + w
    BY <2>4, <2>5 DEF Ends
  <2>9. x = u /\ x + y = u + v
    BY <2>5, <2>7, <2>8
  <2>10. out[1] = input[1] /\ out[2] = input[2] /\ out[3] = input[3]
    <3>1. y = v
      BY <2>9
    <3> QED
      BY <2>2, <2>3, <2>4, <2>9, <3>1
  <2>11. \A i \in 1 .. 3 : out[i] = input[i]
    BY <2>10
  <2>12. MessageOf(out) = [i \in 1 .. 3 |-> input[i]]
    BY <2>1, <2>2, <2>11 DEF MessageOf
  <2>13. input = [i \in 1 .. 3 |-> input[i]]
    BY <2>1
  <2> QED
    BY <2>12, <2>13
<1> QED
  BY <1>1, <1>2, <1>3, TransferInvariant, BoundaryInvariant, PTL DEF Spec
=============================================================================
