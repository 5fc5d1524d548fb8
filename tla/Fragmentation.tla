--------------------------- MODULE Fragmentation ---------------------------
(***************************************************************************)
(* How a message is cut into frames: Fragmenter::create_frames, with the   *)
(* ArgsFragmenter it drives and the check encode_args makes on each frame.  *)
(*                                                                         *)
(* An argument is modelled by the number of its bytes.  Fragmentation never *)
(* reorders bytes, so the lengths of the pieces determine their content.    *)
(* A frame argument is a piece of an argument; 0 stands for None, which is  *)
(* what the code stores for a piece without bytes.                          *)
(*                                                                         *)
(* create_frames contains no await: the interleaving of its steps with      *)
(* anything else does not matter.  It is cut into steps (one frame begun,   *)
(* one argument taken, one frame encoded) so that no recursion is needed.   *)
(***************************************************************************)
EXTENDS Integers, Sequences

CONSTANTS
    FRAME_MAX_LENGTH,  \* frames/mod.rs: u16::MAX - 1
    FieldsLen,         \* length of the encoded call fields of the first frame
    ArgLens            \* the lengths an argument of a message may have

FRAME_HEADER_LENGTH == 16
ARG_LEN_LEN == 2
MAX_FRAME_ARGS == 3

(* checksum_len(ChecksumType::None), the only type that is implemented.     *)
checksum_len == 1

(* A first frame has room for its fields and for one byte of an argument.   *)
(* The code compares lengths as i32; arguments beyond 2 GiB are left out.   *)
ASSUME FragmentationAssumption ==
    /\ FieldsLen \in Nat
    /\ FRAME_MAX_LENGTH \in Nat
    /\ FRAME_MAX_LENGTH > FRAME_HEADER_LENGTH + 1 + FieldsLen + checksum_len + ARG_LEN_LEN
    /\ ArgLens \subseteq Nat

MaxPayload == FRAME_MAX_LENGTH - FRAME_HEADER_LENGTH

VARIABLES
    input,   \* the arguments of the message, as given to Fragmenter::new
    args,    \* ArgsFragmenter::args, what is still to be fragmented
    limit,   \* payload_limit, the room left in the frame being filled
    frame,   \* frame_args of the frame being filled
    size,    \* bytes of the frame's payload once frame is encoded
    frames,  \* the frames created so far
    fstate,  \* where create_frames is
    tightEnds  \* history: how many arguments, other than the message's last,
               \* ended where the frame had no room for one more length field

fragVars == <<input, args, limit, frame, size, frames, fstate, tightEnds>>

(* "error" is an error of encode_args, "refused" one of the fields.         *)
FStates == {"next", "filling", "full", "done", "error", "refused"}

FragInit ==
    /\ \E arg1, arg2, arg3 \in ArgLens : input = <<arg1, arg2, arg3>>
    /\ args = input
    /\ limit = 0
    /\ frame = << >>
    /\ size = 0
    /\ frames = << >>
    /\ fstate = "next"
    /\ tightEnds = 0

(* Seeded fault: the byte of the flags is forgotten.                        *)
LimitWithoutFlags(fields_len) == FRAME_MAX_LENGTH - FRAME_HEADER_LENGTH - fields_len

calculate_payload_limit(fields_len) ==
    FRAME_MAX_LENGTH - FRAME_HEADER_LENGTH - 1 - fields_len

(* Only the first frame, the call frame, carries the fields.                *)
CurrentFieldsLen == IF frames = << >> THEN FieldsLen ELSE 0

(* A new frame: flags, fields and checksum type are set aside, the rest is  *)
(* for the arguments.                                                       *)
BeginFrame ==
    /\ fstate = "next"
    /\ limit' = calculate_payload_limit(CurrentFieldsLen) - checksum_len
    /\ size' = 1 + CurrentFieldsLen + checksum_len
    /\ frame' = << >>
    /\ fstate' = "filling"
    /\ UNCHANGED <<input, args, frames, tightEnds>>

(* The piece of arg that fits in payload_limit bytes.  An Option<Bytes> is  *)
(* a sequence of at most one length.                                        *)
next_arg_fragment(arg, payload_limit) ==
    IF arg = 0 THEN
        [status |-> "Complete", fragment |-> <<0>>]
    ELSE IF payload_limit < 0 THEN
        [status |-> "Incomplete", fragment |-> << >>]
    ELSE IF arg > payload_limit THEN
        [status |-> "Incomplete", fragment |-> <<payload_limit>>]
    ELSE IF arg = payload_limit THEN
        [status |-> "CompleteAtTheEnd", fragment |-> <<arg>>]
    ELSE
        [status |-> "Complete", fragment |-> <<arg>>]

(* Seeded fault: the length field is taken off the argument as well.        *)
PushFrontTooShort(status, arg, taken) ==
    IF status = "Complete" THEN << >>
    ELSE IF status = "CompleteAtTheEnd" THEN <<0>>
    ELSE <<arg - taken - ARG_LEN_LEN>>

(* What replaces the popped argument at the front of ArgsFragmenter::args.  *)
PushFront(status, arg, taken) ==
    IF status = "Complete" THEN << >>
    ELSE IF status = "CompleteAtTheEnd" THEN <<0>>
    ELSE <<arg - taken>>

(* One iteration of the loop of ArgsFragmenter::next_frame_args_vec.        *)
FillArg ==
    /\ fstate = "filling"
    /\ args # << >>
    /\ LET arg   == Head(args)
           rest  == Tail(args)
           next  == next_arg_fragment(arg, limit - ARG_LEN_LEN)
           taken == IF next.fragment = << >> THEN 0 ELSE next.fragment[1]
       IN  /\ frame' = frame \o next.fragment
           /\ limit' = limit - ARG_LEN_LEN - taken
           /\ size' = size + ARG_LEN_LEN * Len(next.fragment) + taken
           /\ args' = PushFront(next.status, arg, taken) \o rest
           /\ fstate' = IF next.status = "Complete" THEN "filling" ELSE "full"
           /\ tightEnds' = IF /\ next.status # "Incomplete"
                              /\ limit' < ARG_LEN_LEN
                              /\ rest # << >>
                           THEN tightEnds + 1
                           ELSE tightEnds
    /\ UNCHANGED <<input, frames>>

Flags == {"NONE", "MORE_FRAGMENTS_FOLLOW"}

(* Seeded fault: the flag looks one argument too far ahead.                 *)
FlagTooEarly == IF Len(args) <= 1 THEN "NONE" ELSE "MORE_FRAGMENTS_FOLLOW"

current_frame_flag == IF args = << >> THEN "NONE" ELSE "MORE_FRAGMENTS_FOLLOW"

(* encode_args refuses no arguments, more than three, and a long payload.   *)
Encodable ==
    /\ 1 <= Len(frame) /\ Len(frame) <= MAX_FRAME_ARGS
    /\ size <= MaxPayload

(* The frame is complete: it gets its flag and is encoded.  An error of     *)
(* encode_args makes create_frames fail, and no frame is ever sent.         *)
EndFrame ==
    /\ fstate = "full" \/ (fstate = "filling" /\ args = << >>)
    /\ \/ /\ Encodable
          /\ frames' = Append(frames, [flags |-> current_frame_flag, args |-> frame])
          /\ fstate' = IF args = << >> THEN "done" ELSE "next"
       \/ /\ ~Encodable
          /\ frames' = << >>
          /\ fstate' = "error"
    /\ UNCHANGED <<input, args, limit, frame, size, tightEnds>>

FragNext == BeginFrame \/ FillArg \/ EndFrame

FragSpec == FragInit /\ [][FragNext]_fragVars

----------------------------------------------------------------------------
(* The properties of fragmentation by itself.                               *)

(* The variables of Fragmenter and ArgsFragmenter keep their types, and     *)
(* frames hold only what decode_args can read back: one to three pieces.    *)
FragTypeOK ==
    /\ input \in Seq(Nat) /\ Len(input) = 3
    /\ args \in Seq(Nat)
    /\ limit \in Int
    /\ frame \in Seq(Nat)
    /\ size \in Nat
    /\ frames \in Seq([flags : Flags, args : Seq(Nat)])
    /\ fstate \in FStates
    /\ tightEnds \in Nat

(* Some argument ended within two bytes of the end of a frame.              *)
Tight == tightEnds > 0

(* Once its fields are encoded, create_frames fails on a message            *)
(* (encode_args, "Frame too long") only if some argument of it was Tight.   *)
FailsOnlyWhenTight == fstate = "error" => Tight

(* Every frame create_frames hands out has one to three arguments and only  *)
(* the last one is not flagged MORE_FRAGMENTS_FOLLOW, so the loop of        *)
(* read_continuation consumes exactly the frames of the message.            *)
FramesWellFormed ==
    \A i \in 1 .. Len(frames) :
        /\ 1 <= Len(frames[i].args) /\ Len(frames[i].args) <= MAX_FRAME_ARGS
        /\ frames[i].flags = "MORE_FRAGMENTS_FOLLOW" <=> (i < Len(frames) \/ fstate # "done")
=============================================================================
