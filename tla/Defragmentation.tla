-------------------------- MODULE Defragmentation --------------------------
(***************************************************************************)
(* How a message is put together from the frames of one message id:         *)
(* Defragmenter::read_and_check over the channel frame_input, with the      *)
(* ArgsDefragmenter it feeds.  Lengths stand for bytes, as in Fragmentation.*)
(***************************************************************************)
EXTENDS Integers, Sequences

VARIABLES
    frame_input,  \* frames in the channel, in the order they were dispatched
    input_open,   \* some Sender of the channel still exists
    expected,     \* what the reader wants: [type, scheme]
    out,          \* ArgsDefragmenter::args
    dstate        \* where read_and_check is

defragVars == <<frame_input, input_open, expected, out, dstate>>

DStates == {"beginning", "continuation", "ok", "err"}

DefragInit ==
    /\ frame_input = << >>
    /\ input_open = TRUE
    /\ out = << >>
    /\ dstate = "beginning"

(* Seeded fault: the first piece of a frame never goes on with an argument. *)
AlwaysNewArg(sofar, frame_arg) == Append(sofar, frame_arg)

(* ArgsDefragmenter::add_first_arg: bytes at the beginning of a frame go on *)
(* with the previous argument, None starts another (empty) one.             *)
add_first_arg(sofar, frame_arg) ==
    IF frame_arg # 0 /\ sofar # << >>
    THEN [sofar EXCEPT ![Len(sofar)] = @ + frame_arg]
    ELSE Append(sofar, frame_arg)

(* Seeded fault: the arguments after the first are lost.                    *)
AddFirstOnly(sofar, frame_args) ==
    IF frame_args = << >> THEN sofar ELSE add_first_arg(sofar, Head(frame_args))

(* ArgsDefragmenter::add, the arguments after the first are new ones.       *)
add(sofar, frame_args) ==
    IF frame_args = << >>
    THEN sofar
    ELSE add_first_arg(sofar, Head(frame_args)) \o Tail(frame_args)

(* Seeded fault: the scheme is not checked.                                 *)
AnyScheme(scheme) == TRUE

(* The scheme test of read_and_check: ArgSchemeChecker::check when the      *)
(* caller asked for a message type, get_args_scheme ("any") when not.       *)
SchemeAccepted(scheme) == expected.scheme \in {"any", scheme}

(* Defragmenter::read_beginning and the tests read_and_check makes on the   *)
(* first frame.                                                             *)
ReadBeginning ==
    /\ dstate = "beginning"
    /\ frame_input # << >>
    /\ LET f == Head(frame_input)
       IN  \/ /\ f.type # expected.type
              /\ dstate' = "err"
              /\ UNCHANGED out
           \/ /\ f.type = expected.type
              /\ out' = add(out, f.args)
              /\ dstate' = IF ~SchemeAccepted(f.scheme) THEN "err"
                           ELSE IF f.flags = "MORE_FRAGMENTS_FOLLOW" THEN "continuation"
                           ELSE "ok"
    /\ frame_input' = Tail(frame_input)
    /\ UNCHANGED <<input_open, expected>>

ContinuationTypes == {"CallRequestContinue", "CallResponseContinue"}

(* Seeded fault: read_continuation does not look at the flags.              *)
ReadUntilNone ==
    /\ dstate = "continuation"
    /\ frame_input # << >>
    /\ out' = add(out, Head(frame_input).args)
    /\ frame_input' = Tail(frame_input)
    /\ UNCHANGED <<input_open, expected, dstate>>

(* One iteration of read_continuation.                                      *)
ReadContinuation ==
    /\ dstate = "continuation"
    /\ frame_input # << >>
    /\ LET f == Head(frame_input)
       IN  \/ /\ f.type \notin ContinuationTypes
              /\ dstate' = "err"
              /\ UNCHANGED out
           \/ /\ f.type \in ContinuationTypes
              /\ out' = add(out, f.args)
              /\ dstate' = IF f.flags = "MORE_FRAGMENTS_FOLLOW" THEN "continuation" ELSE "ok"
    /\ frame_input' = Tail(frame_input)
    /\ UNCHANGED <<input_open, expected>>

(* recv() returns None: before the first frame this is an error, after it   *)
(* the loop of read_continuation just ends and the message is taken as read.*)
ReadNone ==
    /\ dstate \in {"beginning", "continuation"}
    /\ frame_input = << >>
    /\ ~input_open
    /\ dstate' = IF dstate = "beginning" THEN "err" ELSE "ok"
    /\ UNCHANGED <<frame_input, input_open, expected, out>>

DefragNext == ReadBeginning \/ ReadContinuation \/ ReadNone
=============================================================================
