-------------------------- MODULE MessageTransfer --------------------------
(***************************************************************************)
(* One message on its way: fragmented by its sender, carried in order by    *)
(* the connection, defragmented and turned into a Message by its reader.    *)
(* A request is written by SubChannel::send_internal and read by            *)
(* FrameHandler::handle_input, a response the other way round.              *)
(***************************************************************************)
EXTENDS Fragmentation, Defragmentation

CONSTANT Schemes   \* argument schemes (ArgSchemeValue), "raw" and "json"

VARIABLES
    kind,       \* "CallRequest" or "CallResponse"
    scheme,     \* the argument scheme of the message
    delivered,  \* number of the message's frames handed to frame_input
    failed      \* create_frames failed and its caller knows

vars == <<fragVars, defragVars, kind, scheme, delivered, failed>>

(* TryInto<MessageArgs> for JsonMessage: the second and the third argument  *)
(* are JSON objects, of at least two bytes; those of a RawMessage are free. *)
ArgsOf(s) == s = "json" => input[2] >= 2 /\ input[3] >= 2

Init ==
    /\ FragInit
    /\ DefragInit
    /\ kind \in {"CallRequest", "CallResponse"}
    /\ scheme \in Schemes
    /\ ArgsOf(scheme)
    /\ expected \in IF kind = "CallRequest"
                    THEN {[type |-> kind, scheme |-> "any"]}
                    ELSE [type : {kind}, scheme : Schemes]
    /\ delivered = 0
    /\ failed = FALSE

Fragment == FragNext /\ UNCHANGED <<defragVars, kind, scheme, delivered, failed>>

(* The fields of a request may be refused before anything is cut: a service *)
(* name of more than 255 bytes has no length field (encode_small_string).   *)
(* Those of a response repeat the name, which was read from such a field.   *)
FieldsRefused ==
    /\ kind = "CallRequest"
    /\ fstate = "next" /\ frames = << >>
    /\ fstate' = "refused"
    /\ UNCHANGED <<input, args, limit, frame, size, frames, tightEnds>>
    /\ UNCHANGED <<defragVars, kind, scheme, delivered, failed>>

(* The type create_frames gives the message's i-th frame.                   *)
FrameType(i) == IF i = 1 THEN kind ELSE kind \o "Continue"

(* The next frame of the message reaches the reader's channel: frames of    *)
(* one message id are sent, written, received and dispatched in order.      *)
Deliver ==
    /\ fstate = "done"
    /\ delivered < Len(frames)
    /\ input_open
    /\ delivered' = delivered + 1
    /\ frame_input' =
         Append(frame_input, [type   |-> FrameType(delivered + 1),
                              scheme |-> scheme,
                              flags  |-> frames[delivered + 1].flags,
                              args   |-> frames[delivered + 1].args])
    /\ UNCHANGED <<fragVars, input_open, expected, out, dstate, kind, scheme, failed>>

(* A request that cannot be fragmented fails in send_internal, before any   *)
(* frame is sent.                                                           *)
RequestFails ==
    /\ fstate \in {"error", "refused"}
    /\ kind = "CallRequest"
    /\ ~failed
    /\ failed' = TRUE
    /\ UNCHANGED <<fragVars, defragVars, kind, scheme, delivered>>

(* For a response that cannot be fragmented handle_input sends the error    *)
(* frame to_error_frame makes.                                              *)
ErrorFrame == [type |-> "Error", scheme |-> "any", flags |-> "NONE", args |-> << >>]

ResponseFails ==
    /\ fstate = "error"
    /\ kind = "CallResponse"
    /\ ~failed
    /\ failed' = TRUE
    /\ frame_input' = Append(frame_input, ErrorFrame)
    /\ UNCHANGED <<fragVars, input_open, expected, out, dstate, kind, scheme, delivered>>

(* The reader's Sender is dropped: on the client another call registered    *)
(* the same message id (FramesDispatcher::register overwrites).  A server   *)
(* never drops the Sender of a request it is still reading.                 *)
SenderDropped ==
    /\ kind = "CallResponse"
    /\ input_open
    /\ dstate \in {"beginning", "continuation"}
    /\ input_open' = FALSE
    /\ UNCHANGED <<fragVars, frame_input, expected, out, dstate, kind, scheme, delivered, failed>>

Read == DefragNext /\ UNCHANGED <<fragVars, kind, scheme, delivered, failed>>

Next == Fragment \/ FieldsRefused \/ Deliver \/ RequestFails \/ ResponseFails \/ SenderDropped \/ Read

Spec == Init /\ [][Next]_vars

(* create_frames is a terminating loop; frames reach a live reader and the  *)
(* reader is polled whenever its channel is not empty.                      *)
Fairness ==
    /\ WF_vars(Fragment)
    /\ WF_vars(Deliver)
    /\ WF_vars(RequestFails \/ ResponseFails)
    /\ WF_vars(Read)

FairSpec == Spec /\ Fairness

----------------------------------------------------------------------------
(* TryFrom<MessageArgs>: the first three arguments are the message, a       *)
(* missing one is empty, any other is ignored.                              *)
MessageOf(a) == [i \in 1 .. 3 |-> IF i <= Len(a) THEN a[i] ELSE 0]

(* The bytes of the first n arguments of a, for every n.                    *)
Sums(a) ==
    LET sum[n \in 0 .. Len(a)] == IF n = 0 THEN 0 ELSE sum[n - 1] + a[n]
    IN  sum

Bytes(a) == Sums(a)[Len(a)]

(* The bytes before the i-th argument.                                      *)
Before(a, i) == Sums(a)[i - 1]

(* bytes_to_json of the i-th argument may succeed.  from_slice wants one    *)
(* object, of two bytes or more, and nothing behind it.  What the bytes of  *)
(* an argument are is left open, so that any stretch of them may happen to  *)
(* be an object: the end of a method name, the inside of another object,    *)
(* several pieces joined.  Only where a written object begins it is known   *)
(* what from_slice finds: that object, and behind it something that is no   *)
(* white space, so the argument has to end with the object.                 *)
bytes_to_json(a, i) ==
    /\ i <= Len(a)
    /\ a[i] >= 2
    /\ \A j \in 2 .. 3 : Before(a, i) = Before(input, j) => a[i] = input[j]

(* TryFrom<MessageArgs> for JsonMessage may return Ok.                      *)
JsonAccepted(a) == scheme = "json" /\ bytes_to_json(a, 2) /\ bytes_to_json(a, 3)

(* Both ends of the transfer keep their types: no piece and no remainder of *)
(* an argument has a negative length, nothing is delivered that is not made.*)
TypeOK ==
    /\ FragTypeOK
    /\ out \in Seq(Nat)
    /\ dstate \in DStates
    /\ input_open \in BOOLEAN
    /\ delivered \in 0 .. Len(frames)
    /\ failed \in BOOLEAN

(* What the reader accepts is what the sender was given, unless an argument *)
(* ended within two bytes of the end of a frame or the reader's channel was *)
(* closed under it: ArgsFragmenter and ArgsDefragmenter are inverse.        *)
RoundTripUnlessTight ==
    dstate = "ok" /\ ~Tight /\ input_open => MessageOf(out) = input

(* The reader never takes bytes from nowhere: whatever it has put together  *)
(* never exceeds what the message holds, and an accepted, complete message  *)
(* has lost none.                                                           *)
BytesConserved ==
    /\ Bytes(out) <= Bytes(input)
    /\ dstate = "ok" /\ input_open => Bytes(out) = Bytes(input)

(* add_first_arg may join two arguments of the message where one is Tight,  *)
(* but neither it nor a channel that closes ever makes two arguments of     *)
(* one: each argument of the reader begins where one of the message begins, *)
(* or behind its last.                                                      *)
NoArgumentSplit ==
    \A i \in 1 .. Len(out) : Before(out, i) \in {Before(input, j) : j \in 1 .. 4}

(* A JsonMessage that is accepted is the one that was sent, whatever bytes  *)
(* its method name and its objects consist of, also where arguments were    *)
(* joined at the end of a frame and where the channel was closed half way:  *)
(* then some argument is missing, empty or ends too early or too late.      *)
JsonIntact == dstate = "ok" /\ JsonAccepted(out) => MessageOf(out) = input

(* A reader accepts only a message of the scheme it asked for, and an       *)
(* unfragmentable response is an error for it, never a message.             *)
AcceptedOnlyIfSent ==
    dstate = "ok" => fstate = "done" /\ expected.scheme \in {"any", scheme}

(* A request or response is eventually read, refused, or known by its       *)
(* sender to be unsendable: nothing in the two loops waits for ever.        *)
EventuallyRead == <>(dstate \in {"ok", "err"} \/ (failed /\ kind = "CallRequest"))

(* The three fields of a message arrive as they were sent, as the           *)
(* functional tests assert ("Header fields should match").                  *)
RoundTrip == dstate = "ok" /\ input_open => MessageOf(out) = input
=============================================================================
