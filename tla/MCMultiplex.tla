---------------------------- MODULE MCMultiplex -----------------------------
(* Instances of Multiplex for TLC.                                          *)
EXTENDS Multiplex, TLC

(* Three calls, two endpoints with a handler and one without.               *)
CONSTANTS a, b, d, echo, other, missing

TwoCalls == {a, b}
ThreeCalls == {a, b, d}
NoCalls == {}

OneFrame == [c \in Calls |-> 1]
TwoFrames == [c \in Calls |-> 2]
TwoThree == [c \in Calls |-> IF c = b THEN 3 ELSE 2]

SameEndpoint == [c \in Calls |-> echo]
OneMissing == [c \in Calls |-> IF c = d THEN missing ELSE echo]
TwoEndpoints == [c \in Calls |-> IF c = a THEN other ELSE echo]
Registered == {echo, other}

OkOnly == {"Ok"}
AnyReply == Replies
AllCalls == Calls
OnlyA == {a}
OnlyD == {d}
=============================================================================
