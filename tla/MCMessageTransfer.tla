------------------------- MODULE MCMessageTransfer -------------------------
(* Instances of MessageTransfer for TLC.                                    *)
EXTENDS MessageTransfer

(* Every length from empty to one that spans two continuation frames.       *)
SmallLens == 0 .. 11

(* Around the capacity of the frames of the code: with 56 bytes of fields a *)
(* first frame has room for an argument of 65458 bytes, a continuation      *)
(* frame for one of 65514.                                                  *)
RealLens == {0, 1, 2} \cup (65452 .. 65460) \cup (65511 .. 65516) \cup {130972}

RawAndJson == {"raw", "json"}
OnlyRaw == {"raw"}
=============================================================================
