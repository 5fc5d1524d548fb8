----------------------------- MODULE MCNetwork ------------------------------
(* Instances of Network for TLC.                                            *)
EXTENDS Network

CONSTANTS a, b

TwoSends == {a, b}
OnlyA == {a}
First == {1}
Nothing == {}

(* Without tests another implementation of the same version answers as this *)
(* crate does.                                                              *)
AllSettings == [peer : Peers \ {"other"}, testing : {"off"}]
               \cup [peer : {"rust", "other"}, testing : {"on"}]
RustPeer == [peer : {"rust"}, testing : {"on", "off"}]
=============================================================================
