----------------------------- MODULE RpcService -----------------------------
(***************************************************************************)
(* What a caller of SubChannel::send is promised, without connections,      *)
(* frames or message ids: its request is handled at most once, send returns *)
(* at most once, and it returns a response only after the handler has run.  *)
(***************************************************************************)
EXTENDS Naturals

CONSTANT Calls

VARIABLES
    status,   \* what the caller sees
    handled   \* how often the call's request was given to the handler

vars == <<status, handled>>

Init ==
    /\ status = [c \in Calls |-> "idle"]
    /\ handled = [c \in Calls |-> 0]

Move(c, from, to) ==
    /\ status[c] = from
    /\ status' = [status EXCEPT ![c] = to]
    /\ UNCHANGED handled

Submit(c) == Move(c, "idle", "pending")

(* A request already on its way is also handled when its caller has gone.   *)
Handle(c) ==
    /\ status[c] \in {"pending", "abandoned"}
    /\ handled[c] = 0
    /\ handled' = [handled EXCEPT ![c] = 1]
    /\ UNCHANGED status

Answer(c) == handled[c] = 1 /\ Move(c, "pending", "answered")

Fail(c) == Move(c, "pending", "failed")

Abandon(c) == Move(c, "pending", "abandoned")

Next == \E c \in Calls : Submit(c) \/ Handle(c) \/ Answer(c) \/ Fail(c) \/ Abandon(c)

Spec == Init /\ [][Next]_vars
=============================================================================
