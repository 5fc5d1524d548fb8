------------------------------ MODULE LazyMap -------------------------------
(***************************************************************************)
(* A map behind an RwLock whose values are created on first use: look the   *)
(* key up under the read lock and, if it is missing, once more under the    *)
(* write lock before a value is created.  TChannel::subchannel and          *)
(* ConnectionPools::get both work this way.                                 *)
(***************************************************************************)
EXTENDS Naturals

CONSTANTS
    Users,  \* tasks that use the map
    Keys,   \* its keys
    NoKey   \* not a key

VARIABLES
    map,      \* the value of each key, numbered from 1, or 0 if there is none
    created,  \* how many values have been created
    wants,    \* the key a user has missed under the read lock, or NoKey
    holds     \* the <<key, value>> pairs each user has been given

lazyVars == <<map, created, wants, holds>>

LazyInit ==
    /\ map = [k \in Keys |-> 0]
    /\ created = 0
    /\ wants = [u \in Users |-> NoKey]
    /\ holds = [u \in Users |-> {}]

LazyTypeOK ==
    /\ map \in [Keys -> Nat]
    /\ created \in Nat
    /\ wants \in [Users -> Keys \cup {NoKey}]
    /\ holds \in [Users -> SUBSET (Keys \X Nat)]

Give(u, k, v) == holds' = [holds EXCEPT ![u] = @ \cup {<<k, v>>}]

(* The first look, under the read lock.                                     *)
Lookup(u, k) ==
    /\ wants[u] = NoKey
    /\ \/ map[k] # 0 /\ Give(u, k, map[k]) /\ UNCHANGED wants
       \/ map[k] = 0 /\ wants' = [wants EXCEPT ![u] = k] /\ UNCHANGED holds
    /\ UNCHANGED <<map, created>>

(* Seeded fault: the key is not looked up again under the write lock.       *)
CreateUnchecked(u) ==
    /\ wants[u] # NoKey
    /\ map' = [map EXCEPT ![wants[u]] = created + 1]
    /\ created' = created + 1
    /\ Give(u, wants[u], created + 1)
    /\ wants' = [wants EXCEPT ![u] = NoKey]

(* The second look and the insertion, in one critical section.              *)
Create(u) ==
    /\ wants[u] # NoKey
    /\ \/ /\ map[wants[u]] # 0
          /\ Give(u, wants[u], map[wants[u]])
          /\ UNCHANGED <<map, created>>
       \/ /\ map[wants[u]] = 0
          /\ map' = [map EXCEPT ![wants[u]] = created + 1]
          /\ created' = created + 1
          /\ Give(u, wants[u], created + 1)
    /\ wants' = [wants EXCEPT ![u] = NoKey]

(* The value could not be made: an error for the user, nothing is inserted. *)
CreateFails(u) ==
    /\ wants[u] # NoKey
    /\ map[wants[u]] = 0
    /\ wants' = [wants EXCEPT ![u] = NoKey]
    /\ UNCHANGED <<map, created, holds>>

(* Whoever was given a value for a key has the one that is in the map.      *)
Agreement == \A u \in Users : \A p \in holds[u] : map[p[1]] = p[2]

(* No value is in the map under two keys.                                   *)
Distinct == \A k, l \in Keys : map[k] = map[l] /\ map[k] # 0 => k = l
=============================================================================
