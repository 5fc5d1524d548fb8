--------------------------- MODULE Registry_proofs --------------------------
(***************************************************************************)
(* The double-checked maps of a TChannel agree with their users, for any    *)
(* number of users, services and addresses.                                 *)
(***************************************************************************)
EXTENDS Registry, TLAPS

(* A handler's owner holds the subchannel it is registered on.              *)
OwnersHold ==
    \A h \in handlers : /\ h.owner \in Users
                        /\ <<h.service, h.sub>> \in subHolds[h.owner]

(* Nobody was given the 0 that stands for a missing value.                  *)
SubsExist == \A u \in Users : \A p \in subHolds[u] : p[2] > 0
PoolsExist == \A u \in Users : \A p \in poolHolds[u] : p[2] > 0

SubInv == Subs!LazyTypeOK /\ Subs!Agreement /\ SubsExist /\ OwnersHold

(* Values are numbered in the order of their creation, so a new one is in   *)
(* the map under no other key.                                              *)
PoolInv ==
    /\ Pools!LazyTypeOK
    /\ Pools!Agreement
    /\ PoolsExist
    /\ \A a \in Addrs : pools[a] <= poolCreated
    /\ Pools!Distinct

LEMMA SubInit == Init => SubInv
  BY DEF Init, Subs!LazyInit, SubInv, Subs!LazyTypeOK, Subs!Agreement, SubsExist, OwnersHold

LEMMA PoolInit == Init => PoolInv
  BY DEF Init, Pools!LazyInit, PoolInv, Pools!LazyTypeOK, Pools!Agreement, PoolsExist,
     Pools!Distinct

LEMMA SubUnchanged == SubInv /\ UNCHANGED <<subVars, handlers>> => SubInv'
  BY DEF SubInv, subVars, Subs!LazyTypeOK, Subs!Agreement, SubsExist, OwnersHold

LEMMA PoolUnchanged == PoolInv /\ UNCHANGED poolVars => PoolInv'
  BY DEF PoolInv, poolVars, Pools!LazyTypeOK, Pools!Agreement, PoolsExist,
     Pools!Distinct

LEMMA SubLookup ==
    ASSUME SubInv, NEW u \in Users, subchannel(u)
    PROVE  SubInv'
<1>1. PICK s \in Services : Subs!Lookup(u, s)
  BY DEF subchannel
<1>2. UNCHANGED <<subchannels, subCreated, handlers>>
  BY <1>1 DEF subchannel, Subs!Lookup
<1> USE DEF SubInv, Subs!LazyTypeOK, Subs!Agreement, SubsExist, OwnersHold
<1>3. CASE subWants' = [subWants EXCEPT ![u] = s] /\ UNCHANGED subHolds
  BY <1>2, <1>3
<1>4. CASE /\ subchannels[s] # 0 /\ UNCHANGED subWants
           /\ subHolds' = [subHolds EXCEPT ![u] = @ \cup {<<s, subchannels[s]>>}]
  BY <1>2, <1>4
<1> QED
  BY <1>1, <1>3, <1>4 DEF Subs!Lookup, Subs!Give

LEMMA SubCreate ==
    ASSUME SubInv, NEW u \in Users, create_subchannel(u)
    PROVE  SubInv'
<1> DEFINE s == subWants[u]
<1>1. s \in Services /\ UNCHANGED handlers /\ subWants' = [subWants EXCEPT ![u] = NoKey]
  BY DEF create_subchannel, Subs!Create, SubInv, Subs!LazyTypeOK
<1>2. \/ /\ subchannels[s] # 0
         /\ subHolds' = [subHolds EXCEPT ![u] = @ \cup {<<s, subchannels[s]>>}]
         /\ UNCHANGED <<subchannels, subCreated>>
      \/ /\ subchannels[s] = 0
         /\ subchannels' = [subchannels EXCEPT ![s] = subCreated + 1]
         /\ subCreated' = subCreated + 1
         /\ subHolds' = [subHolds EXCEPT ![u] = @ \cup {<<s, subCreated + 1>>}]
  BY DEF create_subchannel, Subs!Create, Subs!Give
<1> HIDE DEF s
<1> USE DEF SubInv, Subs!LazyTypeOK, Subs!Agreement, SubsExist, OwnersHold
<1>3. CASE subchannels[s] # 0
  BY <1>1, <1>2, <1>3
<1>4. CASE subchannels[s] = 0
  BY <1>1, <1>2, <1>4
<1> QED
  BY <1>2, <1>3, <1>4

LEMMA RegisterHandler ==
    ASSUME SubInv, NEW u \in Users, register_handler(u)
    PROVE  SubInv'
<1>1. PICK p \in subHolds[u], e \in Endpoints :
        handlers' = handlers \cup
            {[service |-> p[1], sub |-> p[2], endpoint |-> e, owner |-> u]}
  BY DEF register_handler
<1>2. UNCHANGED subVars
  BY DEF register_handler
<1>3. p = <<p[1], p[2]>>
  BY DEF SubInv, Subs!LazyTypeOK
<1>4. ASSUME NEW h \in handlers'
      PROVE  h.owner \in Users /\ <<h.service, h.sub>> \in subHolds[h.owner]
  <2>1. CASE h \in handlers
    BY <2>1 DEF SubInv, OwnersHold
  <2>2. CASE h = [service |-> p[1], sub |-> p[2], endpoint |-> e, owner |-> u]
    <3>1. h.owner = u /\ h.service = p[1] /\ h.sub = p[2]
      BY <2>2
    <3> QED
      BY <1>3, <3>1
  <2> QED
    BY <1>1, <2>1, <2>2
<1>5. OwnersHold'
  BY <1>2, <1>4 DEF OwnersHold, subVars
<1> QED
  BY <1>2, <1>5 DEF SubInv, subVars, Subs!LazyTypeOK, Subs!Agreement, SubsExist

LEMMA PoolLookup ==
    ASSUME PoolInv, NEW u \in Users, get(u)
    PROVE  PoolInv'
<1>1. PICK a \in Addrs : Pools!Lookup(u, a)
  BY DEF get
<1>2. UNCHANGED <<pools, poolCreated>>
  BY <1>1 DEF Pools!Lookup
<1> USE DEF PoolInv, Pools!LazyTypeOK, Pools!Agreement, PoolsExist, Pools!Distinct
<1>3. CASE poolWants' = [poolWants EXCEPT ![u] = a] /\ UNCHANGED poolHolds
  BY <1>2, <1>3
<1>4. CASE /\ pools[a] # 0 /\ UNCHANGED poolWants
           /\ poolHolds' = [poolHolds EXCEPT ![u] = @ \cup {<<a, pools[a]>>}]
  BY <1>2, <1>4
<1> QED
  BY <1>1, <1>3, <1>4 DEF Pools!Lookup, Pools!Give

LEMMA PoolCreate ==
    ASSUME PoolInv, NEW u \in Users, create_pool(u)
    PROVE  PoolInv'
<1> DEFINE a == poolWants[u]
<1>1. a \in Addrs /\ poolWants' = [poolWants EXCEPT ![u] = NoKey]
  BY DEF create_pool, Pools!Create, Pools!CreateFails, PoolInv, Pools!LazyTypeOK
<1>2. \/ /\ pools[a] # 0
         /\ poolHolds' = [poolHolds EXCEPT ![u] = @ \cup {<<a, pools[a]>>}]
         /\ UNCHANGED <<pools, poolCreated>>
      \/ /\ pools[a] = 0
         /\ pools' = [pools EXCEPT ![a] = poolCreated + 1]
         /\ poolCreated' = poolCreated + 1
         /\ poolHolds' = [poolHolds EXCEPT ![u] = @ \cup {<<a, poolCreated + 1>>}]
      \/ UNCHANGED <<pools, poolCreated, poolHolds>>
  BY DEF create_pool, Pools!Create, Pools!CreateFails, Pools!Give
<1> HIDE DEF a
<1> USE DEF PoolInv, Pools!LazyTypeOK, Pools!Agreement, PoolsExist, Pools!Distinct
<1>3. CASE /\ pools[a] # 0
           /\ poolHolds' = [poolHolds EXCEPT ![u] = @ \cup {<<a, pools[a]>>}]
           /\ UNCHANGED <<pools, poolCreated>>
  BY <1>1, <1>3
<1>4. CASE /\ pools[a] = 0
           /\ pools' = [pools EXCEPT ![a] = poolCreated + 1]
           /\ poolCreated' = poolCreated + 1
           /\ poolHolds' = [poolHolds EXCEPT ![u] = @ \cup {<<a, poolCreated + 1>>}]
  BY <1>1, <1>4
<1>5. CASE UNCHANGED <<pools, poolCreated, poolHolds>>
  BY <1>1, <1>5
<1> QED
  BY <1>2, <1>3, <1>4, <1>5

LEMMA RegistryStep == SubInv /\ PoolInv /\ [Next]_vars => SubInv' /\ PoolInv'
<1> SUFFICES ASSUME SubInv, PoolInv, [Next]_vars PROVE SubInv' /\ PoolInv'
  OBVIOUS
<1>1. CASE UNCHANGED vars
  BY <1>1, SubUnchanged, PoolUnchanged DEF vars
<1>2. ASSUME NEW u \in Users, UserStep(u) PROVE SubInv' /\ PoolInv'
  <2>1. CASE subchannel(u)
    BY <2>1, SubLookup, PoolUnchanged DEF subchannel
  <2>2. CASE create_subchannel(u)
    BY <2>2, SubCreate, PoolUnchanged DEF create_subchannel
  <2>3. CASE get(u)
    BY <2>3, SubUnchanged, PoolLookup DEF get
  <2>4. CASE create_pool(u)
    BY <2>4, SubUnchanged, PoolCreate DEF create_pool
  <2>5. CASE register_handler(u)
    BY <2>5, RegisterHandler, PoolUnchanged DEF register_handler
  <2> QED
    BY <1>2, <2>1, <2>2, <2>3, <2>4, <2>5 DEF UserStep
<1> QED
  BY <1>1, <1>2 DEF Next

(* However the first uses of a service are interleaved, a handler is        *)
(* registered on the subchannel the server finds under that service.        *)
THEOREM HandlersAreReachable == Spec => []HandlersReachable
<1>1. SubInv => HandlersReachable
  BY DEF SubInv, OwnersHold, Subs!Agreement, HandlersReachable
<1> QED
  BY <1>1, SubInit, PoolInit, RegistryStep, PTL DEF Spec

(* All users of an address share its one pool, for any number of users and  *)
(* addresses and whichever pools could not be built.                        *)
THEOREM PoolsAreShared == Spec => []OnePoolPerAddress
<1>1. PoolInv => OnePoolPerAddress
  BY DEF PoolInv, OnePoolPerAddress
<1> QED
  BY <1>1, SubInit, PoolInit, RegistryStep, PTL DEF Spec
=============================================================================
