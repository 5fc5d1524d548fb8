------------------------------ MODULE Registry ------------------------------
(***************************************************************************)
(* What the users of one TChannel share: its subchannels with the handlers  *)
(* registered on them, which every connection of the server looks up by     *)
(* name, and the connection pools the subchannels send through.             *)
(***************************************************************************)
EXTENDS Naturals

CONSTANTS
    Users,      \* tasks that use the TChannel
    Services,   \* names of subchannels
    Addrs,      \* addresses of peers
    Endpoints,  \* names of endpoints
    NoKey       \* neither a service nor an address

ASSUME RegistryAssumption ==
    /\ NoKey \notin Services
    /\ NoKey \notin Addrs

VARIABLES
    subchannels, subCreated, subWants, subHolds,   \* TChannel::subchannels
    pools, poolCreated, poolWants, poolHolds,      \* ConnectionPools::pools
    handlers  \* the registered handlers: service, subchannel, endpoint, owner

subVars == <<subchannels, subCreated, subWants, subHolds>>
poolVars == <<pools, poolCreated, poolWants, poolHolds>>
vars == <<subVars, poolVars, handlers>>

Subs == INSTANCE LazyMap WITH Keys <- Services, map <- subchannels, created <- subCreated,
                              wants <- subWants, holds <- subHolds
Pools == INSTANCE LazyMap WITH Keys <- Addrs, map <- pools, created <- poolCreated,
                               wants <- poolWants, holds <- poolHolds

(* A new TChannel.                                                          *)
Init == Subs!LazyInit /\ Pools!LazyInit /\ handlers = {}

(* A user does one thing at a time.                                         *)
Free(u) == subWants[u] = NoKey /\ poolWants[u] = NoKey

subchannel(u) ==
    /\ Free(u)
    /\ \E s \in Services : Subs!Lookup(u, s)
    /\ UNCHANGED <<poolVars, handlers>>

create_subchannel(u) == Subs!Create(u) /\ UNCHANGED <<poolVars, handlers>>

(* SubChannel::connect asks for the pool of the address of a send.          *)
get(u) ==
    /\ Free(u)
    /\ subHolds[u] # {}
    /\ \E a \in Addrs : Pools!Lookup(u, a)
    /\ UNCHANGED <<subVars, handlers>>

(* The lock is held while the pool is built, which may fail.                *)
create_pool(u) ==
    /\ Pools!Create(u) \/ Pools!CreateFails(u)
    /\ UNCHANGED <<subVars, handlers>>

(* register and register_async on a subchannel the user holds: an endpoint  *)
(* that has a handler keeps it and the user gets an error.                  *)
register_handler(u) ==
    /\ Free(u)
    /\ \E p \in subHolds[u], e \in Endpoints :
         /\ ~\E h \in handlers : h.sub = p[2] /\ h.endpoint = e
         /\ handlers' = handlers \cup
                {[service |-> p[1], sub |-> p[2], endpoint |-> e, owner |-> u]}
    /\ UNCHANGED <<subVars, poolVars>>

UserStep(u) ==
    \/ subchannel(u)
    \/ create_subchannel(u)
    \/ get(u)
    \/ create_pool(u)
    \/ register_handler(u)

Next == \E u \in Users : UserStep(u)

Spec == Init /\ [][Next]_vars

----------------------------------------------------------------------------
(* A handler is registered where FrameHandler::get_subchannel looks for it: *)
(* on the subchannel that is in the map under the service its owner asked   *)
(* for, however the calls that created the subchannel were interleaved.     *)
HandlersReachable == \A h \in handlers : subchannels[h.service] = h.sub

(* All users of an address share one pool, so that max_connections bounds   *)
(* the connections to the address, and no two addresses share one.          *)
OnePoolPerAddress == Pools!Agreement /\ Pools!Distinct
=============================================================================
