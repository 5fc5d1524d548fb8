----------------------------- MODULE Lifecycle ------------------------------
(***************************************************************************)
(* The server of a TChannel: start_server and shutdown_server, which any    *)
(* thread may call, and the Server::run tasks they spawn and abort.         *)
(*                                                                         *)
(* JoinHandle::abort only asks for the task to be dropped: a task that is   *)
(* being polled goes on to its next await, and the listener it has bound is *)
(* closed when the runtime drops it.                                        *)
(***************************************************************************)
EXTENDS Integers

CONSTANT MaxServers   \* bound: how often start_server spawns a task

ASSUME LifecycleAssumption == MaxServers \in Nat

Servers == 1 .. MaxServers
None == 0

VARIABLES
    handle,   \* TChannel::server_handle, the number of a task or None
    spawned,  \* how many tasks have been spawned
    server,   \* where each Server::run is
    aborted,  \* the tasks that abort has been called on
    port,     \* the task whose listener is bound to server_address, or None
    channel   \* "alive" until the TChannel is dropped

vars == <<handle, spawned, server, aborted, port, channel>>

ServerStates == {"unborn", "starting", "listening", "ended"}

Init ==
    /\ handle = None
    /\ spawned = 0
    /\ server = [g \in Servers |-> "unborn"]
    /\ aborted = {}
    /\ port = None
    /\ channel = "alive"

(* Seeded fault: a server is started whether there is one or not.           *)
StartAlways ==
    /\ channel = "alive"
    /\ spawned < MaxServers
    /\ spawned' = spawned + 1
    /\ handle' = spawned + 1
    /\ server' = [server EXCEPT ![spawned + 1] = "starting"]
    /\ UNCHANGED <<aborted, port, channel>>

(* With a handle in place start_server is an error and changes nothing,     *)
(* whether the task of the handle still runs or not.                        *)
start_server ==
    /\ channel = "alive"
    /\ handle = None
    /\ spawned < MaxServers
    /\ spawned' = spawned + 1
    /\ handle' = spawned + 1
    /\ server' = [server EXCEPT ![spawned + 1] = "starting"]
    /\ UNCHANGED <<aborted, port, channel>>

(* Seeded fault: the handle is dropped, which detaches the task.            *)
StopByDetaching ==
    /\ handle # None
    /\ handle' = None
    /\ UNCHANGED aborted

(* The task is aborted and forgotten; without one nothing is done.          *)
StopServer ==
    /\ handle # None
    /\ aborted' = aborted \cup {handle}
    /\ handle' = None

shutdown_server ==
    /\ channel = "alive"
    /\ StopServer
    /\ UNCHANGED <<spawned, server, port, channel>>

(* Drop for TChannel shuts the server down.                                 *)
drop ==
    /\ channel = "alive"
    /\ channel' = "dropped"
    /\ \/ StopServer
       \/ handle = None /\ UNCHANGED <<handle, aborted>>
    /\ UNCHANGED <<spawned, server, port>>

(* TcpListener::bind of Server::run; its error is the result of the task,   *)
(* which nobody reads.  A poll that has begun is not stopped by abort.      *)
Bind(g) ==
    /\ server[g] = "starting"
    /\ \/ /\ port = None
          /\ port' = g
          /\ server' = [server EXCEPT ![g] = "listening"]
       \/ /\ port # None
          /\ server' = [server EXCEPT ![g] = "ended"]
          /\ UNCHANGED port
    /\ UNCHANGED <<handle, spawned, aborted, channel>>

End(g) ==
    /\ server' = [server EXCEPT ![g] = "ended"]
    /\ port' = IF port = g THEN None ELSE port
    /\ UNCHANGED <<handle, spawned, aborted, channel>>

(* An error of accept ends the loop and with it the task.                   *)
AcceptError(g) == server[g] = "listening" /\ End(g)

(* The runtime drops an aborted task, and with it the listener.             *)
DropTask(g) ==
    /\ g \in aborted
    /\ server[g] \in {"starting", "listening"}
    /\ End(g)

Next ==
    \/ start_server
    \/ shutdown_server
    \/ drop
    \/ \E g \in Servers : Bind(g) \/ AcceptError(g) \/ DropTask(g)

Spec == Init /\ [][Next]_vars

(* The runtime polls the tasks that were spawned and drops the aborted ones.*)
FairSpec == Spec /\ \A g \in Servers : WF_vars(Bind(g)) /\ WF_vars(DropTask(g))

----------------------------------------------------------------------------
LifecycleTypeOK ==
    /\ handle \in Servers \cup {None}
    /\ spawned \in 0 .. MaxServers
    /\ server \in [Servers -> ServerStates]
    /\ aborted \in SUBSET Servers
    /\ port \in Servers \cup {None}
    /\ channel \in {"alive", "dropped"}

Running(g) == server[g] \in {"starting", "listening"}

(* Every server task that has not been told to stop is the one of the       *)
(* handle, where shutdown_server and drop find it: no sequence of starts    *)
(* and stops leaves a task nobody can stop.                                 *)
NoOrphanServer == \A g \in Servers : Running(g) /\ g \notin aborted => g = handle

(* After shutdown_server, or when the TChannel is dropped, the address is   *)
(* free again some time, unless a server is started before that.  (This is  *)
(* handle = None ~> port = None \/ handle # None.)                          *)
AddressReleased == []<>(port = None \/ handle # None)

(* "Starts server task.": after start_server has returned Ok the server     *)
(* listens some time, unless it is stopped before that.                     *)
StartedServerListens ==
    \A g \in Servers : handle = g ~> port = g \/ handle # g
=============================================================================
