--------------------------- MODULE TunnelManager ---------------------------
(***************************************************************************)
(* The tunnel manager of crabport-ssh (src/crabport-ssh/src/               *)
(* crabport_tunnel.rs): Local (-L), Dynamic (-D) and Remote (-R) tunnels   *)
(* started and stopped concurrently over one SSH session (a                *)
(* CrabPortTunnel source), the reverse-forward registry they share         *)
(* (src/crabport-tunnel/src/lib.rs), the accept loops and connection tasks *)
(* they spawn, and the forwards the SSH server holds for them.             *)
(*                                                                         *)
(* A start call and the tunnel id alloc_id hands it are the same model     *)
(* value: alloc_id runs under a mutex, so ids are as unique as calls.      *)
(* Several managers may share the source: the app builds one per borrowed  *)
(* tunnel, the AI panel one of its own.                                    *)
(***************************************************************************)
EXTENDS Naturals, FiniteSets

CONSTANTS
    Starts,     \* start_local / start_dynamic / start_remote calls, one shot each
    Stops,      \* stop / stop_all calls, one shot each
    Conns,      \* clients connecting to local listeners
    Managers,   \* TunnelManager instances over the one source
    Kinds,      \* kinds of tunnel this instance starts
    Ports,      \* TCP ports; one bind address stands for all
    Ephemeral,  \* the ports a request for port 0 may be given
    Owned,      \* source: OwnedSession (TRUE) or a tab's SshBackend (FALSE)
    SharedPorts,\* callers may request a remote port that is in use
    None

ASSUME ConstantsAssumption ==
    /\ Kinds \subseteq {"Local", "Dynamic", "Remote"}
    /\ Ports \subseteq Nat \ {0}
    /\ Ephemeral \subseteq Ports
    /\ Owned \in BOOLEAN /\ SharedPorts \in BOOLEAN
    /\ None \notin Starts \cup Stops \cup Conns \cup Managers
    /\ Starts \cap Stops = {} /\ Starts \cap Conns = {} /\ Stops \cap Conns = {}

VARIABLES
    calls,      \* the start calls' own progress and arguments
    tunnels,    \* ids with an entry in a manager's map (always Active)
    connTasks,  \* per entry: the abort handles in conn_tasks
    loops,      \* accept-loop task of each Local/Dynamic tunnel
    aborted,    \* accept loops whose AbortHandle was used
    conns,      \* connection tasks
    registry,   \* ReverseForwardRegistry: port -> tunnel whose target it holds
    server,     \* SSH server: port -> tunnel it listens for
    bridges,    \* inbound forwarded channels being bridged
    stops,      \* the stop calls' progress
    slot,       \* source.handle() is Some
    parked,     \* the connect task of an OwnedSession still pins the handle
    link,       \* the SSH transport is up
    hlock       \* holder of the async mutex around the russh Handle

vars == <<calls, tunnels, connTasks, loops, aborted, conns, registry, server,
          bridges, stops, slot, parked, link, hlock>>

local  == <<connTasks, loops, aborted, conns>>
remote == <<registry, server, bridges>>
source == <<slot, parked, link>>

Phases == {"idle", "spawned", "registered", "granted", "refused", "keyed",
           "ok", "failed"}
Call == [phase : Phases, kind : Kinds \cup {None}, mgr : Managers \cup {None},
         port : Ports \cup {0}, reply : Ports \cup {0}]
Loop == [at : {"none", "listen", "got", "spawned", "dead"},
         conn : Conns \cup {None}]
Conn == [st : {"idle", "accepted", "handshake", "waiting", "opening",
               "bridged", "closed"},
         of : Starts \cup {None}]
Stop == [pc : {"idle", "next", "teardown", "cancel", "shutdown", "closing", "done"},
         mgr : Managers \cup {None},    \* of a stop_all; None for a single stop
         todo : SUBSET Starts, cur : Starts \cup {None},
         uncancelled : SUBSET Starts]   \* whose cancel_tcpip_forward failed

TypeOK ==
    /\ calls \in [Starts -> Call]
    /\ tunnels \in SUBSET {s \in Starts : calls[s].port \in Ports}
    /\ connTasks \in [Starts -> SUBSET Conns]
    /\ loops \in [Starts -> Loop]
    /\ aborted \in SUBSET Starts
    /\ conns \in [Conns -> Conn]
    /\ registry \in [Ports \cup {0} -> Starts \cup {None}]
    /\ server \in [Ports -> Starts \cup {None}]
    /\ bridges \in SUBSET [owner : Starts, target : Starts]
    /\ stops \in [Stops -> Stop]
    /\ slot \in BOOLEAN /\ parked \in BOOLEAN /\ link \in BOOLEAN
    /\ hlock \in Starts \cup Stops \cup Conns \cup {None}

Init ==
    /\ calls = [s \in Starts |-> [phase |-> "idle", kind |-> None, mgr |-> None,
                                  port |-> 0, reply |-> 0]]
    /\ tunnels = {}
    /\ connTasks = [s \in Starts |-> {}]
    /\ loops = [s \in Starts |-> [at |-> "none", conn |-> None]]
    /\ aborted = {}
    /\ conns = [c \in Conns |-> [st |-> "idle", of |-> None]]
    /\ registry = [p \in Ports \cup {0} |-> None]
    /\ server = [p \in Ports |-> None]
    /\ bridges = {}
    /\ stops = [x \in Stops |-> [pc |-> "idle", mgr |-> None, todo |-> {},
                                 cur |-> None, uncancelled |-> {}]]
    /\ slot = TRUE /\ parked = Owned /\ link = TRUE
    /\ hlock = None

-----------------------------------------------------------------------------
(* Local and Dynamic tunnels: bind, spawn the accept loop, insert the entry *)

Listening(s) == loops[s].at \in {"listen", "got", "spawned"}
PortBusy(p)  == \E t \in Starts : Listening(t) /\ calls[t].port = p
IsListener(s) == calls[s].kind \in {"Local", "Dynamic"}

\* Bind, allocate the id and spawn the loop; the entry is not there yet.
Bind(s, k, m, want) ==
    /\ calls[s].phase = "idle" /\ k \in {"Local", "Dynamic"}
    /\ \E p \in IF want = 0 THEN Ephemeral ELSE {want} :
          /\ ~PortBusy(p)
          /\ calls' = [calls EXCEPT ![s] = [phase |-> "spawned", kind |-> k,
                                            mgr |-> m, port |-> p, reply |-> 0]]
    /\ loops' = [loops EXCEPT ![s].at = "listen"]
    /\ UNCHANGED <<tunnels, connTasks, aborted, conns, remote, stops, source, hlock>>

BindFails(s, k, m) ==
    /\ calls[s].phase = "idle" /\ k \in {"Local", "Dynamic"}
    /\ calls' = [calls EXCEPT ![s] = [phase |-> "failed", kind |-> k, mgr |-> m,
                                      port |-> 0, reply |-> 0]]
    /\ UNCHANGED <<tunnels, local, remote, stops, source, hlock>>

\* The last step of every start: the entry goes in, Active, and the id out.
InsertEntry(s) ==
    /\ calls[s].phase \in {"spawned", "keyed"}
    /\ calls' = [calls EXCEPT ![s].phase = "ok"]
    /\ tunnels' = tunnels \cup {s}
    /\ UNCHANGED <<local, remote, stops, source, hlock>>

-----------------------------------------------------------------------------
(* The accept loop *)

\* An aborted task is never polled again once parked in accept().
Accept(s, c) ==
    /\ loops[s].at = "listen" /\ s \notin aborted
    /\ conns[c].st = "idle"
    /\ conns' = [conns EXCEPT ![c] = [st |-> "accepted", of |-> s]]
    /\ loops' = [loops EXCEPT ![s] = [at |-> "got", conn |-> c]]
    /\ UNCHANGED <<calls, tunnels, connTasks, aborted, remote, stops, source, hlock>>

\* source.handle(): no session drops the stream, else the task is spawned.
SpawnConn(s) ==
    LET c == loops[s].conn IN
    /\ loops[s].at = "got"
    /\ IF slot
         THEN /\ loops' = [loops EXCEPT ![s].at = "spawned"]
              /\ conns' = [conns EXCEPT ![c].st =
                              IF calls[s].kind = "Dynamic" THEN "handshake" ELSE "waiting"]
         ELSE /\ loops' = [loops EXCEPT ![s] = [at |-> "listen", conn |-> None]]
              /\ conns' = [conns EXCEPT ![c].st = "closed"]
    /\ UNCHANGED <<calls, tunnels, connTasks, aborted, remote, stops, source, hlock>>

\* The abort handle is kept only if the entry is in the map at this moment.
RegisterConn(s) ==
    /\ loops[s].at = "spawned"
    /\ connTasks' = IF s \in tunnels
                      THEN [connTasks EXCEPT ![s] = @ \cup {loops[s].conn}]
                      ELSE connTasks
    /\ loops' = [loops EXCEPT ![s] = [at |-> "listen", conn |-> None]]
    /\ UNCHANGED <<calls, tunnels, aborted, conns, remote, stops, source, hlock>>

\* An abort takes effect at an await: in accept() or in source.handle().
LoopDies(s) ==
    /\ s \in aborted /\ loops[s].at \in {"listen", "got"}
    /\ loops' = [loops EXCEPT ![s] = [at |-> "dead", conn |-> None]]
    /\ conns' = IF loops[s].at = "got"
                  THEN [conns EXCEPT ![loops[s].conn].st = "closed"] ELSE conns
    /\ UNCHANGED <<calls, tunnels, connTasks, aborted, remote, stops, source, hlock>>

-----------------------------------------------------------------------------
(* Connection tasks *)

Socks5Handshake(c) ==
    /\ conns[c].st = "handshake"
    /\ \E r \in {"waiting", "closed"} : conns' = [conns EXCEPT ![c].st = r]
    /\ UNCHANGED <<calls, tunnels, connTasks, loops, aborted, remote, stops, source, hlock>>

OpenDirect(c) ==
    /\ conns[c].st = "waiting" /\ hlock = None
    /\ conns' = [conns EXCEPT ![c].st = "opening"]
    /\ hlock' = c
    /\ UNCHANGED <<calls, tunnels, connTasks, loops, aborted, remote, stops, source>>

OpenDirectReply(c) ==
    /\ conns[c].st = "opening"
    /\ \E r \in (IF link THEN {"bridged"} ELSE {}) \cup {"closed"} :
          conns' = [conns EXCEPT ![c].st = r]
    /\ hlock' = None
    /\ UNCHANGED <<calls, tunnels, connTasks, loops, aborted, remote, stops, source>>

BridgeEof(c) ==
    /\ conns[c].st = "bridged"
    /\ conns' = [conns EXCEPT ![c].st = "closed"]
    /\ UNCHANGED <<calls, tunnels, connTasks, loops, aborted, remote, stops, source, hlock>>

-----------------------------------------------------------------------------
(* Remote tunnels: pre-register, ask the server, re-key, insert *)

\* s is a remote tunnel that a start, an entry or a stop still works on.
RemoteInUse(s) ==
    /\ calls[s].kind = "Remote"
    /\ \/ calls[s].phase \in {"registered", "granted", "refused", "keyed"}
       \/ s \in tunnels
       \/ \E x \in Stops : stops[x].cur = s

\* The discipline of callers that never ask for a remote port twice.
MayRequest(p) ==
    SharedPorts \/ p = 0
    \/ (p \notin Ephemeral /\ \A t \in Starts : RemoteInUse(t) => calls[t].port # p)

RemoteNoSession(s, m) ==
    /\ calls[s].phase = "idle" /\ ~slot
    /\ calls' = [calls EXCEPT ![s] = [phase |-> "failed", kind |-> "Remote", mgr |-> m,
                                      port |-> 0, reply |-> 0]]
    /\ UNCHANGED <<tunnels, local, remote, stops, source, hlock>>

PreRegister(s, m, want) ==
    /\ calls[s].phase = "idle" /\ slot /\ MayRequest(want)
    /\ registry' = [registry EXCEPT ![want] = s]
    /\ calls' = [calls EXCEPT ![s] = [phase |-> "registered", kind |-> "Remote",
                                      mgr |-> m, port |-> want, reply |-> 0]]
    /\ UNCHANGED <<tunnels, local, server, bridges, stops, source, hlock>>

\* tcpip_forward, granted, the handle's guard still held.
ForwardGranted(s) ==
    LET want == calls[s].port IN
    /\ calls[s].phase = "registered" /\ hlock = None /\ link
    /\ \E p \in IF want = 0 THEN Ephemeral ELSE {want} :
          /\ server[p] = None
          /\ server' = [server EXCEPT ![p] = s]
          /\ calls' = [calls EXCEPT ![s].phase = "granted",
                                    ![s].reply = IF want = 0 THEN p ELSE 0]
    /\ hlock' = s
    /\ UNCHANGED <<tunnels, local, registry, bridges, stops, source>>

ForwardRefused(s) ==
    /\ calls[s].phase = "registered" /\ hlock = None
    /\ calls' = [calls EXCEPT ![s].phase = "refused"]
    /\ hlock' = s
    /\ UNCHANGED <<tunnels, local, remote, stops, source>>

\* Slip: the failed start leaves with the guard.
RollbackHoldingGuard(s) ==
    /\ calls[s].phase = "refused"
    /\ registry' = [registry EXCEPT ![calls[s].port] = None]
    /\ calls' = [calls EXCEPT ![s].phase = "failed"]
    /\ UNCHANGED <<tunnels, local, server, bridges, stops, source, hlock>>

\* map_err, still under the handle's mutex: drop the pre-registration.
Rollback(s) ==
    /\ calls[s].phase = "refused"
    /\ registry' = [registry EXCEPT ![calls[s].port] = None]
    /\ calls' = [calls EXCEPT ![s].phase = "failed"]
    /\ hlock' = None
    /\ UNCHANGED <<tunnels, local, server, bridges, stops, source>>

\* The block around tcpip_forward ends: the guard goes before the re-keying.
DropGuard(s) ==
    /\ calls[s].phase = "granted" /\ hlock = s
    /\ hlock' = None
    /\ UNCHANGED <<calls, tunnels, local, remote, stops, source>>

\* Slip: the reply taken at its word.
ReplyPort(want, reply) == reply

\* A fixed port is acknowledged with 0, which stands for the port asked for.
BoundPort(want, reply) == IF reply = 0 /\ want # 0 THEN want ELSE reply

Rekey(s) ==
    LET want  == calls[s].port
        bound == BoundPort(want, calls[s].reply)
    IN
    /\ calls[s].phase = "granted" /\ hlock # s
    /\ registry' = IF bound = want THEN registry
                   ELSE [registry EXCEPT ![want] = None, ![bound] = s]
    /\ calls' = [calls EXCEPT ![s].phase = "keyed", ![s].port = bound]
    /\ UNCHANGED <<tunnels, local, server, bridges, stops, source, hlock>>

\* server_channel_open_forwarded_tcpip: bridge to the registered target.
ForwardedTcpip(p) ==
    /\ link /\ server[p] # None /\ registry[p] # None
    /\ bridges' = bridges \cup {[owner |-> server[p], target |-> registry[p]]}
    /\ UNCHANGED <<calls, tunnels, local, registry, server, stops, source, hlock>>

-----------------------------------------------------------------------------
(* stop and stop_all *)

StopOne(x, s) ==
    /\ stops[x].pc = "idle" /\ calls[s].phase = "ok"
    /\ stops' = [stops EXCEPT ![x].pc = "next", ![x].todo = {s}]
    /\ UNCHANGED <<calls, tunnels, local, remote, source, hlock>>

\* stop_all works on the ids its snapshot finds.
StopAll(x, m) ==
    /\ stops[x].pc = "idle"
    /\ stops' = [stops EXCEPT ![x].pc = "next", ![x].mgr = m,
                              ![x].todo = {s \in tunnels : calls[s].mgr = m}]
    /\ UNCHANGED <<calls, tunnels, local, remote, source, hlock>>

\* Whoever removes the entry tears the tunnel down; an unknown id is a no-op.
TakeEntry(x, s) ==
    /\ stops[x].pc = "next" /\ s \in stops[x].todo
    /\ tunnels' = tunnels \ {s}
    /\ stops' = [stops EXCEPT ![x].todo = @ \ {s},
                              ![x].pc  = IF s \in tunnels THEN "teardown" ELSE @,
                              ![x].cur = IF s \in tunnels THEN s ELSE None]
    /\ UNCHANGED <<calls, local, remote, source, hlock>>

\* Slips of AbortTasks: forgetting the accept loop, or its connections.
AbortConnsOnly(x) ==
    LET s == stops[x].cur IN
    /\ stops[x].pc = "teardown" /\ IsListener(s)
    /\ conns' = [c \in Conns |-> IF c \in connTasks[s]
                                   THEN [conns[c] EXCEPT !.st = "closed"] ELSE conns[c]]
    /\ hlock' = IF hlock \in connTasks[s] THEN None ELSE hlock
    /\ stops' = [stops EXCEPT ![x].pc = "next", ![x].cur = None]
    /\ UNCHANGED <<calls, tunnels, connTasks, loops, aborted, remote, source>>

AbortLoopOnly(x) ==
    LET s == stops[x].cur IN
    /\ stops[x].pc = "teardown" /\ IsListener(s)
    /\ aborted' = aborted \cup {s}
    /\ stops' = [stops EXCEPT ![x].pc = "next", ![x].cur = None]
    /\ UNCHANGED <<calls, tunnels, connTasks, loops, conns, remote, source, hlock>>

AbortTasks(x) ==
    LET s == stops[x].cur IN
    /\ stops[x].pc = "teardown" /\ IsListener(s)
    /\ aborted' = aborted \cup {s}
    /\ conns' = [c \in Conns |-> IF c \in connTasks[s]
                                   THEN [conns[c] EXCEPT !.st = "closed"] ELSE conns[c]]
    /\ hlock' = IF hlock \in connTasks[s] THEN None ELSE hlock
    /\ stops' = [stops EXCEPT ![x].pc = "next", ![x].cur = None]
    /\ UNCHANGED <<calls, tunnels, connTasks, loops, remote, source>>

\* Slips of Unregister: no cancel after it, or the target left registered.
UnregisterOnly(x) ==
    LET s == stops[x].cur IN
    /\ stops[x].pc = "teardown" /\ ~IsListener(s)
    /\ registry' = [registry EXCEPT ![calls[s].port] = None]
    /\ stops' = [stops EXCEPT ![x].pc = "next", ![x].cur = None]
    /\ UNCHANGED <<calls, tunnels, local, server, bridges, source, hlock>>

KeepRegistered(x) ==
    /\ stops[x].pc = "teardown" /\ ~IsListener(stops[x].cur)
    /\ stops' = [stops EXCEPT ![x].pc = "cancel"]
    /\ UNCHANGED <<calls, tunnels, local, remote, source, hlock>>

Unregister(x) ==
    LET s == stops[x].cur IN
    /\ stops[x].pc = "teardown" /\ ~IsListener(s)
    /\ registry' = [registry EXCEPT ![calls[s].port] = None]
    /\ stops' = [stops EXCEPT ![x].pc = "cancel"]
    /\ UNCHANGED <<calls, tunnels, local, server, bridges, source, hlock>>

\* cancel_tcpip_forward; a failure is logged and the stop goes on.
CancelForward(x) ==
    LET s == stops[x].cur
        p == calls[s].port
    IN
    /\ stops[x].pc = "cancel"
    /\ \/ /\ slot /\ hlock = None /\ link
          /\ server' = [server EXCEPT ![p] = None]
          /\ stops' = [stops EXCEPT ![x].pc = "next", ![x].cur = None]
       \/ /\ ~slot \/ hlock = None
          /\ UNCHANGED server
          /\ stops' = [stops EXCEPT ![x].pc = "next", ![x].cur = None,
                                    ![x].uncancelled = @ \cup {s}]
    /\ UNCHANGED <<calls, tunnels, local, registry, bridges, source, hlock>>

FinishStop(x) ==
    /\ stops[x].pc = "next" /\ stops[x].todo = {}
    /\ stops' = [stops EXCEPT ![x].pc = IF stops[x].mgr = None THEN "done" ELSE "shutdown"]
    /\ UNCHANGED <<calls, tunnels, local, remote, source, hlock>>

\* source.shutdown(): a no-op on a borrowed session; an owned one takes the
\* handle out of its slot and, if it was there, says goodbye.
Shutdown(x) ==
    /\ stops[x].pc = "shutdown"
    /\ slot' = (slot /\ ~Owned)
    /\ parked' = (parked /\ (~Owned \/ slot))
    /\ stops' = [stops EXCEPT ![x].pc = IF Owned /\ slot THEN "closing" ELSE "done"]
    /\ UNCHANGED <<calls, tunnels, local, remote, link, hlock>>

\* Slip: the parked task is left alone.
DisconnectOnly(x) ==
    /\ stops[x].pc = "closing"
    /\ stops' = [stops EXCEPT ![x].pc = "done"]
    /\ \/ /\ hlock = None
          /\ link' = FALSE /\ server' = [p \in Ports |-> None]
       \/ UNCHANGED <<link, server>>
    /\ UNCHANGED <<calls, tunnels, local, registry, bridges, slot, parked, hlock>>

\* disconnect() reaches the server, or the two seconds run out; either way
\* the parked connect task is aborted and drops its clone of the handle.
Disconnect(x) ==
    /\ stops[x].pc = "closing"
    /\ parked' = FALSE
    /\ stops' = [stops EXCEPT ![x].pc = "done"]
    /\ \/ /\ hlock = None
          /\ link' = FALSE /\ server' = [p \in Ports |-> None]
       \/ UNCHANGED <<link, server>>
    /\ UNCHANGED <<calls, tunnels, local, registry, bridges, slot, hlock>>

-----------------------------------------------------------------------------
(* The transport *)

\* A clone of the Arc around the russh Handle is alive somewhere.
HandleHeld ==
    \/ slot \/ parked
    \/ \E x \in Stops : stops[x].pc = "closing"
    \/ \E s \in Starts : calls[s].phase \in {"registered", "granted", "refused", "keyed"}
    \/ \E c \in Conns : conns[c].st \in {"handshake", "waiting", "opening", "bridged"}

\* The last clone is gone: russh closes the connection, sshd its listeners.
HandleDropped ==
    /\ link /\ ~HandleHeld
    /\ link' = FALSE /\ server' = [p \in Ports |-> None]
    /\ UNCHANGED <<calls, tunnels, local, registry, bridges, stops, slot, parked, hlock>>

\* The network or the server ends the connection; the slot is not cleared.
LinkDies ==
    /\ link
    /\ link' = FALSE /\ server' = [p \in Ports |-> None]
    /\ UNCHANGED <<calls, tunnels, local, registry, bridges, stops, slot, parked, hlock>>

-----------------------------------------------------------------------------
StartStep(s) ==
    \/ InsertEntry(s) \/ ForwardGranted(s) \/ ForwardRefused(s)
    \/ Rollback(s) \/ DropGuard(s) \/ Rekey(s)
LoopStep(s) == SpawnConn(s) \/ RegisterConn(s) \/ LoopDies(s)
ConnStep(c) == Socks5Handshake(c) \/ OpenDirect(c) \/ OpenDirectReply(c)
StopStep(x) ==
    \/ \E s \in Starts : TakeEntry(x, s)
    \/ AbortTasks(x) \/ Unregister(x) \/ CancelForward(x)
    \/ FinishStop(x) \/ Shutdown(x) \/ Disconnect(x)

Next ==
    \/ \E s \in Starts, m \in Managers, k \in Kinds, want \in Ports \cup {0} :
          Bind(s, k, m, want)
    \/ \E s \in Starts, m \in Managers, k \in Kinds : BindFails(s, k, m)
    \/ "Remote" \in Kinds /\ \E s \in Starts, m \in Managers : RemoteNoSession(s, m)
    \/ "Remote" \in Kinds /\ \E s \in Starts, m \in Managers, want \in Ports \cup {0} :
          PreRegister(s, m, want)
    \/ \E s \in Starts : StartStep(s) \/ LoopStep(s)
    \/ \E s \in Starts, c \in Conns : Accept(s, c)
    \/ \E c \in Conns : ConnStep(c) \/ BridgeEof(c)
    \/ \E p \in Ports : ForwardedTcpip(p)
    \/ \E x \in Stops, s \in Starts : StopOne(x, s)
    \/ \E x \in Stops, m \in Managers : StopAll(x, m)
    \/ \E x \in Stops : StopStep(x)
    \/ HandleDropped \/ LinkDies

Spec == Init /\ [][Next]_vars

\* The runtime polls every ready task, the server answers every request (or
\* the transport dies and the request fails), and russh notices the last drop.
Fairness ==
    /\ \A s \in Starts : WF_vars(StartStep(s)) /\ WF_vars(LoopStep(s))
    /\ \A c \in Conns : WF_vars(ConnStep(c))
    /\ \A x \in Stops : WF_vars(StopStep(x))
    /\ WF_vars(HandleDropped)

FairSpec == Spec /\ Fairness
-----------------------------------------------------------------------------
(* Properties *)

TearingDown(s) == \E x \in Stops : stops[x].cur = s

\* Every accept loop that still listens belongs to an entry, to a start about
\* to insert it, or to a stop that has removed the entry and is about to abort
\* it: no interleaving of start_local, start_dynamic and stop orphans a bound
\* port.
ListenersAccounted ==
    \A s \in Starts : Listening(s) =>
        s \in tunnels \/ calls[s].phase = "spawned" \/ s \in aborted \/ TearingDown(s)

\* Every port the server listens on for us belongs to an entry, to a start
\* that has just been granted it, or to a stop about to cancel it, unless the
\* cancel itself failed: stop never forgets a -R listener.
ForwardsAccounted ==
    \A p \in Ports : server[p] # None =>
        LET s == server[p] IN
        \/ calls[s].phase \in {"granted", "keyed"} \/ s \in tunnels \/ TearingDown(s)
        \/ \E x \in Stops : s \in stops[x].uncancelled

\* A connection task whose abort handle was registered does not outlive its
\* tunnel: once the entry is gone only the stop that took it may find it alive.
RegisteredConnsDieWithTunnel ==
    \A s \in Starts : \A c \in connTasks[s] :
        conns[c].st # "closed" => s \in tunnels \/ TearingDown(s)

\* An Active remote tunnel on a live transport is one the server listens for
\* and whose inbound connections find its own target in the registry
\* (TunnelStatus::Active: "The tunnel is live and forwarding traffic").
ActiveForwards ==
    \A s \in tunnels : calls[s].kind = "Remote" /\ link =>
        \E p \in Ports : p = calls[s].port /\ server[p] = s /\ registry[p] = s

\* The weaker promise: such a tunnel's inbound connections are not dropped for
\* want of a registered target.
ActiveReachable ==
    \A s \in tunnels : calls[s].kind = "Remote" /\ link => registry[calls[s].port] # None

\* An inbound forwarded channel is bridged to the target of the tunnel whose
\* port it came in on, never to another tunnel's.
InboundToOwner ==
    \A b \in bridges : b.owner # b.target =>
        \E x \in Stops : b.owner \in stops[x].uncancelled

\* When stop_all hands over to source.shutdown(), "all tunnels are gone": none
\* of the manager's tunnels has an entry.
StopAllLeavesNone ==
    \A x \in Stops : stops[x].pc = "shutdown" =>
        \A s \in tunnels : calls[s].mgr # stops[x].mgr

\* On stop every in-flight connection of the tunnel is torn down: once the
\* stop has returned no connection of the tunnel is still bridged.
StoppedHasNoBridge ==
    \A c \in Conns : conns[c].st = "bridged" =>
        LET s == conns[c].of IN
        s \in tunnels \/ calls[s].phase = "spawned" \/ TearingDown(s)

\* The vector of abort handles is bounded by the number of live connections.
ConnTasksBounded ==
    \A s \in Starts :
        Cardinality(connTasks[s]) <=
            Cardinality({c \in Conns : conns[c].of = s /\ conns[c].st # "closed"})

\* stop and stop_all return, whatever they race with: the handle's mutex is
\* always given back.
StopTerminates ==
    \A x \in Stops : stops[x].pc = "next" ~> stops[x].pc = "done"

\* After stop_all on an owned session the connection closes, which frees the
\* listeners a failed or raced cancel_tcpip_forward left on the server; only a
\* client connection still being bridged can hold it open.
ShutdownClosesTransport ==
    \A x \in Stops : (Owned /\ stops[x].mgr # None /\ stops[x].pc = "done") ~>
        ~link \/ \E c \in Conns : conns[c].st = "bridged"
=============================================================================
