------------------------------ MODULE MCTunnels ------------------------------
(***************************************************************************)
(* The tunnels of one SSH session under their manager, and the app's       *)
(* registry of saved tunnels, which sees a manager only from outside.  One *)
(* of the two in each behaviour, so that they can share model values: a    *)
(* start is a start of either, a stop a job of the registry, a client a    *)
(* tab.                                                                    *)
(***************************************************************************)
EXTENDS TunnelManager, TLC

CONSTANTS Ids, HostRemovals,   \* of TunnelRegistry
          MaxBegun             \* bound: what is begun in one behaviour

VARIABLES
    part,                      \* which of the two
    used, store, configs, runtime, att, live, sessions, jobs, tabs, form, met

Registry == INSTANCE TunnelRegistry WITH Attempts <- Starts, Jobs <- Stops, Tabs <- Conns
ASSUME RegistryConstants == Registry!RegistryAssumption

registryVars == <<used, store, configs, runtime, att, live, sessions, jobs, tabs, form, met>>
allVars == <<part, vars, registryVars>>

MCInit == part \in {"manager", "registry"} /\ Init /\ Registry!Init

\* Bounds: of the stops and the clients; of the saved tunnels, those removed with
\* their hosts counted again, the jobs, and the form while it is open.
StopsAndClients ==
    Cardinality({x \in Stops : stops[x].pc # "idle"})
        + Cardinality({c \in Conns : conns[c].st # "idle"})
TunnelsAndJobs ==
    Cardinality(used) + Cardinality({i \in Ids : store[i] = None /\ configs[i] # None})
        + Cardinality({j \in Stops : jobs[j].pc # "idle"})
        + Cardinality({form} \ {None})

MCNext ==
    \/ part = "manager" /\ UNCHANGED <<part, registryVars>> /\ Next
    \/ part = "registry" /\ UNCHANGED <<part, vars>> /\ Registry!Next

MCSpec == MCInit /\ [][MCNext]_allVars

InBounds == StopsAndClients <= MaxBegun /\ TunnelsAndJobs <= MaxBegun
BoundedSpec == MCInit /\ [][MCNext /\ InBounds']_allVars

Symmetry == Permutations(Starts) \cup Permutations(Stops) \cup Permutations(Conns)
            \cup Permutations(Managers) \cup Permutations(Ids)

LiveAccounted == Registry!LiveAccounted
RunsAsSaved == Registry!RunsAsSaved
TabsTornDown == Registry!TabsTornDown
RunningIsLive == Registry!RunningIsLive
OwnedSurvivesTabs == Registry!OwnedSurvivesTabs
MCTypeOK == TypeOK /\ Registry!TypeOK
RemovedIsStopped == Registry!RemovedIsStopped
FailureClearsNothing == Registry!FailureClearsNothing

\* What the comments claim without regard to what overlaps a start.
OneSource == Registry!OneSource
NothingToClear == Registry!NothingToClear
=============================================================================
