--------------------------- MODULE TunnelRegistry ---------------------------
(***************************************************************************)
(* The app's registry of saved tunnels and the operations on it            *)
(* (src/crabport-ui/src/views/tunnels/state.rs, app/tunnels.rs and         *)
(* close_tab in app/tabs.rs): every start, stop, removal and tab closing   *)
(* is a task that works outside the UI turn that began it and comes back   *)
(* to change the registry, whatever happened to it meanwhile.              *)
(*                                                                         *)
(* A start builds a TunnelManager of its own, so one model value is both   *)
(* the start and its manager.  The manager is seen from outside: it holds  *)
(* its one tunnel (live) or none, and stop_all empties it.                 *)
(***************************************************************************)
EXTENDS Naturals, FiniteSets

CONSTANTS
    Ids,           \* tunnel ids the store hands out (AUTOINCREMENT: never twice)
    Tabs,          \* SSH terminal tabs open at first
    Attempts,      \* starts, one shot each
    Jobs,          \* stops, removals and tab closings, one shot each
    Ports,         \* addresses a tunnel can be saved with
    Ephemeral,     \* those any number of tunnels may hold: port 0, -R on servers apart
    HostRemovals,  \* hosts are removed with their tunnels
    None

RegistryAssumption ==
    /\ Ephemeral \subseteq Ports /\ HostRemovals \in BOOLEAN
    /\ None \notin Ids \cup Tabs \cup Attempts \cup Jobs \cup Ports
    /\ None \notin {"stop", "remove", "tab"}

VARIABLES
    used,      \* ids the store has ever handed out
    store,     \* rows of the tunnels table: id -> address
    configs,   \* TunnelState.config, id -> address
    runtime,   \* TunnelState.runtime, id -> the start whose manager it holds
    att,       \* the starts
    live,      \* managers holding their tunnel
    sessions,  \* owned SSH connections that are up
    jobs,      \* the stops, removals and tab closings
    tabs,      \* open terminal tabs
    form,      \* the tunnel the edit form is open for
    met        \* what each start overlapped with; history, no step looks at it

vars == <<used, store, configs, runtime, att, live, sessions, jobs, tabs, form, met>>
saved == <<used, store, configs, form>>

Attempt == [pc : {"idle", "connecting", "starting", "started", "failed", "over"},
            id : Ids \cup {None}, tab : Tabs \cup {None}, port : Ports \cup {None}]
Job == [pc : {"idle", "snapshot", "stopping", "row", "done"},
        kind : {"stop", "remove", "tab", None},
        id : Ids \cup {None}, tab : Tabs \cup {None}, todo : SUBSET Attempts]

TypeOK ==
    /\ used \in SUBSET Ids
    /\ store \in [Ids -> Ports \cup {None}] /\ configs \in [Ids -> Ports \cup {None}]
    /\ runtime \in {r \in [Ids -> Attempts \cup {None}] :
                       \A i \in Ids : configs[i] = None => r[i] = None}
    /\ att \in [Attempts -> Attempt]
    /\ live \in SUBSET Attempts /\ sessions \in SUBSET Attempts
    /\ jobs \in [Jobs -> Job]
    /\ tabs \in SUBSET Tabs /\ form \in Ids \cup {None}
    /\ met \in [Attempts -> SUBSET {"start", "job", "form"}]

Init ==
    /\ used = {} /\ store = [i \in Ids |-> None] /\ configs = store
    /\ runtime = [i \in Ids |-> None]
    /\ att = [a \in Attempts |-> [pc |-> "idle", id |-> None, tab |-> None, port |-> None]]
    /\ live = {} /\ sessions = {}
    /\ jobs = [j \in Jobs |-> [pc |-> "idle", kind |-> None, id |-> None,
                               tab |-> None, todo |-> {}]]
    /\ tabs = Tabs /\ form = None
    /\ met = [a \in Attempts |-> {}]

-----------------------------------------------------------------------------
Pending(a) == att[a].pc \in {"connecting", "starting", "started", "failed"}
Running(j) == jobs[j].pc \notin {"idle", "done"}

\* Slip: nothing counts as running.
NeverRunning(i) == FALSE

is_running(i) == runtime[i] # None

\* i's runtime is one that tab t lent its session for.
LentBy(t, i) == runtime[i] # None /\ att[runtime[i]].tab = t

\* The starts under way of tunnel i, and those on the session of tab t.
StartsOf(i) == {a \in Attempts : Pending(a) /\ att[a].id = i}
StartsOn(t) == {a \in Attempts : Pending(a) /\ att[a].tab = t}

\* The starts in S are overlapped by a start, a job or the form.
Meet(S, what) == [a \in Attempts |-> IF a \in S THEN met[a] \cup {what} ELSE met[a]]

\* What a start that begins on i overlaps with.
MetBy(i) ==
    (IF StartsOf(i) # {} THEN {"start"} ELSE {})
    \cup (IF \E j \in Jobs : Running(j) /\ jobs[j].id = i THEN {"job"} ELSE {})
    \cup (IF form = i THEN {"form"} ELSE {})

-----------------------------------------------------------------------------
(* The saved configs *)

\* save_tunnel for a new tunnel: the row, then the registry's copy.
Create(i, p) ==
    /\ i \notin used
    /\ used' = used \cup {i}
    /\ store' = [store EXCEPT ![i] = p] /\ configs' = [configs EXCEPT ![i] = p]
    /\ UNCHANGED <<runtime, att, live, sessions, jobs, tabs, form, met>>

\* The form opens on a stopped tunnel, which may be about to run; nothing keeps
\* it from being started while the form is open.
OpenEdit(i) ==
    /\ form = None /\ ~is_running(i) /\ store[i] # None
    /\ form' = i /\ met' = Meet(StartsOf(i), "form")
    /\ UNCHANGED <<used, store, configs, runtime, att, live, sessions, jobs, tabs>>

\* save_tunnel for an edit updates the row and the copy if they still exist.
SaveEdit(p) ==
    /\ form # None
    /\ store'   = IF store[form] = None THEN store ELSE [store EXCEPT ![form] = p]
    /\ configs' = IF configs[form] = None THEN configs ELSE [configs EXCEPT ![form] = p]
    /\ form' = None
    /\ UNCHANGED <<used, runtime, att, live, sessions, jobs, tabs, met>>

CloseForm ==
    /\ form # None /\ form' = None
    /\ UNCHANGED <<used, store, configs, runtime, att, live, sessions, jobs, tabs, met>>

\* remove_host: the foreign key deletes the rows of the host's tunnels.
RemoveHost(i) ==
    /\ HostRemovals /\ store[i] # None
    /\ store' = [store EXCEPT ![i] = None]
    /\ UNCHANGED <<used, configs, runtime, att, live, sessions, jobs, tabs, form, met>>

-----------------------------------------------------------------------------
(* Starts *)

StartOwned(a, i) ==
    /\ att[a].pc = "idle" /\ ~is_running(i) /\ store[i] # None
    /\ att' = [att EXCEPT ![a] = [pc |-> "connecting", id |-> i, tab |-> None,
                                  port |-> store[i]]]
    /\ met' = [Meet(StartsOf(i), "start") EXCEPT ![a] = MetBy(i)]
    /\ UNCHANGED <<saved, runtime, live, sessions, jobs, tabs>>

StartBorrowed(a, i, t) ==
    /\ att[a].pc = "idle" /\ ~is_running(i) /\ store[i] # None
    /\ t \in tabs
    /\ att' = [att EXCEPT ![a] = [pc |-> "starting", id |-> i, tab |-> t,
                                  port |-> store[i]]]
    /\ met' = [Meet(StartsOf(i), "start") EXCEPT ![a] = MetBy(i)]
    /\ UNCHANGED <<saved, runtime, live, sessions, jobs, tabs>>

\* OwnedSession::connect.
Connect(a) ==
    /\ att[a].pc = "connecting"
    /\ \/ /\ sessions' = sessions \cup {a}
          /\ att' = [att EXCEPT ![a].pc = "starting"]
       \/ /\ att' = [att EXCEPT ![a].pc = "failed"]
          /\ UNCHANGED sessions
    /\ UNCHANGED <<saved, runtime, live, jobs, tabs, met>>

\* The manager's start: the address is claimed.
StartSucceeds(a) ==
    /\ att[a].pc = "starting"
    /\ att[a].port \in Ephemeral \/ \A b \in live : att[b].port # att[a].port
    /\ live' = live \cup {a}
    /\ att' = [att EXCEPT ![a].pc = "started"]
    /\ UNCHANGED <<saved, runtime, sessions, jobs, tabs, met>>

\* Slip: the error is not passed on.
StartFailsUnnoticed(a) ==
    /\ att[a].pc = "starting"
    /\ att' = [att EXCEPT ![a].pc = "started"]
    /\ UNCHANGED <<saved, runtime, live, sessions, jobs, tabs, met>>

StartFails(a) ==
    /\ att[a].pc = "starting"
    /\ att' = [att EXCEPT ![a].pc = "failed"]
    /\ UNCHANGED <<saved, runtime, live, sessions, jobs, tabs, met>>

\* set_owned, set_borrowed: nothing is stored when the config has gone.
Register(a) ==
    /\ att[a].pc = "started"
    /\ att' = [att EXCEPT ![a].pc = "over"]
    /\ runtime' = IF configs[att[a].id] = None THEN runtime
                  ELSE [runtime EXCEPT ![att[a].id] = a]
    /\ UNCHANGED <<saved, live, sessions, jobs, tabs, met>>

\* A failed start is reported; a borrowed one clears the tunnel's runtime.
ReportFailure(a) ==
    /\ att[a].pc = "failed"
    /\ att' = [att EXCEPT ![a].pc = "over"]
    /\ runtime' = IF att[a].tab = None THEN runtime
                  ELSE [runtime EXCEPT ![att[a].id] = None]
    /\ UNCHANGED <<saved, live, sessions, jobs, tabs, met>>

-----------------------------------------------------------------------------
(* Stops, removals and tab closings *)

Begin(j, pc, kind, i, t, todo) ==
    /\ jobs[j].pc = "idle"
    /\ jobs' = [jobs EXCEPT ![j] = [pc |-> pc, kind |-> kind, id |-> i,
                                    tab |-> t, todo |-> todo]]

\* manager_for is read in the UI turn; with no runtime there is nothing to do.
StopTunnel(j, i) ==
    /\ is_running(i)
    /\ Begin(j, "stopping", "stop", i, None, {runtime[i]})
    /\ met' = Meet(StartsOf(i), "job")
    /\ UNCHANGED <<saved, runtime, att, live, sessions, tabs>>

RemoveTunnel(j, i) ==
    /\ i \in used
    /\ Begin(j, "snapshot", "remove", i, None, {})
    /\ met' = Meet(StartsOf(i), "job")
    /\ UNCHANGED <<saved, runtime, att, live, sessions, tabs>>

CloseTab(j, t) ==
    /\ t \in tabs
    /\ Begin(j, "snapshot", "tab", None, t, {})
    /\ tabs' = tabs \ {t} /\ met' = Meet(StartsOn(t), "job")
    /\ UNCHANGED <<saved, runtime, att, live, sessions>>

\* Slips of what a job finds to stop.
NothingToStop(j) == {}
AllToStop(j) ==
    {runtime[i] : i \in {i \in Ids : is_running(i) /\
                            (jobs[j].kind = "remove" => i = jobs[j].id)}}

\* The managers a removal or a tab closing finds to stop.
ToStop(j) ==
    {runtime[i] : i \in {i \in Ids : is_running(i) /\
        IF jobs[j].kind = "remove" THEN i = jobs[j].id ELSE LentBy(jobs[j].tab, i)}}

Snapshot(j) ==
    /\ jobs[j].pc = "snapshot"
    /\ jobs' = [jobs EXCEPT ![j].pc = "stopping", ![j].todo = ToStop(j)]
    /\ UNCHANGED <<saved, runtime, att, live, sessions, tabs, met>>

\* manager.stop_all(), which shuts an owned session down as well.
StopManager(j, a) ==
    /\ jobs[j].pc = "stopping" /\ a \in jobs[j].todo
    /\ live' = live \ {a} /\ sessions' = sessions \ {a}
    /\ jobs' = [jobs EXCEPT ![j].todo = @ \ {a}]
    /\ UNCHANGED <<saved, runtime, att, tabs, met>>

Stopped(j, kind) == jobs[j].pc = "stopping" /\ jobs[j].kind = kind /\ jobs[j].todo = {}

\* clear_runtime: whatever the runtime is by now.
FinishStop(j) ==
    /\ Stopped(j, "stop")
    /\ runtime' = [runtime EXCEPT ![jobs[j].id] = None]
    /\ jobs' = [jobs EXCEPT ![j].pc = "done"]
    /\ UNCHANGED <<saved, att, live, sessions, tabs, met>>

\* Slip: every borrowed runtime is cleared.
FinishEveryTab(j) ==
    /\ Stopped(j, "tab")
    /\ runtime' = [i \in Ids |-> IF is_running(i) /\ ~LentBy(None, i) THEN None ELSE runtime[i]]
    /\ jobs' = [jobs EXCEPT ![j].pc = "done"]
    /\ UNCHANGED <<saved, att, live, sessions, tabs, met>>

FinishTab(j) ==
    /\ Stopped(j, "tab")
    /\ runtime' = [i \in Ids |-> IF LentBy(jobs[j].tab, i) THEN None ELSE runtime[i]]
    /\ jobs' = [jobs EXCEPT ![j].pc = "done"]
    /\ UNCHANGED <<saved, att, live, sessions, tabs, met>>

\* TunnelRegistry::remove drops the config, whatever its runtime is by now.
FinishRemove(j) ==
    /\ Stopped(j, "remove")
    /\ runtime' = [runtime EXCEPT ![jobs[j].id] = None]
    /\ configs' = [configs EXCEPT ![jobs[j].id] = None]
    /\ jobs' = [jobs EXCEPT ![j].pc = "row"]
    /\ UNCHANGED <<used, store, att, live, sessions, tabs, form, met>>

RemoveRow(j) ==
    /\ jobs[j].pc = "row"
    /\ store' = [store EXCEPT ![jobs[j].id] = None]
    /\ jobs' = [jobs EXCEPT ![j].pc = "done"]
    /\ UNCHANGED <<used, configs, runtime, att, live, sessions, tabs, form, met>>

-----------------------------------------------------------------------------
Next ==
    \/ \E i \in Ids, p \in Ports : Create(i, p)
    \/ \E i \in Ids : OpenEdit(i) \/ RemoveHost(i)
    \/ \E p \in Ports : SaveEdit(p)
    \/ CloseForm
    \/ \E a \in Attempts, i \in Ids :
          StartOwned(a, i) \/ \E t \in Tabs : StartBorrowed(a, i, t)
    \/ \E a \in Attempts :
          \/ Connect(a) \/ StartSucceeds(a) \/ StartFails(a)
          \/ Register(a) \/ ReportFailure(a)
    \/ \E j \in Jobs, i \in Ids : StopTunnel(j, i) \/ RemoveTunnel(j, i)
    \/ \E j \in Jobs, t \in Tabs : CloseTab(j, t)
    \/ \E j \in Jobs, a \in Attempts : StopManager(j, a)
    \/ \E j \in Jobs :
          Snapshot(j) \/ FinishStop(j) \/ FinishTab(j) \/ FinishRemove(j) \/ RemoveRow(j)

Spec == Init /\ [][Next]_vars
-----------------------------------------------------------------------------
(* Properties *)

\* j has yet to clear the runtime of i that it found to be a.
Clearing(j, i, a) ==
    /\ jobs[j].pc = "stopping" /\ a \notin jobs[j].todo
    /\ jobs[j].id = i \/ (jobs[j].kind = "tab" /\ att[a].tab = jobs[j].tab)

\* A tunnel the Tunnels page shows running has a live manager behind it, unless
\* a stop, removal or tab closing has just emptied it and is about to say so:
\* no interleaving of starts and stops leaves a dead runtime registered.
RunningIsLive ==
    \A i \in Ids : runtime[i] # None =>
        runtime[i] \in live \/ \E j \in Jobs : Clearing(j, i, runtime[i])

\* No other start, stop or removal of its tunnel, nor the closing of the tab it
\* borrows from, was under way at any time while start a was.
Alone(a) == met[a] \cap {"start", "job"} = {}

\* A live tunnel can be found and stopped, unless its own start was overlapped:
\* it is registered, or its start is about to register it, or a task is about to
\* stop it.  However starts, stops, removals and closings overlap later, they
\* lose no tunnel whose start is over.  (The comment in start_tunnel_borrowed
\* tells of the listener that was orphaned, "nothing in the registry pointed at"
\* it, before registration was moved after the start.)
LiveAccounted ==
    \A a \in live : Alone(a) =>
        \/ att[a].pc = "started" \/ runtime[att[a].id] = a
        \/ \E j \in Jobs : a \in jobs[j].todo

\* "A tunnel can run from only one source at a time": no two managers hold a
\* tunnel of one config.  is_running alone does not enforce it.
OneSource == \A a, b \in live : att[a].id = att[b].id => a = b

\* Two starts that nothing overlapped never both run their one tunnel.
AloneIsOnly ==
    \A a, b \in live : att[a].id = att[b].id /\ Alone(a) /\ Alone(b) => a = b

\* A running tunnel's config is the one it was started with ("Don't allow
\* editing a running tunnel - the ports may be bound"), unless the form was open
\* for it while it was started.
RunningKeepsConfig ==
    \A i \in Ids : runtime[i] # None =>
        att[runtime[i]].port = configs[i] \/ "form" \in met[runtime[i]]

\* What runs of a tunnel runs once, and as it is saved, but for what overlapped
\* its start.
RunsAsSaved == AloneIsOnly /\ RunningKeepsConfig

\* A borrowed tunnel "is torn down automatically when that tab closes": once the
\* closing is done no tunnel of the tab is live but one whose start had been
\* overlapped, by this closing or earlier.
TabsTornDown ==
    \A j \in Jobs : jobs[j].kind = "tab" /\ jobs[j].pc = "done" =>
        \A a \in live : att[a].tab = jobs[j].tab => ~Alone(a)

\* Removing a tunnel stops it: no tunnel is live whose config has left the
\* registry, where alone it could be stopped, but one whose start overlapped.
RemovedIsStopped == \A a \in live : Alone(a) => configs[att[a].id] # None

\* The registry lists what the store holds, except a tunnel whose removal has
\* left the registry and not yet reached the store: the page after a restart
\* shows what it showed before.
ConfigsMatchStore ==
    \A i \in Ids : configs[i] # store[i] =>
        configs[i] = None /\ \E j \in Jobs : jobs[j].id = i /\ jobs[j].pc = "row"

\* An owned session is held "for the lifetime of the tunnels started on top of
\* it": a connection whose start is over has its tunnel.
SessionServesTunnel == \A a \in sessions : Pending(a) \/ a \in live

\* Closing a tab leaves the owned tunnels alone: they go only when a stop or a
\* removal of that very tunnel had them to stop.
OwnedSurvivesTabs ==
    [][\A a \in live \ live' : att[a].tab = None =>
          \E j \in Jobs : a \in jobs[j].todo /\ jobs[j].id = att[a].id]_vars

\* The clear on a failed start is a "defensive no-op": "no runtime was registered
\* [...] so there's nothing to clear".
NothingToClear ==
    [][\A a \in Attempts : att[a].pc = "failed" /\ att'[a].pc = "over"
          => runtime' = runtime]_vars

\* It is one unless another start of the tunnel was under way beside it.
FailureClearsNothing ==
    [][\A a \in Attempts : att[a].pc = "failed" /\ att'[a].pc = "over"
          => runtime' = runtime \/ "start" \in met[a]]_vars
=============================================================================
