---------------------------- MODULE AgentTunnels ----------------------------
(***************************************************************************)
(* The tunnel tools of one conversation's agent (src/crabport-agent/src/   *)
(* agent.rs, tunnel.rs): definitions of its own, opened in the panel's     *)
(* TunnelManager by tasks that outlive the click that stopped waiting for  *)
(* them, and the Tunnels-page configs it asks the UI thread to start, stop *)
(* and delete.  The panel's Drop (src/crabport-ui/src/views/panel/ai.rs)   *)
(* stops what its manager then lists.                                      *)
(*                                                                         *)
(* A call that opens a tunnel and the id the manager gives it are the same *)
(* value.  An entry of the manager is Active from its insertion to its     *)
(* removal (TunnelManager), so the status loop waits only for what is gone.*)
(***************************************************************************)
EXTENDS Naturals, Sequences, FiniteSets

CONSTANTS
    Calls,      \* tool calls, one shot each
    PageCalls,  \* bound: those that may be about a Tunnels-page config
    MaxDefs,    \* bound: tunnel_create calls
    MaxConns,   \* bound: connections the terminal makes, reconnects included
    NoTid

AgentAssumption ==
    /\ PageCalls \subseteq Calls /\ MaxDefs \in Nat
    /\ MaxConns \in Nat \ {0} /\ NoTid \notin Calls

VARIABLES
    overlap,  \* calls on one tunnel may overlap: parallel ones of a turn, or one
              \* that the user no longer waits for
    tunnels,  \* Agent.tunnels: agent_id -> state and, Running, manager id
    live,     \* entries of the panel's TunnelManager
    call,     \* what each call's task is doing
    panel,    \* "open", "dropping", "gone"
    todo,     \* the drop's stop_all: ids left to stop
    flying,   \* opens under way when the panel was dropped
    session,  \* which of its connections the terminal is on
    ride,     \* the connection the manager was made over; 0: no manager yet
    config,   \* a Tunnels-page config of this host: "stopped", "starting", ...
    commands  \* RegistryCommands the UI thread has not drained

panelVars == <<overlap, panel, todo, flying, session, ride>>
vars == <<tunnels, live, call, panelVars, config, commands>>

States == {"Created", "Running", "Closed", "Failed", "Deleted"}
Tunnel == [st : States, tid : Calls \cup {NoTid}]
Tools == {"open", "close", "delete"}
Idle == [at |-> "idle", tool |-> "open", of |-> 0, tid |-> NoTid]

TypeOK ==
    /\ overlap \in BOOLEAN
    /\ tunnels \in Seq(Tunnel) /\ Len(tunnels) <= MaxDefs
    /\ live \subseteq Calls /\ todo \subseteq Calls /\ flying \subseteq Calls
    /\ call \in [Calls -> [at : {"idle", "starting", "polling", "stopping", "opened",
                                 "failed", "stopped", "waiting", "done"},
                           tool : Tools, of : 0..MaxDefs, tid : Calls \cup {NoTid}]]
    /\ panel \in {"open", "dropping", "gone"}
    /\ session \in 1..MaxConns /\ ride \in 0..session
    /\ config \in {"stopped", "starting", "running", "stopping", "removing", "removed"}
    /\ commands \in Seq(Tools)

Init ==
    /\ overlap \in BOOLEAN
    /\ tunnels = <<>> /\ live = {} /\ call = [c \in Calls |-> Idle]
    /\ panel = "open" /\ todo = {} /\ flying = {} /\ session = 1 /\ ride = 0
    /\ config = "stopped" /\ commands = <<>>

-----------------------------------------------------------------------------
(* Running a call: AiPanel::run_tool, on the UI thread *)

Pending == {c \in Calls : call[c].at \notin {"idle", "done"}}

\* The panel hands the agent a session with its manager, made on first use.
Session ==
    /\ panel = "open"
    /\ ride' = IF ride = 0 THEN session ELSE ride
    /\ UNCHANGED <<overlap, panel, todo, flying, session>>

May(c, d) == call[c].at = "idle" /\ (overlap \/ \A x \in Pending : call[x].of # d)

Create ==
    /\ Session /\ Len(tunnels) < MaxDefs
    /\ tunnels' = Append(tunnels, [st |-> "Created", tid |-> NoTid])
    /\ UNCHANGED <<live, call, config, commands>>

Go(c, tool, d, at, tid) ==
    call' = [call EXCEPT ![c] = [at |-> at, tool |-> tool, of |-> d, tid |-> tid]]

OpenAgain(t) == TRUE     \* slip: a running tunnel is started once more

\* Any state but Running may be opened, a deleted one included.
CanOpen(t) == t.st # "Running"

Open(c, d) ==
    /\ Session /\ May(c, d)
    /\ IF CanOpen(tunnels[d]) THEN Go(c, "open", d, "starting", NoTid)
       ELSE Go(c, "open", d, "done", NoTid)
    /\ UNCHANGED <<tunnels, live, config, commands>>

Close(c, d) ==
    /\ Session /\ May(c, d)
    /\ IF tunnels[d].st = "Running" THEN Go(c, "close", d, "stopping", tunnels[d].tid)
       ELSE Go(c, "close", d, "done", NoTid)
    /\ UNCHANGED <<tunnels, live, config, commands>>

Delete(c, d) ==
    /\ Session /\ May(c, d)
    /\ IF tunnels[d].st = "Running" THEN Go(c, "delete", d, "stopping", tunnels[d].tid)
       ELSE Go(c, "delete", d, "stopped", NoTid)
    /\ UNCHANGED <<tunnels, live, config, commands>>

-----------------------------------------------------------------------------
(* The tasks *)

Step(c, from, to) == call[c].at = from /\ call' = [call EXCEPT ![c].at = to]

StartSucceeds(c) ==
    /\ Step(c, "starting", "polling") /\ live' = live \cup {c}
    /\ UNCHANGED <<tunnels, panelVars, config, commands>>

StartFails(c) ==
    /\ Step(c, "starting", "failed")
    /\ UNCHANGED <<tunnels, live, panelVars, config, commands>>

\* slip: the loop waits for an entry, however long
WaitsForEver(c) == FALSE

\* manager.get, every 100 ms: the entry, or nothing until the timeout.
PollActive(c) ==
    /\ c \in live /\ Step(c, "polling", "opened")
    /\ UNCHANGED <<tunnels, live, panelVars, config, commands>>

PollTimesOut(c) ==
    /\ c \notin live /\ Step(c, "polling", "failed")
    /\ UNCHANGED <<tunnels, live, panelVars, config, commands>>

StopEnds(c) ==
    /\ Step(c, "stopping", "stopped") /\ live' = live \ {call[c].tid}
    /\ UNCHANGED <<tunnels, panelVars, config, commands>>

Outcome(c) ==
    CASE call[c].at = "opened" -> [st |-> "Running", tid |-> c]
      [] call[c].at = "failed" -> [st |-> "Failed", tid |-> NoTid]
      [] call[c].tool = "close" -> [st |-> "Closed", tid |-> NoTid]
      [] OTHER -> [st |-> "Deleted", tid |-> NoTid]

\* Whatever the definition has become meanwhile.
Record(c) ==
    /\ call[c].at \in {"opened", "failed", "stopped"}
    /\ tunnels' = [tunnels EXCEPT ![call[c].of] = Outcome(c)]
    /\ call' = [call EXCEPT ![c].at = "done"]
    /\ UNCHANGED <<live, panelVars, config, commands>>

-----------------------------------------------------------------------------
(* The panel's end, and the terminal's reconnects *)

DroppingNothing == [next |-> "gone", ids |-> {}]     \* slip: nothing is stopped

Dropping == [next |-> IF live = {} THEN "gone" ELSE "dropping", ids |-> live]
\* Drop for AiPanel: stop_all, over the ids listed when it begins.
DropPanel ==
    /\ panel = "open" /\ panel' = Dropping.next /\ todo' = Dropping.ids
    /\ flying' = {c \in Calls : call[c].at = "starting"}
    /\ UNCHANGED <<overlap, tunnels, live, call, session, ride, config, commands>>

DropStops ==
    /\ panel = "dropping"
    /\ IF todo = {} THEN panel' = "gone" /\ UNCHANGED <<live, todo>>
       ELSE \E t \in todo : live' = live \ {t} /\ todo' = todo \ {t} /\ UNCHANGED panel
    /\ UNCHANGED <<overlap, tunnels, call, flying, session, ride, config, commands>>

Reconnect ==
    /\ panel = "open" /\ session < MaxConns /\ session' = session + 1
    /\ UNCHANGED <<overlap, tunnels, live, call, panel, todo, flying, ride, config, commands>>

-----------------------------------------------------------------------------
(* The Tunnels-page config: registry_op and the UI thread that serves it *)

RegistryOp(c, tool) ==
    /\ Session /\ c \in PageCalls /\ call[c].at = "idle" /\ config # "removed"
    /\ IF (tool = "open" /\ config = "running") \/ (tool = "close" /\ config # "running")
       THEN Go(c, tool, 0, "done", NoTid) /\ UNCHANGED commands
       ELSE Go(c, tool, 0, "waiting", NoTid) /\ commands' = Append(commands, tool)
    /\ UNCHANGED <<tunnels, live, config>>

\* The app's own start, stop and removal (TunnelRegistry has them in full).
Served(tool) ==
    CASE tool = "open" /\ config = "stopped" -> "starting"
      [] tool = "close" /\ config = "running" -> "stopping"
      [] tool = "delete" /\ config # "removed" -> "removing"
      [] OTHER -> config

Drain ==
    /\ commands # <<>> /\ panel # "dropping"
    /\ commands' = Tail(commands) /\ config' = Served(Head(commands))
    /\ UNCHANGED <<tunnels, live, call, panelVars>>

ConfigMoves ==
    /\ \/ config = "starting" /\ config' \in {"running", "stopped"}
       \/ config = "stopping" /\ config' = "stopped"
       \/ config = "removing" /\ config' = "removed"
    /\ UNCHANGED <<tunnels, live, call, panelVars, commands>>

Shows(tool) ==
    CASE tool = "open" -> config = "running"
      [] tool = "close" -> config # "running"
      [] tool = "delete" -> config = "removed"

\* The registry shows it, or TUNNEL_START_TIMEOUT has passed.
RegistryAnswers(c) ==
    /\ Step(c, "waiting", "done")
    /\ UNCHANGED <<tunnels, live, panelVars, config, commands>>

-----------------------------------------------------------------------------

Task(c) ==
    \/ StartSucceeds(c) \/ StartFails(c) \/ PollActive(c) \/ PollTimesOut(c)
    \/ StopEnds(c) \/ Record(c) \/ RegistryAnswers(c)

Next ==
    \/ \E c \in Calls :
          \/ Task(c)
          \/ \E d \in DOMAIN tunnels : Open(c, d) \/ Close(c, d) \/ Delete(c, d)
          \/ \E tool \in Tools : RegistryOp(c, tool)
    \/ Create \/ DropPanel \/ DropStops \/ Reconnect \/ Drain \/ ConfigMoves

\* The tasks run on a pool of their own; a start or a stop answers.
Fairness == (\A c \in Calls : WF_vars(Task(c))) /\ WF_vars(DropStops) /\ WF_vars(Drain)

Spec == Init /\ [][Next]_vars /\ Fairness

-----------------------------------------------------------------------------
(* Properties *)

HeldBy(c) == call[c].at \in {"starting", "polling", "opened", "stopping", "stopped"}
Known(t) ==
    \/ \E d \in DOMAIN tunnels : tunnels[d] = [st |-> "Running", tid |-> t]
    \/ \E c \in Calls : HeldBy(c) /\ (c = t \/ call[c].tid = t)

\* When calls on one tunnel follow each other: while the panel is open, no tunnel of its manager is forgotten: a
\* definition says Running with its id, or a call is about to record or stop
\* it, so a tunnel_close can still reach it.  And a definition that says
\* Running and has no call under way names a tunnel the manager has.
TunnelsReachable ==
    ~overlap /\ panel = "open" =>
        /\ \A t \in live : Known(t)
        /\ \A d \in DOMAIN tunnels :
              tunnels[d].st = "Running" =>
                  tunnels[d].tid \in live \/ \E c \in Pending : call[c].of = d

\* Drop for AiPanel: a tunnel outlives the panel only if its start was under
\* way when the panel went - whatever races between calls had lost track of.
DropFreesPorts == panel = "gone" => live \subseteq flying

\* A tunnel the agent started can be stopped by it, and goes when it goes.
TunnelsHeld == TunnelsReachable /\ DropFreesPorts

\* A call that began is answered, the panel's end included.
CallsAnswered == \A c \in Calls : c \in Pending ~> call[c].at = "done"

\* ai.rs on Drop: tunnels "must go too, or their accept loops would outlive
\* the conversation".  A start in flight inserts its entry after stop_all.
NoTunnelOutlivesPanel == panel = "gone" /\ Pending = {} => live = {}

\* session.rs on tunnel_manager: made "so the agent's tunnels ride this
\* connection and no other"; after a reconnect they ride the one that died.
RidesSession == ride \in {0, session}

\* tunnel.rs: "Deleted. Kept in the list so earlier ids stay valid."
DeletedStaysDeleted ==
    [][\A d \in DOMAIN tunnels : tunnels[d].st = "Deleted" => tunnels'[d].st = "Deleted"]_vars

\* registry_op "only waits for the registry to reflect" the mutation.
AnswersAreTrue ==
    [][\A c \in Calls : call[c].at = "waiting" /\ call'[c].at = "done" =>
          call[c].tool = "open" \/ Shows(call[c].tool)]_vars
=============================================================================
