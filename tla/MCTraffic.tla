------------------------------ MODULE MCTraffic ------------------------------
(***************************************************************************)
(* What runs in tasks and threads of its own and must not stop for good: a *)
(* transfer's streaming loop under its control, with a staged copy         *)
(* watching the file; the panel that lists transfers and files them; the   *)
(* tunnels of a session of their own; a local terminal's shell and the     *)
(* pump that shows it.  One of the four in each behaviour.                 *)
(***************************************************************************)
EXTENDS StagedCopy, TLC

CONSTANTS Transfers, Hosts, MaxJobs, MaxRecords, MaxShows,      \* of TransferPanel
          t1, t2, t3, h1, h2,
          Starts, Stops, Conns, Managers, Kinds, Ports,         \* of TunnelManager
          Ephemeral, Owned, SharedPorts, None,
          Cmds, MaxHistory, PtyChunks, Cap, MaxInputs, MayFail  \* of LocalTerminal

MCOn == (t1 :> h1) @@ (t2 :> h1) @@ (t3 :> h2)

VARIABLES
    part,                                                        \* which of the four
    jobs, records, work, succeeded, up, notified,
    open, anchored, generation, timers,
    calls, tunnels, connTasks, loops, aborted, conns, registry, server, bridges, stops,
    slot, parked, link, hlock,
    chan, pump, alt, kitty, revised, history, file, latest, loading, worker, installed,
    buffer, queue, dispatched, keys, written, shell, writer, unsaid, inputs, hangup

Panel == INSTANCE TransferPanel WITH On <- MCOn
Manager == INSTANCE TunnelManager
Session == INSTANCE LocalTerminal WITH Chunks <- PtyChunks, said <- unsaid, closing <- hangup
ASSUME TrafficAssumption ==
    Panel!PanelAssumption /\ Manager!ConstantsAssumption /\ Session!TerminalAssumption

panelVars == <<jobs, records, work, succeeded, up, notified, open, anchored, generation, timers>>
managerVars == <<calls, tunnels, connTasks, loops, aborted, conns, registry, server, bridges,
                 stops, slot, parked, link, hlock>>

sessionVars == <<chan, pump, alt, kitty, revised, history, file, latest, loading, worker,
                 installed, buffer, queue, dispatched, keys, written, shell, writer, unsaid,
                 inputs, hangup>>

\* (The terminal that is not there has one file.)
MCInit ==
    /\ part \in {"control", "panel", "tunnels", "terminal"}
    /\ CopyInit /\ Panel!Init /\ Manager!Init /\ Session!Init
    /\ part # "terminal" => file = <<CHOOSE c \in Cmds : TRUE>>

OnControl == part = "control" /\ UNCHANGED <<part, panelVars, managerVars, sessionVars>>
OnPanel == part = "panel" /\ UNCHANGED <<part, vars, copyVars, managerVars, sessionVars>>
OnTunnels == part = "tunnels" /\ UNCHANGED <<part, vars, copyVars, panelVars, sessionVars>>
OnTerminal == part = "terminal" /\ UNCHANGED <<part, vars, copyVars, panelVars, managerVars>>

MCNext ==
    \/ OnControl /\ CopyNext
    \/ OnPanel /\ Panel!Next
    \/ OnTunnels /\ Manager!Next
    \/ OnTerminal /\ Session!Next

\* Each module's own fairness.
MCFairness ==
    /\ WF_vars(part = "control" /\ NotifyOne) /\ WF_vars(part = "control" /\ Step)
    /\ WF_copyVars(part = "control" /\ Poll) /\ WF_copyVars(part = "control" /\ CleanUp)
    /\ WF_panelVars(part = "panel" /\ Panel!Render)
    /\ \A t \in Transfers : WF_panelVars(part = "panel" /\ Panel!Announce(t))
    /\ \A s \in Starts : /\ WF_managerVars(part = "tunnels" /\ Manager!StartStep(s))
                         /\ WF_managerVars(part = "tunnels" /\ Manager!LoopStep(s))
    /\ \A c \in Conns : WF_managerVars(part = "tunnels" /\ Manager!ConnStep(c))
    /\ \A x \in Stops : WF_managerVars(part = "tunnels" /\ Manager!StopStep(x))
    /\ WF_managerVars(part = "tunnels" /\ Manager!HandleDropped)
    /\ WF_sessionVars(part = "terminal" /\ Session!Pump)
    /\ WF_sessionVars(part = "terminal" /\ (Session!Threads \/ Session!BuildFails))

MCSpec ==
    MCInit /\ [][MCNext]_<<vars, copyVars, panelVars, managerVars, sessionVars, part>> /\ MCFairness

\* t1 and t2, on one host, are alike: t1 is the one that starts first.
FirstIsFirst == work[t1] = "new" => work[t2] = "new"

BoundedSpec ==
    /\ MCInit /\ MCFairness
    /\ [][MCNext /\ FirstIsFirst']_<<vars, copyVars, panelVars, managerVars, sessionVars, part>>

\* What each promises; the fairness of the control's promise is asked where the
\* control runs.
KeepsPromise == Promise!Spec /\ (part = "control" => Promise!Fairness)
JobsAccounted == Panel!JobsAccounted
JobsRetire == Panel!JobsRetire
StopTerminates == Manager!StopTerminates
SessionSound == Session!SessionSound
CloseEndsPump == Session!CloseEndsPump
ShutdownClosesTransport == Manager!ShutdownClosesTransport

EveryJobRetires == Panel!EveryJobRetires
MCTypeOK == CopyTypeOK /\ Panel!TypeOK /\ Manager!TypeOK /\ Session!TypeOK
=============================================================================
