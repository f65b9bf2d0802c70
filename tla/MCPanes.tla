------------------------------ MODULE MCPanes -------------------------------
(* The tabs with their panes, and the agent loop of the AI panel that each  *)
(* pane has: one of the two in each behaviour.                              *)
EXTENDS AiPanel

CONSTANTS MaxTabs, MaxPanes

\* The conversations TLC explores: two calls in a history that fits and with a
\* provider throughout, or one call with compaction and a provider that comes
\* and goes.
MCCircumstances ==
    {[compacts |-> FALSE, configured |-> {TRUE}, calls |-> 2],
     [compacts |-> TRUE, configured |-> BOOLEAN, calls |-> 1]}

\* Two calls, and a history that is compacted.
MCCompacting == {[compacts |-> TRUE, configured |-> {TRUE}, calls |-> 2]}

VARIABLES
    part,   \* "panes" or "agent"
    nextTab, nextPane, tabOf, primary, lent, trees, registered, shown, aiPanels,
    lastFocused, pendingFocus, focus, flagged, drawnTab, activeTab, backend

Panes == INSTANCE Workspace
ASSUME PanesAssumption == Panes!WorkspaceAssumption
panesVars == <<nextTab, nextPane, tabOf, primary, lent, trees, registered, shown, aiPanels,
               lastFocused, pendingFocus, focus, flagged, drawnTab, activeTab, backend>>

\* (The panel that is not there would find the first circumstances.)
MCInit ==
    /\ part \in {"panes", "agent"} /\ Init /\ Panes!Init
    /\ part = "panes" => around = CHOOSE c \in Circumstances : c.configured = {TRUE}

OfAgent == part = "agent" /\ UNCHANGED <<part, panesVars>>
OfPanes == part = "panes" /\ UNCHANGED <<part, vars>>

MCNext == (Next /\ OfAgent) \/ (Panes!Next /\ OfPanes)

MCSpec ==
    /\ MCInit /\ [][MCNext]_<<vars, panesVars, part>>
    /\ WF_vars(ModelStep /\ UNCHANGED around /\ OfAgent)
    /\ WF_vars(ToolStep /\ UNCHANGED around /\ OfAgent)

\* The agent's history is one a provider accepts and the user recognises (what
\* was typed leaves the queue in order, with a provider throughout and nothing
\* to compact), and as long as no compaction renumbers its cards they say what
\* was decided and what came of it.
HistorySound ==
    /\ RequestsAnswered /\ TurnsInOrder /\ SummaryOpens
    /\ ~around.compacts => AllowedByUser /\ OwnResults
    /\ Steady => SentInOrder /\ IdleQueueEmpty

\* Panes, the views that follow them and what runs behind them agree.
PanesSound == Panes!PanesAccounted /\ Panes!ToolbarFollowsActive /\ Panes!NothingLeftRunning
MCTypeOK == TypeOK /\ Panes!TypeOK
=============================================================================
