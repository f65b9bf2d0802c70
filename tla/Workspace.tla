----------------------------- MODULE Workspace ------------------------------
(***************************************************************************)
(* The terminal tabs: each a tree of panes, each pane a view over a        *)
(* backend of its own, and four records that must stay in step with them:  *)
(* the view the toolbar works on, the active pane, the keyboard focus and  *)
(* the AI panels (src/crabport-ui/src/app/tabs.rs, views/terminal/split.rs, *)
(* the render of app.rs). A tree is its leaves from left to right: where   *)
(* the dividers run is left out.                                           *)
(***************************************************************************)
EXTENDS Naturals, Sequences, SequencesExt, Functions

CONSTANTS
    MaxTabs, \* bound: terminal tabs ever opened
    MaxPanes \* bound: panes ever opened

WorkspaceAssumption == {MaxTabs, MaxPanes} \subseteq Nat

Tabs == 2..MaxTabs + 1 \* 0 is the home page, 1 the SFTP page
Panes == 1..MaxPanes
Home == 0   \* the tab that is always there
None == 0   \* no pane

VARIABLES
    nextTab, nextPane,
    trees,      \* split_trees, for the tabs that are open
    registered, \* the keys of pane_views
    shown,      \* terminal_views, by pane
    aiPanels,   \* the keys of ai_panels
    activeTab,
    lastFocused, pendingFocus,
    focus,      \* the view the window's keyboard focus is on
    flagged,    \* the view whose is_focused is set: on_focus and on_blur run in a draw
    drawnTab,   \* last_focused_tab_id
    tabOf,      \* the tab a pane was opened in
    primary,    \* panes opened with their tab: their end closes it
    lent,       \* connections the registry was asked to borrow for a pane's agent
    backend     \* of a pane: "live"; "closing", close() was called; "over", Closed was said

idVars == <<nextTab, nextPane, tabOf, primary, lent>>
layoutVars == <<trees, registered, shown, aiPanels>>
focusVars == <<lastFocused, pendingFocus, focus, flagged, drawnTab>>
vars == <<idVars, layoutVars, focusVars, activeTab, backend>>

Open == DOMAIN trees
Leaves(t) == ToSet(trees[t].panes)

TypeOK ==
    /\ nextTab \in 2..MaxTabs + 2 /\ nextPane \in 1..MaxPanes + 1
    /\ Open \subseteq Tabs
    /\ \A t \in Open : trees[t] \in [panes : Seq(Panes), active : Panes]
    /\ registered \subseteq Panes /\ aiPanels \subseteq Panes /\ primary \subseteq Panes
    /\ DOMAIN shown \subseteq Tabs /\ Range(shown) \subseteq Panes
    /\ activeTab \in Open \cup {Home} /\ drawnTab \in Tabs \cup {Home}
    /\ {lastFocused, pendingFocus, focus, flagged} \subseteq Panes \cup {None}
    /\ lent \subseteq [by : Panes, tab : Tabs, from : Panes]
    /\ tabOf \in [Panes -> Tabs \cup {Home}]
    /\ backend \in [Panes -> {"none", "live", "closing", "over"}]

Init ==
    /\ nextTab = 2 /\ nextPane = 1 /\ trees = <<>> /\ registered = {} /\ shown = <<>>
    /\ aiPanels = {} /\ activeTab = Home /\ drawnTab = Home
    /\ lastFocused = None /\ pendingFocus = None /\ focus = None /\ flagged = None
    /\ tabOf = [p \in Panes |-> Home] /\ primary = {}
    /\ lent = {} /\ backend = [p \in Panes |-> "none"]

-----------------------------------------------------------------------------
(* SplitTree *)

Single(p) == [panes |-> <<p>>, active |-> p]

\* Where a leaf is, and the leaves without it.
Place(panes, p) == CHOOSE i \in DOMAIN panes : panes[i] = p
Without(panes, p) == IF p \in ToSet(panes) THEN RemoveAt(panes, Place(panes, p)) ELSE panes

\* The new leaf goes right of the active one; without that leaf, nowhere.
SplitActive(tree, p) ==
    [panes |-> IF tree.active \in ToSet(tree.panes)
               THEN InsertAt(tree.panes, Place(tree.panes, tree.active) + 1, p)
               ELSE tree.panes,
     active |-> p]

\* Slip: a closed pane stays the active one.
RemoveKeepsActive(tree, p) == [tree EXCEPT !.panes = Without(@, p)]
RemovePane(tree, p) ==
    LET rest == Without(tree.panes, p)
    IN  [panes |-> rest, active |-> IF tree.active = p THEN Head(rest) ELSE tree.active]

-----------------------------------------------------------------------------
(* The two ways a pane goes. Each is a record of what it leaves, so that one *)
(* may end in the other.                                                     *)

State == [trees |-> trees, registered |-> registered, shown |-> shown, ai |-> aiPanels,
          tab |-> activeTab, last |-> lastFocused, pending |-> pendingFocus, backend |-> backend]

Become(s) ==
    /\ trees' = s.trees /\ registered' = s.registered /\ shown' = s.shown /\ aiPanels' = s.ai
    /\ activeTab' = s.tab /\ lastFocused' = s.last /\ pendingFocus' = s.pending
    /\ backend' = s.backend

ClosedBackends(b, ps) == [p \in Panes |-> IF p \in ps /\ b[p] = "live" THEN "closing" ELSE b[p]]

\* Slip: only the view on show is closed with the tab.
ShownOnly(s, t) == IF t \in DOMAIN s.shown THEN {s.shown[t]} ELSE {}
PanesOf(s, t) ==
    (IF t \in DOMAIN s.shown THEN {s.shown[t]} ELSE {}) \cup
    (IF t \in DOMAIN s.trees THEN ToSet(s.trees[t].panes) \cap s.registered ELSE {})

close_tab(s, t) ==
    LET gone == IF t \in DOMAIN s.trees THEN ToSet(s.trees[t].panes) ELSE {}
    IN  [s EXCEPT !.backend = ClosedBackends(s.backend, PanesOf(s, t)),
                  !.shown = Restrict(s.shown, DOMAIN s.shown \ {t}),
                  !.trees = Restrict(s.trees, DOMAIN s.trees \ {t}),
                  !.registered = @ \ gone, !.ai = @ \ gone,
                  !.last = IF @ \in gone THEN None ELSE @,
                  !.tab = IF @ = t THEN Home ELSE @]

\* Slip: the toolbar is not told that the active pane may have changed.
NoSync(s, t, p) == s.shown
sync_active_pane_view(s, t, p) ==
    IF p \in s.registered THEN [u \in DOMAIN s.shown \cup {t} |-> IF u = t THEN p ELSE s.shown[u]]
    ELSE s.shown

close_pane(s, t, p) ==
    LET closed == [s EXCEPT !.backend = ClosedBackends(s.backend, {p} \cap s.registered),
                            !.registered = @ \ {p}, !.ai = @ \ {p},
                            !.last = IF @ = p THEN None ELSE @]
        others == {q \in ToSet(s.trees[t].panes) : q # p}
        next == RemovePane(s.trees[t], p)
    IN  IF t \notin DOMAIN s.trees THEN closed
        ELSE IF others = {}
        THEN close_tab([closed EXCEPT !.trees = Restrict(s.trees, DOMAIN s.trees \ {t})], t)
        ELSE [closed EXCEPT !.trees[t] = next, !.last = next.active, !.pending = next.active,
                            !.shown = sync_active_pane_view(closed, t, next.active)]

-----------------------------------------------------------------------------
(* What the user does *)

\* add_tab, add_ssh_tab and the others, to finish_tab_registration.
AddTab ==
    /\ nextTab \in Tabs /\ nextPane \in Panes
    /\ nextTab' = nextTab + 1 /\ nextPane' = nextPane + 1
    /\ LET with(f, v) == [t \in DOMAIN f \cup {nextTab} |-> IF t = nextTab THEN v ELSE f[t]] IN
         trees' = with(trees, Single(nextPane)) /\ shown' = with(shown, nextPane)
    /\ registered' = registered \cup {nextPane} /\ activeTab' = nextTab
    /\ tabOf' = [tabOf EXCEPT ![nextPane] = nextTab] /\ primary' = primary \cup {nextPane}
    /\ backend' = [backend EXCEPT ![nextPane] = "live"]
    /\ UNCHANGED <<aiPanels, lent, focusVars>>

ActivateTab(t) ==
    /\ t \in Open \cup {Home} /\ activeTab' = t
    /\ UNCHANGED <<idVars, layoutVars, focusVars, backend>>

split_active_pane ==
    /\ activeTab \in Open /\ nextPane \in Panes /\ nextPane' = nextPane + 1
    /\ LET t == activeTab
           s == [State EXCEPT !.registered = @ \cup {nextPane},
                              !.trees[t] = SplitActive(@, nextPane),
                              !.last = nextPane, !.pending = nextPane,
                              !.backend[nextPane] = "live"]
       IN  /\ Become([s EXCEPT !.shown = sync_active_pane_view(s, t, nextPane)])
           /\ tabOf' = [tabOf EXCEPT ![nextPane] = t]
    /\ UNCHANGED <<nextTab, primary, lent, focus, flagged, drawnTab>>

\* A left click on a pane of the tab on show.
FocusPane(p) ==
    /\ activeTab \in Open /\ p \in Leaves(activeTab)
    /\ Become([State EXCEPT !.trees[activeTab].active = p, !.last = p,
                            !.shown = sync_active_pane_view(State, activeTab, p)])
    /\ focus' = p /\ UNCHANGED <<idVars, flagged, drawnTab>>

\* A right click: the menu records the pane, the mouse moves the focus.
ContextMenu(p) ==
    /\ activeTab \in Open /\ p \in Leaves(activeTab) /\ lastFocused' = p /\ focus' = p
    /\ UNCHANGED <<idVars, layoutVars, activeTab, backend, pendingFocus, flagged, drawnTab>>

\* The keyboard focus goes to another pane (Tab) or to something else.
MoveFocus(p) ==
    /\ p # None => activeTab \in Open /\ p \in Leaves(activeTab)
    /\ focus' = p
    /\ UNCHANGED <<idVars, layoutVars, activeTab, backend, lastFocused, pendingFocus, flagged, drawnTab>>

\* The tab bar's close button: close_active_pane_or_tab.
CloseButton(t) ==
    /\ t \in Open /\ Become(close_pane(State, t, trees[t].active))
    /\ UNCHANGED <<idVars, focus, flagged, drawnTab>>

\* A pane's agent opens a saved tunnel over "this" terminal: the registry gets
\* the id the view was made with, and borrows what that tab has on show.
\* (Once, as a bound.)
AgentOpens(p) ==
    LET id == IF p \in primary THEN tabOf[p] ELSE p IN
    /\ lent = {} /\ p \in registered /\ id \in DOMAIN shown
    /\ lent' = {[by |-> p, tab |-> id, from |-> shown[id]]}
    /\ UNCHANGED <<nextTab, nextPane, tabOf, primary, layoutVars, focusVars, activeTab, backend>>

-----------------------------------------------------------------------------
(* What happens by itself *)

\* A frame: the active pane gets its AI panel, a new tab or a pending pane the
\* focus; then the draw finds out which pane of the tab on show has it, and
\* tells that pane's tab.
Render ==
    LET visible == IF activeTab \in Open THEN Leaves(activeTab) ELSE {}
        toTab == IF drawnTab # activeTab /\ activeTab \in Open THEN shown[activeTab] ELSE focus
        to == IF pendingFocus \in registered THEN pendingFocus ELSE toTab
        now == IF to \in visible THEN to ELSE None
        ai == aiPanels \cup (IF activeTab \in Open THEN {trees[activeTab].active} \cap registered ELSE {})
        s == [State EXCEPT !.ai = ai, !.pending = None]
    IN  /\ focus' = to /\ flagged' = now /\ drawnTab' = activeTab
        /\ IF now # None /\ now # flagged
           THEN Become([s EXCEPT !.last = now, !.trees[activeTab].active = now,
                                 !.shown = IF trees[activeTab].active = now THEN @
                                           ELSE sync_active_pane_view(s, activeTab, now)])
           ELSE Become(s)
        /\ UNCHANGED idVars

\* Closed, from a backend that was closed or that ended: the pane's callback.
\* The view is there to hear it even after its pane was closed, since its own
\* on_focused holds a handle to it.
BackendClosed(p) ==
    /\ backend[p] \in {"live", "closing"}
    /\ LET s == [State EXCEPT !.backend[p] = "over"] IN
         Become(IF p \in primary THEN close_tab(s, tabOf[p]) ELSE close_pane(s, tabOf[p], p))
    /\ UNCHANGED <<idVars, focus, flagged, drawnTab>>

Next ==
    \/ AddTab \/ split_active_pane \/ Render
    \/ (\E t \in Tabs \cup {Home} : ActivateTab(t)) \/ (\E t \in Tabs : CloseButton(t))
    \/ \E p \in Panes : FocusPane(p) \/ ContextMenu(p) \/ AgentOpens(p) \/ BackendClosed(p)
    \/ \E p \in Panes \cup {None} : MoveFocus(p)

Spec == Init /\ [][Next]_vars

-----------------------------------------------------------------------------
(* Properties *)

\* Every registered pane is a leaf of exactly one tab's tree and every leaf is
\* registered, the active pane is a leaf of its tab, no AI panel outlives its
\* pane: a pane that is in no tree can never be seen, used or closed again.
PanesAccounted ==
    /\ registered = UNION {Leaves(t) : t \in Open} /\ aiPanels \subseteq registered
    /\ \A t \in Open : trees[t].active \in Leaves(t) /\ IsInjective(trees[t].panes)
    /\ \A t, u \in Open : t # u => Leaves(t) \cap Leaves(u) = {}

\* The toolbar, the side panel and the borrowed tunnels work on the pane the
\* user is in, whatever was split, focused and closed.
ToolbarFollowsActive ==
    DOMAIN shown = Open /\ \A t \in Open : shown[t] = trees[t].active

\* No shell, connection or port goes on behind a pane that is gone.
NothingLeftRunning == \A p \in Panes : backend[p] = "live" => p \in registered

\* tabs.rs on close_active_pane_or_tab: "instead of killing all panes at once,
\* it closes just the focused one". The pane the tab was opened with, closed
\* that way, reports its end like any other, and takes the tab with it.
LateCloseIsHarmless ==
    [][\A p \in Panes : backend[p] = "closing" /\ backend'[p] = "over" => registered' = registered]_vars

\* tabs.rs on close_pane: "Move keyboard focus to the remaining active pane so
\* the user can keep typing without clicking another pane first". It does so
\* for tabs in the background too, and the user's own loses the keyboard.
OnShow == activeTab \in Open /\ focus \in Leaves(activeTab)
KeyboardStays == [][OnShow /\ activeTab' = activeTab /\ focus' # None => OnShow']_vars

\* ai.rs on AiPanel: "the agent's terminal tools act on *this* session, never
\* on another tab's". A split pane's agent hands out its pane's id for a tab's.
BorrowsOwnTab == \A l \in lent : l.tab = tabOf[l.by]
=============================================================================
