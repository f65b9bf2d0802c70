-------------------------------- MODULE Library --------------------------------
(***************************************************************************)
(* The tunnel and the snippet libraries: what the user saves through a     *)
(* form, stars, files under groups and removes.  Sources: app/tunnels.rs,  *)
(* app/snippets.rs, app/groups.rs, views/tunnels/form.rs,                  *)
(* views/snippets/form.rs, views/collection.rs, views/group_rename.rs,     *)
(* components/form.rs in crabport-ui; store/tunnels.rs, store/snippets.rs  *)
(* and store/groups.rs in crabport-core.                                   *)
(*                                                                         *)
(* Both pages are one scaffold over two tables.  Snippets are read from    *)
(* the store on every render; tunnels from a registry in memory that every *)
(* write has to repeat.  Removing a tunnel runs on another thread and      *)
(* touches the registry first, the store second.  (Which tunnels run, and  *)
(* what that refuses, is TunnelRegistry's; a removed host's are not here.) *)
(***************************************************************************)
EXTENDS Integers, FiniteSets, Functions

CONSTANTS TUNNEL, SNIPPET,
          Bodies,      \* what a form can say besides the star and the group
          Names,       \* names of groups
          MaxItems,    \* bound: items ever saved
          MaxGroups,   \* bound: groups ever created
          MaxFaults,   \* bound: statements of the store that fail
          MaxTimers    \* bound: exit animations under way

LibraryAssumption ==
  /\ TUNNEL # SNIPPET /\ "invalid" \notin Bodies
  /\ {MaxItems, MaxGroups, MaxFaults, MaxTimers} \subseteq Nat

VARIABLES kind,      \* which of the two libraries this is
          groups,    \* names of the groups of its kind, by id
          rows,      \* its table, by id
          cache,     \* TunnelRegistry: the configs in memory, by id (empty for snippets)
          removing,  \* remove_tunnel tasks, by id: before and after the registry's turn
          form,      \* CrabportApp::tunnel_form or snippet_form
          timers,    \* destructions of a closed form that are pending
          renaming,  \* GroupRenameState::renaming_group_id
          nextItem, nextGroup,   \* AUTOINCREMENT
          faults,
          kept       \* history: rows whose deletion the store refused

vars == <<kind, groups, rows, cache, removing, form, timers, renaming,
          nextItem, nextGroup, faults, kept>>
pages == <<groups, rows, cache, nextItem, nextGroup, faults>>

None == 0        \* no group; and the id of a form that creates
Invalid == "invalid"   \* a required field is empty, no port: Save keeps the dialog up
NoForm == [editing |-> -1]
Blank == [active |-> TRUE, editing |-> None, body |-> Invalid, favorite |-> FALSE, group |-> None]

Items == 1..MaxItems
GroupIds == 1..MaxGroups
Rows == [body : Bodies, favorite : BOOLEAN, group : GroupIds \cup {None}]
Stages == {"stopping", "dropped"}
Forms == [active : BOOLEAN, editing : Items \cup {None}, favorite : BOOLEAN,
          body : Bodies \cup {Invalid}, group : GroupIds \cup {None}]

TypeOK ==
  /\ kind \in {TUNNEL, SNIPPET}
  /\ DOMAIN groups \subseteq GroupIds /\ Range(groups) \subseteq Names
  /\ DOMAIN rows \subseteq Items /\ Range(rows) \subseteq Rows
  /\ DOMAIN cache \subseteq Items /\ Range(cache) \subseteq Rows
  /\ DOMAIN removing \subseteq Items /\ Range(removing) \subseteq Stages
  /\ form \in Forms \cup {NoForm}
  /\ timers \in 0..MaxTimers /\ faults \in 0..MaxFaults
  /\ renaming \in GroupIds \cup {None} /\ kept \subseteq Items
  /\ nextItem \in 1..MaxItems + 1 /\ nextGroup \in 1..MaxGroups + 1

Init ==
  /\ kind \in {TUNNEL, SNIPPET}
  /\ groups = << >> /\ rows = << >> /\ cache = << >> /\ removing = << >>
  /\ form = NoForm /\ timers = 0 /\ renaming = None
  /\ nextItem = 1 /\ nextGroup = 1 /\ faults = 0 /\ kept = {}

Exists == form # NoForm
Covered == Exists /\ form.active      \* the page under the dialog takes no click
With(f, x, y) == [z \in DOMAIN f \cup {x} |-> IF z = x THEN y ELSE f[z]]
Without(f, x) == Restrict(f, DOMAIN f \ {x})
Put(f, x, y) == IF x \in DOMAIN f THEN [f EXCEPT ![x] = y] ELSE f
Fault == faults < MaxFaults /\ faults' = faults + 1

\* What the page renders, and how it deals it out: a section without a group
\* and one for each group of the store.
Shown == IF kind = TUNNEL THEN cache ELSE rows
Section(g) == {i \in DOMAIN Shown : Shown[i].group = g}
Sections == {Section(g) : g \in DOMAIN groups \cup {None}}

-----------------------------------------------------------------------------
(* The form.                                                               *)

OpenForCreate ==
  /\ ~Covered
  /\ form' = Blank
  /\ UNCHANGED <<kind, pages, removing, timers, renaming, kept>>

\* open_for_edit of either form state
Filled(i, row) == [active |-> TRUE, editing |-> i, body |-> row.body,
                   favorite |-> row.favorite, group |-> row.group]

\* The row clicked is the registry's, the one shown is the store's.
OpenTunnelForEdit(i) ==
  /\ kind = TUNNEL /\ ~Covered
  /\ i \in DOMAIN cache \cap DOMAIN rows
  /\ form' = Filled(i, rows[i])
  /\ UNCHANGED <<kind, pages, removing, timers, renaming, kept>>

OpenSnippetForEdit(i) ==
  /\ kind = SNIPPET /\ ~Covered
  /\ i \in DOMAIN rows
  /\ form' = Filled(i, rows[i])
  /\ UNCHANGED <<kind, pages, removing, timers, renaming, kept>>

\* The fields, and the group dropdown's choices.
Fill ==
  /\ Exists
  /\ \/ \E b \in Bodies \cup {Invalid} : form' = [form EXCEPT !.body = b]
     \/ \E g \in DOMAIN groups \cup {None} : form' = [form EXCEPT !.group = g]
  /\ UNCHANGED <<kind, pages, removing, timers, renaming, kept>>

\* group_dropdown's on_create: the group is stored at once, saved or not.
CreateGroup(name) ==
  /\ Exists /\ nextGroup <= MaxGroups
  /\ groups' = With(groups, nextGroup, name)
  /\ nextGroup' = nextGroup + 1
  /\ form' = [form EXCEPT !.group = nextGroup]
  /\ UNCHANGED <<kind, rows, cache, nextItem, faults, removing, timers, renaming, kept>>

Closing ==
  /\ timers < MaxTimers
  /\ timers' = timers + 1
  /\ form' = [form EXCEPT !.active = FALSE]

Close ==
  /\ Exists /\ Closing
  /\ UNCHANGED <<kind, pages, removing, renaming, kept>>

\* 200 ms later whatever form there is goes, reopened or not.
TimerFires ==
  /\ timers > 0
  /\ timers' = timers - 1
  /\ form' = NoForm
  /\ UNCHANGED <<kind, pages, removing, renaming, kept>>

\* FOREIGN KEY (group_id); an UPDATE of a row that is gone changes none and is no error.
GroupExists == form.group \in DOMAIN groups \cup {None}
Row == [body |-> form.body, favorite |-> form.favorite, group |-> form.group]

\* A statement that fails leaves the dialog up, with a toast over it.
Refused ==
  /\ Exists /\ form.body \in Bodies
  /\ Fault
  /\ UNCHANGED <<kind, groups, rows, cache, nextItem, nextGroup, removing, form, timers,
                 renaming, kept>>

UpdateTunnel ==
  /\ kind = TUNNEL /\ Exists /\ form.editing # None /\ form.body \in Bodies
  /\ form.editing \in DOMAIN rows => GroupExists
  /\ rows' = Put(rows, form.editing, Row)
  /\ cache' = Put(cache, form.editing, Row)
  /\ Closing
  /\ UNCHANGED <<kind, groups, nextItem, nextGroup, faults, removing, renaming, kept>>

AddTunnel ==
  /\ kind = TUNNEL /\ Exists /\ form.editing = None /\ form.body \in Bodies
  /\ GroupExists /\ nextItem <= MaxItems
  /\ rows' = With(rows, nextItem, Row)
  /\ cache' = With(cache, nextItem, Row)
  /\ nextItem' = nextItem + 1
  /\ Closing
  /\ UNCHANGED <<kind, groups, nextGroup, faults, removing, renaming, kept>>

SaveSnippet ==
  /\ kind = SNIPPET /\ Exists /\ form.body \in Bodies
  /\ IF form.editing # None
     THEN /\ form.editing \in DOMAIN rows => GroupExists
          /\ rows' = Put(rows, form.editing, Row) /\ UNCHANGED nextItem
     ELSE /\ GroupExists /\ nextItem <= MaxItems
          /\ rows' = With(rows, nextItem, Row) /\ nextItem' = nextItem + 1
  /\ Closing
  /\ UNCHANGED <<kind, groups, cache, nextGroup, faults, removing, renaming, kept>>

-----------------------------------------------------------------------------
(* The page.                                                               *)

\* A tunnel's star is also on the terminal's side panel, which no dialog covers.
\* One that the store refuses is not repeated in the registry: nothing happens.
ToggleTunnelFavorite(i) ==
  /\ kind = TUNNEL /\ i \in DOMAIN cache
  /\ i \in DOMAIN rows
  /\ rows' = [rows EXCEPT ![i].favorite = ~@]
  /\ cache' = Put(cache, i, [cache[i] EXCEPT !.favorite = rows'[i].favorite])
  /\ UNCHANGED <<kind, groups, nextItem, nextGroup, faults, removing, form, timers, renaming, kept>>

ToggleSnippetFavorite(i) ==
  /\ kind = SNIPPET /\ ~Covered /\ i \in DOMAIN rows
  /\ rows' = [rows EXCEPT ![i].favorite = ~@]
  /\ UNCHANGED <<kind, groups, cache, nextItem, nextGroup, faults, removing, form, timers,
                 renaming, kept>>

\* remove_tunnel: the task has to stop the tunnel's own work first.
RemoveTunnel(i) ==
  /\ kind = TUNNEL /\ ~Covered /\ i \in DOMAIN cache
  /\ removing' = With(removing, i, "stopping")
  /\ UNCHANGED <<kind, pages, form, timers, renaming, kept>>

DropFromRegistry(i) ==
  /\ i \in DOMAIN removing /\ removing[i] = "stopping"
  /\ removing' = [removing EXCEPT ![i] = "dropped"]
  /\ cache' = Without(cache, i)
  /\ UNCHANGED <<kind, groups, rows, nextItem, nextGroup, faults, form, timers, renaming, kept>>

DeleteFromStore(i) ==
  /\ i \in DOMAIN removing /\ removing[i] = "dropped"
  /\ removing' = Without(removing, i)
  /\ \/ rows' = Without(rows, i) /\ UNCHANGED <<faults, kept>>
     \/ Fault /\ kept' = kept \cup {i} /\ UNCHANGED rows
  /\ UNCHANGED <<kind, groups, cache, nextItem, nextGroup, form, timers, renaming>>

DeleteSnippet(i) ==
  /\ kind = SNIPPET /\ ~Covered /\ i \in DOMAIN rows
  /\ rows' = Without(rows, i)
  /\ UNCHANGED <<kind, groups, cache, nextItem, nextGroup, faults, removing, form, timers,
                 renaming, kept>>

\* ON DELETE SET NULL
Nulled(f, g) == [i \in DOMAIN f |-> IF f[i].group = g THEN [f[i] EXCEPT !.group = None] ELSE f[i]]

\* Mutant of Mirrored: the registry is not told.
MirroredNot(g) == cache

\* remove_group's second half, for tunnels
Mirrored(g) == IF kind = TUNNEL THEN Nulled(cache, g) ELSE cache

RemoveGroup(g) ==
  /\ ~Covered /\ g \in DOMAIN groups
  /\ groups' = Without(groups, g)
  /\ rows' = Nulled(rows, g)
  /\ cache' = Mirrored(g)
  /\ UNCHANGED <<kind, nextItem, nextGroup, faults, removing, form, timers, renaming, kept>>

\* The inline editor of a group's header: Enter commits, losing the focus cancels.
StartRename(g) ==
  /\ ~Covered /\ g \in DOMAIN groups
  /\ renaming' = g
  /\ UNCHANGED <<kind, pages, removing, form, timers, kept>>

CommitRename(name) ==
  /\ renaming # None
  /\ groups' = Put(groups, renaming, name)
  /\ renaming' = None
  /\ UNCHANGED <<kind, rows, cache, nextItem, nextGroup, faults, removing, form, timers, kept>>

CancelRename ==
  /\ renaming # None /\ renaming' = None
  /\ UNCHANGED <<kind, pages, removing, form, timers, kept>>

\* The program ends, wherever it is, and reads the store when it starts again.
Restart ==
  /\ cache' = IF kind = TUNNEL THEN rows ELSE cache
  /\ removing' = << >> /\ form' = NoForm /\ timers' = 0 /\ renaming' = None
  /\ UNCHANGED <<kind, groups, rows, nextItem, nextGroup, faults, kept>>

Next ==
  \/ OpenForCreate \/ Fill \/ Close \/ TimerFires \/ Refused
  \/ UpdateTunnel \/ AddTunnel \/ SaveSnippet
  \/ \E i \in Items : \/ OpenTunnelForEdit(i) \/ OpenSnippetForEdit(i)
                      \/ ToggleTunnelFavorite(i) \/ ToggleSnippetFavorite(i)
                      \/ RemoveTunnel(i) \/ DropFromRegistry(i) \/ DeleteFromStore(i)
                      \/ DeleteSnippet(i)
  \/ \E n \in Names : CreateGroup(n) \/ CommitRename(n)
  \/ \E g \in GroupIds : RemoveGroup(g) \/ StartRename(g)
  \/ CancelRename \/ Restart

Spec == Init /\ [][Next]_vars

-----------------------------------------------------------------------------
(* Every item saved is dealt to one section of the page: whichever group   *)
(* is removed while whatever form is open, none is lost from view.         *)
NoneLostFromView == UNION Sections = DOMAIN Shown

(* The registry repeats the store, whatever fails and however removals and *)
(* saves interleave; it lacks only what a removal has half done.           *)
RegistryRepeatsStore ==
  kind = TUNNEL =>
    /\ \A i \in DOMAIN cache : i \in DOMAIN rows /\ cache[i] = rows[i]
    /\ \A i \in DOMAIN rows \ DOMAIN cache :
         i \in kept \/ (i \in DOMAIN removing /\ removing[i] = "dropped")

LibrarySound == NoneLostFromView /\ RegistryRepeatsStore
=============================================================================
