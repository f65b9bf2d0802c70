----------------------------- MODULE SidePanel -----------------------------
(***************************************************************************)
(* The SFTP panel beside the terminals (src/crabport-ui/src/views/panel/   *)
(* sftp.rs, fed by layouts/content.rs).  One panel serves every terminal:  *)
(* each frame copies the active pane's listing, directory and callbacks    *)
(* into it, and a frame that changes the pane takes the focus along.  A    *)
(* menu, a question or a picker keeps what it captured when it was opened. *)
(* A path may be typed while listings arrive.                              *)
(***************************************************************************)
EXTENDS FiniteSets

CONSTANTS Panes,            \* terminals
          Dirs,             \* directories of every host
          Names, NamesIn,   \* what they list
          Nothing           \* no pane, no directory, no choice

SideAssumption ==
    /\ NamesIn \in [Dirs -> SUBSET Names]
    /\ {"path", "folder"} \cap Names = {}
    /\ Nothing \notin Panes \cup Dirs \cup
         [what : {"path"}, from : [on : Panes \cup {Nothing}, dir : Dirs \cup {Nothing}]]

VARIABLES
    together,  \* whether the panes share a tab (never changes)
    host,      \* each pane's backend: alive, its cwd
    active,    \* the active pane, Nothing on a tab without a terminal
    shown,     \* what the last frame put into the panel
    text,      \* the path input, Nothing standing for "/"
    edit,      \* the inline input that has the focus: path, rename, folder
    menu,      \* an open menu, question or picker, with what it captured
    did        \* where the operation just carried out went

vars == <<together, host, active, shown, text, edit, menu, did>>

Place == [on : Panes \cup {Nothing}, dir : Dirs \cup {Nothing}]

TypeOK ==
    /\ together \in BOOLEAN
    /\ host \in [Panes -> [alive : BOOLEAN, cwd : Dirs \cup {Nothing}]]
    /\ active \in Panes \cup {Nothing} /\ text \in Dirs \cup {Nothing}
    /\ shown \in [at : Place, selected : SUBSET Names]
    /\ edit = Nothing \/ edit \in [what : {"path", "folder"} \cup Names, from : Place]
    /\ menu = Nothing \/
       menu \in [what : {"row", "actions", "delete", "save", "send"}, at : Place, names : SUBSET Names]
    /\ did \in {"nothing", "there", "in a lookalike", "elsewhere", "on another host"}

Nowhere == [on |-> Nothing, dir |-> Nothing]
Init ==
    /\ together \in BOOLEAN
    /\ host = [p \in Panes |-> [alive |-> TRUE, cwd |-> Nothing]]
    /\ active = Nothing /\ shown = [at |-> Nowhere, selected |-> {}]
    /\ text = Nothing /\ edit = Nothing /\ menu = Nothing /\ did = "nothing"

Listing(d) == IF d = Nothing THEN {} ELSE NamesIn[d]
Rows == Listing(shown.at.dir)
Here == shown.at
Quiet == did' = "nothing"
Unselect == shown' = [shown EXCEPT !.selected = {}]

\* A menu and a question cover the window, a system picker does not.
Free == menu # Nothing => menu.what \in {"save", "send"}

\* Where an operation goes, seen from where it was chosen.
Seen(at, from) ==
    IF at = from THEN "there" ELSE IF at.on = from.on THEN "elsewhere" ELSE "on another host"

\* A rename goes on wherever the very same names are listed.
RenameSeen(at, from) ==
    IF Seen(at, from) = "elsewhere" /\ Listing(at.dir) = Listing(from.dir)
    THEN "in a lookalike" ELSE Seen(at, from)

\* A callback is bound to the pane it was made for, and a closed one is deaf.
Carry(at, seen) == did' = IF at.on = Nothing \/ ~host[at.on].alive THEN "nothing" ELSE seen

Perform(at, from) == Carry(at, Seen(at, from))

-----------------------------------------------------------------------------
(* The terminals and the frame *)

\* A listing may land at any time: the panel asked for it, a tool did, or a
\* transfer has ended.
Land(p, d) ==
    /\ host[p].alive /\ host[p].cwd # d /\ host' = [host EXCEPT ![p].cwd = d]
    /\ UNCHANGED <<active, shown, text, edit, menu>> /\ Quiet

\* Another tab or another pane, or one without a terminal.
Activate(p) ==
    /\ Free /\ p # active /\ (p # Nothing => host[p].alive)
    /\ active' = p
    /\ UNCHANGED <<host, shown, text, edit, menu>> /\ Quiet

\* A shell exits: its pane goes, another one may become active.
PaneEnds(p) ==
    /\ host[p].alive
    /\ host' = [host EXCEPT ![p] = [alive |-> FALSE, cwd |-> Nothing]]
    /\ active' \in IF active # p THEN {active} ELSE {q \in Panes \ {p} : host[q].alive} \cup {Nothing}
    /\ UNCHANGED <<shown, text, edit, menu>> /\ Quiet

Now == [on |-> active, dir |-> IF active = Nothing THEN Nothing ELSE host[active].cwd]
OtherTab == active # Here.on /\ (together => Nothing \in {active, Here.on})

\* Slip: nothing but an input still at the old path is overwritten.
OverwriteIfUntouched == text = Here.dir /\ Here.dir # Nothing
\* A context switch and the first directory overwrite the path input; another
\* directory only what is not being edited.
Overwrite == OtherTab \/ Here.dir = Nothing \/ text = Here.dir

\* Slip: what was begun in one listing goes on in the next.
StaleEdit == FALSE
Invalidated == OtherTab \/ Listing(Now.dir) # Rows

\* set_state with the active pane's state, and the end of the frame: the focus
\* has followed the pane, and an input that loses it is cancelled or, the path
\* input, reset to the directory shown by then.
Frame ==
    /\ Now # Here
    /\ LET moved == active # Here.on IN
       /\ shown' = [at |-> Now, selected |-> IF Invalidated THEN {} ELSE shown.selected]
       /\ edit' = IF edit = Nothing \/ moved \/ (edit.what \in Names /\ Invalidated) THEN Nothing ELSE edit
       /\ text' = IF (Now.dir # Here.dir /\ Overwrite) \/ OtherTab
                     \/ (moved /\ edit # Nothing /\ edit.what = "path")
                    THEN Now.dir ELSE text
    /\ UNCHANGED <<host, active, menu>> /\ Quiet

-----------------------------------------------------------------------------
(* Clicks and inputs; a click takes the focus away from an input *)

Blurred == IF edit # Nothing /\ edit.what = "path" THEN Here.dir ELSE text

TypePath(d) ==
    /\ Free /\ d # text
    /\ edit' = IF edit # Nothing /\ edit.what = "path" THEN edit ELSE [what |-> "path", from |-> Here]
    /\ text' = d
    /\ UNCHANGED <<host, active, shown, menu>> /\ Quiet

\* Enter keeps the focus and the text; a path is complete in itself.
SubmitPath ==
    /\ edit # Nothing /\ edit.what = "path" /\ text # Nothing
    /\ Perform([on |-> Here.on, dir |-> text], [on |-> edit.from.on, dir |-> text])
    /\ UNCHANGED <<host, active, shown, text, edit, menu>>

Click(n) ==
    /\ Free /\ n \in Rows
    /\ \E picked \in {{n}, shown.selected \cup {n}, shown.selected \ {n}} :
         shown' = [shown EXCEPT !.selected = picked]
    /\ edit' = Nothing /\ text' = Blurred
    /\ UNCHANGED <<host, active, menu>> /\ Quiet

\* A double click, a drop on the list: carried out on the spot.
ActNow ==
    /\ Free /\ Here.dir # Nothing /\ Perform(Here, Here)
    /\ edit' = Nothing /\ text' = Blurred
    /\ UNCHANGED <<host, active, shown, menu>>

CancelEdit == edit # Nothing /\ edit' = Nothing /\ text' = Blurred /\ UNCHANGED <<host, active, shown, menu>> /\ Quiet

-----------------------------------------------------------------------------
(* Menus *)

\* A right click keeps a selection it is part of; the items hold the paths and
\* the callbacks of this moment.
OpenMenu(n) ==
    /\ menu = Nothing /\ n \in Rows
    /\ LET names == IF n \in shown.selected THEN shown.selected ELSE {n} IN
       /\ shown' = [shown EXCEPT !.selected = names]
       /\ menu' = [what |-> "row", at |-> Here, names |-> names \cap Rows]
    /\ edit' = Nothing /\ text' = Blurred
    /\ UNCHANGED <<host, active>> /\ Quiet

\* The ellipsis holds the callbacks and the directory of the last frame.
OpenActions ==
    /\ menu = Nothing /\ Here.on # Nothing
    /\ menu' = [what |-> "actions", at |-> Here, names |-> {}]
    /\ edit' = Nothing /\ text' = Blurred
    /\ UNCHANGED <<host, active, shown>> /\ Quiet

CloseMenu == menu # Nothing /\ menu' = Nothing /\ UNCHANGED <<host, active, shown, text, edit>> /\ Quiet

\* The name of the menu, in the listing that is shown by now.
StartRename ==
    /\ menu # Nothing /\ menu.what = "row" /\ Cardinality(menu.names) = 1
    /\ \E n \in menu.names : edit' = [what |-> n, from |-> Here]
    /\ menu' = Nothing
    /\ UNCHANGED <<host, active, shown, text>> /\ Quiet

\* Enter, as long as the row is there: this directory, this pane's callback.
CommitRename ==
    /\ edit # Nothing /\ edit.what \in Rows
    /\ edit' = Nothing /\ Unselect /\ Carry(Here, RenameSeen(Here, edit.from))
    /\ UNCHANGED <<host, active, text, menu>>

StartMakeFolder ==
    /\ menu # Nothing /\ menu.what = "actions"
    /\ menu' = Nothing /\ edit' = [what |-> "folder", from |-> Here]
    /\ UNCHANGED <<host, active, shown, text>> /\ Quiet

\* The folder is made in the directory the panel shows by then.
CommitMakeFolder ==
    /\ edit # Nothing /\ edit.what = "folder"
    /\ edit' = Nothing /\ Perform(Here, [on |-> edit.from.on, dir |-> Here.dir])
    /\ UNCHANGED <<host, active, shown, text, menu>>

\* "Enter" or "Open in Editor" in the menu of a row; Refresh in the other one.
ActFromMenu ==
    /\ menu # Nothing /\ menu.what \in {"row", "actions"}
    /\ menu' = Nothing /\ Perform(menu.at, menu.at)
    /\ \/ menu.what = "row" /\ Unselect
       \/ UNCHANGED shown
    /\ UNCHANGED <<host, active, text, edit>>

\* Delete asks, a download and an upload ask for a place on the disk.
Ask(what) ==
    /\ menu # Nothing
    /\ \/ menu.what = "row" /\ what = "delete" /\ UNCHANGED shown
       \/ menu.what = "row" /\ what = "save" /\ menu.names # {} /\ Unselect
       \/ menu.what = "actions" /\ what = "send" /\ menu.at.dir # Nothing /\ UNCHANGED shown
    /\ menu' = [menu EXCEPT !.what = what]
    /\ UNCHANGED <<host, active, text, edit>> /\ Quiet

\* The ellipsis menu's Download: its callback, the selection as it is now.
DownloadSelected ==
    /\ menu # Nothing /\ menu.what = "actions" /\ shown.selected \cap Rows # {}
    /\ menu' = [what |-> "save", at |-> [on |-> menu.at.on, dir |-> Here.dir], names |-> shown.selected \cap Rows]
    /\ Unselect
    /\ UNCHANGED <<host, active, text, edit>> /\ Quiet

\* A row dragged onto a terminal: its path there, fetched by that terminal.
DropOnTerminal(n) ==
    /\ menu = Nothing /\ n \in Rows /\ active # Nothing
    /\ menu' = [what |-> "save", at |-> [on |-> active, dir |-> Here.dir], names |-> {n}]
    /\ UNCHANGED <<host, active, shown, text, edit>> /\ Quiet

Answer ==
    /\ menu # Nothing /\ menu.what \in {"delete", "save"}
    /\ menu' = Nothing /\ Perform(menu.at, menu.at)
    /\ shown' = [shown EXCEPT !.selected = IF menu.what = "save" THEN @ ELSE {}]
    /\ UNCHANGED <<host, active, text, edit>>

Send ==
    /\ menu # Nothing /\ menu.what = "send"
    /\ menu' = Nothing /\ Unselect /\ Perform(menu.at, menu.at)
    /\ UNCHANGED <<host, active, text, edit>>

-----------------------------------------------------------------------------
Next ==
    \/ \E p \in Panes, d \in Dirs : Land(p, d)
    \/ \E p \in Panes \cup {Nothing} : Activate(p)
    \/ \E p \in Panes : PaneEnds(p)
    \/ Frame
    \/ \E d \in Dirs : TypePath(d)
    \/ \E n \in Names : Click(n) \/ OpenMenu(n) \/ DropOnTerminal(n)
    \/ SubmitPath \/ ActNow \/ ActFromMenu \/ CancelEdit \/ OpenActions \/ CloseMenu
    \/ StartRename \/ CommitRename \/ StartMakeFolder \/ CommitMakeFolder
    \/ \E what \in {"delete", "save", "send"} : Ask(what)
    \/ DownloadSelected \/ Answer \/ Send

Spec == Init /\ [][Next /\ UNCHANGED together]_vars

-----------------------------------------------------------------------------
(* Properties *)

\* A rename, a folder and a typed path reach the pane (and a rename the
\* directory) in which they were begun, whichever pane, tab or listing takes the
\* panel over in between: the panel is shared, its callbacks are not.  Only a
\* rename over which another directory of that pane, listing the very same
\* names, has landed is carried out there (set_state compares names only).
EditsHitChosen == did \in {"nothing", "there", "in a lookalike"}

\* A path input nobody types into shows where the panel is.
PathShowsCwd == (edit # Nothing => edit.what # "path") => text = Here.dir
=============================================================================
