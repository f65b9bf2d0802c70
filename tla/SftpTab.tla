------------------------------ MODULE SftpTab ------------------------------
(***************************************************************************)
(* The SFTP tab (src/crabport-ui/src/views/sftp): two panels, each on the  *)
(* local disk or on a host reached through a terminal of its own.          *)
(* Directories are listed by the backend's tasks, in any order; a render   *)
(* copies what has landed into the panel; what the user chooses waits in a *)
(* menu, a dialog, a picker or an input while all of that goes on.         *)
(* (A listing lands in one step here: SftpSession has the two.)            *)
(***************************************************************************)
EXTENDS FiniteSets, Naturals

CONSTANTS Sides,        \* the two panels
          Worked,       \* bound: the panels the user browses and works in
          Conns,        \* terminals the tab may ever open
          Dirs, Home,   \* directories, on the disk as on the hosts
          Names, NamesIn,  \* what they list
          Nothing       \* no connection, no directory, no choice

TabAssumption ==
    /\ IsFiniteSet(Sides) /\ Cardinality(Sides) = 2 /\ Worked \subseteq Sides
    /\ Home \in Dirs /\ NamesIn \in [Dirs -> SUBSET Names]
    /\ Nothing \notin Conns \cup Dirs \cup {"disk"} /\ "disk" \notin Conns /\ "folder" \notin Names

VARIABLES
    panel,      \* PanelState of each side
    term,       \* the terminals behind remote panels
    edit,       \* the one inline input that has the focus
    menu,       \* an open menu, dialog or picker, with what it captured
    did         \* where the operation just carried out went, seen from where it was chosen

vars == <<panel, term, edit, menu, did>>

Place == [on : Conns \cup {"disk", Nothing}, dir : Dirs \cup {Nothing}]
Chosen ==
    [what : {"menu", "delete", "pick"}, side : Sides, at : Place, names : SUBSET Names, to : Place]

TypeOK ==
    /\ panel \in [Sides -> [kind : {"local", "remote", "off"}, conn : Conns \cup {Nothing},
                            cwd : Dirs \cup {Nothing}, lcwd : Dirs, selected : SUBSET Names,
                            enters : {"unset", "local", "remote"}]]
    /\ term \in [Conns -> [open : {"unused", "yes", "closed"}, cwd : Dirs \cup {Nothing},
                           going : SUBSET Dirs, busy : BOOLEAN]]
    /\ edit = Nothing \/ edit \in [side : Sides, name : Names \cup {"folder"}, from : Place]
    /\ menu = Nothing \/ menu \in Chosen
    /\ did \in {"nothing", "there", "in a lookalike", "elsewhere", "on another host"}

Terminal(open, going) == [open |-> open, cwd |-> Nothing, going |-> going, busy |-> FALSE]

Init ==
    /\ \E first \in Sides :
         panel = [s \in Sides |-> [kind |-> IF s = first THEN "local" ELSE "off",
                                   conn |-> Nothing, cwd |-> Nothing, lcwd |-> Home,
                                   selected |-> {}, enters |-> "unset"]]
    /\ term = [k \in Conns |-> Terminal("unused", {})]
    /\ edit = Nothing /\ menu = Nothing /\ did = "nothing"

-----------------------------------------------------------------------------
(* What a panel shows *)

Shown(s) ==
    IF panel[s].kind = "local" THEN [on |-> "disk", dir |-> panel[s].lcwd]
    ELSE [on |-> panel[s].conn, dir |-> panel[s].cwd]

Listing(d) == IF d = Nothing THEN {} ELSE NamesIn[d]
Rows(s) == Listing(Shown(s).dir)
Other(s) == CHOOSE t \in Sides : t # s

Alive(k) == k \in Conns /\ term[k].open = "yes"
Tell(k, field, value) == [term EXCEPT ![k] = IF @.open = "yes" THEN [@ EXCEPT ![field] = value] ELSE @]

Quiet == did' = "nothing"

\* Where an operation goes, seen from where it was chosen.
Seen(at, from) ==
    IF at = from THEN "there" ELSE IF at.on = from.on THEN "elsewhere" ELSE "on another host"

\* A rename is dropped when other names are shown, so it may go on in another
\* directory of the host that lists the very same ones.
RenameSeen(at, from) ==
    IF Seen(at, from) = "elsewhere" /\ Listing(at.dir) = Listing(from.dir)
    THEN "in a lookalike" ELSE Seen(at, from)

\* An operation goes to the disk at once or to a terminal, unless that is closed.
Carry(at, seen) ==
    /\ did' = IF at.on \in Conns /\ ~Alive(at.on) THEN "nothing" ELSE seen
    /\ term' = IF at.on \in Conns THEN Tell(at.on, "busy", TRUE) ELSE term

Perform(at, from) == Carry(at, Seen(at, from))

\* A menu and a dialog cover the window, a system picker does not.
Free == menu # Nothing => menu.what = "pick"

Unedit(s) == IF edit # Nothing /\ edit.side = s THEN Nothing ELSE edit
Unselect(s) == [panel EXCEPT ![s].selected = {}]

-----------------------------------------------------------------------------
(* The terminals, and the render that copies from them *)

Land(k, d) ==
    /\ d \in term[k].going
    /\ \/ term' = [term EXCEPT ![k].going = @ \ {d}, ![k].cwd = d]
       \/ term' = [term EXCEPT ![k].going = @ \ {d}]
    /\ UNCHANGED <<panel, edit, menu>> /\ Quiet

\* SftpTransferFinished: a success lists the directory again.
Finished(k) ==
    /\ Alive(k) /\ term[k].busy
    /\ \E again \in SUBSET ({term[k].cwd} \ {Nothing}) :
         term' = [term EXCEPT ![k].busy = FALSE, ![k].going = @ \cup again]
    /\ UNCHANGED <<panel, edit, menu>> /\ Quiet

Changed(s) == Listing(panel[s].cwd) # Listing(term[panel[s].conn].cwd)

\* Slip: the rename goes on over another listing.
SyncKeepsRename(s) ==
    /\ panel[s].kind = "remote" /\ term[panel[s].conn].cwd # panel[s].cwd
    /\ panel' = [panel EXCEPT ![s].cwd = term[panel[s].conn].cwd,
                              ![s].selected = IF Changed(s) THEN {} ELSE @]
    /\ UNCHANGED <<edit, term, menu>> /\ Quiet

\* sync_remote_state: a selection or a rename does not survive other names.
Sync(s) ==
    /\ panel[s].kind = "remote" /\ term[panel[s].conn].cwd # panel[s].cwd
    /\ panel' = [panel EXCEPT ![s].cwd = term[panel[s].conn].cwd,
                              ![s].selected = IF Changed(s) THEN {} ELSE @]
    /\ edit' = IF Changed(s) /\ edit # Nothing /\ edit.name # "folder" THEN Unedit(s) ELSE edit
    /\ UNCHANGED <<term, menu>> /\ Quiet

-----------------------------------------------------------------------------
(* Hosts *)

\* Slip: the previous terminal stays connected.
ForgetOld(s) == term

CloseOld(s) ==
    IF panel[s].kind = "remote" THEN [term EXCEPT ![panel[s].conn] = Terminal("closed", {})] ELSE term

Fresh == {k \in Conns : term[k].open = "unused"}

\* connect_panel_remote; the new backend lists its home by itself.
ConnectRemote(s) ==
    /\ Free /\ Fresh # {}
    /\ LET k == CHOOSE k \in Fresh : TRUE IN
       /\ term' = [CloseOld(s) EXCEPT ![k] = Terminal("yes", {Home})]
       /\ panel' = [panel EXCEPT ![s].kind = "remote", ![s].conn = k, ![s].cwd = Nothing, ![s].selected = {}]
    /\ edit' = Unedit(s)
    /\ UNCHANGED menu /\ Quiet

ConnectLocal(s) ==
    /\ Free
    /\ term' = CloseOld(s)
    /\ panel' = [panel EXCEPT ![s].kind = "local", ![s].conn = Nothing, ![s].cwd = Nothing,
                              ![s].lcwd = Home, ![s].selected = {}]
    /\ edit' = Unedit(s)
    /\ UNCHANGED menu /\ Quiet

DisconnectPanel(s) ==
    /\ Free
    /\ term' = CloseOld(s)
    /\ panel' = [panel EXCEPT ![s].kind = "off", ![s].conn = Nothing, ![s].cwd = Nothing, ![s].selected = {}]
    /\ edit' = Unedit(s)
    /\ UNCHANGED menu /\ Quiet

-----------------------------------------------------------------------------
(* Browsing *)

\* A double click, the path bar, Enter or Refresh in a menu.
Navigate(s, d) ==
    /\ Free /\ panel[s].kind # "off"
    /\ \/ /\ panel[s].kind = "remote" /\ Alive(panel[s].conn)
          /\ term' = Tell(panel[s].conn, "going", term[panel[s].conn].going \cup {d})
          /\ UNCHANGED <<panel, edit>>
       \/ /\ panel[s].kind = "local" /\ panel' = [Unselect(s) EXCEPT ![s].lcwd = d]
          /\ edit' = IF edit # Nothing /\ edit.name # "folder" THEN Unedit(s) ELSE edit
          /\ UNCHANGED term
    /\ UNCHANGED menu /\ Quiet

\* A click selects one row, with the modifier it adds or removes it.
Click(s, n) ==
    /\ Free /\ n \in Rows(s)
    /\ \E picked \in {{n}, panel[s].selected \cup {n}, panel[s].selected \ {n}} :
         panel' = [panel EXCEPT ![s].selected = picked]
    /\ edit' = Nothing
    /\ UNCHANGED <<term, menu>> /\ Quiet

\* toggle_hidden: a new listing from the disk, or from the host.
ToggleHidden(s) ==
    /\ Free /\ panel[s].kind # "off"
    /\ panel' = Unselect(s)
    /\ term' = IF panel[s].kind = "remote" /\ panel[s].cwd # Nothing
                 THEN Tell(panel[s].conn, "going", term[panel[s].conn].going \cup {panel[s].cwd}) ELSE term
    /\ UNCHANGED <<edit, menu>> /\ Quiet

-----------------------------------------------------------------------------
(* Operations *)

\* Where the other panel would take or send a file; that a remote panel has
\* another remote one beside it is all its own menu wants to know.
Across(s) ==
    LET there == Shown(Other(s)) IN
    IF panel[s].kind = "local" /\ there.on \in Conns THEN there
    ELSE [on |-> there.on, dir |-> Nothing]

\* A right click keeps a selection it is part of; the menu's items hold the
\* paths and the callbacks of this moment, for this panel and the other one.
OpenMenu(s, n) ==
    /\ menu = Nothing /\ n \in Rows(s)
    /\ LET names == IF n \in panel[s].selected THEN panel[s].selected ELSE {n} IN
       /\ panel' = [panel EXCEPT ![s].selected = names]
       /\ menu' = [what |-> "menu", side |-> s, at |-> Shown(s), names |-> names, to |-> Across(s)]
    /\ edit' = Nothing
    /\ UNCHANGED term /\ Quiet

CloseMenu == menu # Nothing /\ menu' = Nothing /\ UNCHANGED <<panel, term, edit>> /\ Quiet

\* start_rename: the first one makes the input, whose Enter does for ever what
\* that panel's kind asked for.
StartRename ==
    /\ menu # Nothing /\ menu.what = "menu" /\ Cardinality(menu.names) = 1
    /\ LET s == menu.side IN
       /\ \E n \in menu.names : edit' = [side |-> s, name |-> n, from |-> Shown(s)]
       /\ panel' = [panel EXCEPT ![s].enters =
            IF @ # "unset" THEN @ ELSE IF menu.at.on = "disk" THEN "local" ELSE "remote"]
    /\ menu' = Nothing
    /\ UNCHANGED term /\ Quiet

\* Enter in the row that is being renamed, as long as it is on screen.
CommitRename(s) ==
    /\ edit # Nothing /\ edit.side = s /\ edit.name \in Rows(s)
    /\ edit' = Nothing /\ panel' = Unselect(s) /\ UNCHANGED menu
    /\ \/ /\ panel[s].enters = "local"
          /\ LET at == [on |-> "disk", dir |-> panel[s].lcwd] IN Carry(at, RenameSeen(at, edit.from))
       \/ /\ panel[s].enters = "remote"
          /\ IF panel[s].kind = "remote"
               THEN LET at == [on |-> panel[s].conn, dir |-> panel[s].cwd] IN Carry(at, RenameSeen(at, edit.from))
               ELSE UNCHANGED term /\ Quiet

\* Cancelled, or blurred by a click elsewhere.
CancelEdit == edit # Nothing /\ edit' = Nothing /\ UNCHANGED <<panel, term, menu>> /\ Quiet

StartMakeFolder(s) ==
    /\ Free /\ panel[s].kind # "off"
    /\ edit' = [side |-> s, name |-> "folder", from |-> Shown(s)]
    /\ UNCHANGED <<panel, term, menu>> /\ Quiet

\* commit_make_folder works where the panel is by then, and shows it.
CommitMakeFolder(s) ==
    /\ edit # Nothing /\ edit.side = s /\ edit.name = "folder" /\ panel[s].kind # "off"
    /\ edit' = Nothing
    /\ IF Shown(s).dir = Nothing THEN UNCHANGED term /\ Quiet
       ELSE Perform(Shown(s), Shown(s))
    /\ UNCHANGED <<panel, menu>>

\* Delete asks, the download of a selection asks for a place on the disk.
Ask(what) ==
    /\ menu # Nothing /\ menu.what = "menu"
    /\ \/ what = "delete" /\ UNCHANGED panel
       \/ what = "pick" /\ menu.at.on \in Conns /\ menu.to.on \notin Conns /\ panel' = Unselect(menu.side)
    /\ menu' = [menu EXCEPT !.what = what]
    /\ UNCHANGED <<term, edit>> /\ Quiet

\* Slip: the paths are made from the panel as it is when the user answers.
LatePath == [menu.at EXCEPT !.dir = Shown(menu.side).dir]
TakenPath == menu.at

\* The dialog or the picker answered: what the menu captured is carried out.
Answer(op) ==
    /\ menu # Nothing /\ menu' = Nothing
    /\ \/ op = "delete" /\ menu.what = "delete" /\ panel' = Unselect(menu.side)
       \/ op = "download" /\ menu.what = "pick" /\ menu.names # {} /\ UNCHANGED panel
       \/ op = "upload" /\ menu.what = "pick" /\ menu.names = {} /\ panel' = Unselect(menu.side)
    /\ Perform(TakenPath, menu.at)
    /\ UNCHANGED edit

\* What a row's menu does at once: an edit, or a copy to the host beside it; the
\* upload of all that the disk beside it lists; an upload to the host beside it.
ActFromMenu ==
    /\ menu # Nothing /\ menu.what = "menu" /\ menu' = Nothing
    /\ \/ /\ menu.at.on \in Conns /\ (Cardinality(menu.names) = 1 \/ menu.to.on \in Conns)
          /\ panel' = Unselect(menu.side) /\ Perform(TakenPath, menu.at)
       \/ menu.at.on \in Conns /\ menu.to.on = "disk" /\ UNCHANGED panel /\ Perform(TakenPath, menu.at)
       \/ /\ menu.at.on = "disk" /\ menu.to.on \in Conns /\ panel' = Unselect(menu.side)
          /\ IF menu.to.dir = Nothing THEN UNCHANGED term /\ Quiet ELSE Perform(menu.to, menu.to)
    /\ UNCHANGED edit

\* The ellipsis menu's Download: the callback of the panel the menu was opened
\* on, the selection of the panel as it is.
DownloadSelected(s) ==
    /\ menu = Nothing /\ panel[s].kind = "remote" /\ panel[s].selected \cap Rows(s) # {}
    /\ panel' = Unselect(s)
    /\ menu' = [what |-> "pick", side |-> s, at |-> Shown(s),
                names |-> panel[s].selected \cap Rows(s), to |-> [on |-> "disk", dir |-> Nothing]]
    /\ UNCHANGED <<term, edit>> /\ Quiet

\* The ellipsis menu's Upload, from the menu's opening: it asks for files, for the
\* directory shown at that moment.
ChooseUpload(s) ==
    /\ menu = Nothing /\ panel[s].kind = "remote" /\ panel[s].cwd # Nothing
    /\ menu' = [what |-> "pick", side |-> s, at |-> Shown(s),
                names |-> {}, to |-> [on |-> "disk", dir |-> Nothing]]
    /\ UNCHANGED <<panel, term, edit>> /\ Quiet

\* A double click on a file, a drop from the other panel: no waiting.
ActNow(s) ==
    /\ Free /\ panel[s].kind = "remote" /\ panel[s].cwd # Nothing
    /\ Perform(Shown(s), Shown(s))
    /\ UNCHANGED <<panel, edit, menu>>

-----------------------------------------------------------------------------
Next ==
    \/ \E k \in Conns, d \in Dirs : Land(k, d)
    \/ \E k \in Conns : Finished(k)
    \/ \E s \in Worked, d \in Dirs : Navigate(s, d)
    \/ \E s \in Worked, n \in Names : Click(s, n) \/ OpenMenu(s, n)
    \/ \E s \in Sides : Sync(s) \/ ConnectRemote(s) \/ ConnectLocal(s) \/ DisconnectPanel(s)
    \/ \E s \in Worked : ToggleHidden(s) \/ CommitRename(s) \/ StartMakeFolder(s) \/ CommitMakeFolder(s)
    \/ \E s \in Worked : DownloadSelected(s) \/ ChooseUpload(s)
    \/ \E s \in Sides : ActNow(s)
    \/ CloseMenu \/ ActFromMenu \/ StartRename \/ CancelEdit
    \/ \E what \in {"delete", "pick"} : Ask(what)
    \/ \E op \in {"delete", "download", "upload"} : Answer(op)

Spec == Init /\ [][Next]_vars

-----------------------------------------------------------------------------
(* Properties *)

\* What the user has chosen happens where it was chosen, whatever lands, is
\* rendered or is reconnected in between.  Two things are excepted, and nothing
\* else: a rename may go on in another directory of the host that lists the very
\* same names (sync_remote_state compares names only), and may reach another
\* host where the panel's rename input was made for the disk.
OpsHitChosen ==
    /\ did # "elsewhere"
    /\ did = "on another host" => \E s \in Sides : panel[s].enters = "local" /\ panel[s].kind = "remote"

\* No terminal stays connected that no panel shows.
TerminalsShown ==
    \A k \in Conns : term[k].open = "yes" => Cardinality({s \in Sides : panel[s].conn = k}) = 1

\* "`remote` selects which commit path Enter triggers" (start_rename).
RenamesReachTheirHost == did # "on another host"

\* A rename happens in the directory in which it was begun.
RenamesStayInPlace == did # "in a lookalike"
=============================================================================
