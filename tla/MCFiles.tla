------------------------------ MODULE MCFiles ------------------------------
(***************************************************************************)
(* Files that several hands are on: those browsed in the SFTP tab with its *)
(* two panels or in the panel beside the terminals, and the file of known  *)
(* hosts; one of the three in each behaviour.  One directory lists a part  *)
(* of what the second does, a third the very same names as the first.      *)
(***************************************************************************)
EXTENDS KnownHosts, TLC

CONSTANTS dirA, dirB, dirC, nameA, nameB,
          Sides, Worked, Terminals, Dirs, Home, Names, NamesIn, Nothing,   \* of SftpTab
          Panes                                                            \* of SidePanel
VARIABLES place,    \* "tab", "side" or "known"
          panel, term, edit, menu, did,
          together, host, active, shown, text, sideEdit, sideMenu, sideDid,
          visits    \* bound: the directories the user goes to

MCNamesIn == (dirA :> {nameA}) @@ (dirB :> {nameA, nameB}) @@ (dirC :> {nameA})

Tab == INSTANCE SftpTab WITH Conns <- Terminals
Side == INSTANCE SidePanel WITH edit <- sideEdit, menu <- sideMenu, did <- sideDid
ASSUME FilesAssumption == KnownHostsAssumption /\ Tab!TabAssumption /\ Side!SideAssumption

tabVars == <<panel, term, edit, menu, did>>
sideVars == <<together, host, active, shown, text, sideEdit, sideMenu, sideDid>>

\* (What is not there takes one of its initial states.)
MCInit ==
    /\ place \in {"tab", "side", "known"} /\ Init /\ Tab!Init /\ Side!Init
    /\ place # "side" => together
    /\ place # "tab" => panel[CHOOSE s \in Sides : TRUE].kind = "local"
    /\ place # "known" => file = {}

MCNext ==
    \/ place = "tab" /\ Tab!Next /\ UNCHANGED <<place, sideVars, vars>>
    \/ place = "side" /\ Side!Next /\ UNCHANGED <<place, together, tabVars, vars>>
    \/ place = "known" /\ Next /\ UNCHANGED <<place, tabVars, sideVars>>

MCSpec == MCInit /\ [][MCNext]_<<vars, tabVars, sideVars, place>>

\* The user's home and one other directory are visited; when they are alike, the
\* tab connects to one host only.
Visited == {{Home, d} : d \in Dirs \ {Home}}
InVisited ==
    /\ \A k \in Terminals : term[k].going \subseteq visits
    /\ dirC \in visits =>
         \A k, l \in Terminals : k # l => "unused" \in {term[k].open, term[l].open}
    /\ \A s \in Sides : panel[s].lcwd \in visits
    /\ {text} \cup {host[p].cwd : p \in Panes} \subseteq visits \cup {Nothing}

BoundedInit ==
    MCInit /\ visits \in Visited /\ (place = "known" => visits = {Home, dirB})

BoundedSpec ==
    /\ BoundedInit
    /\ [][MCNext /\ UNCHANGED visits /\ InVisited']_<<vars, tabVars, sideVars, place, visits>>

\* Wherever files are browsed, an operation goes where the user chose it.
OperationsHitChosen == Tab!OpsHitChosen /\ Side!EditsHitChosen

\* What is shown is what there is: terminals, the path of the listing.
ShownIsTrue == Tab!TerminalsShown /\ Side!PathShowsCwd

MCTypeOK == TypeOK /\ Tab!TypeOK /\ Side!TypeOK
=============================================================================
