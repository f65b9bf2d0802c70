------------------------------ MODULE SshImport ------------------------------
(***************************************************************************)
(* Importing hosts from the OpenSSH configuration: the scan, the preview   *)
(* with its selection, jump chains and blockers, and the one transaction   *)
(* that writes what was selected.  Sources: crabport-core ssh_import.rs    *)
(* and store/ssh_import.rs, crabport-ui app/ssh_import.rs and              *)
(* views/sessions/import.rs.                                               *)
(*                                                                         *)
(* An entry of the configuration is a Host block for one pattern with what *)
(* the query for it yields; an alias is an opaque value (case is folded).  *)
(* A wrong passphrase and a transaction that fails change nothing.         *)
(***************************************************************************)
EXTENDS Naturals, SequencesExt

CONSTANTS Configs,   \* configuration files: sequences of entries
          Stores,    \* saved hosts at first: [id -> [name, ssh, jump, cred]]
          LocalUser, \* whether the name of the local user is known
          None,      \* no id, no alias
          MaxId,     \* bound: ids given to hosts and credentials
          MaxTimers  \* bound: closings whose animation is running

VARIABLES hosts,   \* table hosts
          creds,   \* ids in table credentials
          preview, \* SshImportState
          timers   \* close timers

vars == <<hosts, creds, preview, timers>>

NoPreview == [here |-> FALSE, open |-> FALSE]
Next_(ids) == CHOOSE n \in 1..MaxId : n \notin ids /\ \A m \in ids : m < n

-----------------------------------------------------------------------------
(* The scan.                                                               *)

\* identity_file
KeyOf(e) == IF Len(SelectSeq(e.keys, LAMBDA k : k # "token")) = 1
            THEN SelectSeq(e.keys, LAMBDA k : k # "token")[1] ELSE "none"

\* build_candidate: what blocks, and the jumps a row can express.
Blocked(e) ==
  \/ e.critical \/ (~e.user /\ ~LocalUser)
  \/ "token" \in ToSet(e.keys) \/ KeyOf(e) \in {"none", "gone"}
  \/ "odd" \in ToSet(e.jumps)
Candidate(e) ==
  [name |-> e.name, key |-> KeyOf(e), blocked |-> Blocked(e),
   jumps |-> SelectSeq(e.jumps, LAMBDA j : j \notin {"none", "odd"})]

\* scan_ssh_config: concrete aliases, the first block of each.
Scan(config) ==
  LET concrete == SelectSeq(config, LAMBDA e : ~e.pattern)
      first(i) == \A j \in 1..(i - 1) : concrete[j].name # concrete[i].name
      order == SelectSeq([i \in 1..Len(concrete) |-> i], first)
  IN  [i \in 1..Len(order) |-> Candidate(concrete[order[i]])]

-----------------------------------------------------------------------------
(* The preview: rows, the hosts saved when it opened, and what follows     *)
(* from the selection.                                                     *)

Matches(table, a) == {h \in DOMAIN table : table[h].name = a}
SshMatches(table, a) == {h \in Matches(table, a) : table[h].ssh}
TheSsh(table, a) == Cardinality(Matches(table, a)) = 1 /\ SshMatches(table, a) # {}
RowsOf(p) == 1..Len(p.rows)
Row(p, a) == {i \in RowsOf(p) : p.rows[i].name = a}

CanSelect(p, i) ==
  LET row == p.rows[i] IN
  /\ ~row.blocked /\ row.key # "bad"
  /\ Cardinality(SshMatches(p.existing, row.name)) <= 1
  /\ Matches(p.existing, row.name) = SshMatches(p.existing, row.name)
IsNew(p, i) == Matches(p.existing, p.rows[i].name) = {}

Issue(r, root) == [r EXCEPT !.issues = @ \cup {root}, !.on = FALSE]

\* ensure_jump_destination
Destination(p, r, root, j) ==
  LET pulled == {i \in Row(p, j) : CanSelect(p, i)} IN
  IF Row(p, j) \cap r.selected # {} \/ TheSsh(p.existing, j) THEN r
  ELSE IF Matches(p.existing, j) = {} /\ pulled # {}
  THEN [r EXCEPT !.selected = @ \cup pulled]
  ELSE Issue(r, root)

\* Mutant of Assign: a link that another chain needs is overwritten.
AssignOver(p, r, root, j) ==
  LET rows == Row(p, r.child) \cap r.selected IN
  IF rows # {} THEN [r EXCEPT !.jump = [i \in rows |-> j] @@ @, !.child = j]
  ELSE [r EXCEPT !.child = j]

\* assign_jump
Assign(p, r, root, j) ==
  LET rows == Row(p, r.child) \cap r.selected IN
  IF \E i \in rows : i \in DOMAIN r.jump /\ r.jump[i] # j THEN Issue(r, root)
  ELSE IF rows # {} THEN [r EXCEPT !.jump = [i \in rows |-> j] @@ @, !.child = j]
  ELSE IF \E h \in Matches(p.existing, r.child) :
            /\ Matches(p.existing, r.child) = {h} /\ p.existing[h].jump # None
            /\ p.existing[p.existing[h].jump].name = j
  THEN [r EXCEPT !.child = j]
  ELSE Issue(r, root)

\* One selected row: its chain from the last hop to the first.
Expand(p, r, root) ==
  LET hop(q, j) ==
        LET d == IF q.on THEN Destination(p, q, root, j) ELSE q
        IN  IF d.on THEN Assign(p, d, root, j) ELSE d
  IN  FoldLeft(hop, [r EXCEPT !.child = p.rows[root].name, !.on = TRUE],
               Reverse(p.rows[root].jumps))

\* The selected rows in turn, until no row is added.
Round(p, r) ==
  FoldLeft(LAMBDA q, i : IF i \in r.selected THEN Expand(p, q, i) ELSE q, r,
           [i \in RowsOf(p) |-> i])
Expanded(p, selected) ==
  LET round(r, n) ==
        IF r.done THEN r
        ELSE LET q == Round(p, r) IN [q EXCEPT !.done = q.selected = r.selected]
  IN  FoldLeft(round, [selected |-> selected, jump |-> << >>, issues |-> {},
                       child |-> None, on |-> TRUE, done |-> FALSE],
               [n \in 1..(Len(p.rows) + 1) |-> n])

\* The n-th place reached along links, or None.
Along(links, start, n) ==
  LET at[k \in 0..n] ==
        IF k = 0 THEN start ELSE IF at[k - 1] \in DOMAIN links THEN links[at[k - 1]] ELSE None
  IN  at[n]
Circles(links, start) == Along(links, start, Cardinality(DOMAIN links) + 1) # None

\* detect_jump_cycles: saved links count under a name that only one saved host has.
Links(p, r) ==
  LET taken == {p.rows[i].name : i \in r.selected}
      saved == {h \in DOMAIN p.existing :
                  /\ p.existing[h].name \notin taken /\ p.existing[h].jump # None
                  /\ Matches(p.existing, p.existing[h].name) = {h}}
      jumping == r.selected \cap DOMAIN r.jump
  IN  [a \in {p.rows[i].name : i \in jumping} \cup {p.existing[h].name : h \in saved} |->
         IF \E i \in jumping : p.rows[i].name = a
         THEN r.jump[CHOOSE i \in jumping : p.rows[i].name = a]
         ELSE p.existing[p.existing[CHOOSE h \in saved : p.existing[h].name = a].jump].name]

\* recompute_dependencies
Recomputed(p, selected) ==
  LET r == Expanded(p, selected)
      circling == {i \in r.selected : Circles(Links(p, r), p.rows[i].name)}
  IN  [p EXCEPT !.selected = r.selected, !.jump = r.jump, !.issues = r.issues \cup circling]

\* SshImportState::new: what is new is selected.
NewPreview(config) ==
  LET p == [here |-> TRUE, open |-> TRUE, rows |-> Scan(config), existing |-> hosts,
            selected |-> {}, jump |-> << >>, issues |-> {}]
  IN  Recomputed(p, {i \in RowsOf(p) : CanSelect(p, i) /\ IsNew(p, i)})

CanSubmit(p) ==
  /\ p.selected # {}
  /\ \A i \in p.selected : CanSelect(p, i) /\ i \notin p.issues

-----------------------------------------------------------------------------
Init ==
  /\ hosts \in Stores
  /\ creds = {hosts[h].cred : h \in DOMAIN hosts}
  /\ preview = NoPreview /\ timers = 0

Open(config) ==
  /\ ~preview.open /\ Scan(config) # << >>
  /\ preview' = NewPreview(config)
  /\ UNCHANGED <<hosts, creds, timers>>

\* set_selected, select_all_new, clear_selection
Toggle(i) ==
  /\ preview.here /\ i \in RowsOf(preview) /\ CanSelect(preview, i)
  /\ preview' = Recomputed(preview,
                  IF i \in preview.selected THEN preview.selected \ {i}
                                            ELSE preview.selected \cup {i})
  /\ UNCHANGED <<hosts, creds, timers>>

SelectAllNew ==
  /\ preview.here
  /\ preview' = Recomputed(preview, preview.selected \cup
                  {i \in RowsOf(preview) : CanSelect(preview, i) /\ IsNew(preview, i)})
  /\ UNCHANGED <<hosts, creds, timers>>

ClearSelection ==
  /\ preview.here /\ preview' = Recomputed(preview, {})
  /\ UNCHANGED <<hosts, creds, timers>>

\* close_ssh_import: the preview goes 200 ms later, whichever preview it then is.
Closing == preview' = [preview EXCEPT !.open = FALSE] /\ timers' = timers + 1
Close == preview.open /\ timers < MaxTimers /\ Closing /\ UNCHANGED <<hosts, creds>>
TimerFires ==
  /\ timers > 0 /\ timers' = timers - 1 /\ preview' = NoPreview
  /\ UNCHANGED <<hosts, creds>>

\* import_ssh_hosts: ids and credentials of the rows...
Added(i) == {j \in preview.selected : j <= i /\ IsNew(preview, j)}
Id(i) == IF IsNew(preview, i) THEN Next_(DOMAIN hosts) + Cardinality(Added(i)) - 1
         ELSE CHOOSE h \in Matches(preview.existing, preview.rows[i].name) : TRUE
CredId(i) == Next_(creds) + Cardinality({j \in preview.selected : j < i})
RowOf(h) == CHOOSE i \in preview.selected : Id(i) = h
Imported == {Id(i) : i \in preview.selected}

\* ... the host a jump goes to: imported, or saved under a name of its own...
Resolves(a) == {Id(i) : i \in Row(preview, a) \cap preview.selected} # {} \/ TheSsh(hosts, a)
Target(a) ==
  IF Row(preview, a) \cap preview.selected # {}
  THEN Id(CHOOSE i \in Row(preview, a) \cap preview.selected : TRUE)
  ELSE CHOOSE h \in SshMatches(hosts, a) : TRUE
JumpOf(i) == IF i \in DOMAIN preview.jump THEN Target(preview.jump[i]) ELSE None

\* ... and the table that results.
Written ==
  [h \in DOMAIN hosts \cup Imported |->
     IF h \in Imported
     THEN [name |-> preview.rows[RowOf(h)].name, ssh |-> TRUE,
           jump |-> JumpOf(RowOf(h)), cred |-> CredId(RowOf(h))]
     ELSE hosts[h]]
JumpsIn(table) ==
  [h \in {g \in DOMAIN table : table[g].jump # None} |-> table[h].jump]

\* The transaction goes through.
Accepted ==
  /\ \A i \in preview.selected : IsNew(preview, i) \/ (Id(i) \in DOMAIN hosts /\ hosts[Id(i)].ssh)
  /\ \A i \in preview.selected \cap DOMAIN preview.jump : Resolves(preview.jump[i])
  /\ \A h \in Imported : Written[h].jump # h /\ ~Circles(JumpsIn(Written), h)

\* Mutant of Replaced: shared or not.
ReplacedAll == {hosts[h].cred : h \in Imported \cap DOMAIN hosts}

\* Credentials that updates have replaced and no host refers to any more.
Replaced ==
  {hosts[h].cred : h \in Imported \cap DOMAIN hosts}
    \ {Written[h].cred : h \in DOMAIN Written}

\* perform_ssh_import
Import ==
  /\ preview.here /\ CanSubmit(preview) /\ timers < MaxTimers
  /\ {Next_(DOMAIN hosts), Next_(creds)} \subseteq 1..(MaxId - Len(preview.rows))
  /\ Accepted
  /\ hosts' = Written
  /\ creds' = (creds \cup {CredId(i) : i \in preview.selected}) \ Replaced
  /\ Closing

\* A host is deleted beside: hosts that jump through it connect directly.  (Its credential
\* goes with it only when it is its own; here it stays.)
RemoveHost(h) ==
  /\ ~preview.open /\ h \in DOMAIN hosts
  /\ hosts' = [g \in DOMAIN hosts \ {h} |->
                 [hosts[g] EXCEPT !.jump = IF @ = h THEN None ELSE @]]
  /\ UNCHANGED <<creds, preview, timers>>

Next ==
  \/ \E c \in Configs : Open(c)
  \/ \E i \in 1..MaxId : Toggle(i)
  \/ SelectAllNew \/ ClearSelection \/ Close \/ TimerFires \/ Import
  \/ \E h \in 1..MaxId : RemoveHost(h)

Spec == Init /\ [][Next]_vars

-----------------------------------------------------------------------------
\* Every variable stays in its type.
TypeOK ==
  /\ DOMAIN hosts \subseteq 1..MaxId /\ creds \subseteq 1..MaxId
  /\ \A h \in DOMAIN hosts : hosts[h].jump \in DOMAIN hosts \cup {None}
  /\ timers \in 0..MaxTimers /\ (preview.open => preview.here)
  /\ preview.here => preview.selected \subseteq RowsOf(preview)

\* What is imported connects as the configuration says: from each imported host the saved
\* links lead through its ProxyJump, last hop first, without a circle; no credential that
\* a host uses is removed, none is shared by hosts that did not share one before (import.rs,
\* store/ssh_import.rs: "New credentials are created per host").  (An Import clicked while the
\* preview fades out is excepted: a host of its chains may have been deleted since.)
Reaches(table, h, chain) ==
  \A n \in 1..Len(chain) :
    LET hop == Along(JumpsIn(table), h, n) IN hop # None /\ table[hop].name = Reverse(chain)[n]
ImportSound ==
  [][Import /\ preview.open =>
       /\ \A i \in preview.selected : Reaches(hosts', Id(i), preview.rows[i].jumps)
       /\ \A i \in preview.selected : ~Circles(JumpsIn(hosts'), Id(i))
       /\ \A h \in DOMAIN hosts' : hosts'[h].cred \in creds'
       /\ \A h \in Imported, g \in DOMAIN hosts' : hosts'[h].cred = hosts'[g].cred => h = g
    ]_vars

\* A new alias becomes one host: but Import clicked again while the preview fades out takes
\* the rows for new once more.
ImportedOnce ==
  [][Import => \A i \in preview.selected : IsNew(preview, i) => Matches(hosts, preview.rows[i].name) = {}]_vars

\* What the preview lets through the transaction accepts ("The resolved selected and existing
\* links form a cycle", import.rs): but links of saved hosts of the same name are not looked at.
SubmittedIsAccepted == preview.open /\ CanSubmit(preview) => Accepted
=============================================================================
