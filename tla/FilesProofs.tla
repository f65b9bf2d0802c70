----------------------------- MODULE FilesProofs -----------------------------
(***************************************************************************)
(* What holds of files whoever has hands on them.  The invariants of the   *)
(* three: known hosts (IInv), the SFTP tab (TabInv), the panel beside the  *)
(* terminals (SideInv); the theorems are at the end.                       *)
(*                                                                         *)
(* Known hosts: the file changes only by decisions of the user.  The       *)
(* property is about one step; what it needs from the steps before is that *)
(* a change under way has the file to itself (LockHeld), that what it has  *)
(* read, unless that failed, still is the file (Fresh), and that the       *)
(* temporary file holds what the change makes of it (Staged).              *)
(* Nobody begins a second change beside his first (OneChange).             *)
(***************************************************************************)
EXTENDS MCFiles, FiniteSetTheorems, TLAPS

\* Only the holder of STORE_LOCK is past the beginning of a change.
LockHeld == \A a \in Actors : job[a].at # "begin" => lock = a /\ job[a].op # "none"

\* A handshake changes the file when it adds its key, the pane when its alert is closed.
OneChange ==
  /\ \A c \in Conns : conn[c].at # "adding" => job[c].op = "none"
  /\ dialog.op # "none" => job[Pane].op = "none"
  /\ dialog.at = "begin"

\* What a change goes by: the file, or nothing when it could not be read.
Ground(a) == IF job[a].blind THEN {} ELSE file

Fresh == \A a \in Actors : job[a].at \in {"write", "rename"} => job[a].seen = Ground(a)
Staged == \A a \in Actors : job[a].at = "rename" => tmp = Changed(job[a], Ground(a))

IInv == TypeOK /\ LockHeld /\ OneChange /\ Fresh /\ Staged

-----------------------------------------------------------------------------
(* Changes.                                                                *)

\* What a change makes of the entries depends on what it adds or removes only.
LEMMA ChangedDepends ==
  ASSUME NEW j, NEW k, NEW s, j.op = k.op, j.entries = k.entries
  PROVE  Changed(j, s) = Changed(k, s)
BY DEF Changed

\* A change makes entries of entries.
LEMMA ChangedType ==
  ASSUME NEW j \in Jobs, NEW s \in SUBSET Entries
  PROVE  Changed(j, s) \in SUBSET Entries
BY DEF Changed, Jobs

\* What is not a change, and what the user may decide, is a job.
LEMMA JobsType ==
  /\ NoJob \in Jobs /\ NoJob.op = "none" /\ NoJob.at = "begin"
  /\ \A e \in Entries : Add(e) \in Jobs /\ Remove(e) \in Jobs
  /\ Clear \in Jobs
BY DEF Jobs, Job, NoJob, Add, Remove, Clear

-----------------------------------------------------------------------------
(* Types.                                                                  *)

LEMMA TypeInit == ASSUME KnownHostsAssumption, Init PROVE TypeOK
<1>1. file \subseteq Entries
  BY DEF Init
<1>2. Idle \in [at : {"idle", "lookup", "ask", "adding", "up", "refused"},
                entry : Entries \cup {NoEntry}, store : BOOLEAN]
  BY DEF Idle
<1>3. conn \in [Conns -> [at : {"idle", "lookup", "ask", "adding", "up", "refused"},
                         entry : Entries \cup {NoEntry}, store : BOOLEAN]]
  BY <1>2 DEF Init
<1>4. \A c \in Conns : conn[c].at = "idle"
  BY DEF Init, Idle
<1>5. count \in [loads : 0..MaxLoads, forgets : 0..MaxForgets, faults : 0..MaxFaults,
                crashes : 0..MaxCrashes]
  BY DEF Init, KnownHostsAssumption
<1> QED
  BY <1>1, <1>3, <1>4, <1>5, JobsType DEF TypeOK, Init

LEMMA TypeStep ==
  ASSUME KnownHostsAssumption, TypeOK, OneChange, [Next]_vars
  PROVE  TypeOK'
<1> USE DEF TypeOK
<1>1. \A a \in Actors : Nobody # a /\ job[a] \in Jobs
  BY DEF KnownHostsAssumption
<1>2. CASE AskToForget
  BY <1>2, JobsType DEF AskToForget
<1>3. CASE Dismiss
  BY <1>3, JobsType DEF Dismiss
<1>4. CASE Confirm
  BY <1>4, JobsType DEF Confirm, KnownHostsAssumption, Actors
<1>5. CASE Crash
  BY <1>5, JobsType DEF Crash, KnownHostsAssumption, Idle
<1>6. ASSUME NEW c \in Conns, NEW e \in Entries, Present(c, e) PROVE TypeOK'
  <2>1. PICK opened \in BOOLEAN :
          conn' = [conn EXCEPT ![c] = [at |-> IF opened THEN "lookup" ELSE "ask",
                                       entry |-> e, store |-> opened]]
    BY <1>6 DEF Present
  <2>2. /\ count' = [count EXCEPT !.loads = @ + 1] \/ count' = [count EXCEPT !.loads = @ + 1, !.faults = @ + 1]
        /\ count' = [count EXCEPT !.loads = @ + 1] \/ count.faults < MaxFaults
        /\ count.loads < MaxLoads
    BY <1>6 DEF Present
  <2>3. count' \in [loads : 0..MaxLoads, forgets : 0..MaxForgets, faults : 0..MaxFaults,
                    crashes : 0..MaxCrashes]
    <3>1. count.loads \in 0..MaxLoads /\ count.faults \in 0..MaxFaults
      OBVIOUS
    <3>2. count.loads + 1 \in 0..MaxLoads
      BY <2>2, <3>1 DEF KnownHostsAssumption
    <3>3. count.faults < MaxFaults => count.faults + 1 \in 0..MaxFaults
      BY <3>1 DEF KnownHostsAssumption
    <3> QED
      BY <2>2, <3>2, <3>3
  <2> QED
    BY <1>6, <2>1, <2>3 DEF Present
<1>7. ASSUME NEW c \in Conns, NEW accepted \in BOOLEAN, Answer(c, accepted) PROVE TypeOK'
  <2>1. conn' \in [Conns -> [at : {"idle", "lookup", "ask", "adding", "up", "refused"},
                             entry : Entries \cup {NoEntry}, store : BOOLEAN]]
    BY <1>7 DEF Answer
  <2>2. job' \in [Actors -> Jobs]
    BY <1>7 DEF Answer, Add, Job, Jobs, Actors
  <2> QED
    BY <1>7, <2>1, <2>2 DEF Answer
<1>8. ASSUME NEW c \in Conns, Lookup(c) PROVE TypeOK'
  <2>1. \A s, e : Verdict(s, e) \in {"up", "refused", "ask"}
    BY DEF Verdict
  <2> QED
    BY <1>8, <2>1 DEF Lookup, Fault, KnownHostsAssumption
<1>9. ASSUME NEW c \in Conns, Disconnect(c) PROVE TypeOK'
  BY <1>9 DEF Disconnect, Idle
<1>10. ASSUME NEW a \in Actors, TakeLock(a) PROVE TypeOK'
  BY SMTT(30), <1>10 DEF TakeLock, Jobs
<1>11. ASSUME NEW a \in Actors, Over(a), job[a].op # "none"
       PROVE  /\ lock' \in Actors \cup {Nobody}
              /\ conn' \in [Conns -> [at : {"idle", "lookup", "ask", "adding", "up", "refused"},
                                      entry : Entries \cup {NoEntry}, store : BOOLEAN]]
              /\ \A c \in Conns : conn'[c].at # "idle" => conn'[c].entry \in Entries
              /\ job' \in [Actors -> Jobs]
  <2>1. CASE a \in Conns /\ conn[a].at # "idle"
    BY <1>11, <2>1, JobsType DEF Over
  <2>2. CASE a \notin Conns
    BY <1>11, <2>2, JobsType DEF Over
  <2> QED
    BY <1>11, <2>1, <2>2 DEF OneChange
<1>12. Fault => count' \in [loads : 0..MaxLoads, forgets : 0..MaxForgets, faults : 0..MaxFaults,
                            crashes : 0..MaxCrashes]
  BY DEF Fault, KnownHostsAssumption
<1>13. ASSUME NEW a \in Actors, Read(a) PROVE TypeOK'
  BY <1>11, <1>12, <1>13 DEF Read, Jobs
<1>14. ASSUME NEW a \in Actors, WriteTmp(a) PROVE TypeOK'
  <2>1. Changed(job[a], job[a].seen) \in SUBSET Entries
    BY <1>1, ChangedType DEF Jobs
  <2> QED
    BY SMTT(30), <1>11, <1>12, <1>14, <2>1 DEF WriteTmp, Jobs
<1>15. ASSUME NEW a \in Actors, Rename(a) PROVE TypeOK'
  BY <1>11, <1>12, <1>15 DEF Rename
<1>16. CASE UNCHANGED vars
  BY <1>16 DEF vars
<1> QED
  BY <1>2, <1>3, <1>4, <1>5, <1>6, <1>7, <1>8, <1>9, <1>10, <1>13, <1>14, <1>15, <1>16 DEF Next

-----------------------------------------------------------------------------
(* The inductive invariant.                                                *)

LEMMA Initially == ASSUME KnownHostsAssumption, Init PROVE IInv
BY TypeInit DEF IInv, LockHeld, OneChange, Fresh, Staged, Init, Idle, NoJob, Job, Actors

\* Who holds the lock, and who is making a change.
LEMMA HolderStep ==
  ASSUME KnownHostsAssumption, TypeOK, LockHeld, OneChange, [Next]_vars
  PROVE  LockHeld' /\ OneChange'
<1> USE DEF LockHeld, OneChange
<1>1. \A a, b \in Actors : job[a] \in Jobs /\ (job[b].at # "begin" /\ job[a].at # "begin" => a = b)
  BY DEF TypeOK
<1>2. CASE AskToForget
  <2>1. dialog'.at = "begin"
    BY <1>2 DEF AskToForget, Remove, Clear, Job
  <2> QED
    BY <1>2, <2>1 DEF AskToForget
<1>3. CASE Dismiss
  BY <1>3, JobsType DEF Dismiss
<1>4. CASE Confirm
  BY <1>4, JobsType DEF Confirm, KnownHostsAssumption, Actors, TypeOK
<1>5. CASE Crash
  BY <1>5, JobsType DEF Crash, Actors, Idle
<1>6. ASSUME NEW c \in Conns, NEW e \in Entries, Present(c, e) PROVE LockHeld' /\ OneChange'
  BY <1>6 DEF Present, TypeOK
<1>7. ASSUME NEW c \in Conns, NEW accepted \in BOOLEAN, Answer(c, accepted)
      PROVE  LockHeld' /\ OneChange'
  BY <1>7, JobsType DEF Answer, TypeOK, Add, Job, KnownHostsAssumption, Actors
<1>8. ASSUME NEW c \in Conns, Lookup(c) PROVE LockHeld' /\ OneChange'
  BY <1>8 DEF Lookup, TypeOK, Verdict
<1>9. ASSUME NEW c \in Conns, Disconnect(c) PROVE LockHeld' /\ OneChange'
  BY <1>9 DEF Disconnect, TypeOK, Idle
<1>10. ASSUME NEW a \in Actors, TakeLock(a) PROVE LockHeld' /\ OneChange'
  BY <1>10, JobsType DEF TakeLock, TypeOK, KnownHostsAssumption, Free, Actors
<1>11. ASSUME NEW a \in Actors, Over(a), job[a].at # "begin", UNCHANGED dialog
       PROVE  LockHeld' /\ OneChange'
  BY <1>1, <1>11, JobsType DEF Over, TypeOK, Actors
<1>12. ASSUME NEW a \in Actors, job[a].at # "begin", UNCHANGED <<lock, conn, dialog>>,
              job'[a].op = job[a].op, \A b \in Actors \ {a} : job'[b] = job[b]
       PROVE  LockHeld' /\ OneChange'
  BY <1>1, <1>12, JobsType DEF TypeOK, Actors
<1>13. ASSUME NEW a \in Actors, Read(a) PROVE LockHeld' /\ OneChange'
  BY <1>11, <1>12, <1>13 DEF Read, TypeOK, Jobs
<1>14. ASSUME NEW a \in Actors, WriteTmp(a) PROVE LockHeld' /\ OneChange'
  BY <1>11, <1>12, <1>14 DEF WriteTmp, TypeOK, Jobs
<1>15. ASSUME NEW a \in Actors, Rename(a) PROVE LockHeld' /\ OneChange'
  BY <1>11, <1>15 DEF Rename
<1>16. CASE UNCHANGED vars
  BY <1>16 DEF vars
<1> QED
  BY <1>2, <1>3, <1>4, <1>5, <1>6, <1>7, <1>8, <1>9, <1>10, <1>13, <1>14, <1>15, <1>16 DEF Next

\* What was read is the file, unless that failed, and what was written is the change of it.
LEMMA FreshStep ==
  ASSUME KnownHostsAssumption, IInv, [Next]_vars
  PROVE  Fresh' /\ Staged'
<1> USE DEF IInv, Fresh, Staged, Ground
<1>3. \A a, b \in Actors : job[a] \in Jobs /\ (job[b].at # "begin" /\ job[a].at # "begin" => a = b)
  BY DEF TypeOK, LockHeld
<1>4. ASSUME UNCHANGED <<file, tmp>>,
             \A a \in Actors : job'[a] = job[a] \/ job'[a].at \in {"begin", "read"}
      PROVE  Fresh' /\ Staged'
  <2>1. \A a \in Actors : job'[a].at = "rename" => tmp = Changed(job'[a], Ground(a)')
    BY <1>4
  <2> QED
    BY <1>4, <2>1
<1>5. CASE AskToForget \/ Dismiss \/ UNCHANGED vars
  BY <1>4, <1>5 DEF AskToForget, Dismiss, vars
<1>6. CASE Confirm
  BY <1>4, <1>6, JobsType DEF Confirm, OneChange, TypeOK
<1>7. CASE Crash
  BY <1>4, <1>7, JobsType DEF Crash
<1>8. ASSUME NEW c \in Conns,
             \/ \E e \in Entries : Present(c, e)
             \/ Lookup(c) \/ Disconnect(c)
      PROVE  Fresh' /\ Staged'
  BY <1>4, <1>8 DEF Present, Lookup, Disconnect
<1>9. ASSUME NEW c \in Conns, NEW accepted \in BOOLEAN, Answer(c, accepted) PROVE Fresh' /\ Staged'
  BY <1>4, <1>9 DEF Answer, Add, Job, TypeOK
<1>10. ASSUME NEW a \in Actors, TakeLock(a) PROVE Fresh' /\ Staged'
  BY <1>4, <1>10 DEF TakeLock, TypeOK, Jobs
<1>11. ASSUME NEW a \in Actors, Over(a) PROVE \A b \in Actors : job'[b] = job[b] \/ job'[b].at = "begin"
  BY <1>11, JobsType DEF Over, TypeOK
<1>12. ASSUME NEW a \in Actors, Read(a) PROVE Fresh' /\ Staged'
  <2>1. CASE job[a].op = "remove" /\ Over(a)
    BY <1>4, <1>11, <1>12, <2>1 DEF Read
  <2>2. ASSUME NEW seen \in {file, {}},
               job' = [job EXCEPT ![a].at = "write", ![a].seen = seen, ![a].blind = seen # file]
        PROVE  Fresh' /\ Staged'
    <3>1. /\ job'[a].at = "write" /\ job'[a].seen = seen /\ job'[a].blind = (seen # file)
          /\ \A b \in Actors \ {a} : job'[b] = job[b]
      BY <2>2 DEF TypeOK, Jobs
    <3>2. \A b \in Actors \ {a} : job'[b].at = "begin"
      BY <1>3, <1>12, <3>1 DEF Read
    <3> QED
      BY <1>12, <3>1, <3>2 DEF Read
  <2> QED
    BY <1>12, <2>1, <2>2 DEF Read
<1>13. ASSUME NEW a \in Actors, WriteTmp(a) PROVE Fresh' /\ Staged'
  <2>1. UNCHANGED file /\ job[a].at = "write"
    BY <1>13 DEF WriteTmp
  <2>2. CASE tmp' = Changed(job[a], job[a].seen) /\ job' = [job EXCEPT ![a].at = "rename"]
    <3>1. /\ job'[a].at = "rename" /\ job'[a].seen = job[a].seen /\ job'[a].blind = job[a].blind
          /\ job'[a].op = job[a].op /\ job'[a].entries = job[a].entries
          /\ \A b \in Actors \ {a} : job'[b] = job[b]
      BY <2>2 DEF TypeOK, Jobs
    <3>2. \A b \in Actors \ {a} : job'[b].at = "begin"
      BY <1>3, <2>1, <3>1
    <3>3. Changed(job'[a], job[a].seen) = Changed(job[a], job[a].seen)
      BY <3>1, ChangedDepends
    <3> QED
      BY <2>1, <2>2, <3>1, <3>2, <3>3
  <2>3. CASE Over(a)
    <3>1. \A b \in Actors : job'[b].at = "begin"
      BY <1>3, <2>1, <2>3, JobsType DEF Over, TypeOK
    <3> QED
      BY <3>1
  <2> QED
    BY <1>13, <2>2, <2>3 DEF WriteTmp
<1>14. ASSUME NEW a \in Actors, Rename(a) PROVE Fresh' /\ Staged'
  <2>1. \A b \in Actors : job'[b].at = "begin"
    BY <1>3, <1>11, <1>14, JobsType DEF Rename, Over, TypeOK
  <2> QED
    BY <2>1
<1> QED
  BY <1>5, <1>6, <1>7, <1>8, <1>9, <1>10, <1>12, <1>13, <1>14 DEF Next

LEMMA Inductive ==
  ASSUME KnownHostsAssumption, IInv, [Next]_vars
  PROVE  IInv'
BY TypeStep, HolderStep, FreshStep DEF IInv

\* One step changes the file by one decision, carried out on all that the file holds (or that
\* could be read of it).
LEMMA OneDecision ==
  ASSUME KnownHostsAssumption, IInv, [Next]_vars
  PROVE  \/ file' = file
         \/ \E a \in Actors : job[a].op # "none" /\ file' = Changed(job[a], Ground(a))
<1>2. CASE \E a \in Actors : Rename(a)
  BY <1>2 DEF Rename, IInv, Staged
<1>3. file' = file \/ \E a \in Actors : Rename(a)
  BY DEF Next, vars, AskToForget, Dismiss, Confirm, Crash, Present, Answer, Lookup, Disconnect,
         TakeLock, Read, WriteTmp
<1> QED
  BY <1>2, <1>3

-----------------------------------------------------------------------------
(* The SFTP tab.  A terminal that is connected belongs to one panel (Links, *)
(* NoneHidden), and a rename goes on only over the names it was begun over, *)
(* on the same host (RenameInPlace).                                        *)

Panels == [kind : {"local", "remote", "off"}, conn : Terminals \cup {Nothing},
           cwd : Dirs \cup {Nothing}, lcwd : Dirs, selected : SUBSET Names,
           enters : {"unset", "local", "remote"}]
Terms == [open : {"unused", "yes", "closed"}, cwd : Dirs \cup {Nothing},
          going : SUBSET Dirs, busy : BOOLEAN]

\* A panel on a host shows a terminal of its own that is connected; the others show none.
Links ==
  /\ \A s \in Sides : IF panel[s].kind = "remote"
                      THEN panel[s].conn \in Terminals /\ term[panel[s].conn].open = "yes"
                      ELSE panel[s].conn = Nothing /\ panel[s].cwd = Nothing
  /\ \A s, t \in Sides : s # t /\ panel[s].conn = panel[t].conn => panel[s].conn = Nothing

NoneHidden == \A k \in Terminals : term[k].open = "yes" => \E s \in Sides : panel[s].conn = k

RenameInPlace ==
  edit # Nothing /\ edit.name # "folder" =>
    /\ edit.from.on = Tab!Shown(edit.side).on
    /\ Tab!Listing(edit.from.dir) = Tab!Rows(edit.side)

\* The operation just carried out: whichever panel a rename was begun in, its input may be
\* one made for the disk.
HostReached ==
  did = "on another host" => \E s \in Sides : panel[s].enters = "local" /\ panel[s].kind = "remote"

TabInv == Tab!TypeOK /\ Links /\ NoneHidden /\ RenameInPlace /\ HostReached

LEMMA OtherSide ==
  ASSUME Tab!TabAssumption, NEW s \in Sides
  PROVE  Tab!Other(s) \in Sides /\ Tab!Other(s) # s
<1>1. \E t \in Sides : t # s
  <2> SUFFICES ASSUME Sides = {s} PROVE FALSE
    OBVIOUS
  <2>1. Tab!Cardinality(Sides) = Cardinality(Sides)
    BY DEF Tab!Cardinality, Cardinality
  <2> QED
    BY <2>1, FS_Singleton DEF Tab!TabAssumption
<1> QED
  BY <1>1 DEF Tab!Other

\* Where panels are, and would send a file to, is a place.
LEMMA ShownIsPlace ==
  ASSUME Tab!TabAssumption, Tab!TypeOK, NEW s \in Sides
  PROVE  Tab!Shown(s) \in Tab!Place /\ Tab!Across(s) \in Tab!Place
<1>1. \A t \in Sides : Tab!Shown(t) \in Tab!Place
  BY DEF Tab!TypeOK, Tab!Shown, Tab!Place
<1>2. Tab!Shown(Tab!Other(s)) \in Tab!Place
  BY <1>1, OtherSide
<1> QED
  BY <1>1, <1>2 DEF Tab!Across, Tab!Place

\* What an operation does to the terminals: at most one of them is busy with it.
SameOpen == \A k \in Terminals : term'[k].open = term[k].open

LEMMA PerformStep ==
  ASSUME Tab!TabAssumption, Tab!TypeOK, NEW at, NEW seen, Tab!Carry(at, seen)
  PROVE  term' \in [Terminals -> Terms] /\ SameOpen /\ did' \in {"nothing", seen}
<1>1. term \in [Terminals -> Terms]
  BY DEF Tab!TypeOK, Terms
<1>2. ASSUME NEW k \in Terminals, term' = Tab!Tell(k, "busy", TRUE)
      PROVE  term' \in [Terminals -> Terms] /\ SameOpen
  <2>1. term' = [term EXCEPT ![k] = IF @.open = "yes" THEN [@ EXCEPT !.busy = TRUE] ELSE @]
    BY <1>2 DEF Tab!Tell
  <2> QED
    BY <1>1, <2>1 DEF Terms, SameOpen
<1>3. ASSUME term' = term PROVE term' \in [Terminals -> Terms] /\ SameOpen
  BY <1>1, <1>3 DEF SameOpen
<1>4. term' \in [Terminals -> Terms] /\ SameOpen
  BY <1>2, <1>3 DEF Tab!Carry
<1> QED
  BY <1>4 DEF Tab!Carry

\* What is seen of a rename: on the same host it is never simply elsewhere where the very
\* same names are listed.
LEMMA SeenOfRename ==
  ASSUME NEW at, NEW from
  PROVE  /\ Tab!RenameSeen(at, from) \in {"there", "in a lookalike", "elsewhere", "on another host"}
         /\ at = from => Tab!RenameSeen(at, from) = "there"
         /\ at.on = from.on /\ Tab!Listing(at.dir) = Tab!Listing(from.dir)
              => Tab!RenameSeen(at, from) \in {"there", "in a lookalike"}
         /\ at.on # from.on => Tab!RenameSeen(at, from) \in {"there", "on another host"}
  BY DEF Tab!RenameSeen, Tab!Seen

\* A directory or two are asked for.
LEMMA GoingStep ==
  ASSUME term \in [Terminals -> Terms], NEW k \in Terminals, NEW more \in SUBSET Dirs,
         term' = Tab!Tell(k, "going", term[k].going \cup more)
  PROVE  term' \in [Terminals -> Terms] /\ SameOpen
<1>1. term[k].going \cup more \in SUBSET Dirs
  BY DEF Terms
<1>2. ASSUME NEW all \in SUBSET Dirs,
             term' = [term EXCEPT ![k] = IF @.open = "yes" THEN [@ EXCEPT !.going = all] ELSE @]
      PROVE  term' \in [Terminals -> Terms] /\ SameOpen
  BY <1>2 DEF Terms, SameOpen
<1> QED
  BY <1>1, <1>2 DEF Tab!Tell

\* Panels that stay where they are.
SamePlaces ==
  \A s \in Sides : /\ panel'[s].kind = panel[s].kind /\ panel'[s].conn = panel[s].conn
                   /\ panel'[s].cwd = panel[s].cwd /\ panel'[s].lcwd = panel[s].lcwd

LEMMA SelectStep ==
  ASSUME panel \in [Sides -> Panels], NEW s \in Sides, NEW names \in SUBSET Names,
         panel' = [panel EXCEPT ![s].selected = names]
  PROVE  /\ panel' \in [Sides -> Panels] /\ SamePlaces
         /\ \A t \in Sides : panel'[t].enters = panel[t].enters
  BY DEF Panels, SamePlaces

\* While terminals stay open and panels where they are connected, the links stay.
LEMMA SameLinks ==
  ASSUME Links, NoneHidden, SameOpen,
         \A s \in Sides : /\ panel'[s].kind = panel[s].kind /\ panel'[s].conn = panel[s].conn
                          /\ panel'[s].kind # "remote" => panel'[s].cwd = panel[s].cwd
  PROVE  Links' /\ NoneHidden'
<1>1. \A s \in Sides : IF panel'[s].kind = "remote"
                      THEN panel'[s].conn \in Terminals /\ term'[panel'[s].conn].open = "yes"
                      ELSE panel'[s].conn = Nothing /\ panel'[s].cwd = Nothing
  BY DEF Links, SameOpen
<1>2. \A s, t \in Sides : s # t /\ panel'[s].conn = panel'[t].conn => panel'[s].conn = Nothing
  BY DEF Links
<1> QED
  BY <1>1, <1>2 DEF Links, NoneHidden, SameOpen

\* A rename goes on where its panel shows the same names on the same host.
LEMMA SameRename ==
  ASSUME RenameInPlace,
         edit' = Nothing \/ edit' = edit,
         edit' = edit /\ edit # Nothing /\ edit.name # "folder" =>
           /\ Tab!Shown(edit.side)'.on = Tab!Shown(edit.side).on
           /\ Tab!Rows(edit.side)' = Tab!Rows(edit.side)
  PROVE  RenameInPlace'
<1>1. CASE edit' = edit /\ edit # Nothing /\ edit.name # "folder"
  BY <1>1 DEF RenameInPlace, Tab!Rows, Tab!Shown, Tab!Listing
<1> QED
  BY <1>1 DEF RenameInPlace

EditType == edit = Nothing \/ edit \in [side : Sides, name : Names \cup {"folder"}, from : Tab!Place]
MenuType == menu = Nothing \/ menu \in Tab!Chosen
DidType == did \in {"nothing", "there", "in a lookalike", "elsewhere", "on another host"}

LEMMA TabTypes ==
  Tab!TypeOK <=> /\ panel \in [Sides -> Panels] /\ term \in [Terminals -> Terms]
                 /\ EditType /\ MenuType /\ DidType
  BY DEF Tab!TypeOK, Panels, Terms, EditType, MenuType, DidType

LEMMA TabTypesNext ==
  ASSUME panel' \in [Sides -> Panels], term' \in [Terminals -> Terms],
         EditType', MenuType', DidType'
  PROVE  Tab!TypeOK'
  BY DEF Tab!TypeOK, Panels, Terms, EditType, MenuType, DidType

\* Steps that move no panel and open or close no terminal.
LEMMA QuietStep ==
  ASSUME TabInv, panel' \in [Sides -> Panels], term' \in [Terminals -> Terms],
         SamePlaces, SameOpen, edit' = edit \/ edit' = Nothing, MenuType', DidType', HostReached'
  PROVE  TabInv'
<1>1. EditType'
  BY TabTypes DEF TabInv, EditType
<1>2. Tab!TypeOK'
  BY <1>1, TabTypesNext
<1>3. Links' /\ NoneHidden'
  BY SameLinks DEF TabInv, SamePlaces
<1>4. \A s \in Sides : Tab!Shown(s)' = Tab!Shown(s) /\ Tab!Rows(s)' = Tab!Rows(s)
  BY DEF Tab!Shown, Tab!Rows, Tab!Listing, SamePlaces
<1>5. RenameInPlace'
  BY <1>4, SameRename, TabTypes DEF TabInv, EditType
<1> QED
  BY <1>2, <1>3, <1>5 DEF TabInv

LEMMA Untouched ==
  /\ term' = term => SameOpen
  /\ panel' = panel => SamePlaces
  /\ did' = "nothing" => HostReached' /\ DidType'
  BY DEF SameOpen, SamePlaces, HostReached, DidType

LEMMA TabInit == ASSUME Tab!TabAssumption, Tab!Init PROVE TabInv
<1>1. Tab!TypeOK
  BY DEF Tab!Init, Tab!TypeOK, Tab!Terminal, Tab!TabAssumption
<1>2. Links /\ NoneHidden /\ RenameInPlace /\ HostReached
  BY DEF Tab!Init, Links, NoneHidden, RenameInPlace, HostReached, Tab!Terminal
<1> QED
  BY <1>1, <1>2 DEF TabInv

\* The terminals' own steps, and the render that copies from them.
LEMMA LandKeeps ==
  ASSUME TabInv, NEW k \in Terminals, (\E d \in Dirs : Tab!Land(k, d)) \/ Tab!Finished(k)
  PROVE  TabInv'
<1> DEFINE Same == term' \in [Terminals -> Terms] /\ SameOpen
<1>1. term \in [Terminals -> Terms] /\ panel \in [Sides -> Panels] /\ MenuType
  BY TabTypes DEF TabInv
<1>2. Same
  <2>1. ASSUME NEW d \in Dirs, term' = [term EXCEPT ![k].going = @ \ {d}, ![k].cwd = d] PROVE Same
    BY <1>1, <2>1 DEF Terms, SameOpen
  <2>2. ASSUME NEW d \in Dirs, term' = [term EXCEPT ![k].going = @ \ {d}] PROVE Same
    BY <1>1, <2>2 DEF Terms, SameOpen
  <2>3. ASSUME NEW again \in SUBSET Dirs,
               term' = [term EXCEPT ![k].busy = FALSE, ![k].going = @ \cup again]
        PROVE  Same
    BY <1>1, <2>3 DEF Terms, SameOpen
  <2>4. {term[k].cwd} \ {Nothing} \in SUBSET Dirs
    BY <1>1 DEF Terms
  <2> QED
    BY <2>1, <2>2, <2>3, <2>4 DEF Tab!Land, Tab!Finished
<1>3. UNCHANGED <<panel, edit, menu>> /\ did' = "nothing"
  BY DEF Tab!Land, Tab!Finished, Tab!Quiet
<1> QED
  BY <1>1, <1>2, <1>3, QuietStep, Untouched DEF MenuType

\* A panel shows another directory of its host.
LEMMA CopyStep ==
  ASSUME panel \in [Sides -> Panels], NEW s \in Sides, NEW c \in Dirs \cup {Nothing},
         NEW names \in SUBSET Names,
         panel' = [panel EXCEPT ![s].cwd = c, ![s].selected = names]
  PROVE  /\ panel' \in [Sides -> Panels]
         /\ \A t \in Sides : /\ panel'[t].kind = panel[t].kind /\ panel'[t].conn = panel[t].conn
                             /\ panel'[t].lcwd = panel[t].lcwd /\ panel'[t].enters = panel[t].enters
                             /\ panel'[t].cwd = IF t = s THEN c ELSE panel[t].cwd
  BY DEF Panels

LEMMA SyncKeeps == ASSUME TabInv, NEW s \in Sides, Tab!Sync(s) PROVE TabInv'
<1> DEFINE k == panel[s].conn
<1>1. k \in Terminals /\ term[k].cwd \in Dirs \cup {Nothing} /\ panel[s].kind = "remote"
  BY DEF TabInv, Links, Tab!Sync, Tab!TypeOK
<1>2. /\ panel' \in [Sides -> Panels]
      /\ \A t \in Sides : /\ panel'[t].kind = panel[t].kind /\ panel'[t].conn = panel[t].conn
                          /\ panel'[t].lcwd = panel[t].lcwd
                          /\ panel'[t].cwd = IF t = s THEN term[k].cwd ELSE panel[t].cwd
  <2>1. panel \in [Sides -> Panels]
    BY TabTypes DEF TabInv
  <2>2. PICK names \in SUBSET Names :
          panel' = [panel EXCEPT ![s].cwd = term[k].cwd, ![s].selected = names]
    <3>1. (IF Tab!Changed(s) THEN {} ELSE panel[s].selected) \in SUBSET Names
      BY <2>1 DEF Panels
    <3> QED
      BY <3>1 DEF Tab!Sync
  <2>3. ASSUME NEW c \in Dirs \cup {Nothing}, term[k].cwd = c
        PROVE  /\ panel' \in [Sides -> Panels]
               /\ \A t \in Sides : /\ panel'[t].kind = panel[t].kind /\ panel'[t].conn = panel[t].conn
                                   /\ panel'[t].lcwd = panel[t].lcwd
                                   /\ panel'[t].cwd = IF t = s THEN c ELSE panel[t].cwd
    <3>1. panel' = [panel EXCEPT ![s].cwd = c, ![s].selected = names]
      BY <2>2, <2>3
    <3> QED
      BY <2>1, <3>1, CopyStep
  <2> QED
    BY <1>1, <2>3
<1>3. UNCHANGED <<term, menu>> /\ did' = "nothing" /\ (edit' = edit \/ edit' = Nothing)
  BY DEF Tab!Sync, Tab!Quiet, Tab!Unedit
<1>4. Tab!TypeOK'
  BY <1>2, <1>3, TabTypes, TabTypesNext DEF TabInv, EditType, MenuType, DidType
<1>5. Links' /\ NoneHidden'
  BY <1>1, <1>2, <1>3, SameLinks, Untouched DEF TabInv
<1>6. RenameInPlace'
  <2> SUFFICES ASSUME edit' = edit, edit # Nothing, edit.name # "folder"
               PROVE  /\ Tab!Shown(edit.side)'.on = Tab!Shown(edit.side).on
                      /\ Tab!Rows(edit.side)' = Tab!Rows(edit.side)
    BY <1>3, SameRename DEF TabInv
  <2>1. edit.side \in Sides
    BY DEF TabInv, Tab!TypeOK
  <2>2. CASE edit.side = s
    <3>1. ~Tab!Changed(s)
      BY <2>2 DEF Tab!Sync, Tab!Unedit
    <3> QED
      BY <1>1, <1>2, <1>3, <2>2, <3>1 DEF Tab!Changed, Tab!Shown, Tab!Rows, Tab!Listing
  <2>3. CASE edit.side # s
    BY <1>2, <2>1, <2>3 DEF Tab!Shown, Tab!Rows, Tab!Listing
  <2> QED
    BY <2>2, <2>3
<1> QED
  BY <1>3, <1>4, <1>5, <1>6, Untouched DEF TabInv

\* A panel gets another terminal, or none; its previous one is closed.
LEMMA Reconnect ==
  ASSUME TabInv, NEW s \in Sides, NEW k \in Terminals \cup {Nothing},
         panel' \in [Sides -> Panels], \A t \in Sides \ {s} : panel'[t] = panel[t],
         panel'[s].conn = k,
         IF panel'[s].kind = "remote" THEN k \in Terminals /\ term[k].open = "unused"
         ELSE k = Nothing /\ panel'[s].cwd = Nothing,
         term' \in [Terminals -> Terms],
         \A j \in Terminals : term'[j].open = IF j = k THEN "yes"
                                              ELSE IF j = panel[s].conn THEN "closed" ELSE term[j].open,
         edit' = Tab!Unedit(s), UNCHANGED menu, Tab!Quiet, Nothing \notin Terminals
  PROVE  TabInv'
<1>1. Tab!TypeOK'
  BY TabTypes, TabTypesNext DEF TabInv, EditType, MenuType, DidType, Tab!Unedit, Tab!Quiet
<1>2. Links'
  <2>1. \A t \in Sides : IF panel[t].kind = "remote"
                         THEN panel[t].conn \in Terminals /\ term[panel[t].conn].open = "yes"
                         ELSE panel[t].conn = Nothing /\ panel[t].cwd = Nothing
    BY DEF TabInv, Links
  <2>2. \A t \in Sides \ {s} : panel[t].conn = panel[s].conn => panel[t].conn = Nothing
    BY DEF TabInv, Links
  <2>3. \A t, u \in Sides \ {s} : t # u /\ panel[t].conn = panel[u].conn => panel[t].conn = Nothing
    BY DEF TabInv, Links
  <2>4. \A t \in Sides \ {s} : IF panel'[t].kind = "remote"
                               THEN panel'[t].conn \in Terminals /\ term'[panel'[t].conn].open = "yes"
                               ELSE panel'[t].conn = Nothing /\ panel'[t].cwd = Nothing
    BY <2>1, <2>2
  <2>5. IF panel'[s].kind = "remote"
        THEN panel'[s].conn \in Terminals /\ term'[panel'[s].conn].open = "yes"
        ELSE panel'[s].conn = Nothing /\ panel'[s].cwd = Nothing
    OBVIOUS
  <2>6. \A t \in Sides \ {s} : panel'[t].conn = k => k = Nothing
    BY <2>1
  <2> QED
    BY <2>3, <2>4, <2>5, <2>6 DEF Links
<1>3. NoneHidden'
  <2> SUFFICES ASSUME NEW j \in Terminals, term'[j].open = "yes"
               PROVE  \E t \in Sides : panel'[t].conn = j
    BY DEF NoneHidden
  <2>1. CASE j = k
    BY <2>1
  <2>2. CASE j # k
    <3>1. PICK t \in Sides : panel[t].conn = j
      BY <2>2 DEF TabInv, NoneHidden
    <3> QED
      BY <2>2, <3>1
  <2> QED
    BY <2>1, <2>2
<1>4. RenameInPlace'
  <2> SUFFICES ASSUME edit' = edit, edit # Nothing, edit.name # "folder"
               PROVE  /\ Tab!Shown(edit.side)'.on = Tab!Shown(edit.side).on
                      /\ Tab!Rows(edit.side)' = Tab!Rows(edit.side)
    BY SameRename DEF TabInv, Tab!Unedit
  <2>1. edit.side \in Sides \ {s}
    BY DEF TabInv, Tab!TypeOK, Tab!Unedit
  <2> QED
    BY <2>1 DEF Tab!Shown, Tab!Rows, Tab!Listing
<1> QED
  BY <1>1, <1>2, <1>3, <1>4, Untouched DEF TabInv, Tab!Quiet

LEMMA CloseOldStep ==
  ASSUME TabInv, NEW s \in Sides, Nothing \notin Terminals
  PROVE  /\ Tab!CloseOld(s) \in [Terminals -> Terms]
         /\ \A j \in Terminals :
              Tab!CloseOld(s)[j].open = IF j = panel[s].conn THEN "closed" ELSE term[j].open
<1>1. term \in [Terminals -> Terms] /\ Tab!Terminal("closed", {}) \in Terms
  BY TabTypes DEF TabInv, Tab!Terminal, Terms
<1>2. CASE panel[s].kind = "remote"
  <2>1. panel[s].conn \in Terminals
    BY <1>2 DEF TabInv, Links
  <2>2. Tab!CloseOld(s) = [term EXCEPT ![panel[s].conn] = Tab!Terminal("closed", {})]
    BY <1>2 DEF Tab!CloseOld
  <2>3. Tab!Terminal("closed", {}).open = "closed"
    BY DEF Tab!Terminal
  <2> QED
    BY <1>1, <2>1, <2>2, <2>3
<1>3. CASE panel[s].kind # "remote"
  BY <1>1, <1>3 DEF TabInv, Links, Tab!CloseOld
<1> QED
  BY <1>2, <1>3

\* What a panel becomes when it is connected or disconnected.
Settled(s, kind, k) ==
  /\ panel' \in [Sides -> Panels] /\ \A t \in Sides \ {s} : panel'[t] = panel[t]
  /\ panel'[s].kind = kind /\ panel'[s].conn = k /\ panel'[s].cwd = Nothing

LEMMA SettlesAs ==
  ASSUME panel \in [Sides -> Panels], NEW s \in Sides, NEW new \in Panels, new.cwd = Nothing,
         panel' = [panel EXCEPT ![s] = new]
  PROVE  Settled(s, new.kind, new.conn)
BY DEF Settled

LEMMA SettlesThere ==
  ASSUME panel \in [Sides -> Panels], NEW s \in Sides, NEW kind \in {"local", "remote", "off"},
         NEW k \in Terminals \cup {Nothing},
         panel' = [panel EXCEPT ![s].kind = kind, ![s].conn = k, ![s].cwd = Nothing, ![s].selected = {}]
  PROVE  Settled(s, kind, k)
<1> DEFINE new == [panel[s] EXCEPT !.kind = kind, !.conn = k, !.cwd = Nothing, !.selected = {}]
<1>1. panel' = [panel EXCEPT ![s] = new]
  BY DEF Panels
<1>2. new \in Panels /\ new.kind = kind /\ new.conn = k /\ new.cwd = Nothing
  BY DEF Panels
<1> HIDE DEF new
<1> QED
  BY <1>1, <1>2, SettlesAs

LEMMA SettlesHome ==
  ASSUME panel \in [Sides -> Panels], NEW s \in Sides, Home \in Dirs,
         panel' = [panel EXCEPT ![s].kind = "local", ![s].conn = Nothing, ![s].cwd = Nothing,
                                ![s].lcwd = Home, ![s].selected = {}]
  PROVE  Settled(s, "local", Nothing)
<1> DEFINE new == [panel[s] EXCEPT !.kind = "local", !.conn = Nothing, !.cwd = Nothing,
                                   !.lcwd = Home, !.selected = {}]
<1>1. panel' = [panel EXCEPT ![s] = new]
  BY DEF Panels
<1>2. new \in Panels /\ new.kind = "local" /\ new.conn = Nothing /\ new.cwd = Nothing
  BY DEF Panels
<1> HIDE DEF new
<1>3. Settled(s, new.kind, new.conn)
  BY <1>1, <1>2, SettlesAs
<1> QED
  BY <1>2, <1>3

LEMMA ConnectKeeps ==
  ASSUME Tab!TabAssumption, TabInv, NEW s \in Sides,
         Tab!ConnectRemote(s) \/ Tab!ConnectLocal(s) \/ Tab!DisconnectPanel(s)
  PROVE  TabInv'
<1>1. Nothing \notin Terminals /\ Home \in Dirs /\ panel \in [Sides -> Panels]
  BY TabTypes DEF TabInv, Tab!TabAssumption
<1>2. CASE Tab!ConnectRemote(s)
  <2> DEFINE k == CHOOSE k \in Tab!Fresh : TRUE
             opened == Tab!Terminal("yes", {Home})
  <2>1. k \in Terminals /\ term[k].open = "unused"
    BY <1>2 DEF Tab!ConnectRemote, Tab!Fresh
  <2>2. opened \in Terms /\ opened.open = "yes"
    BY <1>1 DEF Tab!Terminal, Terms
  <2>3. term' = [Tab!CloseOld(s) EXCEPT ![k] = opened]
    BY <1>2 DEF Tab!ConnectRemote
  <2>4. panel' = [panel EXCEPT ![s].kind = "remote", ![s].conn = k, ![s].cwd = Nothing, ![s].selected = {}]
    BY <1>2 DEF Tab!ConnectRemote
  <2>5. edit' = Tab!Unedit(s) /\ UNCHANGED menu /\ Tab!Quiet
    BY <1>2 DEF Tab!ConnectRemote
  <2> HIDE DEF k, opened
  <2>6. Settled(s, "remote", k)
    BY <1>1, <2>1, <2>4, SettlesThere
  <2>7. /\ term' \in [Terminals -> Terms]
        /\ \A j \in Terminals : term'[j].open = IF j = k THEN "yes"
                                                ELSE IF j = panel[s].conn THEN "closed" ELSE term[j].open
    BY <1>1, <2>1, <2>2, <2>3, CloseOldStep
  <2> QED
    BY <1>1, <2>1, <2>5, <2>6, <2>7, Reconnect DEF Settled
<1>3. ASSUME NEW kind \in {"local", "off"}, Settled(s, kind, Nothing), term' = Tab!CloseOld(s),
             edit' = Tab!Unedit(s), UNCHANGED menu, Tab!Quiet
      PROVE  TabInv'
  <2>1. /\ term' \in [Terminals -> Terms]
        /\ \A j \in Terminals : term'[j].open = IF j = Nothing THEN "yes"
                                                ELSE IF j = panel[s].conn THEN "closed" ELSE term[j].open
    <3>1. \A j \in Terminals : term'[j].open = IF j = panel[s].conn THEN "closed" ELSE term[j].open
      BY <1>1, <1>3, CloseOldStep
    <3> QED
      BY <1>1, <1>3, <3>1, CloseOldStep
  <2>2. Nothing \in Terminals \cup {Nothing} /\ panel'[s].kind # "remote"
    BY <1>3 DEF Settled
  <2> QED
    BY <1>1, <1>3, <2>1, <2>2, Reconnect DEF Settled
<1>4. CASE Tab!ConnectLocal(s)
  <2>1. Settled(s, "local", Nothing)
    BY <1>1, <1>4, SettlesHome DEF Tab!ConnectLocal
  <2> QED
    BY <1>3, <1>4, <2>1 DEF Tab!ConnectLocal
<1>5. CASE Tab!DisconnectPanel(s)
  <2>1. Settled(s, "off", Nothing)
    BY <1>1, <1>5, SettlesThere DEF Tab!DisconnectPanel
  <2> QED
    BY <1>3, <1>5, <2>1 DEF Tab!DisconnectPanel
<1> QED
  BY <1>2, <1>4, <1>5

LEMMA BrowseStep ==
  ASSUME panel \in [Sides -> Panels], NEW s \in Sides, NEW d \in Dirs,
         panel' = [panel EXCEPT ![s].selected = {}, ![s].lcwd = d]
  PROVE  /\ panel' \in [Sides -> Panels]
         /\ \A t \in Sides : /\ panel'[t].kind = panel[t].kind /\ panel'[t].conn = panel[t].conn
                             /\ panel'[t].cwd = panel[t].cwd
                             /\ t # s => panel'[t].lcwd = panel[t].lcwd
<1> DEFINE new == [panel[s] EXCEPT !.selected = {}, !.lcwd = d]
<1>1. panel' = [panel EXCEPT ![s] = new]
  BY DEF Panels
<1>2. new \in Panels /\ new.kind = panel[s].kind /\ new.conn = panel[s].conn /\ new.cwd = panel[s].cwd
  BY DEF Panels
<1> HIDE DEF new
<1>3. \A t \in Sides : panel'[t] = IF t = s THEN new ELSE panel[t]
  BY <1>1
<1> QED
  BY <1>1, <1>2, <1>3

\* The user's steps that only look around or take something up.
LEMMA NavigateKeeps == ASSUME TabInv, NEW s \in Sides, NEW d \in Dirs, Tab!Navigate(s, d) PROVE TabInv'
<1>1. panel \in [Sides -> Panels] /\ term \in [Terminals -> Terms] /\ MenuType
  BY TabTypes DEF TabInv
<1>2. UNCHANGED menu /\ did' = "nothing" /\ (edit' = edit \/ edit' = Nothing)
  BY DEF Tab!Navigate, Tab!Quiet, Tab!Unedit
<1>3. CASE panel[s].kind = "remote"
  <2> DEFINE k == panel[s].conn
  <2>1. UNCHANGED panel /\ term' = Tab!Tell(k, "going", term[k].going \cup {d}) /\ k \in Terminals
    BY <1>3 DEF Tab!Navigate, TabInv, Links
  <2> HIDE DEF k
  <2>2. term' \in [Terminals -> Terms] /\ SameOpen
    BY <1>1, <2>1, GoingStep
  <2> QED
    BY <1>1, <1>2, <2>1, <2>2, QuietStep, Untouched DEF MenuType
<1>4. CASE panel[s].kind # "remote"
  <2>1. /\ panel' = [Tab!Unselect(s) EXCEPT ![s].lcwd = d] /\ UNCHANGED term
        /\ edit' = IF edit # Nothing /\ edit.name # "folder" THEN Tab!Unedit(s) ELSE edit
    BY <1>4 DEF Tab!Navigate
  <2>2. /\ panel' \in [Sides -> Panels]
        /\ \A t \in Sides : /\ panel'[t].kind = panel[t].kind /\ panel'[t].conn = panel[t].conn
                            /\ panel'[t].cwd = panel[t].cwd
                            /\ t # s => panel'[t].lcwd = panel[t].lcwd
    <3>1. panel' = [panel EXCEPT ![s].selected = {}, ![s].lcwd = d]
      BY <2>1 DEF Tab!Unselect
    <3> QED
      BY <1>1, <3>1, BrowseStep
  <2>3. Tab!TypeOK'
    BY <1>1, <1>2, <2>1, <2>2, TabTypes, TabTypesNext DEF TabInv, EditType, MenuType, DidType
  <2>4. Links' /\ NoneHidden'
    BY <2>1, <2>2, SameLinks, Untouched DEF TabInv
  <2>5. RenameInPlace'
    <3> SUFFICES ASSUME edit' = edit, edit # Nothing, edit.name # "folder"
                 PROVE  /\ Tab!Shown(edit.side)'.on = Tab!Shown(edit.side).on
                        /\ Tab!Rows(edit.side)' = Tab!Rows(edit.side)
      BY <1>2, SameRename DEF TabInv
    <3>1. edit.side \in Sides /\ edit.side # s
      BY <2>1 DEF TabInv, Tab!TypeOK, Tab!Unedit
    <3> QED
      BY <2>2, <3>1 DEF Tab!Shown, Tab!Rows, Tab!Listing
  <2> QED
    BY <1>2, <2>3, <2>4, <2>5, Untouched DEF TabInv
<1> QED
  BY <1>3, <1>4

LEMMA ToggleKeeps == ASSUME TabInv, NEW s \in Sides, Tab!ToggleHidden(s) PROVE TabInv'
<1>1. panel \in [Sides -> Panels] /\ term \in [Terminals -> Terms] /\ MenuType
  BY TabTypes DEF TabInv
<1>2. panel' \in [Sides -> Panels] /\ SamePlaces
  <2>1. PICK names \in SUBSET Names : panel' = [panel EXCEPT ![s].selected = names]
    BY DEF Tab!ToggleHidden, Tab!Unselect
  <2> QED
    BY <1>1, <2>1, SelectStep
<1>3. term' \in [Terminals -> Terms] /\ SameOpen
  <2>1. CASE panel[s].kind = "remote" /\ panel[s].cwd # Nothing
    <3>1. panel[s].conn \in Terminals /\ panel[s].cwd \in Dirs
      BY <1>1, <2>1 DEF TabInv, Links, Panels
    <3>2. PICK k \in Terminals, more \in SUBSET Dirs : term' = Tab!Tell(k, "going", term[k].going \cup more)
      BY <2>1, <3>1 DEF Tab!ToggleHidden
    <3> QED
      BY <1>1, <3>2, GoingStep
  <2>2. CASE ~(panel[s].kind = "remote" /\ panel[s].cwd # Nothing)
    BY <1>1, <2>2, Untouched DEF Tab!ToggleHidden
  <2> QED
    BY <2>1, <2>2
<1> QED
  BY <1>1, <1>2, <1>3, QuietStep, Untouched DEF Tab!ToggleHidden, Tab!Quiet, MenuType

LEMMA LookKeeps ==
  ASSUME Tab!TabAssumption, TabInv,
         \/ \E s \in Sides, n \in Names : Tab!Click(s, n) \/ Tab!OpenMenu(s, n)
         \/ \E s \in Sides : Tab!DownloadSelected(s) \/ Tab!ChooseUpload(s)
         \/ Tab!CloseMenu \/ Tab!CancelEdit \/ \E what \in {"delete", "pick"} : Tab!Ask(what)
  PROVE  TabInv'
<1>1. panel \in [Sides -> Panels] /\ term \in [Terminals -> Terms] /\ MenuType
  BY TabTypes DEF TabInv
<1>2. ASSUME \/ \E s \in Sides, names \in SUBSET Names : panel' = [panel EXCEPT ![s].selected = names]
             \/ UNCHANGED panel,
             UNCHANGED term, edit' = edit \/ edit' = Nothing, did' = "nothing", MenuType'
      PROVE  TabInv'
  <2>1. panel' \in [Sides -> Panels] /\ SamePlaces
    BY <1>1, <1>2, SelectStep, Untouched
  <2> QED
    BY <1>1, <1>2, <2>1, QuietStep, Untouched
<1>3. ASSUME NEW s \in Sides PROVE Tab!Rows(s) \in SUBSET Names /\ panel[s].selected \in SUBSET Names
  <2>1. panel[s].selected \in SUBSET Names /\ panel[s].cwd \in Dirs \cup {Nothing} /\ panel[s].lcwd \in Dirs
    BY <1>1 DEF Panels
  <2> QED
    BY <2>1 DEF Tab!Rows, Tab!Listing, Tab!Shown, Tab!TabAssumption
<1>4. ASSUME NEW s \in Sides, NEW n \in Names, Tab!Click(s, n) PROVE TabInv'
  <2>1. \E names \in SUBSET Names : panel' = [panel EXCEPT ![s].selected = names]
    BY <1>3, <1>4 DEF Tab!Click
  <2> QED
    BY <1>1, <1>2, <1>4, <2>1 DEF Tab!Click, Tab!Quiet, MenuType
<1>5. ASSUME NEW s \in Sides, NEW n \in Names, Tab!OpenMenu(s, n) PROVE TabInv'
  <2>1. PICK names \in SUBSET Names :
          /\ panel' = [panel EXCEPT ![s].selected = names]
          /\ menu' = [what |-> "menu", side |-> s, at |-> Tab!Shown(s), names |-> names, to |-> Tab!Across(s)]
    BY <1>3, <1>5 DEF Tab!OpenMenu
  <2>2. MenuType'
    BY <2>1, ShownIsPlace DEF TabInv, MenuType, Tab!Chosen
  <2> QED
    BY <1>2, <1>5, <2>1, <2>2 DEF Tab!OpenMenu, Tab!Quiet
<1>6. ASSUME NEW s \in Sides, Tab!DownloadSelected(s) PROVE TabInv'
  <2>1. panel[s].selected \cap Tab!Rows(s) \in SUBSET Names
    BY <1>3
  <2>2. MenuType'
    BY <1>6, <2>1, ShownIsPlace DEF TabInv, MenuType, Tab!Chosen, Tab!DownloadSelected, Tab!Place
  <2> QED
    BY <1>2, <1>6, <2>2 DEF Tab!DownloadSelected, Tab!Quiet, Tab!Unselect
<1>7. CASE Tab!CloseMenu
  BY <1>2, <1>7 DEF Tab!CloseMenu, Tab!Quiet, MenuType
<1>8. CASE Tab!CancelEdit
  BY <1>1, <1>2, <1>8 DEF Tab!CancelEdit, Tab!Quiet, MenuType
<1>9. ASSUME NEW what \in {"delete", "pick"}, Tab!Ask(what) PROVE TabInv'
  <2>1. MenuType'
    BY <1>1, <1>9 DEF MenuType, Tab!Ask, Tab!Chosen
  <2>2. menu.side \in Sides
    BY <1>1, <1>9 DEF MenuType, Tab!Ask, Tab!Chosen
  <2> QED
    BY <1>2, <1>9, <2>1, <2>2 DEF Tab!Ask, Tab!Quiet, Tab!Unselect
<1>10. ASSUME NEW s \in Sides, Tab!ChooseUpload(s) PROVE TabInv'
  <2>1. MenuType'
    BY <1>10, ShownIsPlace DEF TabInv, MenuType, Tab!Chosen, Tab!ChooseUpload, Tab!Place
  <2> QED
    BY <1>2, <1>10, <2>1 DEF Tab!ChooseUpload, Tab!Quiet
<1> QED
  BY <1>4, <1>5, <1>6, <1>7, <1>8, <1>9, <1>10

LEMMA EntersStep ==
  ASSUME panel \in [Sides -> Panels], NEW s \in Sides, NEW enters \in {"unset", "local", "remote"},
         panel' = [panel EXCEPT ![s].enters = enters]
  PROVE  panel' \in [Sides -> Panels] /\ SamePlaces
  BY DEF Panels, SamePlaces

\* An input is opened over what its panel shows.
LEMMA BeginKeeps ==
  ASSUME Tab!TabAssumption, TabInv, Tab!StartRename \/ \E s \in Sides : Tab!StartMakeFolder(s)
  PROVE  TabInv'
<1>1. panel \in [Sides -> Panels] /\ term \in [Terminals -> Terms] /\ MenuType
  BY TabTypes DEF TabInv
<1>2. ASSUME NEW s \in Sides, NEW n \in Names \cup {"folder"}, panel' \in [Sides -> Panels], SamePlaces,
             edit' = [side |-> s, name |-> n, from |-> Tab!Shown(s)],
             MenuType', UNCHANGED term, did' = "nothing"
      PROVE  TabInv'
  <2>1. EditType'
    BY <1>2, ShownIsPlace DEF TabInv, EditType
  <2>2. Tab!TypeOK'
    BY <1>1, <1>2, <2>1, TabTypesNext, Untouched
  <2>3. Links' /\ NoneHidden'
    BY <1>2, SameLinks, Untouched DEF TabInv, SamePlaces
  <2>4. Tab!Shown(s)' = Tab!Shown(s)
    BY <1>2 DEF SamePlaces, Tab!Shown
  <2>5. RenameInPlace'
    BY <1>2, <2>4 DEF RenameInPlace, Tab!Rows, Tab!Listing
  <2> QED
    BY <1>2, <2>2, <2>3, <2>5, Untouched DEF TabInv
<1>3. CASE Tab!StartRename
  <2>1. menu.side \in Sides /\ menu.names \in SUBSET Names
    BY <1>1, <1>3 DEF MenuType, Tab!Chosen, Tab!StartRename
  <2>2. panel' \in [Sides -> Panels] /\ SamePlaces
    <3>1. PICK s \in Sides, enters \in {"unset", "local", "remote"} :
            panel' = [panel EXCEPT ![s].enters = enters]
      <4>1. panel[menu.side].enters \in {"unset", "local", "remote"}
        BY <1>1, <2>1 DEF Panels
      <4> QED
        BY <1>3, <2>1, <4>1 DEF Tab!StartRename
    <3> QED
      BY <1>1, <3>1, EntersStep
  <2> QED
    BY <1>2, <1>3, <2>1, <2>2 DEF Tab!StartRename, Tab!Quiet, MenuType
<1>4. ASSUME NEW s \in Sides, Tab!StartMakeFolder(s) PROVE TabInv'
  BY <1>1, <1>2, <1>4, Untouched DEF Tab!StartMakeFolder, Tab!Quiet, MenuType
<1> QED
  BY <1>3, <1>4

\* Operations that go where they were chosen.
LEMMA SamePerform ==
  ASSUME Tab!TabAssumption, Tab!TypeOK, NEW at, Tab!Perform(at, at)
  PROVE  /\ term' \in [Terminals -> Terms] /\ SameOpen
         /\ did' \in {"nothing", "there"} /\ DidType' /\ HostReached'
<1>1. term' \in [Terminals -> Terms] /\ SameOpen /\ did' \in {"nothing", "there"}
  BY PerformStep DEF Tab!Perform, Tab!Seen
<1> QED
  BY <1>1 DEF DidType, HostReached

LEMMA ChosenKeeps ==
  ASSUME Tab!TabAssumption, TabInv,
         \/ \E s \in Sides : Tab!CommitMakeFolder(s) \/ Tab!ActNow(s)
         \/ Tab!ActFromMenu \/ \E op \in {"delete", "download", "upload"} : Tab!Answer(op)
  PROVE  TabInv' /\ did' # "elsewhere"
<1>1. panel \in [Sides -> Panels] /\ term \in [Terminals -> Terms] /\ MenuType /\ Tab!TypeOK
  BY TabTypes DEF TabInv
<1>2. ASSUME NEW s \in Sides, Tab!CommitMakeFolder(s) PROVE TabInv' /\ did' # "elsewhere"
  <2>1. \/ UNCHANGED term /\ did' = "nothing"
        \/ Tab!Perform(Tab!Shown(s), Tab!Shown(s))
    BY <1>2 DEF Tab!CommitMakeFolder, Tab!Quiet
  <2>2. /\ term' \in [Terminals -> Terms] /\ SameOpen
        /\ did' \in {"nothing", "there"} /\ DidType' /\ HostReached'
    BY <1>1, <2>1, SamePerform, Untouched
  <2> QED
    BY <1>1, <1>2, <2>2, QuietStep, Untouched DEF Tab!CommitMakeFolder, MenuType
<1>3. ASSUME NEW s \in Sides, Tab!ActNow(s) PROVE TabInv' /\ did' # "elsewhere"
  <2>1. /\ term' \in [Terminals -> Terms] /\ SameOpen
        /\ did' \in {"nothing", "there"} /\ DidType' /\ HostReached'
    BY <1>1, <1>3, SamePerform DEF Tab!ActNow
  <2> QED
    BY <1>1, <1>3, <2>1, QuietStep, Untouched DEF Tab!ActNow, MenuType
<1>4. ASSUME \/ UNCHANGED panel \/ panel' = Tab!Unselect(menu.side),
             menu.side \in Sides, UNCHANGED edit, menu' = Nothing,
             \/ UNCHANGED term /\ did' = "nothing"
             \/ \E at : Tab!Perform(at, at)
      PROVE  TabInv' /\ did' # "elsewhere"
  <2>1. /\ term' \in [Terminals -> Terms] /\ SameOpen
        /\ did' \in {"nothing", "there"} /\ DidType' /\ HostReached'
    BY <1>1, <1>4, SamePerform, Untouched
  <2>2. panel' \in [Sides -> Panels] /\ SamePlaces
    <3>1. CASE UNCHANGED panel
      BY <1>1, <3>1, Untouched
    <3>2. CASE panel' = Tab!Unselect(menu.side)
      <4>1. PICK names \in SUBSET Names : panel' = [panel EXCEPT ![menu.side].selected = names]
        BY <3>2 DEF Tab!Unselect
      <4> QED
        BY <1>1, <1>4, <4>1, SelectStep
    <3> QED
      BY <1>4, <3>1, <3>2
  <2> QED
    BY <1>4, <2>1, <2>2, QuietStep DEF MenuType
<1>5. ASSUME NEW op \in {"delete", "download", "upload"}, Tab!Answer(op) PROVE TabInv' /\ did' # "elsewhere"
  <2>1. menu.side \in Sides
    BY <1>1, <1>5 DEF MenuType, Tab!Chosen, Tab!Answer
  <2> QED
    BY <1>4, <1>5, <2>1 DEF Tab!Answer, Tab!TakenPath
<1>6. ASSUME Tab!ActFromMenu PROVE TabInv' /\ did' # "elsewhere"
  <2>1. menu.side \in Sides
    BY <1>1, <1>6 DEF MenuType, Tab!Chosen, Tab!ActFromMenu
  <2> QED
    BY <1>4, <1>6, <2>1 DEF Tab!ActFromMenu, Tab!TakenPath, Tab!Quiet
<1> QED
  BY <1>2, <1>3, <1>5, <1>6

\* A rename is carried out where its input stands: the panel it was begun in, in a directory
\* that lists the same names, unless the input was made for the disk.
LEMMA RenameKeeps ==
  ASSUME Tab!TabAssumption, TabInv, NEW s \in Sides, Tab!CommitRename(s)
  PROVE  TabInv' /\ did' # "elsewhere"
<1>1. panel \in [Sides -> Panels] /\ term \in [Terminals -> Terms] /\ MenuType /\ Tab!TypeOK
  BY TabTypes DEF TabInv
<1>2. /\ edit # Nothing /\ edit.side = s /\ edit.name \in Tab!Rows(s)
      /\ edit' = Nothing /\ panel' = Tab!Unselect(s) /\ UNCHANGED menu
  BY DEF Tab!CommitRename
<1>3. edit.from \in Tab!Place /\ Tab!Shown(s) \in Tab!Place /\ edit.name \in Names
  <2>1. edit.name # "folder"
    BY <1>1, <1>2 DEF Panels, Tab!Rows, Tab!Listing, Tab!Shown, Tab!TabAssumption
  <2> QED
    BY <1>1, <1>2, <2>1, ShownIsPlace DEF Tab!TypeOK
<1>4. edit.from.on = Tab!Shown(s).on /\ Tab!Listing(edit.from.dir) = Tab!Rows(s)
  BY <1>2, <1>3 DEF TabInv, RenameInPlace, Tab!TabAssumption
<1>6. panel[s].kind # "off"
  BY <1>2 DEF TabInv, Links, Tab!Rows, Tab!Shown, Tab!Listing
<1>7. PICK names \in SUBSET Names : panel' = [panel EXCEPT ![s].selected = names]
  BY <1>2 DEF Tab!Unselect
<1>8. panel' \in [Sides -> Panels] /\ SamePlaces /\ \A t \in Sides : panel'[t].enters = panel[t].enters
  BY <1>1, <1>7, SelectStep
<1>9. ASSUME term' \in [Terminals -> Terms], SameOpen, DidType', HostReached' PROVE TabInv'
  BY <1>1, <1>2, <1>8, <1>9, QuietStep DEF MenuType
<1>10. CASE UNCHANGED term /\ Tab!Quiet
  BY <1>1, <1>9, <1>10, Untouched DEF Tab!Quiet
<1>11. CASE panel[s].enters = "local" /\ LET at == [on |-> "disk", dir |-> panel[s].lcwd] IN
                                          Tab!Carry(at, Tab!RenameSeen(at, edit.from))
  <2> DEFINE at == [on |-> "disk", dir |-> panel[s].lcwd]
  <2>1. /\ term' \in [Terminals -> Terms] /\ SameOpen
        /\ did' \in {"nothing", Tab!RenameSeen(at, edit.from)}
    BY <1>1, <1>11, PerformStep
  <2>2. panel[s].kind \in {"local", "remote"}
    BY <1>1, <1>6 DEF Panels
  <2>3. CASE panel[s].kind = "local"
    <3>1. at = Tab!Shown(s)
      BY <2>3 DEF Tab!Shown
    <3>2. did' \in {"nothing", "there", "in a lookalike"}
      BY <1>4, <2>1, <3>1, SeenOfRename DEF Tab!Rows
    <3> QED
      BY <1>9, <2>1, <3>2 DEF DidType, HostReached
  <2>4. CASE panel[s].kind = "remote"
    <3>1. at.on # edit.from.on
      BY <1>4, <2>4 DEF TabInv, Links, Tab!Shown, Tab!TabAssumption
    <3>2. did' \in {"nothing", "there", "on another host"}
      BY <2>1, <3>1, SeenOfRename
    <3>3. HostReached'
      BY <1>8, <1>11, <2>4 DEF HostReached, SamePlaces
    <3> QED
      BY <1>9, <2>1, <3>2, <3>3 DEF DidType
  <2> QED
    BY <2>2, <2>3, <2>4
<1>12. CASE panel[s].kind = "remote" /\ LET at == [on |-> panel[s].conn, dir |-> panel[s].cwd] IN
                                          Tab!Carry(at, Tab!RenameSeen(at, edit.from))
  <2> DEFINE at == [on |-> panel[s].conn, dir |-> panel[s].cwd]
  <2>1. /\ term' \in [Terminals -> Terms] /\ SameOpen
        /\ did' \in {"nothing", Tab!RenameSeen(at, edit.from)}
    BY <1>1, <1>12, PerformStep
  <2>2. at = Tab!Shown(s)
    BY <1>12 DEF Tab!Shown
  <2>3. did' \in {"nothing", "there", "in a lookalike"}
    BY <1>4, <2>1, <2>2, SeenOfRename DEF Tab!Rows
  <2> QED
    BY <1>9, <2>1, <2>3 DEF DidType, HostReached
<1> QED
  BY <1>10, <1>11, <1>12 DEF Tab!CommitRename, Tab!Quiet

LEMMA TabStep ==
  ASSUME Tab!TabAssumption, TabInv, [Tab!Next]_tabVars
  PROVE  TabInv' /\ (did # "elsewhere" => did' # "elsewhere")
<1>1. ASSUME NEW k \in Terminals, (\E d \in Dirs : Tab!Land(k, d)) \/ Tab!Finished(k)
      PROVE  TabInv' /\ did' = "nothing"
  BY <1>1, LandKeeps DEF Tab!Land, Tab!Finished, Tab!Quiet
<1>2. ASSUME NEW s \in Sides,
             Tab!Sync(s) \/ Tab!ConnectRemote(s) \/ Tab!ConnectLocal(s) \/ Tab!DisconnectPanel(s)
      PROVE  TabInv' /\ did' = "nothing"
  BY <1>2, SyncKeeps, ConnectKeeps
     DEF Tab!Sync, Tab!ConnectRemote, Tab!ConnectLocal, Tab!DisconnectPanel, Tab!Quiet
<1>3. ASSUME NEW s \in Sides, (\E d \in Dirs : Tab!Navigate(s, d)) \/ Tab!ToggleHidden(s)
      PROVE  TabInv' /\ did' = "nothing"
  BY <1>3, NavigateKeeps, ToggleKeeps DEF Tab!Navigate, Tab!ToggleHidden, Tab!Quiet
<1>4. ASSUME \/ \E s \in Sides, n \in Names : Tab!Click(s, n) \/ Tab!OpenMenu(s, n)
             \/ \E s \in Sides : Tab!DownloadSelected(s) \/ Tab!ChooseUpload(s)
             \/ Tab!CloseMenu \/ Tab!CancelEdit \/ \E what \in {"delete", "pick"} : Tab!Ask(what)
      PROVE  TabInv' /\ did' = "nothing"
  BY <1>4, LookKeeps
     DEF Tab!Click, Tab!OpenMenu, Tab!DownloadSelected, Tab!ChooseUpload, Tab!CloseMenu, Tab!CancelEdit,
         Tab!Ask, Tab!Quiet
<1>5. ASSUME Tab!StartRename \/ \E s \in Sides : Tab!StartMakeFolder(s)
      PROVE  TabInv' /\ did' = "nothing"
  BY <1>5, BeginKeeps DEF Tab!StartRename, Tab!StartMakeFolder, Tab!Quiet
<1>6. CASE UNCHANGED tabVars
  <2>1. panel' = panel /\ term' = term /\ edit' = edit /\ menu' = menu /\ did' = did
    BY <1>6 DEF tabVars
  <2> QED
    BY <2>1, QuietStep, Untouched, TabTypes DEF TabInv, MenuType, DidType, HostReached
<1>7. Worked \subseteq Sides
  BY DEF Tab!TabAssumption
<1>8. CASE Tab!Next
  <2>1. CASE \E k \in Terminals : (\E d \in Dirs : Tab!Land(k, d)) \/ Tab!Finished(k)
    BY <1>1, <2>1
  <2>2. CASE \E s \in Sides :
               Tab!Sync(s) \/ Tab!ConnectRemote(s) \/ Tab!ConnectLocal(s) \/ Tab!DisconnectPanel(s)
    BY <1>2, <2>2
  <2>3. CASE \E s \in Worked : (\E d \in Dirs : Tab!Navigate(s, d)) \/ Tab!ToggleHidden(s)
    BY <1>3, <1>7, <2>3
  <2>4. CASE \/ \E s \in Worked, n \in Names : Tab!Click(s, n) \/ Tab!OpenMenu(s, n)
             \/ \E s \in Worked : Tab!DownloadSelected(s) \/ Tab!ChooseUpload(s)
             \/ Tab!CloseMenu \/ Tab!CancelEdit \/ \E what \in {"delete", "pick"} : Tab!Ask(what)
    BY <1>4, <1>7, <2>4
  <2>5. CASE Tab!StartRename \/ \E s \in Worked : Tab!StartMakeFolder(s)
    BY <1>5, <1>7, <2>5
  <2>6. CASE \/ \E s \in Worked : Tab!CommitMakeFolder(s)
             \/ \E s \in Sides : Tab!ActNow(s)
             \/ Tab!ActFromMenu \/ \E op \in {"delete", "download", "upload"} : Tab!Answer(op)
    BY <1>7, <2>6, ChosenKeeps
  <2>7. CASE \E s \in Worked : Tab!CommitRename(s)
    BY <1>7, <2>7, RenameKeeps
  <2> QED
    BY <1>8, <2>1, <2>2, <2>3, <2>4, <2>5, <2>6, <2>7 DEF Tab!Next
<1> QED
  BY <1>6, <1>8

LEMMA TabShown == ASSUME Tab!TabAssumption, TabInv PROVE Tab!TerminalsShown
<1> SUFFICES ASSUME NEW k \in Terminals, term[k].open = "yes"
             PROVE  Tab!Cardinality({s \in Sides : panel[s].conn = k}) = 1
  BY DEF Tab!TerminalsShown
<1>1. PICK s \in Sides : panel[s].conn = k
  BY DEF TabInv, NoneHidden
<1>2. {t \in Sides : panel[t].conn = k} = {s}
  BY <1>1 DEF TabInv, Links, Tab!TabAssumption
<1>3. Cardinality({s}) = 1
  BY FS_Singleton
<1>4. Tab!Cardinality({s}) = Cardinality({s})
  BY DEF Tab!Cardinality, Cardinality
<1> QED
  BY <1>2, <1>3, <1>4

-----------------------------------------------------------------------------
(* The panel beside the terminals.  What is being typed belongs to the pane  *)
(* the panel shows, and a rename to the names it shows (EditHere); while a   *)
(* menu or a question covers the window, nothing is (Covered).               *)

EditHere ==
  sideEdit # Nothing =>
    /\ sideEdit.from.on = Side!Here.on
    /\ sideEdit.what \in Names => Side!Listing(sideEdit.from.dir) = Side!Rows

Covered == sideEdit # Nothing => Side!Free

SideInv == Side!TypeOK /\ EditHere /\ Covered /\ Side!PathShowsCwd

SideEditType ==
  sideEdit = Nothing \/ sideEdit \in [what : {"path", "folder"} \cup Names, from : Side!Place]
SideMenuType ==
  sideMenu = Nothing \/
  sideMenu \in [what : {"row", "actions", "delete", "save", "send"}, at : Side!Place, names : SUBSET Names]
SideShownType == shown \in [at : Side!Place, selected : SUBSET Names]
SideDidType == sideDid \in {"nothing", "there", "in a lookalike", "elsewhere", "on another host"}
HostType == host \in [Panes -> [alive : BOOLEAN, cwd : Dirs \cup {Nothing}]]

LEMMA SideTypes ==
  Side!TypeOK <=> /\ together \in BOOLEAN /\ HostType /\ active \in Panes \cup {Nothing}
                  /\ text \in Dirs \cup {Nothing}
                  /\ SideShownType /\ SideEditType /\ SideMenuType /\ SideDidType
  BY DEF Side!TypeOK, HostType, SideShownType, SideEditType, SideMenuType, SideDidType

LEMMA SideTypesNext ==
  ASSUME together' \in BOOLEAN, HostType', active' \in Panes \cup {Nothing},
         text' \in Dirs \cup {Nothing}, SideShownType', SideEditType', SideMenuType', SideDidType'
  PROVE  Side!TypeOK'
  BY DEF Side!TypeOK, HostType, SideShownType, SideEditType, SideMenuType, SideDidType

\* What an operation reports, and that one carried out where it was chosen says so.
LEMMA SideDid ==
  /\ Side!Quiet => SideDidType' /\ sideDid' = "nothing"
  /\ \A at, from : Side!Perform(at, from) => SideDidType'
  /\ \A at, from : Side!Perform(at, from) /\ at = from => sideDid' \in {"nothing", "there"}
  /\ \A at, from : Side!Carry(at, Side!RenameSeen(at, from)) => SideDidType'
  /\ \A at, from : /\ Side!Carry(at, Side!RenameSeen(at, from))
                  /\ at.on = from.on /\ Side!Listing(at.dir) = Side!Listing(from.dir)
                  => sideDid' \in {"nothing", "there", "in a lookalike"}
  BY DEF SideDidType, Side!Quiet, Side!Perform, Side!Carry, Side!RenameSeen, Side!Seen

\* Steps of the panes: the panel shows and edits what it did.
LEMMA PanesKeep ==
  ASSUME SideInv, HostType', active' \in Panes \cup {Nothing},
         UNCHANGED <<together, shown, text, sideEdit, sideMenu>>, Side!Quiet
  PROVE  SideInv' /\ sideDid' = "nothing"
<1>1. Side!TypeOK'
  BY SideTypes, SideTypesNext, SideDid DEF SideInv, SideShownType, SideEditType, SideMenuType
<1>2. EditHere' /\ Covered' /\ Side!PathShowsCwd'
  BY DEF SideInv, EditHere, Covered, Side!PathShowsCwd, Side!Here, Side!Rows, Side!Listing, Side!Free
<1> QED
  BY <1>1, <1>2, SideDid DEF SideInv

\* Steps of the user that leave the panel where it is.
LEMMA HereKeeps ==
  ASSUME SideInv, UNCHANGED <<together, host, active>>,
         SideShownType', Side!Here' = Side!Here,
         SideMenuType', SideDidType', Covered',
         \/ sideEdit' = Nothing /\ text' = Side!Here.dir
         \/ sideEdit' = Nothing /\ text' = Side!Blurred
         \/ sideEdit' = sideEdit /\ text' = text
  PROVE  SideInv'
<1>1. Side!Here.dir \in Dirs \cup {Nothing}
  BY SideTypes DEF SideInv, SideShownType, Side!Here, Side!Place
<1>2. text' \in Dirs \cup {Nothing} /\ SideEditType'
  BY <1>1, SideTypes DEF SideInv, SideEditType, Side!Blurred
<1>3. Side!TypeOK'
  BY <1>2, SideTypes, SideTypesNext DEF SideInv, HostType
<1>4. EditHere'
  BY DEF SideInv, EditHere, Side!Rows, Side!Listing, Side!Here
<1>5. Side!PathShowsCwd'
  BY DEF SideInv, Side!PathShowsCwd, Side!Here, Side!Blurred
<1> QED
  BY <1>3, <1>4, <1>5 DEF SideInv

LEMMA SideInitially == ASSUME Side!SideAssumption, Side!Init PROVE SideInv /\ sideDid = "nothing"
  BY DEF Side!SideAssumption, Side!Init, SideInv, Side!TypeOK, EditHere, Covered, Side!PathShowsCwd,
         Side!Here, Side!Nowhere, Side!Place

LEMMA SidePanesStep ==
  ASSUME SideInv, UNCHANGED together,
         \/ \E p \in Panes, d \in Dirs : Side!Land(p, d)
         \/ \E p \in Panes \cup {Nothing} : Side!Activate(p)
         \/ \E p \in Panes : Side!PaneEnds(p)
  PROVE  SideInv' /\ sideDid' = "nothing"
<1>1. host \in [Panes -> [alive : BOOLEAN, cwd : Dirs \cup {Nothing}]] /\ active \in Panes \cup {Nothing}
  BY DEF SideInv, Side!TypeOK
<1>2. HostType' /\ active' \in Panes \cup {Nothing}
  <2>1. ASSUME NEW p \in Panes, NEW d \in Dirs, Side!Land(p, d) PROVE HostType' /\ active' = active
    BY <1>1, <2>1 DEF HostType, Side!Land
  <2>2. ASSUME NEW p \in Panes \cup {Nothing}, Side!Activate(p) PROVE HostType' /\ active' = p
    BY <1>1, <2>2 DEF HostType, Side!Activate
  <2>3. ASSUME NEW p \in Panes, Side!PaneEnds(p) PROVE HostType' /\ active' \in Panes \cup {Nothing}
    <3>1. [alive |-> FALSE, cwd |-> Nothing] \in [alive : BOOLEAN, cwd : Dirs \cup {Nothing}]
      OBVIOUS
    <3>2. HostType'
      BY <1>1, <2>3, <3>1 DEF HostType, Side!PaneEnds
    <3> QED
      BY <1>1, <2>3, <3>2 DEF Side!PaneEnds
  <2> QED
    BY <1>1, <2>1, <2>2, <2>3
<1> QED
  BY <1>2, PanesKeep DEF Side!Land, Side!Activate, Side!PaneEnds

\* The frame: the panel follows the active pane, and so does what is being typed.
LEMMA FrameStep ==
  ASSUME Side!SideAssumption, SideInv, UNCHANGED together, Side!Frame
  PROVE  SideInv' /\ sideDid' = "nothing"
<1> DEFINE moved == active # Side!Here.on
<1>1. /\ shown' = [at |-> Side!Now, selected |-> IF Side!Invalidated THEN {} ELSE shown.selected]
      /\ sideEdit' = IF sideEdit = Nothing \/ moved \/ (sideEdit.what \in Names /\ Side!Invalidated)
                     THEN Nothing ELSE sideEdit
      /\ text' = IF (Side!Now.dir # Side!Here.dir /\ Side!Overwrite) \/ Side!OtherTab
                    \/ (moved /\ sideEdit # Nothing /\ sideEdit.what = "path")
                 THEN Side!Now.dir ELSE text
      /\ UNCHANGED <<host, active, sideMenu>> /\ Side!Quiet
  BY DEF Side!Frame
<1>2. Side!Now \in Side!Place
  BY DEF SideInv, Side!TypeOK, Side!Now, Side!Place
<1>3. Side!TypeOK'
  <2>1. SideShownType'
    BY <1>1, <1>2, SideTypes DEF SideInv, SideShownType
  <2>2. text' \in Dirs \cup {Nothing}
    BY <1>1, <1>2, SideTypes DEF SideInv, Side!Place
  <2>3. SideEditType' /\ SideMenuType' /\ HostType'
    BY <1>1, SideTypes DEF SideInv, SideEditType, SideMenuType, HostType
  <2> QED
    BY <1>1, <2>1, <2>2, <2>3, SideTypes, SideTypesNext, SideDid DEF SideInv
<1>4. Side!Here' = Side!Now
  BY <1>1 DEF Side!Here
<1>5. sideEdit' # Nothing => sideEdit' = sideEdit /\ ~moved
  BY <1>1
<1>6. EditHere'
  <2> SUFFICES ASSUME sideEdit' # Nothing
               PROVE  /\ sideEdit.from.on = Side!Here'.on
                      /\ sideEdit.what \in Names => Side!Listing(sideEdit.from.dir) = Side!Rows'
    BY <1>5 DEF EditHere, Side!Listing, Side!Rows
  <2>1. Side!Now.on = active /\ sideEdit # Nothing
    BY <1>5 DEF Side!Now
  <2>2. sideEdit.from.on = Side!Here'.on
    BY <1>4, <1>5, <2>1 DEF SideInv, EditHere
  <2>3. ASSUME sideEdit.what \in Names PROVE Side!Listing(sideEdit.from.dir) = Side!Rows'
    <3>1. Side!Listing(Side!Now.dir) = Side!Rows
      BY <1>1, <2>1, <2>3 DEF Side!Invalidated
    <3>2. Side!Rows' = Side!Listing(Side!Now.dir)
      BY <1>1 DEF Side!Rows, Side!Listing
    <3> QED
      BY <2>1, <2>3, <3>1, <3>2 DEF SideInv, EditHere
  <2> QED
    BY <2>2, <2>3
<1>7. Covered'
  BY <1>1, <1>5 DEF SideInv, Covered, Side!Free
<1>8. Side!PathShowsCwd'
  <2> SUFFICES ASSUME sideEdit' # Nothing => sideEdit'.what # "path"
               PROVE  text' = Side!Now.dir
    BY <1>4 DEF Side!PathShowsCwd
  <2>1. CASE sideEdit # Nothing /\ sideEdit.what = "path"
    <3>1. moved
      BY <1>1, <2>1 DEF Side!SideAssumption
    <3> QED
      BY <1>1, <2>1, <3>1
  <2>2. CASE ~(sideEdit # Nothing /\ sideEdit.what = "path")
    <3>1. text = Side!Here.dir
      BY <2>2 DEF SideInv, Side!PathShowsCwd
    <3>2. Side!Overwrite
      BY <3>1 DEF Side!Overwrite
    <3> QED
      BY <1>1, <3>1, <3>2
  <2> QED
    BY <2>1, <2>2
<1> QED
  BY <1>1, <1>3, <1>6, <1>7, <1>8, SideDid DEF SideInv

\* An input opened over what is shown.
LEMMA SideBegins ==
  ASSUME Side!SideAssumption, SideInv, UNCHANGED together,
         (\E d \in Dirs : Side!TypePath(d)) \/ Side!StartRename \/ Side!StartMakeFolder
  PROVE  SideInv' /\ sideDid' = "nothing"
<1>1. /\ HostType /\ active \in Panes \cup {Nothing} /\ text \in Dirs \cup {Nothing}
      /\ SideShownType /\ SideEditType /\ SideMenuType /\ Side!Here \in Side!Place
  BY SideTypes DEF SideInv, SideShownType, Side!Here
<1>3. ASSUME NEW d \in Dirs, Side!TypePath(d) PROVE SideInv'
  <2>1. /\ sideEdit' = IF sideEdit # Nothing /\ sideEdit.what = "path" THEN sideEdit
                       ELSE [what |-> "path", from |-> Side!Here]
        /\ text' = d /\ UNCHANGED <<host, active, shown, sideMenu>> /\ Side!Quiet /\ Side!Free
    BY <1>3 DEF Side!TypePath
  <2>2. sideEdit'.what = "path" /\ sideEdit'.from.on = Side!Here.on /\ SideEditType'
    BY <1>1, <2>1 DEF SideInv, EditHere, SideEditType
  <2>3. Side!TypeOK'
    BY <1>1, <2>1, <2>2, SideTypes, SideTypesNext, SideDid
       DEF SideInv, HostType, SideShownType, SideMenuType
  <2>4. sideEdit' # Nothing
    <3>1. [what |-> "path", from |-> Side!Here] \in
            [what : {"path"}, from : [on : Panes \cup {Nothing}, dir : Dirs \cup {Nothing}]]
      BY <1>1 DEF Side!Place
    <3> QED
      BY <2>1, <3>1 DEF Side!SideAssumption
  <2>5. EditHere' /\ Covered' /\ Side!PathShowsCwd'
    BY <2>1, <2>2, <2>4 DEF EditHere, Covered, Side!Free, Side!PathShowsCwd, Side!Here, Side!SideAssumption
  <2> QED
    BY <2>3, <2>5 DEF SideInv
<1>4. ASSUME NEW n \in Names \cup {"folder"}, sideEdit' = [what |-> n, from |-> Side!Here],
             ~Side!Free, sideMenu' = Nothing, UNCHANGED <<host, active, shown, text>>, Side!Quiet
      PROVE  SideInv'
  <2>1. sideEdit = Nothing
    BY <1>4 DEF SideInv, Covered
  <2>2. Side!TypeOK'
    BY <1>1, <1>4, SideTypes, SideTypesNext, SideDid
       DEF SideInv, HostType, SideShownType, SideMenuType, SideEditType
  <2>3. EditHere'
    BY <1>4 DEF EditHere, Side!Here, Side!Rows, Side!Listing
  <2>4. Covered' /\ Side!PathShowsCwd'
    BY <1>4, <2>1 DEF SideInv, Covered, Side!Free, Side!PathShowsCwd, Side!Here
  <2> QED
    BY <2>2, <2>3, <2>4 DEF SideInv
<1>5. CASE Side!StartRename
  <2>1. sideMenu # Nothing /\ sideMenu.what = "row"
    BY <1>5 DEF Side!StartRename
  <2>2. PICK n \in sideMenu.names : sideEdit' = [what |-> n, from |-> Side!Here]
    BY <1>5 DEF Side!StartRename
  <2>3. n \in Names \cup {"folder"} /\ ~Side!Free
    BY <1>1, <2>1, <2>2 DEF SideMenuType, Side!Free
  <2> QED
    BY <1>4, <1>5, <2>2, <2>3, SideDid DEF Side!StartRename
<1>6. CASE Side!StartMakeFolder
  <2>1. ~Side!Free /\ "folder" \in Names \cup {"folder"}
    BY <1>6 DEF Side!StartMakeFolder, Side!Free
  <2> QED
    BY <1>4, <1>6, <2>1, SideDid DEF Side!StartMakeFolder
<1> QED
  BY <1>3, <1>5, <1>6, SideDid DEF Side!TypePath, Side!StartRename, Side!StartMakeFolder

\* What the user does in the panel without opening an input.
LEMMA SideActs ==
  ASSUME Side!SideAssumption, SideInv, UNCHANGED together,
         \/ \E n \in Names : Side!Click(n) \/ Side!OpenMenu(n) \/ Side!DropOnTerminal(n)
         \/ Side!SubmitPath \/ Side!ActNow \/ Side!ActFromMenu \/ Side!CancelEdit
         \/ Side!OpenActions \/ Side!CloseMenu \/ Side!DownloadSelected \/ Side!Answer \/ Side!Send
         \/ \E what \in {"delete", "save", "send"} : Side!Ask(what)
  PROVE  SideInv' /\ sideDid' \in {"nothing", "there"}
<1> DEFINE Fine == sideDid' \in {"nothing", "there"}
           NewMenu(m) == m = Nothing \/
             m \in [what : {"row", "actions", "delete", "save", "send"}, at : Side!Place, names : SUBSET Names]
<1>1. /\ SideShownType /\ SideMenuType /\ active \in Panes \cup {Nothing}
      /\ Side!Here \in Side!Place /\ shown.selected \in SUBSET Names /\ Side!Rows \in SUBSET Names
  <2>1. SideShownType /\ SideMenuType /\ active \in Panes \cup {Nothing}
    BY SideTypes DEF SideInv
  <2>2. Side!Here \in Side!Place /\ shown.selected \in SUBSET Names
    BY <2>1 DEF SideShownType, Side!Here
  <2>3. Side!Here.dir \in Dirs \cup {Nothing}
    BY <2>2 DEF Side!Place
  <2> QED
    BY <2>1, <2>2, <2>3 DEF Side!Rows, Side!Listing, Side!Here, Side!SideAssumption
<1>2. ASSUME \/ UNCHANGED shown
             \/ \E picked \in SUBSET Names : shown' = [shown EXCEPT !.selected = picked]
      PROVE  SideShownType' /\ Side!Here' = Side!Here
  BY <1>1, <1>2 DEF SideShownType, Side!Here
<1>3. ASSUME UNCHANGED <<host, active>>, SideShownType', Side!Here' = Side!Here, SideMenuType', SideDidType',
             sideEdit' = Nothing, text' = Side!Blurred
      PROVE  SideInv'
  BY <1>3, HereKeeps DEF Covered
<1>4. ASSUME UNCHANGED <<host, active, sideEdit, text>>, SideShownType', Side!Here' = Side!Here,
             SideMenuType', SideDidType', Side!Free => Side!Free'
      PROVE  SideInv'
  <2>1. Covered'
    BY <1>4 DEF SideInv, Covered
  <2> QED
    BY <1>4, <2>1, HereKeeps
<1>5. ASSUME NEW n \in Names, Side!Click(n) PROVE SideInv' /\ Fine
  <2>1. \E picked \in SUBSET Names : shown' = [shown EXCEPT !.selected = picked]
    BY <1>1, <1>5 DEF Side!Click
  <2> QED
    BY <1>1, <1>2, <1>3, <1>5, <2>1, SideDid DEF Side!Click, SideMenuType
<1>6. ASSUME NEW n \in Names, Side!OpenMenu(n) PROVE SideInv' /\ Fine
  <2>1. PICK names \in SUBSET Names :
          /\ shown' = [shown EXCEPT !.selected = names]
          /\ sideMenu' = [what |-> "row", at |-> Side!Here, names |-> names \cap Side!Rows]
    BY <1>1, <1>6 DEF Side!OpenMenu
  <2>2. SideMenuType'
    BY <1>1, <2>1 DEF SideMenuType
  <2> QED
    BY <1>2, <1>3, <1>6, <2>1, <2>2, SideDid DEF Side!OpenMenu
<1>7. ASSUME NEW n \in Names, Side!DropOnTerminal(n) PROVE SideInv' /\ Fine
  <2>1. SideMenuType' /\ Side!Free'
    BY <1>1, <1>7 DEF SideMenuType, Side!DropOnTerminal, Side!Place, Side!Free
  <2> QED
    BY <1>2, <1>4, <1>7, <2>1, SideDid DEF Side!DropOnTerminal
<1>8. CASE Side!SubmitPath
  <2>1. Fine /\ SideDidType'
    BY <1>8, SideDid DEF SideInv, EditHere, Side!SubmitPath
  <2> QED
    BY <1>1, <1>2, <1>4, <1>8, <2>1 DEF Side!SubmitPath, SideMenuType, Side!Free
<1>9. CASE Side!ActNow
  <2>1. Fine /\ SideDidType'
    BY <1>9, SideDid DEF Side!ActNow
  <2> QED
    BY <1>1, <1>2, <1>3, <1>9, <2>1 DEF Side!ActNow, SideMenuType
<1>10. CASE Side!ActFromMenu \/ Side!Answer \/ Side!Send
  <2>1. Side!Perform(sideMenu.at, sideMenu.at) /\ sideMenu' = Nothing
    BY <1>10 DEF Side!ActFromMenu, Side!Answer, Side!Send
  <2>2. Fine /\ SideDidType' /\ SideMenuType' /\ Side!Free'
    BY <2>1, SideDid DEF SideMenuType, Side!Free
  <2>3. UNCHANGED <<host, active, sideEdit, text>>
    BY <1>10 DEF Side!ActFromMenu, Side!Answer, Side!Send
  <2>4. UNCHANGED shown \/ \E picked \in SUBSET Names : shown' = [shown EXCEPT !.selected = picked]
    BY <1>1, <1>10 DEF Side!ActFromMenu, Side!Answer, Side!Send, Side!Unselect
  <2> QED
    BY <1>2, <1>4, <2>2, <2>3, <2>4
<1>11. CASE Side!CancelEdit
  BY <1>1, <1>2, <1>3, <1>11, SideDid DEF Side!CancelEdit, SideMenuType
<1>12. CASE Side!OpenActions
  <2>1. SideMenuType'
    BY <1>1, <1>12 DEF SideMenuType, Side!OpenActions
  <2> QED
    BY <1>2, <1>3, <1>12, <2>1, SideDid DEF Side!OpenActions
<1>13. CASE Side!CloseMenu
  BY <1>2, <1>4, <1>13, SideDid DEF Side!CloseMenu, SideMenuType, Side!Free
<1>14. CASE Side!DownloadSelected
  <2>1. SideMenuType' /\ Side!Free'
    <3>1. sideMenu.at \in Side!Place
      BY <1>1, <1>14 DEF SideMenuType, Side!DownloadSelected
    <3>2. [on |-> sideMenu.at.on, dir |-> Side!Here.dir] \in Side!Place
      BY <1>1, <3>1 DEF Side!Place
    <3>3. shown.selected \cap Side!Rows \in SUBSET Names
      BY <1>1
    <3> QED
      BY <1>14, <3>2, <3>3 DEF SideMenuType, Side!DownloadSelected, Side!Free
  <2> QED
    BY <1>2, <1>4, <1>14, <2>1, SideDid DEF Side!DownloadSelected, Side!Unselect
<1>15. ASSUME NEW what \in {"delete", "save", "send"}, Side!Ask(what) PROVE SideInv' /\ Fine
  <2>1. SideMenuType' /\ (Side!Free => Side!Free')
    BY <1>1, <1>15 DEF SideMenuType, Side!Ask, Side!Free
  <2>2. UNCHANGED shown \/ \E picked \in SUBSET Names : shown' = [shown EXCEPT !.selected = picked]
    BY <1>15 DEF Side!Ask, Side!Unselect
  <2> QED
    BY <1>2, <1>4, <1>15, <2>1, <2>2, SideDid DEF Side!Ask
<1> QED
  BY <1>5, <1>6, <1>7, <1>8, <1>9, <1>10, <1>11, <1>12, <1>13, <1>14, <1>15

\* Enter in an input: the pane it was opened for, and a rename's directory.
LEMMA SideCommits ==
  ASSUME Side!SideAssumption, SideInv, UNCHANGED together, Side!CommitRename \/ Side!CommitMakeFolder
  PROVE  SideInv' /\ sideDid' \in {"nothing", "there", "in a lookalike"}
<1>1. /\ SideShownType /\ SideMenuType /\ SideEditType /\ Side!Here \in Side!Place
      /\ sideEdit # Nothing /\ sideEdit' = Nothing /\ UNCHANGED <<host, active, text, sideMenu>>
  BY SideTypes DEF SideInv, SideShownType, Side!Here, Side!CommitRename, Side!CommitMakeFolder
<1>2. Side!Here.dir = Nothing => Side!Rows = {}
  BY DEF Side!Rows, Side!Listing, Side!Here
<1>3. Side!Here.dir # Nothing => Side!Rows = NamesIn[Side!Here.dir] /\ Side!Rows \in SUBSET Names
  BY <1>1 DEF Side!Rows, Side!Listing, Side!Here, Side!Place, Side!SideAssumption
<1>4. sideEdit.what # "path" /\ SideDidType'
  BY <1>2, <1>3, SideDid DEF Side!CommitRename, Side!CommitMakeFolder, Side!SideAssumption
<1>5. SideShownType' /\ Side!Here' = Side!Here
  BY <1>1 DEF Side!CommitRename, Side!CommitMakeFolder, Side!Unselect, SideShownType, Side!Here
<1>6. SideInv'
  <2>1. text' = Side!Here.dir
    BY <1>1, <1>4 DEF SideInv, Side!PathShowsCwd
  <2> QED
    BY <1>1, <1>4, <1>5, <2>1, HereKeeps DEF Covered, SideMenuType
<1>7. ASSUME Side!CommitRename PROVE sideDid' \in {"nothing", "there", "in a lookalike"}
  <2>1. sideEdit.what \in Side!Rows /\ sideEdit.what \in Names
    BY <1>2, <1>3, <1>7 DEF Side!CommitRename
  <2>2. sideEdit.from.on = Side!Here.on /\ Side!Listing(sideEdit.from.dir) = Side!Rows
    BY <1>1, <2>1 DEF SideInv, EditHere
  <2>3. Side!Listing(Side!Here.dir) = Side!Rows
    BY DEF Side!Rows, Side!Here
  <2> QED
    BY <1>7, <2>2, <2>3, SideDid DEF Side!CommitRename
<1>8. ASSUME Side!CommitMakeFolder PROVE sideDid' \in {"nothing", "there"}
  <2>1. Side!Here = [on |-> sideEdit.from.on, dir |-> Side!Here.dir]
    BY <1>1 DEF SideInv, EditHere, Side!Place
  <2> QED
    BY <1>8, <2>1, SideDid DEF Side!CommitMakeFolder
<1> QED
  BY <1>6, <1>7, <1>8

LEMMA SideStep ==
  ASSUME Side!SideAssumption, SideInv, [Side!Next /\ UNCHANGED together]_sideVars
  PROVE  SideInv' /\ (Side!EditsHitChosen => Side!EditsHitChosen')
<1>1. CASE UNCHANGED sideVars
  BY <1>1 DEF sideVars, SideInv, Side!TypeOK, EditHere, Covered, Side!PathShowsCwd, Side!EditsHitChosen,
              Side!Here, Side!Rows, Side!Listing, Side!Free
<1>2. CASE Side!Next /\ UNCHANGED together
  BY <1>2, SidePanesStep, FrameStep, SideBegins, SideActs, SideCommits DEF Side!Next, Side!EditsHitChosen
<1> QED
  BY <1>1, <1>2

-----------------------------------------------------------------------------
(* Theorems: of the files wherever several hands are on them.              *)

allVars == <<vars, tabVars, sideVars, place>>
FilesInv == IInv /\ TabInv /\ SideInv

\* One of the three moves, the others stay as they are.
LEMMA OneMoves ==
  ASSUME [MCNext]_allVars
  PROVE  [Next]_vars /\ [Tab!Next]_tabVars /\ [Side!Next /\ UNCHANGED together]_sideVars
  BY DEF MCNext, allVars, vars, tabVars, sideVars

LEMMA FilesInitially ==
  ASSUME FilesAssumption, MCInit
  PROVE  FilesInv /\ Tab!OpsHitChosen /\ Side!EditsHitChosen
<1>1. IInv /\ TabInv /\ SideInv /\ sideDid = "nothing"
  BY Initially, TabInit, SideInitially DEF FilesAssumption, MCInit
<1>2. did = "nothing"
  BY DEF MCInit, Tab!Init
<1> QED
  BY <1>1, <1>2 DEF FilesInv, Tab!OpsHitChosen, Side!EditsHitChosen

LEMMA FilesStep ==
  ASSUME FilesAssumption, FilesInv, [MCNext]_allVars
  PROVE  FilesInv'
  BY OneMoves, Inductive, TabStep, SideStep DEF FilesAssumption, FilesInv

\* Every variable stays in its type: of any number of handshakes and hosts, of both panels of
\* the SFTP tab on any hosts, of the panel beside any terminals.
THEOREM TypeCorrect == ASSUME FilesAssumption PROVE MCSpec => []MCTypeOK
<1>1. MCInit => FilesInv
  BY FilesInitially
<1>2. FilesInv /\ [MCNext]_allVars => FilesInv'
  BY FilesStep
<1>3. FilesInv => MCTypeOK
  BY DEF FilesInv, IInv, TabInv, SideInv, MCTypeOK
<1> QED
  BY <1>1, <1>2, <1>3, PTL DEF MCSpec, allVars

\* The file of known hosts changes by the user's decisions only: no forgotten key comes back
\* and no accepted one is lost, whatever runs at once, cannot be written or dies; a file that
\* cannot be read counts as an empty one.
THEOREM DecisionsOnly == ASSUME FilesAssumption PROVE MCSpec => ChangesAreDecisions
<1>1. MCInit => FilesInv
  BY FilesInitially
<1>2. FilesInv /\ [MCNext]_allVars => FilesInv'
  BY FilesStep
<1>3. FilesInv /\ [MCNext]_allVars =>
        [\/ file' = file
         \/ \E a \in Actors : /\ job[a].op # "none"
                             /\ file' = Changed(job[a], IF job[a].blind THEN {} ELSE file)]_vars
  BY OneMoves, OneDecision DEF FilesAssumption, FilesInv, Ground
<1> QED
  BY <1>1, <1>2, <1>3, PTL DEF MCSpec, allVars, ChangesAreDecisions

\* An operation on files is carried out where the user chose it, whatever lands, is rendered or
\* is reconnected in between, and whatever directories list: in the SFTP tab (but for a rename
\* input made for the disk) as in the panel that every terminal shares; a rename at least in a
\* directory of that host that lists the very same names.
THEOREM OperationsGoWhereChosen ==
  ASSUME FilesAssumption PROVE MCSpec => []OperationsHitChosen
<1>1. MCInit => FilesInv /\ OperationsHitChosen
  BY FilesInitially DEF OperationsHitChosen
<1>2. FilesInv /\ OperationsHitChosen /\ [MCNext]_allVars => FilesInv' /\ OperationsHitChosen'
  <2> SUFFICES ASSUME FilesInv, OperationsHitChosen, [MCNext]_allVars
               PROVE  FilesInv' /\ OperationsHitChosen'
    OBVIOUS
  <2>1. FilesInv'
    BY FilesStep
  <2>2. did' # "elsewhere" /\ Side!EditsHitChosen'
    BY OneMoves, TabStep, SideStep DEF FilesAssumption, FilesInv, OperationsHitChosen, Tab!OpsHitChosen
  <2>3. HostReached'
    BY <2>1 DEF FilesInv, TabInv
  <2> QED
    BY <2>1, <2>2, <2>3 DEF OperationsHitChosen, Tab!OpsHitChosen, HostReached
<1> QED
  BY <1>1, <1>2, PTL DEF MCSpec, allVars

\* The SFTP tab keeps no terminal connected that none of its panels shows, and a path input
\* nobody types into shows the directory that is listed under it.
THEOREM NothingShownIsStale == ASSUME FilesAssumption PROVE MCSpec => []ShownIsTrue
<1>1. MCInit => FilesInv
  BY FilesInitially
<1>2. FilesInv /\ [MCNext]_allVars => FilesInv'
  BY FilesStep
<1>3. FilesInv => ShownIsTrue
  BY TabShown DEF FilesAssumption, FilesInv, SideInv, ShownIsTrue
<1> QED
  BY <1>1, <1>2, <1>3, PTL DEF MCSpec, allVars
=============================================================================
