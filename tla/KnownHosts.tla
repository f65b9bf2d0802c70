------------------------------ MODULE KnownHosts ------------------------------
(***************************************************************************)
(* The file of accepted host keys and those who use it at once: the        *)
(* handshakes of all connections and jump hops, and the settings pane that *)
(* forgets one key or all of them.  Sources: crabport-ssh known_hosts.rs   *)
(* and handler.rs (check_server_key), crabport-ui                          *)
(* windows/settings/known_hosts.rs.                                        *)
(*                                                                         *)
(* A change reads the whole file, alters what it has read and replaces the *)
(* file by renaming a temporary one over it.  A lookup reads without the   *)
(* lock.  The program may die between any two steps.                       *)
(***************************************************************************)
EXTENDS Naturals

CONSTANTS Conns,      \* handshakes
          Hosts,      \* host:port pairs
          Prints,     \* keys a server may present (algorithm and fingerprint)
          Pane,       \* the settings pane, where the user forgets keys
          MaxLoads,   \* bound: handshakes begun
          MaxForgets, \* bound: removals confirmed
          MaxFaults,  \* bound: reads and writes that fail
          MaxCrashes  \* bound: ends of the program

Nobody == "nobody"
Actors == Conns \cup {Pane}

KnownHostsAssumption ==
  /\ Pane \notin Conns /\ Nobody \notin Actors
  /\ {MaxLoads, MaxForgets, MaxFaults, MaxCrashes} \subseteq Nat

VARIABLES file,    \* the entries of known_hosts
          tmp,     \* the entries of known_hosts.tmp
          lock,    \* who holds STORE_LOCK
          conn,    \* each handshake
          job,     \* the change each of them, or the pane, is making
          dialog,  \* what the pane's alert would forget
          count    \* how often what is bounded has happened

vars == <<file, tmp, lock, conn, job, dialog, count>>

Entries == [host : Hosts, print : Prints]
NoEntry == [host |-> "none", print |-> "none"]
Idle == [at |-> "idle", entry |-> NoEntry, store |-> FALSE]

\* A change: what is added or removed, what has been read so far, and whether it
\* was read in vain.
Job(op, entries) == [op |-> op, entries |-> entries, at |-> "begin", seen |-> {}, blind |-> FALSE]
NoJob == Job("none", {})
Add(e) == Job("add", {e})
Remove(e) == Job("remove", {e})
Clear == Job("clear", {})

Init ==
  /\ file \in {{}} \cup {{e} : e \in Entries} /\ tmp = {}
  /\ lock = Nobody
  /\ conn = [c \in Conns |-> Idle] /\ job = [a \in Actors |-> NoJob] /\ dialog = NoJob
  /\ count = [loads |-> 0, forgets |-> 0, faults |-> 0, crashes |-> 0]

\* A read or a write fails.
Fault == count.faults < MaxFaults /\ count' = [count EXCEPT !.faults = @ + 1]

-----------------------------------------------------------------------------
(* A change of the file.                                                   *)

\* What a change makes of the entries it has read.
Changed(j, entries) ==
  CASE j.op = "add"    -> entries \cup j.entries
    [] j.op = "remove" -> entries \ j.entries
    [] OTHER           -> {}

\* Mutant of Free: no lock is taken.
AlwaysFree == TRUE

\* STORE_LOCK can be had.
Free == lock = Nobody

TakeLock(a) ==
  /\ job[a].op # "none" /\ job[a].at = "begin" /\ Free
  /\ lock' = a
  /\ job' = [job EXCEPT ![a].at = "read"]
  /\ UNCHANGED <<file, tmp, conn, dialog, count>>

\* The change is over, whatever came of it; a handshake goes on.
Over(a) ==
  /\ job' = [job EXCEPT ![a] = NoJob]
  /\ lock' = Nobody
  /\ conn' = IF a \in Conns THEN [conn EXCEPT ![a].at = "up"] ELSE conn

\* read_all: a file that cannot be read counts as an empty one; clear reads nothing.  To
\* remove what is not there is no change.
Read(a) ==
  /\ job[a].op # "none" /\ job[a].at = "read"
  /\ \E seen \in {file, {}} :
       /\ IF seen = file THEN UNCHANGED count ELSE Fault
       /\ IF job[a].op = "remove" /\ job[a].entries \cap seen = {}
          THEN Over(a)
          ELSE /\ job' = [job EXCEPT ![a].at = "write", ![a].seen = seen, ![a].blind = seen # file]
               /\ UNCHANGED <<lock, conn>>
  /\ UNCHANGED <<file, tmp, dialog>>

\* write_all
WriteTmp(a) ==
  /\ job[a].op # "none" /\ job[a].at = "write"
  /\ \/ /\ tmp' = Changed(job[a], job[a].seen)
        /\ job' = [job EXCEPT ![a].at = "rename"]
        /\ UNCHANGED <<lock, conn, count>>
     \/ /\ Fault
        /\ tmp' = {}
        /\ Over(a)
  /\ UNCHANGED <<file, dialog>>

Rename(a) ==
  /\ job[a].op # "none" /\ job[a].at = "rename"
  /\ \/ file' = tmp /\ UNCHANGED count
     \/ file' = file /\ Fault
  /\ Over(a)
  /\ UNCHANGED <<tmp, dialog>>

-----------------------------------------------------------------------------
(* Handshakes.                                                             *)

\* A server presents its key to a handler whose store could be opened, or could not.
Present(c, e) ==
  /\ conn[c].at = "idle" /\ count.loads < MaxLoads
  /\ \E opened \in BOOLEAN :
       /\ IF opened THEN count' = [count EXCEPT !.loads = @ + 1]
          ELSE /\ count.faults < MaxFaults
               /\ count' = [count EXCEPT !.loads = @ + 1, !.faults = @ + 1]
       /\ conn' = [conn EXCEPT ![c] = [at |-> IF opened THEN "lookup" ELSE "ask",
                                       entry |-> e, store |-> opened]]
  /\ UNCHANGED <<file, tmp, lock, job, dialog>>

\* lookup, without the lock: a host that is stored with other keys only is refused.
Verdict(entries, e) ==
  CASE e \in entries -> "up"
    [] e \notin entries /\ \E f \in entries : f.host = e.host -> "refused"
    [] OTHER -> "ask"

Lookup(c) ==
  /\ conn[c].at = "lookup"
  /\ \E seen \in {file, {}} :
       /\ IF seen = file THEN UNCHANGED count ELSE Fault
       /\ conn' = [conn EXCEPT ![c].at = Verdict(seen, conn[c].entry)]
  /\ UNCHANGED <<file, tmp, lock, job, dialog>>

\* The user's answer; without a verifier there is none but no.
Answer(c, accepted) ==
  /\ conn[c].at = "ask"
  /\ conn' = [conn EXCEPT ![c].at = CASE ~accepted -> "refused"
                                      [] accepted /\ conn[c].store -> "adding"
                                      [] OTHER -> "up"]
  /\ job' = IF accepted /\ conn[c].store
            THEN [job EXCEPT ![c] = Add(conn[c].entry)] ELSE job
  /\ UNCHANGED <<file, tmp, lock, dialog, count>>

Disconnect(c) ==
  /\ conn[c].at \in {"up", "refused"}
  /\ conn' = [conn EXCEPT ![c] = Idle]
  /\ UNCHANGED <<file, tmp, lock, job, dialog, count>>

-----------------------------------------------------------------------------
(* The settings pane.                                                      *)

\* A click on a row, or on Forget all, as they were last drawn.
AskToForget ==
  /\ job[Pane].op = "none" /\ dialog.op = "none" /\ file # {}
  /\ \E j \in {Remove(e) : e \in file} \cup {Clear} : dialog' = j
  /\ UNCHANGED <<file, tmp, lock, conn, job, count>>

Dismiss ==
  /\ dialog.op # "none" /\ dialog' = NoJob
  /\ UNCHANGED <<file, tmp, lock, conn, job, count>>

Confirm ==
  /\ dialog.op # "none" /\ count.forgets < MaxForgets /\ count' = [count EXCEPT !.forgets = @ + 1]
  /\ dialog' = NoJob
  /\ job' = [job EXCEPT ![Pane] = dialog]
  /\ UNCHANGED <<file, tmp, lock, conn>>

\* The program dies; it is started again.
Crash ==
  /\ count.crashes < MaxCrashes /\ count' = [count EXCEPT !.crashes = @ + 1]
  /\ lock' = Nobody /\ dialog' = NoJob
  /\ conn' = [c \in Conns |-> Idle] /\ job' = [a \in Actors |-> NoJob]
  /\ UNCHANGED <<file, tmp>>

Next ==
  \/ AskToForget \/ Dismiss \/ Confirm \/ Crash
  \/ \E c \in Conns :
        \/ \E e \in Entries : Present(c, e)
        \/ \E accepted \in BOOLEAN : Answer(c, accepted)
        \/ Lookup(c) \/ Disconnect(c)
  \/ \E a \in Actors : TakeLock(a) \/ Read(a) \/ WriteTmp(a) \/ Rename(a)

Spec == Init /\ [][Next]_vars

-----------------------------------------------------------------------------
\* Every variable stays in its type.
Jobs ==
  [op : {"none", "add", "remove", "clear"}, entries : SUBSET Entries,
   at : {"begin", "read", "write", "rename"}, seen : SUBSET Entries, blind : BOOLEAN]
TypeOK ==
  /\ file \subseteq Entries /\ tmp \subseteq Entries
  /\ lock \in Actors \cup {Nobody}
  /\ conn \in [Conns -> [at : {"idle", "lookup", "ask", "adding", "up", "refused"},
                        entry : Entries \cup {NoEntry}, store : BOOLEAN]]
  /\ \A c \in Conns : conn[c].at # "idle" => conn[c].entry \in Entries
  /\ job \in [Actors -> Jobs] /\ dialog \in Jobs
  /\ count \in [loads : 0..MaxLoads, forgets : 0..MaxForgets, faults : 0..MaxFaults,
               crashes : 0..MaxCrashes]

\* The file only ever changes by one decision of the user carried out on all that it holds at
\* that moment: no key that was forgotten comes back because another handshake had read the
\* file before, none that was accepted is lost, and a write that fails or a program that dies
\* half-way leaves the file as it was (known_hosts.rs: STORE_LOCK's comment, write_all).  Only
\* a change that could not read the file is carried out on an empty one (read_all).
ChangesAreDecisions ==
  [][\/ file' = file
     \/ \E a \in Actors : /\ job[a].op # "none"
                         /\ file' = Changed(job[a], IF job[a].blind THEN {} ELSE file)]_vars
=============================================================================
