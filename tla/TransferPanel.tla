--------------------------- MODULE TransferPanel ---------------------------
(***************************************************************************)
(* TransferCenter (src/crabport-ui/src/views/sftp/transfer_center.rs): the *)
(* panel that lists the transfers in flight and files them as history. A   *)
(* row is retired by the first render after its control has the finished   *)
(* flag; a render comes when something notifies the panel. Transfers end   *)
(* in tasks of their own, or die with the connection they run on.          *)
(***************************************************************************)
EXTENDS FiniteSets, Naturals, Sequences, SequencesExt

CONSTANTS Transfers, Hosts, On,     \* On: the connection a transfer runs on
          MaxJobs, MaxRecords,      \* MAX_JOBS, MAX_RECORDS
          MaxShows                  \* bound: how often the panel is shown or hidden

Other == "other"    \* a rename, an edit, a deletion, a new folder

PanelAssumption ==
    /\ Other \notin Transfers /\ On \in [Transfers -> Hosts]
    /\ MaxJobs \in Nat /\ MaxRecords \in Nat /\ MaxShows \in Nat

VARIABLES
    jobs, records,  \* newest first
    work,           \* the backend's task of each transfer
    succeeded,      \* the outcome finish stored
    up,             \* connections that are still open
    notified,       \* a render of the panel is due
    open, anchored, generation,
    timers          \* dismiss timers on their way, by generation

taskVars == <<work, succeeded, up>>
showVars == <<open, anchored, generation, timers>>
vars == <<jobs, records, taskVars, notified, showVars>>

TypeOK ==
    /\ jobs \in Seq(Transfers) /\ Len(jobs) <= MaxJobs
    /\ records \in Seq([of : Transfers \cup {Other}, success : BOOLEAN]) /\ Len(records) <= MaxRecords
    /\ work \in [Transfers -> {"new", "running", "finished", "told", "aborted"}]
    /\ succeeded \subseteq Transfers /\ up \subseteq Hosts
    /\ notified \in BOOLEAN /\ open \in BOOLEAN /\ anchored \in BOOLEAN
    /\ generation \in Nat /\ timers \subseteq Nat

Init ==
    /\ jobs = <<>> /\ records = <<>>
    /\ work = [t \in Transfers |-> "new"] /\ succeeded = {} /\ up = Hosts
    /\ notified = FALSE /\ open = FALSE /\ anchored = FALSE
    /\ generation = 0 /\ timers = {}

-----------------------------------------------------------------------------
(* Transfers *)

\* start_job, before the transfer itself; past the cap it runs unlisted.
StartJob(t) ==
    /\ work[t] = "new" /\ On[t] \in up
    /\ jobs' = IF Len(jobs) < MaxJobs THEN <<t>> \o jobs ELSE jobs
    /\ work' = [work EXCEPT ![t] = "running"]
    /\ notified' = TRUE
    /\ UNCHANGED <<records, succeeded, up, showVars>>

\* finish: the outcome and the flag. A cancelled transfer may still succeed.
Finish(t) ==
    /\ work[t] = "running" /\ work' = [work EXCEPT ![t] = "finished"]
    /\ succeeded' \in {succeeded, succeeded \cup {t}}
    /\ UNCHANGED <<jobs, records, up, notified, showVars>>

\* Slip: the end of a transfer does not repaint the panel.
NoRepaint == UNCHANGED notified
Repaint == notified' = TRUE

\* SftpTransferFinished follows, and the tab repaints the panel.
Announce(t) ==
    /\ work[t] = "finished" /\ On[t] \in up
    /\ work' = [work EXCEPT ![t] = "told"]
    /\ Repaint
    /\ UNCHANGED <<jobs, records, succeeded, up, showVars>>

Newest(all) == IF Len(all) > MaxRecords THEN SubSeq(all, 1, MaxRecords) ELSE all

\* push: what does not run as a job is filed when it ends, however it did.
Push ==
    /\ up # {}
    /\ records' = Newest(<<[of |-> Other, success |-> TRUE]>> \o records)
    /\ notified' = TRUE
    /\ UNCHANGED <<jobs, taskVars, showVars>>

\* Closing a connection aborts its tasks where they are.
CloseHost(h) ==
    /\ h \in up /\ up' = up \ {h}
    /\ work' = [t \in Transfers |-> IF On[t] = h /\ work[t] = "running" THEN "aborted" ELSE work[t]]
    /\ UNCHANGED <<jobs, records, succeeded, notified, showVars>>

\* A row's pause and cancel act on its control (TransferControl) and repaint.
Button(t) ==
    /\ open /\ t \in Range(jobs) /\ notified' = TRUE
    /\ UNCHANGED <<jobs, records, taskVars, showVars>>

-----------------------------------------------------------------------------
(* Rendering *)

HasEnded(t) == work[t] \in {"finished", "told"}
Record(t) == [of |-> t, success |-> t \in succeeded]

\* One turn of the loop: what has ended becomes the newest record, the rest is kept.
\* Slip: a row that has been filed stays.
KeepToo(rows, t) ==
    IF HasEnded(t) THEN [jobs |-> Append(rows.jobs, t), records |-> <<Record(t)>> \o rows.records]
    ELSE [rows EXCEPT !.jobs = Append(@, t)]
KeepOrFile(rows, t) ==
    IF HasEnded(t) THEN [rows EXCEPT !.records = <<Record(t)>> \o @]
    ELSE [rows EXCEPT !.jobs = Append(@, t)]

\* retire_finished: the jobs in order.
RetireFinished ==
    LET after[n \in 0..Len(jobs)] ==
          IF n = 0 THEN [jobs |-> <<>>, records |-> records]
          ELSE KeepOrFile(after[n - 1], jobs[n])
        rows == after[Len(jobs)]
    IN  jobs' = rows.jobs /\ records' = Newest(rows.records)

Render == notified /\ RetireFinished /\ notified' = FALSE /\ UNCHANGED <<taskVars, showVars>>

\* Something else repaints: a hover, the window.
Redraw == ~notified /\ RetireFinished /\ UNCHANGED <<taskVars, notified, showVars>>

-----------------------------------------------------------------------------
(* Showing and hiding *)

Show ==
    /\ generation < MaxShows /\ ~open
    /\ generation' = generation + 1 /\ open' = TRUE /\ anchored' = TRUE /\ notified' = TRUE
    /\ UNCHANGED <<jobs, records, taskVars, timers>>

Hide ==
    /\ generation < MaxShows /\ open
    /\ generation' = generation + 1 /\ open' = FALSE /\ notified' = TRUE
    /\ timers' = timers \cup {generation'}
    /\ UNCHANGED <<jobs, records, taskVars, anchored>>

\* Slip: the timer does not look who it was for.
AnyGeneration(g) == TRUE
SameGeneration(g) == g = generation

DismissTimer(g) ==
    /\ g \in timers /\ timers' = timers \ {g}
    /\ IF SameGeneration(g) THEN anchored' = FALSE /\ notified' = TRUE
       ELSE UNCHANGED <<anchored, notified>>
    /\ UNCHANGED <<jobs, records, taskVars, open, generation>>

-----------------------------------------------------------------------------
Next ==
    \/ \E t \in Transfers : StartJob(t) \/ Finish(t) \/ Announce(t) \/ Button(t)
    \/ \E h \in Hosts : CloseHost(h)
    \/ Push \/ Render \/ Redraw \/ Show \/ Hide
    \/ \E g \in timers : DismissTimer(g)

Spec == Init /\ [][Next]_vars

\* The window renders what is notified, a task gets to its end and says so;
\* nobody is obliged to hover.
FairSpec ==
    /\ Spec /\ WF_vars(Render)
    /\ \A t \in Transfers : WF_vars(Announce(t))

-----------------------------------------------------------------------------
(* Properties *)

\* A transfer has one row at a time, the one of a job or that of a record, and
\* the record tells its outcome. A panel that is open has a place to be.
JobsAccounted ==
    /\ \A t \in Transfers :
         Cardinality({i \in 1..Len(jobs) : jobs[i] = t})
         + Cardinality({i \in 1..Len(records) : records[i].of = t}) <= 1
    /\ \A i \in 1..Len(records) :
         records[i].of # Other =>
             HasEnded(records[i].of) /\ records[i].success = (records[i].of \in succeeded)
    /\ open => anchored

\* A transfer that has said it is over leaves the list by itself.
JobsRetire == \A t \in Transfers : work[t] = "told" ~> t \notin Range(jobs)

\* So does every other one, "even if it missed the broadcast event".
EveryJobRetires ==
    \A t \in Transfers : t \in Range(jobs) /\ work[t] # "running" ~> t \notin Range(jobs)
=============================================================================
