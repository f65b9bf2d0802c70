----------------------------- MODULE AgentWaits -----------------------------
(***************************************************************************)
(* The agent's tools that wait for something of the terminal's session     *)
(* (src/crabport-agent/src/agent.rs): the visible run, which samples the   *)
(* screen until it is quiet; the SFTP listing, which waits for another     *)
(* listing to be installed; the SFTP transfers, which wait for a finish    *)
(* event of their kind; and the calls a worker answers (captured commands, *)
(* fetch, local files).  Every loop polls on a timer and has a deadline,   *)
(* here a number of polls.  The user navigates, transfers and prints too.  *)
(* A poll that reaches the deadline drains in the same step; the session   *)
(* counts its revisions, as the application's one does.                    *)
(***************************************************************************)
EXTENDS Naturals, FiniteSets

CONSTANTS
    Calls,     \* tool calls, one shot each
    UserJobs,  \* transfers and navigations of the user's own
    Quiet,     \* OUTPUT_QUIET, in polls
    Deadline,  \* OUTPUT_TIMEOUT and the like, in polls
    NoJob

WaitsAssumption ==
    Quiet \in Nat \ {0} /\ Deadline \in Nat \ {0} /\ Calls \cap UserJobs = {}
    /\ NoJob \notin Calls \cup UserJobs

VARIABLES
    does,    \* what each call runs
    at,      \* "idle", "typed" / "begun", "polling", "done"
    polls,   \* polls made
    quiet,   \* polls in a row without a write to the grid
    dirty,   \* the grid was written since the last look at its revision
    printed, \* the screen differs from the dump before the command was typed
    seen,    \* the last successful dump differs from it
    stopped, \* calls whose card's stop button was pressed
    answer,  \* how a call ended, or whose result it took for its own
    job,     \* transfers and navigations: "none", "busy", "over"
    events,  \* finish events in a call's subscription, unread
    arcs     \* listings installed since a call read the one before

runVars == <<quiet, dirty, printed, seen>>
jobVars == <<job, events, arcs>>
vars == <<does, at, polls, runVars, stopped, answer, jobVars>>

Jobs == Calls \cup UserJobs
Tools == {"run", "list", "down", "up", "worker"}

TypeOK ==
    /\ does \in [Jobs -> Tools] /\ at \in [Calls -> {"idle", "typed", "begun", "polling", "done"}]
    /\ polls \in [Calls -> 0..Deadline] /\ quiet \in [Calls -> 0..Quiet]
    /\ {dirty, printed, seen} \subseteq [Calls -> BOOLEAN] /\ stopped \subseteq Calls
    /\ answer \in [Calls -> Jobs \cup {NoJob, "quiet", "timeout", "cancelled"}]
    /\ job \in [Jobs -> {"none", "busy", "over"}]
    /\ events \in [Calls -> SUBSET Jobs]
    /\ arcs \in [Calls -> SUBSET Jobs]

Init ==
    /\ does \in [Jobs -> Tools] /\ (\A u \in UserJobs : does[u] \in {"list", "down", "up"})
    /\ at = [c \in Calls |-> "idle"] /\ polls = [c \in Calls |-> 0]
    /\ quiet = [c \in Calls |-> 0]
    /\ dirty = [c \in Calls |-> FALSE] /\ printed = dirty /\ seen = dirty
    /\ stopped = {} /\ answer = [c \in Calls |-> NoJob]
    /\ job = [j \in Jobs |-> "none"]
    /\ events = [c \in Calls |-> {}] /\ arcs = events

-----------------------------------------------------------------------------

\* The visible run dumps the screen, then types; its task looks at the
\* grid's revision only when it first runs.
StartRun(c) ==
    /\ at[c] = "idle" /\ does[c] = "run" /\ at' = [at EXCEPT ![c] = "typed"]
    /\ UNCHANGED <<does, polls, runVars, stopped, answer, jobVars>>

Baseline(c) ==
    /\ at[c] = "typed" /\ at' = [at EXCEPT ![c] = "polling"]
    /\ UNCHANGED <<does, polls, runVars, stopped, answer, jobVars>>

ShellPrints ==
    /\ \E c \in Calls : at[c] \in {"typed", "polling"} /\ does[c] = "run"
    /\ printed' = [c \in Calls |-> printed[c] \/ (does[c] = "run" /\ at[c] \in {"typed", "polling"})]
    /\ dirty' = [c \in Calls |-> dirty[c] \/ (does[c] = "run" /\ at[c] = "polling")]
    /\ UNCHANGED <<does, at, polls, quiet, seen, stopped, answer, jobVars>>

End(c, how) == at' = [at EXCEPT ![c] = "done"] /\ answer' = [answer EXCEPT ![c] = how]
Later(c) == polls' = [polls EXCEPT ![c] = @ + 1]
Expired(c) == polls[c] + 1 >= Deadline
NeverExpires(c) == FALSE     \* slip: only quiet ends a run
RunExpired(c) == Expired(c)

\* A write counts whether or not the dump it calls for gets the lock.
PollRun(c) ==
    /\ at[c] = "polling" /\ does[c] = "run"
    /\ IF c \in stopped
       THEN End(c, "cancelled") /\ UNCHANGED <<runVars, polls>>
       ELSE LET calm == IF dirty[c] THEN 0 ELSE quiet[c] + 1 IN
            /\ dirty' = [dirty EXCEPT ![c] = FALSE] /\ quiet' = [quiet EXCEPT ![c] = calm]
            /\ \E dumped \in BOOLEAN :
                  seen' = [seen EXCEPT ![c] = IF dirty[c] /\ dumped THEN printed[c] ELSE @]
            /\ UNCHANGED printed
            /\ IF calm >= Quiet THEN End(c, "quiet") /\ UNCHANGED polls
               ELSE IF RunExpired(c) THEN End(c, "timeout") /\ UNCHANGED polls
               ELSE polls' = [polls EXCEPT ![c] = IF @ < Deadline THEN @ + 1 ELSE @]
                    /\ UNCHANGED <<at, answer>>
    /\ UNCHANGED <<does, stopped, jobVars>>

\* Only a visible run's loop looks at its token; a worker answers anyway.
StopCard(c) ==
    /\ at[c] \in {"typed", "polling"} /\ does[c] = "run" /\ c \notin stopped
    /\ stopped' = stopped \cup {c}
    /\ UNCHANGED <<does, at, polls, runVars, answer, jobVars>>

-----------------------------------------------------------------------------
(* Listings and transfers *)

\* A listing remembers the entries it finds and a transfer subscribes, and
\* only then is it started; the task that waits begins later.
StartJob(c) ==
    /\ at[c] = "idle" /\ does[c] \in {"list", "down", "up"}
    /\ at' = [at EXCEPT ![c] = "begun"]
    /\ job' = [job EXCEPT ![c] = "busy"]
    /\ UNCHANGED <<does, polls, runVars, stopped, answer, events, arcs>>

BeginWaiting(c) ==
    /\ at[c] = "begun" /\ does[c] # "worker" /\ at' = [at EXCEPT ![c] = "polling"]
    /\ UNCHANGED <<does, polls, runVars, stopped, answer, jobVars>>

WaitsForJob(c) == does[c] \in {"list", "down", "up"}
Unheard(c) == WaitsForJob(c) /\ at[c] = "polling"   \* slip: the task that waits subscribes
Listening(c) == WaitsForJob(c) /\ at[c] \in {"begun", "polling"}

UserStarts(u) ==
    /\ job[u] = "none" /\ job' = [job EXCEPT ![u] = "busy"]
    /\ UNCHANGED <<does, at, polls, runVars, stopped, answer, events, arcs>>

\* A navigation installs its listing, unless it failed silently; a transfer
\* announces its end to whoever has subscribed.
JobEnds(j) ==
    /\ job[j] = "busy" /\ job' = [job EXCEPT ![j] = "over"]
    /\ IF does[j] = "list"
       THEN /\ \/ arcs' = [c \in Calls |-> IF Listening(c) THEN arcs[c] \cup {j} ELSE arcs[c]]
               \/ UNCHANGED arcs
            /\ UNCHANGED events
       ELSE /\ events' = [c \in Calls |-> IF Listening(c) THEN events[c] \cup {j} ELSE events[c]]
            /\ UNCHANGED arcs
    /\ UNCHANGED <<does, at, polls, runVars, stopped, answer>>

Fresh(c) == IF does[c] = "list" THEN arcs[c] ELSE {j \in events[c] : does[j] = does[c]}

\* Whichever comes first of what it is waiting for is taken for its own.
PollJob(c) ==
    /\ at[c] = "polling" /\ does[c] \in {"list", "down", "up"}
    /\ \/ \E j \in Fresh(c) : End(c, j) /\ UNCHANGED polls
       \/ Fresh(c) = {} /\ Expired(c) /\ End(c, "timeout") /\ UNCHANGED polls
       \/ Fresh(c) = {} /\ ~Expired(c) /\ Later(c) /\ UNCHANGED <<at, answer>>
    /\ UNCHANGED <<does, runVars, stopped, jobVars>>

\* exec_capture, fetch, read_file: the worker answers exactly once.
StartWorker(c) ==
    /\ at[c] = "idle" /\ does[c] = "worker" /\ at' = [at EXCEPT ![c] = "begun"]
    /\ UNCHANGED <<does, polls, runVars, stopped, answer, jobVars>>

WorkerAnswers(c) ==
    /\ at[c] = "begun" /\ does[c] = "worker" /\ End(c, c)
    /\ UNCHANGED <<does, polls, runVars, stopped, jobVars>>

-----------------------------------------------------------------------------

Task(c) == Baseline(c) \/ PollRun(c) \/ BeginWaiting(c) \/ PollJob(c) \/ WorkerAnswers(c)

Next ==
    \/ \E c \in Calls : StartRun(c) \/ StartJob(c) \/ StartWorker(c) \/ StopCard(c) \/ Task(c)
    \/ \E u \in UserJobs : UserStarts(u)
    \/ \E j \in Jobs : JobEnds(j)
    \/ ShellPrints

\* Timers fire and workers answer; transfers and navigations need not end.
Fairness == \A c \in Calls : WF_vars(Task(c))

Spec == Init /\ [][Next]_vars /\ Fairness

-----------------------------------------------------------------------------
(* Properties *)

\* Every call that began is answered, however much is printed meanwhile and
\* whether or not what it waits for ever ends.
WaitsEnd == \A c \in Calls : at[c] # "idle" ~> at[c] = "done"

\* A transfer tool that reports a timeout was not told, before that, of the
\* end of its own transfer: the subscription precedes the start.
TimeoutIsTrue ==
    [][\A c \in Calls : does[c] \in {"down", "up"} /\ job[c] = "over" /\ at[c] = "polling" =>
          answer'[c] # "timeout"]_vars

\* "`SftpTransferFinished` event is the only signal a transfer finished": the
\* event names a kind, not a transfer.
OwnResult == \A c \in Calls : answer[c] \in Jobs => answer[c] = c

\* A run that ends in quiet and reports no output: nothing was printed.
NoOutputIsTrue == \A c \in Calls : answer[c] = "quiet" /\ ~seen[c] => ~printed[c]
=============================================================================
