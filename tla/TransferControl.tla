-------------------------- MODULE TransferControl --------------------------
(***************************************************************************)
(* TransferControl (src/crabport-sftp/src/control.rs) and the streaming    *)
(* loop that polls it before every chunk (download_file and its siblings,  *)
(* src/crabport-sftp/src/transfer.rs): an atomic state written by the UI   *)
(* thread, a tokio Notify with its one stored permit, and the transfer     *)
(* task on another thread that loads the state, then waits.                *)
(***************************************************************************)
EXTENDS Naturals

CONSTANT Chunks     \* chunks in the file: reads that return data before EOF

ASSUME ChunksAssumption == Chunks \in Nat

VARIABLES
    state,      \* AtomicU8: RUNNING, PAUSED or CANCELLED
    permit,     \* the permit notify_one stores when nobody waits
    ui,         \* the UI thread is between the atomic and notify_one
    reported,   \* what toggle_pause returned last
    pc,         \* where the transfer task is
    moved,      \* chunks moved
    result,     \* Result the transfer task will report
    success, finished   \* what finish stored

vars == <<state, permit, ui, reported, pc, moved, result, success, finished>>

RUNNING == "running"
PAUSED == "paused"
CANCELLED == "cancelled"

TypeOK ==
    /\ state \in {RUNNING, PAUSED, CANCELLED}
    /\ permit \in BOOLEAN /\ ui \in {"idle", "notify"}
    /\ reported \in BOOLEAN
    /\ pc \in {"check", "await", "parked", "chunk", "tail", "report", "flag",
               "done", "aborted"}
    /\ moved \in 0..Chunks
    /\ result \in {"none", "complete", "cancelled", "error"}
    /\ success \in BOOLEAN /\ finished \in BOOLEAN

Init ==
    /\ state = RUNNING /\ permit = FALSE /\ ui = "idle" /\ reported = FALSE
    /\ pc = "check" /\ moved = 0 /\ result = "none"
    /\ success = FALSE /\ finished = FALSE

loop == <<pc, moved, result, success, finished>>

-----------------------------------------------------------------------------
(* The UI thread *)

\* compare_exchange(RUNNING, PAUSED)
DoPause ==
    /\ state' = IF state = RUNNING THEN PAUSED ELSE state
    /\ UNCHANGED ui

\* Slip: a resume that wakes nobody.
ResumeSilently ==
    /\ state' = IF state = PAUSED THEN RUNNING ELSE state
    /\ UNCHANGED ui

\* compare_exchange(PAUSED, RUNNING); notify_one only if it succeeded
DoResume ==
    /\ state' = IF state = PAUSED THEN RUNNING ELSE state
    /\ ui' = IF state = PAUSED THEN "notify" ELSE ui

Pause  == ui = "idle" /\ DoPause /\ UNCHANGED <<permit, reported, loop>>
Resume == ui = "idle" /\ DoResume /\ UNCHANGED <<permit, reported, loop>>

Cancel ==
    /\ ui = "idle"
    /\ state' = CANCELLED /\ ui' = "notify"
    /\ UNCHANGED <<permit, reported, loop>>

TogglePause ==
    /\ ui = "idle"
    /\ IF state = PAUSED THEN DoResume ELSE DoPause
    /\ reported' = (state # PAUSED)
    /\ UNCHANGED <<permit, loop>>

\* notify_one: wake the waiter, or leave a permit for the next one.
NotifyOne ==
    /\ ui = "notify" /\ ui' = "idle"
    /\ IF pc = "parked"
         THEN pc' = "check" /\ UNCHANGED permit
         ELSE permit' = TRUE /\ UNCHANGED pc
    /\ UNCHANGED <<state, reported, moved, result, success, finished>>

-----------------------------------------------------------------------------
(* The transfer task *)

\* Slip: only a cancel is looked at.
CheckCancelOnly ==
    /\ pc = "check"
    /\ \/ state = CANCELLED /\ pc' = "report" /\ result' = "cancelled"
       \/ state # CANCELLED /\ pc' = "chunk" /\ UNCHANGED result
    /\ UNCHANGED <<state, permit, ui, reported, moved, success, finished>>

\* checkpoint: load the state and act on it.
Checkpoint ==
    /\ pc = "check"
    /\ \/ state = CANCELLED /\ pc' = "report" /\ result' = "cancelled"
       \/ state = PAUSED /\ pc' = "await" /\ UNCHANGED result
       \/ state = RUNNING /\ pc' = "chunk" /\ UNCHANGED result
    /\ UNCHANGED <<state, permit, ui, reported, moved, success, finished>>

\* notified().await: take the stored permit, or park.
Await ==
    /\ pc = "await"
    /\ pc' = IF permit THEN "check" ELSE "parked"
    /\ permit' = FALSE
    /\ UNCHANGED <<state, ui, reported, moved, result, success, finished>>

\* Slip: no end of file.
MoveWithoutEof ==
    /\ pc = "chunk"
    /\ moved' = moved + 1 /\ pc' = "check"
    /\ UNCHANGED <<state, permit, ui, reported, result, success, finished>>

\* One read and one write; then the next checkpoint.
MoveChunk ==
    /\ pc = "chunk" /\ moved < Chunks
    /\ moved' = moved + 1 /\ pc' = "check"
    /\ UNCHANGED <<state, permit, ui, reported, result, success, finished>>

StreamEnds ==
    /\ pc = "chunk"
    /\ \/ moved = Chunks /\ pc' = "tail" /\ UNCHANGED result
       \/ pc' = "report" /\ result' = "error"
    /\ UNCHANGED <<state, permit, ui, reported, moved, success, finished>>

\* Flush, decompression, cleanup: no checkpoint any more.
AfterStream ==
    /\ pc = "tail" /\ pc' = "report"
    /\ result' \in {"complete", "error"}
    /\ UNCHANGED <<state, permit, ui, reported, moved, success, finished>>

\* Slip: the flag before the outcome.
FlagFirst ==
    /\ pc = "report" /\ pc' = "flag"
    /\ finished' = TRUE
    /\ UNCHANGED <<state, permit, ui, reported, moved, result, success>>

\* finish: the outcome first, the finished flag after it.
FinishOutcome ==
    /\ pc = "report" /\ pc' = "flag"
    /\ success' = (result = "complete")
    /\ UNCHANGED <<state, permit, ui, reported, moved, result, finished>>

FinishFlag ==
    /\ pc = "flag" /\ pc' = "done"
    /\ finished' = TRUE
    /\ UNCHANGED <<state, permit, ui, reported, moved, result, success>>

\* Closing the terminal aborts the task at one of its awaits.
Abort ==
    /\ pc \in {"parked", "chunk", "tail"} /\ pc' = "aborted"
    /\ UNCHANGED <<state, permit, ui, reported, moved, result, success, finished>>

Step == Checkpoint \/ Await \/ MoveChunk \/ StreamEnds \/ AfterStream
        \/ FinishOutcome \/ FinishFlag
User == Pause \/ Resume \/ Cancel \/ TogglePause

Next == User \/ NotifyOne \/ Step \/ Abort

Spec == Init /\ [][Next]_vars

\* The UI thread finishes the call it is in; the runtime polls a ready task.
\* Nobody is obliged to click.
Fairness == WF_vars(NotifyOne) /\ WF_vars(Step)

FairSpec == Spec /\ Fairness

-----------------------------------------------------------------------------
(* Properties *)

\* No wakeup is lost between loading PAUSED and waiting: a task waits on the
\* Notify of a transfer that is not paused only while its wakeup is on its way
\* (the comment on the notify field, control.rs).
NoLostWakeup ==
    /\ pc = "parked" => ~permit /\ (state # PAUSED => ui = "notify")
    /\ pc = "await" /\ state # PAUSED => permit \/ ui = "notify"

\* Whoever sees the finished flag sees the outcome that belongs to it.
OutcomeBeforeFlag ==
    finished => /\ success = (result = "complete")
                /\ pc = "done"
                /\ success => moved = Chunks

\* pause, resume and cancel take effect within a chunk: the control and the
\* loop implement the promise of InterruptibleTransfer.
Promise == INSTANCE InterruptibleTransfer WITH
    mode    <- state,
    granted <- pc \in {"chunk", "tail"},
    moved   <- moved,
    outcome <- IF pc = "aborted" THEN "aborted" ELSE result

ImplementsPromise == Promise!FairSpec

\* "Toggle pause/resume and report the resulting paused state."
ToggleReportsState == [][TogglePause => reported' = (state' = PAUSED)]_vars

\* pause is a "no-op when already paused, cancelled, or finished".
PauseAfterFinishIsNoop == [][finished => (state' = PAUSED => state = PAUSED)]_vars

\* "A cancelled job reports success == false."
CancelledReportsFailure == finished /\ state = CANCELLED => ~success
=============================================================================
