----------------------- MODULE InterruptibleTransfer -----------------------
(***************************************************************************)
(* What a controlled SFTP transfer promises its user, without atomics,     *)
(* Notify or checkpoints (src/crabport-sftp/src/control.rs, the module     *)
(* documentation): a chunk moves only with a permission given while the    *)
(* transfer was running, one permission moves one chunk, a cancelled       *)
(* transfer is refused the next chunk, and neither a resumed nor a         *)
(* cancelled transfer stays where it is.                                   *)
(***************************************************************************)
EXTENDS Naturals

CONSTANT Chunks     \* chunks in the file

VARIABLES mode,     \* what the user last asked for
          granted,  \* a chunk, or what follows the last one, is under way
          moved,    \* chunks moved
          outcome   \* how the stream ended

vars == <<mode, granted, moved, outcome>>

Init == mode = "running" /\ granted = FALSE /\ moved = 0 /\ outcome = "none"

Ask(m) ==
    /\ \/ m = "paused" /\ mode = "running"
       \/ m = "running" /\ mode = "paused"
       \/ m = "cancelled"
    /\ mode' = m
    /\ UNCHANGED <<granted, moved, outcome>>

Grant ==
    /\ outcome = "none" /\ ~granted /\ mode = "running"
    /\ granted' = TRUE
    /\ UNCHANGED <<mode, moved, outcome>>

Refuse ==
    /\ outcome = "none" /\ ~granted /\ mode = "cancelled"
    /\ outcome' = "cancelled"
    /\ UNCHANGED <<mode, granted, moved>>

Move ==
    /\ outcome = "none" /\ granted /\ moved < Chunks
    /\ moved' = moved + 1 /\ granted' = FALSE
    /\ UNCHANGED <<mode, outcome>>

\* The last permission finds the end of the file, or an I/O error; what
\* follows the stream (decompression, cleanup) is no longer interruptible.
End(o) ==
    /\ outcome = "none" /\ granted
    /\ o = "complete" => moved = Chunks
    /\ outcome' = o /\ granted' = FALSE
    /\ UNCHANGED <<mode, moved>>

\* Closing the terminal aborts the task wherever it is.
Abort ==
    /\ outcome = "none"
    /\ outcome' = "aborted" /\ granted' = FALSE
    /\ UNCHANGED <<mode, moved>>

Next ==
    \/ \E m \in {"running", "paused", "cancelled"} : Ask(m)
    \/ Grant \/ Refuse \/ Move
    \/ \E o \in {"complete", "error"} : End(o)
    \/ Abort

Spec == Init /\ [][Next]_vars

Fairness == WF_vars(Grant) /\ WF_vars(Refuse)
            /\ WF_vars(Move \/ End("complete") \/ End("error"))

FairSpec == Spec /\ Fairness
=============================================================================
