--------------------------- MODULE SerialBackend ----------------------------
(***************************************************************************)
(* The serial backend: an IO thread that alternates between draining the   *)
(* command queue and one read, and a broadcaster task that passes on what  *)
(* was read and notices the end, over two channels between them            *)
(* (src/crabport-serial/src/backend.rs).                                   *)
(***************************************************************************)
EXTENDS Integers, Sequences, SequencesExt

CONSTANTS
    HasStartup, \* a startup command is configured
    MaxReads,   \* bound: reads that return something
    MaxWrites   \* bound: writes queued

SerialAssumption == HasStartup \in BOOLEAN /\ {MaxReads, MaxWrites} \subseteq Nat

VARIABLES
    io,     \* the IO thread: "none" | "startup" | "drain" | "read" | "gone"
    cmds,   \* the command queue, held by the task until the thread exists
    port,   \* what was written to the device
    reads,  \* reads so far
    pipe,   \* data_tx: chunks the broadcaster has yet to pass on
    shown,  \* chunks broadcast
    turn,   \* the broadcaster: "data" | "closed", which channel it looks at next
    parting, \* the IO thread has sent on closed_tx
    closing, status, said, ending

ioVars == <<io, cmds, port, reads, parting>>
castVars == <<pipe, shown, turn, status, said, ending>>
vars == <<ioVars, castVars, closing>>

TypeOK ==
    /\ io \in {"none", "startup", "drain", "read", "gone"}
    /\ cmds \in Seq({"write", "close"}) /\ port \in Seq({"startup", "write"})
    /\ reads \in 0..MaxReads /\ {pipe, shown} \subseteq Seq(1..MaxReads)
    /\ turn \in {"data", "closed"} /\ {parting, closing} \subseteq BOOLEAN
    /\ status \in {"Connecting", "Connected", "Disconnected"}
    /\ {said, ending} \subseteq {"none", "Error", "Closed"}

Init ==
    /\ io = "none" /\ cmds = <<>> /\ port = <<>> /\ reads = 0 /\ pipe = <<>> /\ shown = <<>>
    /\ turn = "data" /\ parting = FALSE /\ closing = FALSE
    /\ status = "Connecting" /\ said = "none" /\ ending = "none"

\* The task opens the port, says Ready and becomes the broadcaster.
Open ==
    /\ status = "Connecting" /\ status' = "Connected" /\ io' = "startup"
    /\ UNCHANGED <<cmds, port, reads, parting, pipe, shown, turn, said, ending, closing>>

OpenFails ==
    /\ status = "Connecting" /\ status' = "Disconnected" /\ ending' = "Error"
    /\ UNCHANGED <<ioVars, pipe, shown, turn, said, closing>>

SendStartup ==
    /\ io = "startup" /\ io' = "drain"
    /\ port' = IF HasStartup THEN Append(port, "startup") ELSE port
    /\ UNCHANGED <<cmds, reads, parting, castVars, closing>>

\* One command, or on to the read when there is none.
DrainWrite ==
    /\ io = "drain" /\ cmds # <<>> /\ Head(cmds) = "write"
    /\ cmds' = Tail(cmds) /\ \E ok \in BOOLEAN : port' = IF ok THEN Append(port, "write") ELSE port
    /\ UNCHANGED <<io, reads, parting, castVars, closing>>
\* Slip: the drain loop is left, not the thread.
CloseLeavesLoop ==
    /\ io = "drain" /\ cmds # <<>> /\ Head(cmds) = "close"
    /\ cmds' = Tail(cmds) /\ io' = "read" /\ parting' = TRUE
    /\ UNCHANGED <<port, reads, castVars, closing>>
DrainClose ==
    /\ io = "drain" /\ cmds # <<>> /\ Head(cmds) = "close"
    /\ cmds' = Tail(cmds) /\ io' = "gone" /\ parting' = TRUE
    /\ UNCHANGED <<port, reads, castVars, closing>>
Drained ==
    /\ io = "drain" /\ cmds = <<>> /\ io' = "read"
    /\ UNCHANGED <<cmds, port, reads, parting, castVars, closing>>

\* A read: a chunk, a timeout, or the end of the device or of the broadcaster,
\* which nobody can send a chunk to once it has gone.
ReadChunk ==
    /\ io = "read" /\ reads < MaxReads /\ said = "none" /\ ending = "none"
    /\ reads' = reads + 1 /\ pipe' = Append(pipe, reads + 1) /\ io' = "drain"
    /\ UNCHANGED <<cmds, port, parting, shown, turn, status, said, ending, closing>>
ReadTimesOut ==
    /\ io = "read" /\ io' = "drain"
    /\ UNCHANGED <<cmds, port, reads, parting, castVars, closing>>
ReadEnds ==
    /\ io = "read" /\ io' = "gone" /\ parting' = TRUE
    /\ UNCHANGED <<cmds, port, reads, castVars, closing>>

-----------------------------------------------------------------------------
Casting == status = "Connected" /\ ending = "none" /\ said = "none"

Broadcast ==
    /\ Casting /\ turn = "data" /\ pipe # <<>>
    /\ shown' = Append(shown, Head(pipe)) /\ pipe' = Tail(pipe) /\ turn' = "closed"
    /\ UNCHANGED <<ioVars, status, said, ending, closing>>
NothingYet ==
    /\ Casting /\ turn = "data" /\ pipe = <<>> /\ io # "gone" /\ turn' = "closed"
    /\ UNCHANGED <<ioVars, pipe, shown, status, said, ending, closing>>

\* The data channel is empty and its sender gone, or closed_rx has the news.
GoDown ==
    /\ status' = "Disconnected" /\ ending' = "Closed"
    /\ UNCHANGED <<ioVars, pipe, shown, turn, said, closing>>
PipeEnds == Casting /\ turn = "data" /\ pipe = <<>> /\ io = "gone" /\ GoDown
HearsClosed == Casting /\ turn = "closed" /\ parting /\ GoDown

StillOpen ==
    /\ Casting /\ turn = "closed" /\ ~parting /\ turn' = "data"
    /\ UNCHANGED <<ioVars, pipe, shown, status, said, ending, closing>>

Tell ==
    /\ ending # "none" /\ said = "none" /\ said' = ending
    /\ UNCHANGED <<ioVars, pipe, shown, turn, status, ending, closing>>

-----------------------------------------------------------------------------
Type ==
    /\ Len(SelectSeq(port, LAMBDA w : w = "write")) + Len(cmds) < MaxWrites
    /\ cmds' = Append(cmds, "write")
    /\ UNCHANGED <<io, port, reads, parting, castVars, closing>>

\* close(), and the drop of the backend, queue the same command.
CloseSerial ==
    /\ ~closing /\ closing' = TRUE /\ cmds' = Append(cmds, "close")
    /\ UNCHANGED <<io, port, reads, parting, castVars>>

IoStep == SendStartup \/ DrainWrite \/ DrainClose \/ Drained \/ ReadChunk \/ ReadTimesOut \/ ReadEnds
CastStep == Open \/ OpenFails \/ Broadcast \/ NothingYet \/ PipeEnds \/ HearsClosed \/ StillOpen \/ Tell

Next == IoStep \/ CastStep \/ Type \/ CloseSerial

Fairness == WF_vars(IoStep) /\ WF_vars(CastStep)
Spec == Init /\ [][Next]_vars /\ Fairness

-----------------------------------------------------------------------------
(* Properties *)

\* What was read before the end is passed on before the end is reported. The
\* broadcaster looks at the second channel after every chunk, so a device that
\* talks and ends loses what the first still holds.
FinalOutput == said = "Closed" /\ ~closing => pipe = <<>>

\* A view that closes its terminal is told of the end, and the port is let go.
CloseEnds == closing ~> said # "none" /\ io \in {"none", "gone"}
=============================================================================
