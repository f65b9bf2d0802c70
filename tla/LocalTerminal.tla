--------------------------- MODULE LocalTerminal ---------------------------
(***************************************************************************)
(* A local terminal: PendingPtyBackend builds the PTY on a worker thread   *)
(* and buffers what is typed meanwhile; PtyBackend's reader, writer and    *)
(* waiter feed one broadcast channel; TerminalSession's pump drains it     *)
(* into the grid, the kitty keyboard flag and the command history          *)
(* (src/crabport-terminal/src/pty.rs, src/crabport-terminal/src/terminal.rs). *)
(***************************************************************************)
EXTENDS Naturals, Sequences, SequencesExt

CONSTANTS
    Cmds,       \* command lines
    MaxHistory, \* MAX_COMMAND_HISTORY
    Chunks,     \* what one read of the PTY may carry: subset of "text",
                \* "start" (enters the alternate screen and asks for kitty
                \* keys), "ask" (asks only), "main" (leaves the screen)
    Cap,        \* capacity of the broadcast channel
    MaxInputs,  \* bound: keystrokes, Enters, flushes and PTY reads together
    MayFail,    \* the PTY may fail to build
    None

TerminalAssumption ==
    /\ Chunks \subseteq {"text", "start", "ask", "main"}
    /\ {MaxHistory, Cap} \subseteq Nat \ {0} /\ MaxInputs \in Nat
    /\ MayFail \in BOOLEAN /\ None \notin Cmds

VARIABLES
    chan,       \* events the pump has not received
    pump,       \* "recv": at rx.recv; "drain": in the batch, the grid locked; "done"
    alt,        \* TermMode::ALT_SCREEN
    kitty,      \* kitty_keyboard is not 0
    revised,    \* grid_rev was bumped since bytes were last fed
    history,    \* command_history, newest first
    file,       \* the shell's own history file, newest first
    latest,     \* the last command captured from the grid
    loading,    \* what each history read under way has read
    worker,     \* "building", "bridging" (drains the buffer), "done", "failed"
    installed,  \* the OnceLock holds the real backend
    buffer,     \* commands buffered before that
    queue,      \* the real backend's commands
    dispatched, \* a command whose sender saw no live backend, or None
    keys,       \* keystrokes so far; each is its number
    written,    \* what the PTY received
    shell,      \* "none", "running", "exited"
    writer,     \* the writer task: "none", "on", "off"
    said,       \* who has yet to say Closed: subset of Speakers
    inputs,     \* keystrokes, Enters, flushes and PTY reads so far
    closing     \* the view has called close()

pumpVars == <<pump, alt, kitty, revised>>
histVars == <<history, file, latest, loading>>
ptyVars  == <<worker, installed, buffer, queue, dispatched, keys, written, shell,
              writer, said>>
vars == <<chan, pumpVars, histVars, ptyVars, inputs, closing>>

Data(c) == [event |-> "Data", chunk |-> c]
Loaded(h) == [event |-> "HistoryLoaded", cmds |-> h]
Plain(e) == [event |-> e]
Room == Len(chan) < Cap
Spend == inputs < MaxInputs /\ inputs' = inputs + 1
Hup == 0                                 \* Command::Close in a queue of keys
Speakers == {"reader", "waiter", "writer"}

TypeOK ==
    /\ \A i \in DOMAIN chan :
          \/ chan[i] \in {Data(c) : c \in Chunks}
          \/ chan[i] \in {Plain(e) : e \in {"Ready", "Closed", "Error"}}
          \/ chan[i].event = "HistoryLoaded" /\ chan[i].cmds \in Seq(Cmds)
    /\ Len(chan) <= Cap /\ pump \in {"recv", "drain", "done"}
    /\ {alt, kitty, revised, installed, closing} \subseteq BOOLEAN
    /\ history \in Seq(Cmds) /\ Len(history) <= MaxHistory /\ IsInjective(history)
    /\ file \in Seq(Cmds) /\ latest \in Cmds \cup {None}
    /\ worker \in {"building", "bridging", "done", "failed"}
    /\ inputs \in 0..MaxInputs /\ keys \in 0..inputs /\ dispatched \in 1..keys \cup {None}
    /\ shell \in {"none", "running", "exited"} /\ writer \in {"none", "on", "off"}
    /\ said \subseteq Speakers

Init ==
    /\ chan = <<>> /\ pump = "recv" /\ alt = FALSE /\ kitty = FALSE /\ revised = TRUE
    /\ history = <<>> /\ file \in {<<c>> : c \in Cmds} /\ latest = None
    /\ loading = <<>>
    /\ worker = "building" /\ installed = FALSE /\ buffer = <<>> /\ queue = <<>>
    /\ dispatched = None /\ keys = 0 /\ written = <<>> /\ shell = "none"
    /\ writer = "none" /\ said = {} /\ inputs = 0 /\ closing = FALSE

-----------------------------------------------------------------------------
(* The pump: TerminalSession::start *)

\* scan_kitty_negotiation looks at the chunk that opens a batch only.
Scan(c) == IF c \in {"start", "ask"} THEN TRUE ELSE IF c = "main" THEN FALSE ELSE kitty
Screen(c) == IF c = "start" THEN TRUE ELSE IF c = "main" THEN FALSE ELSE alt

\* After parser.advance, a flag without the alternate screen is cleared.
Advance(c, asked) == alt' = Screen(c) /\ kitty' = (asked /\ Screen(c)) /\ revised' = FALSE

\* Slip: the drained chunks only feed the parser.
AdvanceOnly(c) == alt' = Screen(c) /\ kitty' = kitty /\ revised' = FALSE
DrainAdvance(c) == Advance(c, kitty)

\* Slip: the file replaces the buffer.
Replace(h, cmds) == SubSeq(cmds, 1, IF Len(cmds) < MaxHistory THEN Len(cmds) ELSE MaxHistory)

\* filter: what is not among these, in its order.
Without(s, out) ==
    LET left[n \in 0..Len(s)] ==
          IF n = 0 THEN <<>>
          ELSE IF s[n] \in out THEN left[n - 1] ELSE Append(left[n - 1], s[n])
    IN  left[Len(s)]
Added(h, c) == IF c \in ToSet(h) \/ Len(h) >= MaxHistory THEN h ELSE Append(h, c)

\* merge_history_entries: what only memory knows stays in front, then the
\* file's entries, each once, up to the cap.
Merge(h, cmds) ==
    LET merged[n \in 0..Len(cmds)] ==
          IF n = 0 THEN Without(h, ToSet(cmds)) ELSE Added(merged[n - 1], cmds[n])
    IN  merged[Len(cmds)]

Next1 == Head(chan)
Receive(events) == chan # <<>> /\ Next1.event \in events /\ chan' = Tail(chan)

RecvData ==
    /\ pump = "recv" /\ Receive({"Data"})
    /\ Advance(Next1.chunk, Scan(Next1.chunk)) /\ pump' = "drain"
    /\ UNCHANGED <<histVars, ptyVars, inputs, closing>>

DrainData ==
    /\ pump = "drain" /\ Receive({"Data"})
    /\ DrainAdvance(Next1.chunk)
    /\ UNCHANGED <<pump, histVars, ptyVars, inputs, closing>>

\* Every other event is taken off the channel and ignored, HistoryLoaded too.
DrainOther ==
    /\ pump = "drain" /\ Receive({"HistoryLoaded", "Error", "Ready"})
    /\ UNCHANGED <<pumpVars, histVars, ptyVars, inputs, closing>>

DrainClosed ==
    /\ pump = "drain" /\ Receive({"Closed"}) /\ pump' = "done"
    /\ UNCHANGED <<alt, kitty, revised, histVars, ptyVars, inputs, closing>>

DrainEnds ==
    /\ pump = "drain" /\ chan = <<>>
    /\ pump' = "recv" /\ revised' = TRUE
    /\ UNCHANGED <<chan, alt, kitty, histVars, ptyVars, inputs, closing>>

RecvHistory ==
    /\ pump = "recv" /\ Receive({"HistoryLoaded"})
    /\ history' = Merge(history, Next1.cmds)
    /\ UNCHANGED <<pumpVars, file, latest, loading, ptyVars, inputs, closing>>

RecvOther ==
    /\ pump = "recv" /\ Receive({"Error", "Ready", "Closed"})
    /\ pump' = IF Next1.event = "Closed" THEN "done" ELSE "recv"
    /\ UNCHANGED <<alt, kitty, revised, histVars, ptyVars, inputs, closing>>

Pump == RecvData \/ DrainData \/ DrainOther \/ DrainClosed \/ DrainEnds
        \/ RecvHistory \/ RecvOther

-----------------------------------------------------------------------------
(* The command history *)

\* Enter: snapshot_command_from_grid puts the line in front (unless it is
\* there, or looks like a prompt), and unless throttled the file is read.
Captured(c) ==
    IF history # <<>> /\ Head(history) = c THEN history
    ELSE LET rest == Without(history, {c})
         IN  <<c>> \o SubSeq(rest, 1, IF Len(rest) < MaxHistory THEN Len(rest) ELSE MaxHistory - 1)

Enter(c) ==
    /\ ~closing /\ shell = "running" /\ pump # "drain" /\ Spend
    /\ history' = Captured(c) /\ latest' = c
    /\ loading' \in {loading, Append(loading, file)}
    /\ UNCHANGED <<chan, pumpVars, file, ptyVars, closing>>

\* The shell appends a line it ran to its file, at once or much later.
Flush(c) ==
    /\ shell = "running" /\ c \in ToSet(history) /\ Spend
    /\ file' = <<c>> \o Without(file, {c})
    /\ UNCHANGED <<chan, pumpVars, history, latest, loading, ptyVars, closing>>

\* try_broadcast: the answer is dropped when the channel is full.
LoadDone ==
    /\ loading # <<>>
    /\ chan' = IF Room THEN Append(chan, Loaded(Head(loading))) ELSE chan
    /\ loading' = Tail(loading)
    /\ UNCHANGED <<pumpVars, history, file, latest, ptyVars, inputs, closing>>

-----------------------------------------------------------------------------
(* PendingPtyBackend *)

\* The PTY is up: its child, reader, writer and waiter run.
Built ==
    /\ worker = "building" /\ worker' = "bridging"
    /\ shell' = "running" /\ writer' = "on" /\ said' = {"reader", "waiter"}
    /\ UNCHANGED <<chan, pumpVars, histVars, installed, buffer, queue, dispatched, keys,
                   written, inputs, closing>>

\* Error and Closed, each by try_broadcast.
BuildFails ==
    /\ MayFail /\ worker = "building" /\ worker' = "failed"
    /\ chan' = SubSeq(chan \o <<Plain("Error"), Plain("Closed")>>, 1,
                      IF Len(chan) + 2 < Cap THEN Len(chan) + 2 ELSE Cap)
    /\ UNCHANGED <<pumpVars, histVars, installed, buffer, queue, dispatched, keys, written,
                   shell, writer, said, inputs, closing>>

\* while let Ok(cmd) = command_rx.try_recv(), one command at a time.
Forward ==
    /\ worker = "bridging" /\ ~installed /\ buffer # <<>>
    /\ queue' = Append(queue, Head(buffer)) /\ buffer' = Tail(buffer)
    /\ UNCHANGED <<chan, pumpVars, histVars, worker, installed, dispatched, keys, written,
                   shell, writer, said, inputs, closing>>

\* Slip: the live backend is installed before the buffer is forwarded.
InstallFirst ==
    \/ /\ worker = "bridging" /\ ~installed /\ installed' = TRUE
       /\ UNCHANGED <<chan, pumpVars, histVars, worker, buffer, queue, dispatched, keys,
                      written, shell, writer, said, inputs, closing>>
    \/ /\ worker = "bridging" /\ installed
       /\ queue' = queue \o buffer /\ buffer' = <<>> /\ worker' = "done"
       /\ chan' = IF Room THEN Append(chan, Plain("Ready")) ELSE chan
       /\ UNCHANGED <<pumpVars, histVars, installed, dispatched, keys, written,
                      shell, writer, said, inputs, closing>>
Install ==
    /\ worker = "bridging" /\ buffer = <<>>
    /\ installed' = TRUE /\ worker' = "done"
    /\ chan' = IF Room THEN Append(chan, Plain("Ready")) ELSE chan
    /\ UNCHANGED <<pumpVars, histVars, buffer, queue, dispatched, keys, written, shell,
                   writer, said, inputs, closing>>

\* dispatch: to the live backend if there is one; otherwise the sender goes on
\* to the buffer, whatever the worker does meanwhile.
Type ==
    /\ ~closing /\ dispatched = None /\ Spend /\ keys' = keys + 1
    /\ IF installed THEN queue' = Append(queue, keys') /\ UNCHANGED dispatched
                    ELSE dispatched' = keys' /\ UNCHANGED queue
    /\ UNCHANGED <<chan, pumpVars, histVars, worker, installed, buffer, written, shell,
                   writer, said, closing>>

Buffer ==
    /\ dispatched # None
    /\ buffer' = Append(buffer, dispatched) /\ dispatched' = None
    /\ UNCHANGED <<chan, pumpVars, histVars, worker, installed, queue, keys, written,
                   shell, writer, said, inputs, closing>>

\* Slip: only a live backend is told.
CloseLive ==
    /\ ~closing /\ dispatched = None /\ closing' = TRUE
    /\ queue' = IF installed THEN Append(queue, Hup) ELSE queue
    /\ UNCHANGED <<chan, pumpVars, histVars, worker, installed, buffer, dispatched, keys,
                   written, shell, writer, said, inputs>>

\* close(): a live backend is told, otherwise the channel is.
Close ==
    /\ ~closing /\ dispatched = None /\ closing' = TRUE
    /\ IF installed
         THEN queue' = Append(queue, Hup) /\ UNCHANGED chan
         ELSE chan' = (IF Room THEN Append(chan, Plain("Closed")) ELSE chan) /\ UNCHANGED queue
    /\ UNCHANGED <<pumpVars, histVars, worker, installed, buffer, dispatched, keys, written,
                   shell, writer, said, inputs>>

-----------------------------------------------------------------------------
(* PtyBackend: writer task, reader and waiter threads.  Their broadcasts wait
   for room and for a receiver: with none but the inactive one that the backend
   keeps, for ever *)

Says(e) == Room /\ pump # "done" /\ chan' = Append(chan, e)

Write ==
    /\ writer = "on" /\ queue # <<>> /\ Head(queue) # Hup
    /\ written' = Append(written, Head(queue)) /\ queue' = Tail(queue)
    /\ UNCHANGED <<chan, pumpVars, histVars, worker, installed, buffer, dispatched, keys,
                   shell, writer, said, inputs, closing>>

\* Command::Close: SIGHUP, and the writer has but Closed to say.
HangUp ==
    /\ writer = "on" /\ queue # <<>> /\ Head(queue) = Hup
    /\ queue' = Tail(queue) /\ writer' = "off" /\ shell' = "exited"
    /\ said' = said \cup {"writer"}
    /\ UNCHANGED <<chan, pumpVars, histVars, worker, installed, buffer, dispatched, keys, written,
                   inputs, closing>>

Read ==
    /\ "reader" \in said /\ shell = "running" /\ Spend
    /\ \E c \in Chunks : Says(Data(c))
    /\ UNCHANGED <<pumpVars, histVars, worker, installed, buffer, queue, dispatched, keys,
                   written, shell, writer, said, closing>>

ShellExits ==
    /\ shell = "running" /\ shell' = "exited"
    /\ UNCHANGED <<chan, pumpVars, histVars, worker, installed, buffer, queue, dispatched,
                   keys, written, writer, said, inputs, closing>>

\* Reader at end of file, waiter after waitpid, writer: each says Closed.
SayClosed(who) ==
    /\ who \in said /\ shell = "exited"
    /\ Says(Plain("Closed")) /\ said' = said \ {who}
    /\ UNCHANGED <<pumpVars, histVars, worker, installed, buffer, queue, dispatched, keys,
                   written, shell, writer, inputs, closing>>

Threads == Built \/ Forward \/ Install \/ Buffer \/ Write \/ HangUp
           \/ (\E who \in Speakers : SayClosed(who)) \/ LoadDone

Next == \/ Pump \/ Threads \/ BuildFails \/ Type \/ Close \/ Read \/ ShellExits
        \/ \E c \in Cmds : Enter(c) \/ Flush(c)

Spec == Init /\ [][Next]_vars

\* Threads run on, the executor polls the pump; nothing is asked of the shell
\* or of the user.
Fairness == WF_vars(Pump) /\ WF_vars(Threads \/ BuildFails)

FairSpec == Spec /\ Fairness

-----------------------------------------------------------------------------
(* Properties *)

\* The freshest command stays in front until the shell's file knows it, however
\* stale the reads of the file that are merged in ("never the fresh in-memory
\* snapshots at the front", merge_history_entries).
UnflushedFirst ==
    latest # None /\ latest \notin ToSet(file) => history # <<>> /\ Head(history) = latest

\* Between batches keys are encoded for kitty only while the program that
\* asked still owns the alternate screen: a shell never gets CSI u keys.
KittyNeedsAltScreen == pump = "recv" => (kitty => alt)

\* What a local terminal keeps: the freshest commands, keys that suit its screen.
SessionSound == UnflushedFirst /\ KittyNeedsAltScreen

\* What is typed while the shell starts and after reaches it in the order typed.
KeysInOrder == \A i, j \in DOMAIN written : i < j => written[i] < written[j]

\* Closing the view ends the session's pump, whether the shell was starting,
\* running or gone.
CloseEndsPump == closing ~> pump = "done"

\* "Handled in the outer loop": a history that was read reaches the history.
HistoryHandled ==
    [][chan # <<>> /\ Head(chan).event = "HistoryLoaded" /\ chan' = Tail(chan)
         => history' = Merge(history, Head(chan).cmds)]_vars

\* "They are replayed in order once the PTY is up, so the user's first
\* keystrokes are not lost."
FirstKeysKept == worker = "done" => buffer = <<>> /\ dispatched = None

\* grid_rev is "bumped every time bytes are fed into the terminal grid".
RevisionCounts == pump # "drain" => revised

\* A closed terminal's shell does not live on.
ClosedShellExits == closing ~> shell # "running"
=============================================================================
