----------------------------- MODULE SshSession -----------------------------
(***************************************************************************)
(* One SSH connection of a terminal tab: the task that connects (through   *)
(* jump hosts, asking about unknown host keys), the event loops of the     *)
(* first pane and of the panes split from it, the monitor, and the file    *)
(* transfers each pane tracks for its Close                                *)
(* (src/crabport-ssh/src/backend.rs, jump.rs, monitor.rs).                 *)
(***************************************************************************)
EXTENDS Naturals

CONSTANTS
    Primary,   \* the pane that made the connection
    Splits,    \* panes split from it later
    Transfers, \* transfer tasks that may be started
    Hops,      \* length of the jump-host chain
    NoOne

Panes == {Primary} \cup Splits

SessionAssumption == Primary \notin Splits /\ Hops \in Nat /\ NoOne \notin Panes

VARIABLES
    step,    \* where the connection's task is
    hops,    \* jump sessions authenticated so far
    known,   \* hosts (1..Hops the jumps, Hops + 1 the target) in known_hosts
    prompt,  \* the question about the current host's key
    status,  \* the monitor's RemoteStatus, shared by all panes
    handle,  \* the shared slot holds the session
    sftp,    \* the shared slot holds an SFTP session
    monitor, \* the monitor task: "none", "check", "exec", "sleep", "done"
    link,    \* the transport: "up" or "lost"
    pane,    \* "none"; "open": shown; "closed": its view called close()
    loop,    \* the event loop of a split: "none", "run", "ended"
    channel, \* the shell's channel: "none", "open", "shut"
    said,    \* the event that ended a pane's backend
    drained, \* panes whose Close was handled
    xfer,    \* "idle", "running", "paused", "aborted", "done"
    owner    \* the pane that tracks a transfer

connVars == <<step, hops, known, prompt, link>>
sharedVars == <<status, handle, sftp>>
paneVars == <<pane, loop, channel, said, drained>>
xferVars == <<xfer, owner>>
vars == <<connVars, sharedVars, monitor, paneVars, xferVars>>

Stages == {"dial", "auth", "channel", "pty", "shell", "startup"}
After == [auth |-> "channel", channel |-> "pty", pty |-> "shell", shell |-> "startup"]
Live == {t \in Transfers : xfer[t] \in {"running", "paused"}}

\* The connection answers: some task or pane holds the session, the link is up.
Reachable == handle /\ link = "up"

TypeOK ==
    /\ step \in Stages \cup {"sftp", "slot", "loop", "closing", "failed", "lost", "ended"}
    /\ hops \in 0..Hops /\ known \subseteq 1..(Hops + 1)
    /\ prompt \in {"none", "asked", "accepted", "refused"}
    /\ status \in {"Connecting", "Connected", "Disconnected"}
    /\ {handle, sftp} \subseteq BOOLEAN /\ link \in {"up", "lost"}
    /\ monitor \in {"none", "check", "exec", "sleep", "done"}
    /\ pane \in [Panes -> {"none", "open", "closed"}]
    /\ loop \in [Splits -> {"none", "run", "ended"}]
    /\ channel \in [Panes -> {"none", "open", "shut"}]
    /\ said \in [Panes -> {"none", "Error", "Closed"}] /\ drained \subseteq Panes
    /\ xfer \in [Transfers -> {"idle", "running", "paused", "aborted", "done"}]
    /\ owner \in [Transfers -> Panes \cup {NoOne}]

Init ==
    /\ step = "dial" /\ hops = 0 /\ known \in SUBSET (1..(Hops + 1)) /\ prompt = "none"
    /\ status = "Connecting" /\ handle = FALSE /\ sftp = FALSE /\ monitor = "none"
    /\ link = "up"
    /\ pane = [p \in Panes |-> IF p = Primary THEN "open" ELSE "none"]
    /\ loop = [p \in Splits |-> "none"] /\ channel = [p \in Panes |-> "none"]
    /\ said = [p \in Panes |-> "none"] /\ drained = {}
    /\ xfer = [t \in Transfers |-> "idle"] /\ owner = [t \in Transfers |-> NoOne]

-----------------------------------------------------------------------------
(* The connection's task *)

Dialled == hops + 1

\* check_server_key: an unknown key stops the handshake for the user.
AskKey ==
    /\ step = "dial" /\ prompt = "none" /\ Dialled \notin known
    /\ prompt' = "asked"
    /\ UNCHANGED <<step, hops, known, link, sharedVars, monitor, paneVars, xferVars>>

\* The dialog is up while the pane is shown.
Answer(accept) ==
    /\ prompt = "asked" /\ pane[Primary] = "open"
    /\ prompt' = IF accept THEN "accepted" ELSE "refused"
    /\ UNCHANGED <<step, hops, known, link, sharedVars, monitor, paneVars, xferVars>>

\* A hop is authenticated and carries the next dial; the target is next.
Handshake ==
    /\ step = "dial" /\ (prompt = "accepted" \/ (prompt = "none" /\ Dialled \in known))
    /\ known' = known \cup {Dialled} /\ prompt' = "none"
    /\ IF hops < Hops
       THEN hops' = hops + 1 /\ UNCHANGED step
       ELSE step' = "auth" /\ UNCHANGED hops
    /\ UNCHANGED <<link, sharedVars, monitor, paneVars, xferVars>>

Advance ==
    /\ step \in DOMAIN After /\ step' = After[step]
    /\ channel' = IF step = "channel" THEN [channel EXCEPT ![Primary] = "open"] ELSE channel
    /\ UNCHANGED <<hops, known, prompt, link, sharedVars, monitor, pane, loop, said, drained,
                   xferVars>>

\* Any stage may fail, a refused or changed key among them; a question
\* holds the handshake until it is answered.
ConnectFails ==
    /\ step \in Stages \ {"startup"} /\ prompt # "asked"
    /\ status' = "Disconnected" /\ step' = "failed" /\ prompt' = "none"
    /\ UNCHANGED <<hops, known, link, handle, sftp, monitor, paneVars, xferVars>>

SetConnected ==
    /\ step = "startup" /\ status' = "Connected" /\ step' = "sftp"
    /\ UNCHANGED <<hops, known, prompt, link, handle, sftp, monitor, paneVars, xferVars>>

TrySftp ==
    /\ step = "sftp" /\ sftp' \in BOOLEAN /\ step' = "slot"
    /\ UNCHANGED <<hops, known, prompt, link, status, handle, monitor, paneVars, xferVars>>

FillSlot ==
    /\ step = "slot" /\ handle' = TRUE /\ monitor' = "check" /\ step' = "loop"
    /\ UNCHANGED <<hops, known, prompt, link, status, sftp, paneVars, xferVars>>

PrimaryDown(to) ==
    /\ status' = "Disconnected" /\ step' = to
    /\ UNCHANGED <<hops, known, prompt, link, handle, monitor, pane, loop, drained, said,
                   xferVars>>

\* Eof, Close or None from the channel; transfers are left alone.
ChannelEnds ==
    /\ step = "loop" /\ channel[Primary] = "shut"
    /\ PrimaryDown("lost") /\ UNCHANGED <<sftp, channel>>

\* Slip: the loop leaves without a word to the monitor.
ProbeFailsQuietly ==
    /\ step = "loop" /\ link = "lost" /\ step' = "lost"
    /\ UNCHANGED <<hops, known, prompt, link, sharedVars, monitor, paneVars, xferVars>>

\* The window-size probe does not get through.
ProbeFails ==
    /\ step = "loop" /\ link = "lost"
    /\ PrimaryDown("lost") /\ UNCHANGED <<sftp, channel>>

\* Slip: every pane's transfers share one list.
AbortAll(p) == [t \in Transfers |-> IF t \in Live THEN "aborted" ELSE xfer[t]]
AbortOwn(p) ==
    [t \in Transfers |-> IF t \in Live /\ owner[t] = p THEN "aborted" ELSE xfer[t]]

\* Command::Close: abort, then say goodbye to the channel ...
HandleClose ==
    /\ step = "loop" /\ pane[Primary] = "closed"
    /\ xfer' = AbortOwn(Primary) /\ drained' = drained \cup {Primary}
    /\ channel' = [channel EXCEPT ![Primary] = "shut"] /\ step' = "closing"
    /\ UNCHANGED <<hops, known, prompt, link, sharedVars, monitor, pane, loop, said, owner>>

\* ... then close the cached SFTP session and report.
CloseSftp ==
    /\ step = "closing" /\ sftp' = FALSE
    /\ PrimaryDown("lost") /\ UNCHANGED channel

Report ==
    /\ step \in {"failed", "lost"} /\ step' = "ended"
    /\ said' = [said EXCEPT ![Primary] = IF step = "failed" THEN "Error" ELSE "Closed"]
    /\ UNCHANGED <<hops, known, prompt, link, sharedVars, monitor, pane, loop, channel,
                   drained, xferVars>>

-----------------------------------------------------------------------------
(* Panes split from the connection *)

\* new_channel_backend: the slot is filled and the server opens a channel.
SplitPane(p) ==
    /\ pane[p] = "none" /\ \E q \in Panes : pane[q] = "open"
    /\ Reachable
    /\ pane' = [pane EXCEPT ![p] = "open"] /\ loop' = [loop EXCEPT ![p] = "run"]
    /\ channel' = [channel EXCEPT ![p] = "open"]
    /\ UNCHANGED <<connVars, sharedVars, monitor, said, drained, xferVars>>

SplitEnds(p) ==
    /\ loop[p] = "run" /\ channel[p] = "shut"
    /\ loop' = [loop EXCEPT ![p] = "ended"] /\ said' = [said EXCEPT ![p] = "Closed"]
    /\ UNCHANGED <<connVars, sharedVars, monitor, pane, channel, drained, xferVars>>

SplitClose(p) ==
    /\ loop[p] = "run" /\ pane[p] = "closed"
    /\ xfer' = AbortOwn(p) /\ drained' = drained \cup {p}
    /\ channel' = [channel EXCEPT ![p] = "shut"]
    /\ loop' = [loop EXCEPT ![p] = "ended"] /\ said' = [said EXCEPT ![p] = "Closed"]
    /\ UNCHANGED <<connVars, sharedVars, monitor, pane, owner>>

\* close() of a pane's view: Command::Close is queued. The view's listeners
\* keep the backend itself, so no step ever lets go of one.
Close(p) ==
    /\ pane[p] = "open" /\ pane' = [pane EXCEPT ![p] = "closed"]
    /\ UNCHANGED <<connVars, sharedVars, monitor, loop, channel, said, drained, xferVars>>

-----------------------------------------------------------------------------
(* Monitor, transfers, server *)

SetMonitor(to) == monitor' = to /\ UNCHANGED <<connVars, sharedVars, paneVars, xferVars>>

\* Slip: the session that dropped is sampled for ever.
NeverStops == monitor = "check" /\ SetMonitor("exec")
MonitorCheck ==
    monitor = "check" /\ SetMonitor(IF status = "Disconnected" THEN "done" ELSE "exec")
MonitorExec == monitor = "exec" /\ SetMonitor("sleep")
MonitorSleep == monitor = "sleep" /\ SetMonitor("check")

SetXfer(t, to) ==
    /\ xfer' = [xfer EXCEPT ![t] = to]
    /\ UNCHANGED <<connVars, sharedVars, monitor, paneVars>>

\* spawn_transfer: the pane's own list gets the abort handle. (Without a
\* session a transfer fails at once.)
StartTransfer(t, p) ==
    /\ xfer[t] = "idle" /\ pane[p] = "open" /\ handle
    /\ owner' = [owner EXCEPT ![t] = p] /\ SetXfer(t, "running")

FinishTransfer(t) == xfer[t] = "running" /\ SetXfer(t, "done") /\ UNCHANGED owner
PauseTransfer(t) == xfer[t] = "running" /\ SetXfer(t, "paused") /\ UNCHANGED owner
ResumeTransfer(t) == xfer[t] = "paused" /\ SetXfer(t, "running") /\ UNCHANGED owner

\* A shell exits, or its channel dies with the link.
ShellExits(p) ==
    /\ channel[p] = "open" /\ channel' = [channel EXCEPT ![p] = "shut"]
    /\ UNCHANGED <<connVars, sharedVars, monitor, pane, loop, said, drained, xferVars>>

LinkLost ==
    /\ handle /\ link = "up" /\ link' = "lost"
    /\ UNCHANGED <<step, hops, known, prompt, sharedVars, monitor, paneVars, xferVars>>

-----------------------------------------------------------------------------
Task ==
    \/ Handshake \/ Advance \/ ConnectFails \/ SetConnected \/ TrySftp \/ FillSlot
    \/ ChannelEnds \/ ProbeFails \/ HandleClose \/ CloseSftp \/ Report

MonitorStep == MonitorCheck \/ MonitorExec \/ MonitorSleep

Next ==
    \/ Task \/ MonitorStep \/ AskKey \/ LinkLost
    \/ \E accept \in BOOLEAN : Answer(accept)
    \/ \E p \in Panes : Close(p) \/ ShellExits(p)
    \/ \E p \in Splits : SplitPane(p) \/ SplitEnds(p) \/ SplitClose(p)
    \/ \E t \in Transfers :
          \/ \E p \in Panes : StartTransfer(t, p)
          \/ FinishTransfer(t) \/ PauseTransfer(t) \/ ResumeTransfer(t)

\* Tasks run, execs and transfers end. The user need not answer or resume.
Fairness ==
    /\ WF_vars(Task) /\ WF_vars(MonitorStep)
    /\ \A p \in Splits : WF_vars(SplitEnds(p) \/ SplitClose(p))
    /\ \A t \in Transfers : WF_vars(FinishTransfer(t))

Spec == Init /\ [][Next]_vars /\ Fairness

-----------------------------------------------------------------------------
(* Properties *)

\* Once a pane's Close was handled, no transfer it tracked is under way, so
\* none keeps the connection (SshBackend::transfer_tasks); a transfer of
\* another pane is not touched by it.
TransfersDieWithClose ==
    \A t \in Transfers :
        /\ t \in Live => owner[t] \notin drained
        /\ xfer[t] = "aborted" => owner[t] \in drained

\* The tasks that hold the session: the loops, the monitor, the transfers.
Busy == step # "ended" \/ monitor \notin {"none", "done"} \/ Live # {}
AllClosed == \A p \in Panes : pane[p] # "open"

\* When every pane of a connection has been closed, its tasks all end and let
\* go of the session - unless a key question was left open, or a transfer was
\* left paused, by a user who has nothing left to answer or resume it with.
TasksLetGo ==
    AllClosed ~> (~Busy \/ prompt = "asked" \/ \E t \in Transfers : xfer[t] = "paused")

\* The first pane is the backend its view relies on: status first, then one
\* final event, on every path that ends it.
Backend == INSTANCE RemoteBackend WITH said <- said[Primary]
ImplementsBackend == Backend!Init /\ [][Backend!Next]_<<status, said[Primary]>>

\* backend.rs on new_channel_backend: the backend of a split shares handle,
\* monitor and SFTP session, "so SFTP / tunnels / monitor work across all
\* panes". The first pane's end marks the shared monitor Disconnected.
SplitsKeepMonitor == \A p \in Splits : loop[p] = "run" /\ link = "up" => status = "Connected"

\* backend.rs on transfer_tasks: closing cancels transfers "instead of letting
\* them outlive the terminal". A loop that ended before Close drains nothing.
NoTransferOutlivesClose ==
    \A t \in Live : pane[owner[t]] = "closed" => ~(step = "ended" /\ owner[t] = Primary)

\* connection_overlay.rs on a prompt's responder: "`None` (dropped sender) is
\* treated as abort". The question of a closed pane is never dropped: the
\* handshake that waits for it owns the overlay that owns the sender.
PromptEnds == (prompt = "asked" /\ pane[Primary] = "closed") ~> prompt # "asked"
=============================================================================
