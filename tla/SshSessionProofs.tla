-------------------------- MODULE SshSessionProofs --------------------------
(***************************************************************************)
(* A connection and the panes split from it, for any number of panes,      *)
(* transfers and jump hosts: no transfer of a closed pane goes on, and the *)
(* first pane is the backend its view relies on.                           *)
(*                                                                         *)
(* A pane whose Close was handled stays closed (DrainedClosed), so nothing *)
(* starts in it afterwards; the connection's task changes its status and   *)
(* reports its end in one order (InStep).                                  *)
(*                                                                         *)
(* Then the SFTP tasks of a connection, for any number of tasks and saves: *)
(* no session is lost (Held: it is parked or one task has it), and only a  *)
(* task that stopped half-way leaves its temporary file (Staged: a file on *)
(* a live connection is about to be used; Follows: plans are made so).     *)
(*                                                                         *)
(* Then the properties that are about every backend of a remote tab.       *)
(*                                                                         *)
(* Last, Telnet: reads compose (Composes), so the decoder is at any time   *)
(* one that has read all so far at once (Heard), and what that shows is    *)
(* what the grammar calls text (TextIs); LoggedIn is how far the login is. *)
(***************************************************************************)
EXTENDS MCBackends, Sequences, FiniteSetTheorems, SequenceTheorems, WellFoundedInduction, TLAPS

DrainedClosed == \A p \in drained : pane[p] = "closed"

\* What the task has told the monitor and its events, from where it is.
InStep ==
  /\ step \in Stages => status = "Connecting"
  /\ step \in {"sftp", "slot", "loop", "closing"} => status = "Connected"
  /\ step \in {"failed", "lost", "ended"} => status = "Disconnected"
  /\ step = "ended" <=> said[Primary] # "none"

-----------------------------------------------------------------------------
(* Types.                                                                  *)

LEMMA TypeInit == ASSUME SessionAssumption, Init PROVE TypeOK
<1>1. /\ step \in Stages /\ hops \in 0..Hops /\ known \subseteq 1..(Hops + 1)
      /\ prompt = "none" /\ status = "Connecting" /\ handle = FALSE /\ sftp = FALSE
      /\ monitor = "none" /\ link = "up" /\ drained = {}
  BY DEF SessionAssumption, Init, Stages
<1>2. /\ pane \in [Panes -> {"none", "open", "closed"}]
      /\ loop \in [Splits -> {"none", "run", "ended"}]
      /\ channel \in [Panes -> {"none", "open", "shut"}]
      /\ said \in [Panes -> {"none", "Error", "Closed"}]
  BY DEF Init
<1>3. /\ xfer \in [Transfers -> {"idle", "running", "paused", "aborted", "done"}]
      /\ owner \in [Transfers -> Panes \cup {NoOne}]
  BY DEF Init
<1> QED
  BY <1>1, <1>2, <1>3 DEF TypeOK

\* Closing a pane aborts transfers and changes nothing else of them.
LEMMA AbortType ==
  ASSUME TypeOK, NEW p
  PROVE  AbortOwn(p) \in [Transfers -> {"idle", "running", "paused", "aborted", "done"}]
BY DEF TypeOK, AbortOwn, Live

LEMMA TypeTask == ASSUME SessionAssumption, TypeOK, Task PROVE TypeOK'
<1> USE DEF connVars, sharedVars, paneVars, xferVars
<1>0. Primary \in Panes
  BY DEF Panes
<1>1. CASE Handshake
  BY <1>1 DEF Handshake, TypeOK, Stages, SessionAssumption, Dialled
<1>2. CASE Advance
  BY <1>2, <1>0 DEF Advance, After, TypeOK, Stages
<1>3. CASE ConnectFails
  BY <1>3 DEF ConnectFails, TypeOK
<1>4. CASE SetConnected
  BY <1>4 DEF SetConnected, TypeOK
<1>5. CASE TrySftp
  BY <1>5 DEF TrySftp, TypeOK
<1>6. CASE FillSlot
  BY <1>6 DEF FillSlot, TypeOK
<1>7. CASE ChannelEnds \/ ProbeFails
  BY <1>7 DEF ChannelEnds, ProbeFails, PrimaryDown, TypeOK
<1>8. CASE HandleClose
  BY <1>8, <1>0, AbortType DEF HandleClose, TypeOK
<1>9. CASE CloseSftp
  BY <1>9 DEF CloseSftp, PrimaryDown, TypeOK
<1>10. CASE Report
  BY <1>10, <1>0 DEF Report, TypeOK
<1> QED
  BY <1>1, <1>2, <1>3, <1>4, <1>5, <1>6, <1>7, <1>8, <1>9, <1>10 DEF Task

LEMMA TypePanes ==
  ASSUME SessionAssumption, TypeOK,
         \/ \E p \in Panes : Close(p) \/ ShellExits(p)
         \/ \E p \in Splits : SplitPane(p) \/ SplitEnds(p) \/ SplitClose(p)
  PROVE  TypeOK'
<1> USE DEF connVars, sharedVars, paneVars, xferVars
<1>0. Splits \subseteq Panes
  BY DEF Panes
<1>1. ASSUME NEW p \in Panes, Close(p) PROVE TypeOK'
  BY <1>1 DEF Close, TypeOK
<1>2. ASSUME NEW p \in Panes, ShellExits(p) PROVE TypeOK'
  BY <1>2 DEF ShellExits, TypeOK
<1>3. ASSUME NEW p \in Splits, SplitPane(p) PROVE TypeOK'
  BY <1>3, <1>0 DEF SplitPane, TypeOK
<1>4. ASSUME NEW p \in Splits, SplitEnds(p) PROVE TypeOK'
  BY <1>4, <1>0 DEF SplitEnds, TypeOK
<1>5. ASSUME NEW p \in Splits, SplitClose(p) PROVE TypeOK'
  BY <1>5, <1>0, AbortType DEF SplitClose, TypeOK
<1> QED
  BY <1>1, <1>2, <1>3, <1>4, <1>5

LEMMA TypeTransfers ==
  ASSUME TypeOK, NEW t \in Transfers,
         \/ \E p \in Panes : StartTransfer(t, p)
         \/ FinishTransfer(t) \/ PauseTransfer(t) \/ ResumeTransfer(t)
  PROVE  TypeOK'
<1>1. /\ xfer' \in [Transfers -> {"idle", "running", "paused", "aborted", "done"}]
      /\ owner' \in [Transfers -> Panes \cup {NoOne}]
  BY DEF StartTransfer, FinishTransfer, PauseTransfer, ResumeTransfer, SetXfer, TypeOK
<1>2. UNCHANGED <<connVars, sharedVars, monitor, paneVars>>
  BY DEF StartTransfer, FinishTransfer, PauseTransfer, ResumeTransfer, SetXfer
<1> QED
  BY <1>1, <1>2 DEF TypeOK, connVars, sharedVars, paneVars

LEMMA TypeStep == ASSUME SessionAssumption, TypeOK, [Next]_vars PROVE TypeOK'
<1> USE DEF connVars, sharedVars, paneVars, xferVars
<1>1. CASE Task
  BY <1>1, TypeTask
<1>2. CASE MonitorStep
  BY ZenonT(60), <1>2 DEF MonitorStep, MonitorCheck, MonitorExec, MonitorSleep, SetMonitor, TypeOK
<1>3. CASE AskKey \/ LinkLost
  BY ZenonT(60), <1>3 DEF AskKey, LinkLost, TypeOK
<1>4. ASSUME NEW accept \in BOOLEAN, Answer(accept) PROVE TypeOK'
  BY <1>4 DEF Answer, TypeOK
<1>5. CASE \/ \E p \in Panes : Close(p) \/ ShellExits(p)
           \/ \E p \in Splits : SplitPane(p) \/ SplitEnds(p) \/ SplitClose(p)
  BY <1>5, TypePanes
<1>6. ASSUME NEW t \in Transfers,
             \/ \E p \in Panes : StartTransfer(t, p)
             \/ FinishTransfer(t) \/ PauseTransfer(t) \/ ResumeTransfer(t)
      PROVE  TypeOK'
  BY <1>6, TypeTransfers
<1>7. CASE UNCHANGED vars
  BY <1>7 DEF vars, TypeOK
<1> QED
  BY <1>1, <1>2, <1>3, <1>4, <1>5, <1>6, <1>7 DEF Next

\* Every variable of the connection keeps its type.
THEOREM TypeCorrect == ASSUME SessionAssumption PROVE Spec => []TypeOK
<1>1. Init => TypeOK
  BY TypeInit
<1>2. TypeOK /\ [Next]_vars => TypeOK'
  BY TypeStep
<1> QED
  BY <1>1, <1>2, PTL DEF Spec

-----------------------------------------------------------------------------
(* Transfers and the panes that track them.                                *)

\* A closed pane is never opened again.
LEMMA PanesStayClosed ==
  ASSUME TypeOK, [Next]_vars, NEW p \in Panes, pane[p] = "closed"
  PROVE  pane'[p] = "closed"
<1> USE DEF connVars, sharedVars, paneVars, xferVars
<1>1. ASSUME NEW q \in Panes, Close(q) PROVE pane'[p] = "closed"
  BY <1>1 DEF Close, TypeOK
<1>2. ASSUME NEW q \in Splits, SplitPane(q) PROVE pane'[p] = "closed"
  BY <1>2 DEF SplitPane, TypeOK
<1>3. \/ pane' = pane
      \/ \E q \in Panes : Close(q)
      \/ \E q \in Splits : SplitPane(q)
  BY DEF Next, vars, Task, Handshake, Advance, ConnectFails, SetConnected, TrySftp, FillSlot,
         ChannelEnds, ProbeFails, PrimaryDown, HandleClose, CloseSftp, Report, MonitorStep,
         MonitorCheck, MonitorExec, MonitorSleep, SetMonitor, AskKey, LinkLost, Answer, ShellExits,
         SplitEnds, SplitClose, StartTransfer, FinishTransfer, PauseTransfer, ResumeTransfer, SetXfer
<1> QED
  BY <1>1, <1>2, <1>3

\* A step handles a pane's Close, starts, ends, pauses or resumes a transfer, or leaves
\* transfers alone.
LEMMA TransferSteps ==
  ASSUME [Next]_vars
  PROVE  \/ UNCHANGED <<xfer, owner, drained>>
         \/ HandleClose \/ \E p \in Splits : SplitClose(p)
         \/ \E t \in Transfers :
              \/ \E p \in Panes : StartTransfer(t, p)
              \/ FinishTransfer(t) \/ PauseTransfer(t) \/ ResumeTransfer(t)
BY DEF Next, vars, connVars, sharedVars, paneVars, xferVars, Task, Handshake, Advance,
       ConnectFails, SetConnected, TrySftp, FillSlot, ChannelEnds, ProbeFails, PrimaryDown,
       CloseSftp, Report, MonitorStep, MonitorCheck, MonitorExec, MonitorSleep, SetMonitor,
       AskKey, LinkLost, Answer, Close, ShellExits, SplitPane, SplitEnds

\* What handling the Close of p does, whichever loop does it.
Drains(p) ==
  /\ pane[p] = "closed" /\ xfer' = AbortOwn(p) /\ drained' = drained \cup {p}
  /\ owner' = owner

\* It aborts every transfer of p and no other.
LEMMA DrainKeeps ==
  ASSUME TypeOK, TransfersDieWithClose, NEW p \in Panes, Drains(p)
  PROVE  TransfersDieWithClose'
<1>1. ASSUME NEW t \in Transfers, t \in Live' PROVE owner'[t] \notin drained'
  <2>1. t \in Live /\ owner[t] # p
    BY <1>1 DEF Drains, AbortOwn, Live, TypeOK
  <2> QED
    BY <2>1 DEF Drains, TransfersDieWithClose
<1>2. ASSUME NEW t \in Transfers, xfer'[t] = "aborted" PROVE owner'[t] \in drained'
  <2>1. xfer[t] = "aborted" \/ owner[t] = p
    BY <1>2 DEF Drains, AbortOwn, Live, TypeOK
  <2> QED
    BY <2>1 DEF Drains, TransfersDieWithClose
<1> QED
  BY <1>1, <1>2 DEF TransfersDieWithClose

\* Both facts about panes and transfers are kept by every step.
LEMMA TransfersStep ==
  ASSUME TypeOK, DrainedClosed, TransfersDieWithClose, [Next]_vars
  PROVE  DrainedClosed' /\ TransfersDieWithClose'
<1> USE DEF connVars, sharedVars, paneVars, xferVars
<1>1. ASSUME NEW p \in Panes, Drains(p) PROVE DrainedClosed' /\ TransfersDieWithClose'
  <2>1. TransfersDieWithClose'
    BY <1>1, DrainKeeps
  <2>2. ASSUME NEW q \in drained' PROVE pane'[q] = "closed"
    <3>1. q \in Panes /\ pane[q] = "closed"
      BY <1>1, <2>2 DEF Drains, DrainedClosed, TypeOK
    <3> QED
      BY <3>1, PanesStayClosed
  <2> QED
    BY <2>1, <2>2 DEF DrainedClosed
<1>2. ASSUME drained' = drained PROVE DrainedClosed'
  BY <1>2, PanesStayClosed DEF DrainedClosed, TypeOK
<1>3. CASE HandleClose
  <2>1. Primary \in Panes /\ Drains(Primary)
    BY <1>3 DEF HandleClose, Drains, Panes
  <2> QED
    BY <2>1, <1>1
<1>4. ASSUME NEW p \in Splits, SplitClose(p) PROVE DrainedClosed' /\ TransfersDieWithClose'
  <2>1. p \in Panes /\ Drains(p)
    BY <1>4 DEF SplitClose, Drains, Panes
  <2> QED
    BY <2>1, <1>1
<1>5. ASSUME NEW t \in Transfers, NEW p \in Panes, StartTransfer(t, p)
      PROVE  DrainedClosed' /\ TransfersDieWithClose'
  <2>1. drained' = drained /\ pane[p] = "open" /\ p \notin drained
    BY <1>5 DEF StartTransfer, SetXfer, DrainedClosed
  <2>2. \A u \in Transfers : u # t => xfer'[u] = xfer[u] /\ owner'[u] = owner[u]
    BY <1>5 DEF StartTransfer, SetXfer, TypeOK
  <2>3. xfer'[t] = "running" /\ owner'[t] = p
    BY <1>5 DEF StartTransfer, SetXfer, TypeOK
  <2>4. TransfersDieWithClose'
    BY <2>1, <2>2, <2>3 DEF TransfersDieWithClose, Live
  <2> QED
    BY <2>1, <2>4, <1>2
<1>6. ASSUME NEW t \in Transfers, FinishTransfer(t) \/ PauseTransfer(t) \/ ResumeTransfer(t)
      PROVE  DrainedClosed' /\ TransfersDieWithClose'
  <2>1. drained' = drained /\ owner' = owner /\ t \in Live /\ xfer'[t] # "aborted"
    BY <1>6 DEF FinishTransfer, PauseTransfer, ResumeTransfer, SetXfer, Live, TypeOK
  <2>2. \A u \in Transfers : u # t => xfer'[u] = xfer[u]
    BY <1>6 DEF FinishTransfer, PauseTransfer, ResumeTransfer, SetXfer, TypeOK
  <2>3. TransfersDieWithClose'
    BY <2>1, <2>2 DEF TransfersDieWithClose, Live
  <2> QED
    BY <2>1, <2>3, <1>2
<1>7. CASE UNCHANGED <<xfer, owner, drained>>
  <2>1. TransfersDieWithClose'
    BY <1>7 DEF TransfersDieWithClose, Live
  <2> QED
    BY <1>7, <2>1, <1>2
<1> QED
  BY <1>3, <1>4, <1>5, <1>6, <1>7, TransferSteps

\* Once the Close of a pane was handled, none of the transfers it tracked is under way,
\* and only those are aborted (SshBackend::transfer_tasks), however many panes share the
\* connection.
THEOREM ClosedPanesTransferNothing ==
  ASSUME SessionAssumption
  PROVE  Spec => []TransfersDieWithClose
<1>1. Init => TypeOK /\ DrainedClosed /\ TransfersDieWithClose
  BY TypeInit DEF Init, DrainedClosed, TransfersDieWithClose, Live
<1>2. TypeOK /\ DrainedClosed /\ TransfersDieWithClose /\ [Next]_vars
        => (TypeOK /\ DrainedClosed /\ TransfersDieWithClose)'
  BY TypeStep, TransfersStep
<1> QED
  BY <1>1, <1>2, PTL DEF Spec

-----------------------------------------------------------------------------
(* The backend of the first pane.                                          *)

\* A step of the connection leaves status and end as they are or is one of the backend's,
\* and keeps them in step with the task.
LEMMA BackendStep ==
  ASSUME SessionAssumption, TypeOK, InStep, [Next]_vars
  PROVE  InStep' /\ [Backend!Next]_<<status, said[Primary]>>
<1> USE DEF connVars, sharedVars, paneVars, xferVars
<1> DEFINE Same == UNCHANGED <<status, said[Primary]>>
<1>a. ASSUME step' = step, Same PROVE InStep' /\ [Backend!Next]_<<status, said[Primary]>>
  BY <1>a DEF InStep
<1>b. ASSUME step \in Stages, step' \in Stages, Same
      PROVE  InStep' /\ [Backend!Next]_<<status, said[Primary]>>
  BY <1>b DEF InStep, Stages
<1>0. Primary \in Panes /\ Primary \notin Splits
  BY DEF Panes, SessionAssumption
<1>1. CASE Handshake \/ Advance
  <2>1. step \in Stages /\ step' \in Stages /\ Same
    BY <1>1 DEF Handshake, Advance, Stages, After
  <2> QED
    BY <2>1, <1>b
<1>2. CASE ConnectFails
  <2>1. Backend!GoDown
    BY <1>2 DEF ConnectFails, InStep, Backend!GoDown
  <2>2. InStep'
    BY <1>2 DEF ConnectFails, InStep, Stages
  <2> QED
    BY <2>1, <2>2 DEF Backend!Next
<1>3. CASE SetConnected
  <2>1. Backend!Establish
    BY <1>3 DEF SetConnected, InStep, Stages, Backend!Establish
  <2>2. InStep'
    BY <1>3 DEF SetConnected, InStep, Stages
  <2> QED
    BY <2>1, <2>2 DEF Backend!Next
<1>4. CASE TrySftp \/ FillSlot \/ HandleClose
  <2>1. /\ step \in {"sftp", "slot", "loop", "closing"}
        /\ step' \in {"sftp", "slot", "loop", "closing"} /\ Same
    BY <1>4 DEF TrySftp, FillSlot, HandleClose
  <2> QED
    BY <2>1 DEF InStep, Stages
<1>5. CASE ChannelEnds \/ ProbeFails \/ CloseSftp
  <2>1. step \in {"loop", "closing"} /\ step' = "lost" /\ status' = "Disconnected" /\ said' = said
    BY <1>5 DEF ChannelEnds, ProbeFails, CloseSftp, PrimaryDown
  <2>2. Backend!GoDown
    BY <2>1 DEF InStep, Backend!GoDown
  <2>3. InStep'
    BY <2>1 DEF InStep, Stages
  <2> QED
    BY <2>2, <2>3 DEF Backend!Next
<1>6. CASE Report
  <2>1. /\ step \in {"failed", "lost"} /\ step' = "ended" /\ status' = status
        /\ said'[Primary] \in {"Error", "Closed"}
    BY <1>6, <1>0 DEF Report, TypeOK
  <2>2. Backend!Report
    BY <2>1 DEF InStep, Backend!Report
  <2>3. InStep'
    BY <2>1 DEF InStep, Stages
  <2> QED
    BY <2>2, <2>3 DEF Backend!Next
<1>7. CASE MonitorStep \/ AskKey \/ LinkLost \/ \E accept \in BOOLEAN : Answer(accept)
  <2>1. step' = step /\ Same
    BY <1>7 DEF MonitorStep, MonitorCheck, MonitorExec, MonitorSleep, SetMonitor, AskKey,
                LinkLost, Answer
  <2> QED
    BY <2>1, <1>a
<1>8. CASE \/ \E p \in Panes : Close(p) \/ ShellExits(p)
           \/ \E p \in Splits : SplitPane(p) \/ SplitEnds(p) \/ SplitClose(p)
  <2>1. step' = step /\ Same
    BY <1>8, <1>0 DEF Close, ShellExits, SplitPane, SplitEnds, SplitClose, TypeOK
  <2> QED
    BY <2>1, <1>a
<1>9. CASE \E t \in Transfers :
             \/ \E p \in Panes : StartTransfer(t, p)
             \/ FinishTransfer(t) \/ PauseTransfer(t) \/ ResumeTransfer(t)
  <2>1. step' = step /\ Same
    BY <1>9 DEF StartTransfer, FinishTransfer, PauseTransfer, ResumeTransfer, SetXfer
  <2> QED
    BY <2>1, <1>a
<1>10. CASE UNCHANGED vars
  <2>1. step' = step /\ Same
    BY <1>10 DEF vars
  <2> QED
    BY <2>1, <1>a
<1> QED
  BY <1>1, <1>2, <1>3, <1>4, <1>5, <1>6, <1>7, <1>8, <1>9, <1>10 DEF Next, Task

\* The safety part of the refinement: whatever ends it, the first pane of a connection goes
\* through the states of the backend its view relies on, status first, then one final event.
THEOREM FirstPaneIsBackend == ASSUME SessionAssumption PROVE Spec => ImplementsBackend
<1>1. Init => TypeOK /\ InStep /\ Backend!Init
  BY TypeInit DEF Init, InStep, Stages, Backend!Init, Panes
<1>2. TypeOK /\ InStep /\ [Next]_vars
        => (TypeOK /\ InStep)' /\ [Backend!Next]_<<status, said[Primary]>>
  BY TypeStep, BackendStep
<1> QED
  BY <1>1, <1>2, PTL DEF Spec, ImplementsBackend

-----------------------------------------------------------------------------
(* The SFTP tasks of a connection (SftpSession): their plans.              *)

\* The steps of a plan.
Steps == Sftp!SftpSteps \cup Sftp!ExecSteps \cup {"watch", "drain"}

\* Steps after which a temporary file may be on the remote, and steps that
\* read or remove it.
Leaves == {"pack", "tar", "size", "pull", "fetch", "push", "store"}
Uses == {"size", "pull", "fetch", "rm", "unpack", "untar", "extract"}

\* What leaves a file is followed by what goes on with it.
Follows(plan) ==
  \A i \in 1..Len(plan) : plan[i] \in Leaves => i + 1 \in 1..Len(plan) /\ plan[i + 1] \in Uses

\* The empty plan is a plan.
LEMMA EmptyPlan == <<>> \in Seq(Steps) /\ Follows(<<>>)
  BY DEF Follows

\* A plan with a first step is not empty.
LEMMA NonEmpty == ASSUME NEW T, NEW p \in Seq(T), 1 \in 1..Len(p) PROVE p # <<>>
  BY EmptySeq

\* Two plans put one after the other are a plan.
LEMMA ConcatPlan ==
  ASSUME NEW p \in Seq(Steps), NEW q \in Seq(Steps), Follows(p), Follows(q)
  PROVE  p \o q \in Seq(Steps) /\ Follows(p \o q)
<1>1. /\ p \o q \in Seq(Steps) /\ Len(p \o q) = Len(p) + Len(q)
      /\ Len(p) \in Nat /\ Len(q) \in Nat
      /\ \A i \in 1..Len(p) : (p \o q)[i] = p[i]
      /\ \A i \in 1..Len(q) : (p \o q)[Len(p) + i] = q[i]
  BY ConcatProperties
<1>2. ASSUME NEW i \in 1..Len(p), p[i] \in Leaves
      PROVE  i + 1 \in 1..Len(p) + Len(q) /\ (p \o q)[i + 1] \in Uses
  BY <1>1, <1>2 DEF Follows
<1>3. ASSUME NEW i \in 1..Len(q), q[i] \in Leaves
      PROVE  /\ Len(p) + i + 1 \in 1..Len(p) + Len(q)
             /\ (p \o q)[Len(p) + i + 1] \in Uses
  <2>1. i + 1 \in 1..Len(q) /\ q[i + 1] \in Uses
    BY <1>3 DEF Follows
  <2>2. Len(p) + (i + 1) = Len(p) + i + 1
    BY <1>1
  <2> QED
    BY <1>1, <2>1, <2>2
<1>4. ASSUME NEW i \in 1..Len(p) + Len(q), (p \o q)[i] \in Leaves
      PROVE  i + 1 \in 1..Len(p) + Len(q) /\ (p \o q)[i + 1] \in Uses
  <2>1. CASE i \in 1..Len(p)
    BY <1>1, <1>2, <1>4, <2>1
  <2>2. CASE i \notin 1..Len(p)
    <3> DEFINE j == i - Len(p)
    <3>1. j \in 1..Len(q) /\ i = Len(p) + j
      BY <1>1, <2>2
    <3>2. q[j] \in Leaves
      BY <1>1, <1>4, <3>1
    <3> QED
      BY <1>3, <3>1, <3>2
  <2> QED
    BY <2>1, <2>2
<1> QED
  BY <1>1, <1>4 DEF Follows

\* So is what is left of a plan after its first steps.
LEMMA RestOfPlan ==
  ASSUME NEW p \in Seq(Steps), Follows(p), NEW m \in 1..5
  PROVE  SubSeq(p, m, Len(p)) \in Seq(Steps) /\ Follows(SubSeq(p, m, Len(p)))
<1> DEFINE q == SubSeq(p, m, Len(p))
<1>1. Len(p) \in Nat /\ \A i \in m..Len(p) : p[i] \in Steps
  BY LenProperties, ElementOfSeq
<1>2. /\ q \in Seq(Steps) /\ Len(q) = IF m <= Len(p) THEN Len(p) - m + 1 ELSE 0
      /\ \A i \in 1..Len(p) - m + 1 : q[i] = p[m + i - 1]
  BY <1>1, SubSeqProperties
<1>3. ASSUME NEW i \in 1..Len(q), q[i] \in Leaves
      PROVE  i + 1 \in 1..Len(q) /\ q[i + 1] \in Uses
  <2>1. i \in 1..Len(p) - m + 1 /\ m + i - 1 \in 1..Len(p) /\ Len(q) = Len(p) - m + 1
    BY <1>1, <1>2
  <2>2. p[m + i - 1] \in Leaves
    BY <1>2, <1>3, <2>1
  <2>3. m + i \in 1..Len(p) /\ p[m + i] \in Uses
    BY <2>1, <2>2 DEF Follows
  <2>4. i + 1 \in 1..Len(p) - m + 1 /\ m + (i + 1) - 1 = m + i
    BY <1>1, <2>1, <2>3
  <2> QED
    BY <1>2, <2>1, <2>3, <2>4
<1> QED
  BY <1>2, <1>3 DEF Follows

\* The step at the head of a plan, and the plan after it.
LEMMA HeadAndTail ==
  ASSUME NEW p \in Seq(Steps), Follows(p), p # <<>>
  PROVE  /\ Head(p) \in Steps /\ Tail(p) \in Seq(Steps) /\ Follows(Tail(p))
         /\ Head(p) \in Leaves => Tail(p) # <<>> /\ Head(Tail(p)) \in Uses
<1>1. /\ Head(p) \in Steps /\ Tail(p) \in Seq(Steps) /\ Len(Tail(p)) = Len(p) - 1
      /\ \A i \in 1..Len(Tail(p)) : Tail(p)[i] = p[i + 1]
  BY HeadTailProperties
<1>4. Len(p) \in Nat \ {0} /\ Head(p) = p[1]
  BY EmptySeq
<1>2. Follows(Tail(p))
  <2>1. ASSUME NEW i \in 1..Len(Tail(p)), Tail(p)[i] \in Leaves
        PROVE  i + 1 \in 1..Len(Tail(p)) /\ Tail(p)[i + 1] \in Uses
    <3>1. i + 1 \in 1..Len(p) /\ p[i + 1] \in Leaves
      BY <1>1, <1>4, <2>1
    <3>2. i + 1 + 1 \in 1..Len(p) /\ p[i + 1 + 1] \in Uses
      BY <3>1 DEF Follows
    <3> QED
      BY <1>1, <1>4, <3>2
  <2> QED
    BY <2>1 DEF Follows
<1>3. ASSUME Head(p) \in Leaves PROVE Tail(p) # <<>> /\ Head(Tail(p)) \in Uses
  <2>1. 2 \in 1..Len(p) /\ p[2] \in Uses
    BY <1>4, <1>3 DEF Follows
  <2>2. 1 \in 1..Len(Tail(p)) /\ Tail(p)[1] = p[2]
    BY <1>4, <1>1, <2>1
  <2>3. Tail(p) # <<>>
    BY <1>1, <2>2, NonEmpty
  <2> QED
    BY <1>1, <2>1, <2>2, <2>3
<1> QED
  BY <1>1, <1>2, <1>3

\* The plans there are.
LEMMA PlansFollow ==
  \A p \in {Sftp!DownloadFile, Sftp!DownloadDir, Sftp!UploadFile, Sftp!UploadDir,
            <<"goto">>, <<"stat">>, <<"which">>, <<"rename">>, <<"mkdir">>, <<"stat", "watch">>,
            <<"start", "drain">>, <<"delete">>, <<"rmdir">>, <<"store", "extract">>, <<"list">>, <<"mkdirs">>,
            <<"list", "delete">>, <<"watch">>} :
    p \in Seq(Steps) /\ p # <<>> /\ Follows(p)
<1> USE DEF Steps, Sftp!SftpSteps, Sftp!ExecSteps, Leaves, Uses, Follows
<1>1. Sftp!DownloadFile \in Seq(Steps) /\ Sftp!DownloadFile # <<>> /\ Follows(Sftp!DownloadFile)
  BY DEF Sftp!DownloadFile
<1>2. Sftp!DownloadDir \in Seq(Steps) /\ Sftp!DownloadDir # <<>> /\ Follows(Sftp!DownloadDir)
  BY DEF Sftp!DownloadDir
<1>3. Sftp!UploadFile \in Seq(Steps) /\ Sftp!UploadFile # <<>> /\ Follows(Sftp!UploadFile)
  BY DEF Sftp!UploadFile
<1>4. Sftp!UploadDir \in Seq(Steps) /\ Sftp!UploadDir # <<>> /\ Follows(Sftp!UploadDir)
  BY DEF Sftp!UploadDir
<1>5. \A s \in Steps \ Leaves : <<s>> \in Seq(Steps) /\ Len(<<s>>) = 1 /\ Follows(<<s>>)
  OBVIOUS
<1>6. \A p \in {<<"stat", "watch">>, <<"start", "drain">>, <<"store", "extract">>,
                  <<"list", "delete">>} :
        p \in Seq(Steps) /\ p # <<>> /\ Follows(p)
  <2>1. /\ <<"stat", "watch">> \in Seq(Steps) /\ <<"stat", "watch">> # <<>>
        /\ Follows(<<"stat", "watch">>)
    OBVIOUS
  <2>2. /\ <<"start", "drain">> \in Seq(Steps) /\ <<"start", "drain">> # <<>>
        /\ Follows(<<"start", "drain">>)
    OBVIOUS
  <2>3. /\ <<"store", "extract">> \in Seq(Steps) /\ <<"store", "extract">> # <<>>
        /\ Follows(<<"store", "extract">>)
    OBVIOUS
  <2>4. /\ <<"list", "delete">> \in Seq(Steps) /\ <<"list", "delete">> # <<>>
        /\ Follows(<<"list", "delete">>)
    OBVIOUS
  <2> QED
    BY <2>1, <2>2, <2>3, <2>4
<1>7. \A s \in {"goto", "stat", "which", "rename", "mkdir", "delete", "rmdir", "list", "mkdirs",
                "watch"} :
        <<s>> \in Seq(Steps) /\ <<s>> # <<>> /\ Follows(<<s>>)
  BY <1>5
<1>8. \A p \in {Sftp!DownloadFile, Sftp!DownloadDir, Sftp!UploadFile, Sftp!UploadDir} :
        p \in Seq(Steps) /\ p # <<>> /\ Follows(p)
  BY <1>1, <1>2, <1>3, <1>4
<1> HIDE DEF Steps, Sftp!SftpSteps, Sftp!ExecSteps, Leaves, Uses, Follows
<1> QED
  BY <1>6, <1>7, <1>8

-----------------------------------------------------------------------------
(* A task.                                                                 *)

\* The kinds of task, where one has a session, where one is at work, and the numbers
\* of the sessions.
Kinds == {"navigate", "download", "upload", "batch", "delete", "rename", "mkdir", "edit",
          "capture"}
Holding == {"hold", "entries", "cwd", "park"}
Working == Holding \cup {"run", "open", "exec"}
Numbers == 1..(Cardinality(Tasks) + 1)

TaskRecord ==
  [kind : Kinds \cup {NoOne}, plan : Seq(Steps),
   pc : Working \cup {"new", "done", "aborted"},
   sess : Numbers \cup {0}, tmp : BOOLEAN, path : Paths \cup {NoOne}, saves : 0..MaxSaves,
   result : {NoOne, "ok", "error", "cancelled"}, at : Steps \cup {NoOne}]

\* A task is at the step its counter says, holds a session exactly while it works with
\* one, and on a live connection a temporary file of its own is about to be used, or is
\* what a failure or an abort left.
HeadFits(r) ==
  /\ r.pc \in Working => r.plan # <<>>
  /\ r.pc \in {"open", "hold"} => Head(r.plan) \in Sftp!SftpSteps
  /\ r.pc \in {"entries", "cwd", "park"} => Head(r.plan) = "goto"
  /\ r.pc = "exec" => Head(r.plan) \in Sftp!ExecSteps

Staged(r) ==
  r.tmp => \/ r.pc = "aborted"
           \/ r.pc \in Working /\ Head(r.plan) \in Uses
           \/ r.pc = "done" /\ r.result \in {"error", "cancelled"} /\ r.at \in Leaves

Fine(r, live) ==
  /\ r \in TaskRecord /\ HeadFits(r) /\ Follows(r.plan)
  /\ r.pc \in Holding <=> r.sess # 0
  /\ live => Staged(r)

\* What a task is when it goes on with another plan.
LEMMA ProceedIs ==
  ASSUME NEW r \in TaskRecord, NEW q \in Seq(Steps), Follows(q)
  PROVE  /\ Sftp!Proceed(r, q) \in TaskRecord
         /\ Sftp!Proceed(r, q).plan = q /\ Sftp!Proceed(r, q).sess = 0
         /\ Sftp!Proceed(r, q).tmp = r.tmp /\ Sftp!Proceed(r, q).kind = r.kind
         /\ q = <<>> => Sftp!Proceed(r, q).pc = "done" /\ Sftp!Proceed(r, q).result = "ok"
         /\ q # <<>> => Sftp!Proceed(r, q).pc = "run"
<1>1. CASE q = <<>>
  BY <1>1 DEF Sftp!Proceed, TaskRecord
<1>2. CASE q # <<>>
  BY <1>2 DEF Sftp!Proceed, TaskRecord, Working
<1> QED
  BY <1>1, <1>2

\* A task that goes on is fine, if what it left is used next.
LEMMA ProceedFine ==
  ASSUME NEW r \in TaskRecord, NEW q \in Seq(Steps), Follows(q), NEW live \in BOOLEAN,
         NEW tmp \in BOOLEAN, live /\ tmp => q # <<>> /\ Head(q) \in Uses
  PROVE  /\ Fine(Sftp!ProceedWith(r, q, tmp), live)
         /\ Sftp!ProceedWith(r, q, tmp).sess = 0 /\ Sftp!ProceedWith(r, q, tmp).kind = r.kind
         /\ tmp = r.tmp => Sftp!ProceedWith(r, q, tmp) = Sftp!Proceed(r, q)
<1> DEFINE p == Sftp!Proceed(r, q)
           n == Sftp!ProceedWith(r, q, tmp)
<1>1. /\ p \in TaskRecord /\ p.plan = q /\ p.sess = 0 /\ p.tmp = r.tmp /\ p.kind = r.kind
      /\ q = <<>> => p.pc = "done" /\ p.result = "ok"
      /\ q # <<>> => p.pc = "run"
  BY ProceedIs
<1>7. n = [p EXCEPT !.tmp = tmp]
  BY DEF Sftp!ProceedWith
<1> HIDE DEF p, n
<1>2. /\ n \in TaskRecord /\ n.plan = q /\ n.sess = 0
      /\ n.pc = p.pc /\ n.tmp = tmp /\ n.kind = r.kind
  BY <1>1, <1>7 DEF TaskRecord
<1>3. tmp = r.tmp => n = p
  BY <1>1, <1>7 DEF TaskRecord
<1>4. HeadFits(n)
  BY <1>1, <1>2 DEF HeadFits, Working, Holding
<1>5. live => Staged(n)
  BY <1>1, <1>2 DEF Staged, Working
<1>6. Fine(n, live)
  BY <1>1, <1>2, <1>4, <1>5 DEF Fine, Holding
<1> QED
  BY <1>2, <1>3, <1>6 DEF n, p

\* The same, of a task whose step leaves no file.
LEMMA PlainFine ==
  ASSUME NEW r \in TaskRecord, NEW q \in Seq(Steps), Follows(q), NEW live \in BOOLEAN,
         live /\ r.tmp => q # <<>> /\ Head(q) \in Uses
  PROVE  /\ Fine(Sftp!Proceed(r, q), live)
         /\ Sftp!Proceed(r, q).sess = 0 /\ Sftp!Proceed(r, q).kind = r.kind
<1>1. r.tmp \in BOOLEAN
  BY DEF TaskRecord
<1> DEFINE n == Sftp!ProceedWith(r, q, r.tmp)
<1>2. Fine(n, live) /\ n.sess = 0 /\ n.kind = r.kind /\ n = Sftp!Proceed(r, q)
  BY <1>1, ProceedFine
<1> QED
  BY <1>2

\* A task that fails or is cancelled leaves a file only at a step that makes one.
LEMMA FailFine ==
  ASSUME NEW r \in TaskRecord, r.plan # <<>>, NEW result \in {"error", "cancelled"},
         NEW live \in BOOLEAN, NEW tmp \in BOOLEAN, live /\ tmp => Head(r.plan) \in Leaves
  PROVE  /\ Fine(Sftp!Fail(r, result, tmp), live)
         /\ Sftp!Fail(r, result, tmp).sess = 0 /\ Sftp!Fail(r, result, tmp).kind = r.kind
<1> DEFINE n == Sftp!Fail(r, result, tmp)
<1>1. Head(r.plan) \in Steps
  BY HeadTailProperties DEF TaskRecord
<1>2. <<"watch">> \in Seq(Steps) /\ <<"watch">> # <<>> /\ Follows(<<"watch">>)
  BY PlansFollow
<1>3. CASE r.kind = "edit" /\ r.saves > 0
  <2>1. /\ n \in TaskRecord /\ n.plan = <<"watch">> /\ n.pc = "run" /\ n.sess = 0
        /\ n.tmp = FALSE /\ n.kind = r.kind
    BY <1>2, <1>3 DEF Sftp!Fail, TaskRecord, Working
  <2> QED
    BY <1>2, <2>1 DEF Fine, HeadFits, Staged, Holding, Working
<1>4. CASE ~(r.kind = "edit" /\ r.saves > 0)
  <2>1. /\ n \in TaskRecord /\ n.plan = <<>> /\ n.pc = "done" /\ n.sess = 0
        /\ n.tmp = tmp /\ n.result = result /\ n.at = Head(r.plan) /\ n.kind = r.kind
    BY <1>1, <1>4, EmptyPlan DEF Sftp!Fail, TaskRecord
  <2> QED
    BY <2>1, EmptyPlan DEF Fine, HeadFits, Staged, Holding, Working
<1> QED
  BY <1>3, <1>4

\* What is found and what is done instead can be put before any plan.
LEMMA MoreFollows ==
  ASSUME NEW what, NEW stage \in Steps,
         NEW more \in Sftp!Found(what, stage) \cup Sftp!Fallback(stage)
  PROVE  /\ more \in Seq(Steps) /\ Follows(more)
         /\ more # <<>> /\ more \in Sftp!Found(what, stage)
              => stage \in {"stat", "list", "mkdirs", "which"}
<1>1. more \in {<<>>, Sftp!DownloadFile, Sftp!DownloadDir, Sftp!UploadFile,
                <<"delete">>, <<"rmdir">>, <<"store", "extract">>, <<"list">>,
                <<"mkdirs">>, <<"list", "delete">>}
  BY DEF Sftp!Found, Sftp!Fallback
<1>2. more \in Seq(Steps) /\ Follows(more)
  BY <1>1, EmptyPlan, PlansFollow
<1>3. more # <<>> /\ more \in Sftp!Found(what, stage)
        => stage \in {"stat", "list", "mkdirs", "which"}
  BY DEF Sftp!Found
<1> QED
  BY <1>2, <1>3

-----------------------------------------------------------------------------
(* Who has which session.                                                  *)

\* Every open session is the parked one or that of one task.
Held ==
  /\ sessions \subseteq Numbers /\ cache \in sessions \cup {0}
  /\ \A t \in Tasks : task[t].sess # 0 => task[t].sess \in sessions /\ task[t].sess # cache
  /\ \A t, u \in Tasks : task[t].sess # 0 /\ task[t].sess = task[u].sess => t = u
  /\ \A s \in sessions : s = cache \/ \E t \in Tasks : task[t].sess = s

\* Nobody else takes or gives up a session.
Others(t) == \A u \in Tasks \ {t} : task'[u].sess = task[u].sess

\* Cardinality is the same seen from both modules.
LEMMA SameCardinality == \A S : Sftp!Cardinality(S) = Cardinality(S)
  BY DEF Sftp!Cardinality, Cardinality

\* There is a number for each task and one more, and 0 is none of them.
LEMMA TasksFinite ==
  ASSUME Sftp!SftpAssumption
  PROVE  /\ IsFiniteSet(Tasks) /\ Cardinality(Tasks) \in Nat
         /\ Sftp!Cardinality(Tasks) = Cardinality(Tasks)
         /\ 0 \notin Numbers /\ 1 \in Numbers
<1>1. Sftp!IsFiniteSet(Tasks) = IsFiniteSet(Tasks)
  BY DEF Sftp!IsFiniteSet, IsFiniteSet
<1>2. Sftp!Cardinality(Tasks) = Cardinality(Tasks)
  BY SameCardinality
<1>3. IsFiniteSet(Tasks) /\ Cardinality(Tasks) \in Nat
  BY <1>1, FS_CardinalityType DEF Sftp!SftpAssumption
<1> QED
  BY <1>2, <1>3 DEF Numbers

\* There is a number for another session while one task has none.
LEMMA FreshIsNew ==
  ASSUME Sftp!SftpAssumption, Held, NEW t \in Tasks, task[t].sess = 0
  PROVE  Sftp!Fresh \in Numbers \ sessions
<1> DEFINE f == [s \in Numbers |-> IF s = cache THEN t
                                   ELSE CHOOSE u \in Tasks : task[u].sess = s]
<1>1. IsFiniteSet(Tasks) /\ Cardinality(Tasks) \in Nat
  BY TasksFinite
<1>2. IsFiniteSet(Numbers) /\ Cardinality(Numbers) = Cardinality(Tasks) + 1
  BY <1>1, FS_Interval DEF Numbers
<1>3. ASSUME Numbers \subseteq sessions PROVE FALSE
  <2>1. \A s \in Numbers \ {cache} : f[s] \in Tasks /\ task[f[s]].sess = s
    BY <1>3 DEF Held
  <2>2. f \in [Numbers -> Tasks] /\ \A s \in Numbers \cap {cache} : f[s] = t
    BY <2>1
  <2> HIDE DEF f
  <2>3. PICK r, s \in Numbers : r # s /\ f[r] = f[s]
    BY <1>1, <1>2, <2>2, FS_PigeonHole
  <2>4. 0 \notin Numbers
    BY <1>1 DEF Numbers
  <2> QED
    BY <2>1, <2>2, <2>3, <2>4
<1> QED
  BY <1>3, TasksFinite DEF Sftp!Fresh, Numbers

\* The five things that can happen to a session.
LEMMA Untouched ==
  ASSUME Held, UNCHANGED <<cache, sessions>>, \A t \in Tasks : task'[t].sess = task[t].sess
  PROVE  Held'
BY DEF Held

LEMMA Borrowed ==
  ASSUME Held, NEW t \in Tasks, Others(t), task[t].sess = 0, task'[t].sess = cache, cache' = 0,
         sessions' = sessions, 0 \notin Numbers
  PROVE  Held'
BY DEF Held, Others

LEMMA Opened ==
  ASSUME Held, NEW t \in Tasks, Others(t), task[t].sess = 0, Sftp!Fresh \in Numbers \ sessions,
         task'[t].sess = Sftp!Fresh, cache' = cache, sessions' = sessions \cup {Sftp!Fresh},
         0 \notin Numbers
  PROVE  Held'
<1> DEFINE s == Sftp!Fresh
<1> HIDE DEF s
<1>1. s \in Numbers \ sessions /\ task'[t].sess = s /\ sessions' = sessions \cup {s}
  BY DEF s
<1> QED
  BY <1>1 DEF Held, Others

LEMMA Parked ==
  ASSUME Held, NEW t \in Tasks, Others(t), task[t].sess # 0, task'[t].sess = 0,
         cache' = task[t].sess, sessions' = sessions \ {cache}
  PROVE  Held'
BY DEF Held, Others

LEMMA Closed ==
  ASSUME Held, NEW t \in Tasks, Others(t), task[t].sess # 0, task'[t].sess = 0,
         cache' = cache, sessions' = sessions \ {task[t].sess}
  PROVE  Held'
BY DEF Held, Others

\* What is held is accounted for.
LEMMA HeldIsAccounted ==
  ASSUME Sftp!SftpAssumption, Held PROVE Sftp!SessionsAccounted
<1>1. 0 \notin sessions
  BY TasksFinite DEF Held
<1>2. ASSUME NEW s \in sessions
      PROVE  Sftp!Cardinality(Sftp!Holders(s)) + (IF cache = s THEN 1 ELSE 0) = 1
  <2>1. CASE cache = s
    <3>1. Sftp!Holders(s) = {}
      BY <1>1, <2>1 DEF Held, Sftp!Holders
    <3> QED
      BY <2>1, <3>1, FS_EmptySet, SameCardinality
  <2>2. CASE cache # s
    <3>1. PICK t \in Tasks : task[t].sess = s
      BY <2>2 DEF Held
    <3>2. Sftp!Holders(s) = {t}
      BY <1>1, <3>1 DEF Held, Sftp!Holders
    <3>3. Cardinality({t}) = 1
      BY FS_Singleton
    <3> QED
      BY <2>2, <3>2, <3>3, SameCardinality
  <2> QED
    BY <2>1, <2>2
<1> QED
  BY <1>2 DEF Sftp!SessionsAccounted, Held

-----------------------------------------------------------------------------
(* The invariant.                                                          *)

AllFine == task \in [Tasks -> TaskRecord] /\ \A t \in Tasks : Fine(task[t], up)
KindsKept == \A t \in Tasks : task[t].kind \in KindsOf[t] \cup {NoOne}
Rest ==
  /\ lock \in Tasks \cup {NoOne}
  /\ entries \in Paths \cup {NoOne, "home"} /\ cwd \in Paths \cup {NoOne, "home"}
  /\ backend \in {"up", "draining", "closed"} /\ up \in BOOLEAN

SftpInv == AllFine /\ KindsKept /\ Held /\ Rest

\* A step of one task.
LEMMA OneTask ==
  ASSUME SftpInv, NEW t \in Tasks, NEW r, task' = [task EXCEPT ![t] = r], Fine(r, up),
         up' = up, r.kind = task[t].kind \/ r.kind \in KindsOf[t], Rest',
         task'[t].sess = r.sess /\ Others(t) => Held'
  PROVE  SftpInv'
<1>1. task' \in [Tasks -> TaskRecord] /\ task'[t] = r /\ \A u \in Tasks \ {t} : task'[u] = task[u]
  BY DEF SftpInv, AllFine, Fine
<1>2. AllFine'
  BY <1>1 DEF SftpInv, AllFine
<1>3. KindsKept'
  BY <1>1 DEF SftpInv, KindsKept
<1>4. Held'
  BY <1>1 DEF Others
<1> QED
  BY <1>2, <1>3, <1>4 DEF SftpInv

\* A working task at another point of the same step, with or without a session.
Moved(r, pc, s) == [r EXCEPT !.pc = pc, !.sess = s]

\* It stays fine, if the point is one of that step.
LEMMA MoveFine ==
  ASSUME NEW live, NEW r, Fine(r, live), r.pc \in Working, NEW pc \in Working,
         NEW s \in Numbers \cup {0}, pc \in Holding <=> s # 0,
         pc \in {"open", "hold"} => Head(r.plan) \in Sftp!SftpSteps,
         pc \in {"entries", "cwd", "park"} => Head(r.plan) = "goto",
         pc = "exec" => Head(r.plan) \in Sftp!ExecSteps
  PROVE  /\ Fine(Moved(r, pc, s), live)
         /\ Moved(r, pc, s).sess = s /\ Moved(r, pc, s).kind = r.kind
         /\ s = r.sess => Moved(r, pc, s) = [r EXCEPT !.pc = pc]
<1> DEFINE n == Moved(r, pc, s)
<1>1. /\ n \in TaskRecord /\ n.pc = pc /\ n.sess = s /\ n.plan = r.plan /\ n.tmp = r.tmp
      /\ n.kind = r.kind
      /\ s = r.sess => n = [r EXCEPT !.pc = pc]
  BY DEF Fine, TaskRecord, Moved
<1> HIDE DEF n
<1>2. HeadFits(n)
  BY <1>1 DEF Fine, HeadFits
<1>3. live => Staged(n)
  BY <1>1 DEF Fine, Staged, Working, Holding
<1>4. Fine(n, live)
  BY <1>1, <1>2, <1>3 DEF Fine
<1> QED
  BY <1>1, <1>4 DEF n

\* Before any task: no session, and every task still to come.
LEMMA InitHolds == ASSUME Sftp!SftpAssumption, Sftp!Init PROVE SftpInv
<1>1. Cardinality(Tasks) \in Nat /\ 1 \in Numbers /\ 0 \notin Numbers
  BY TasksFinite
<1>2. /\ Sftp!Idle \in TaskRecord /\ Fine(Sftp!Idle, up)
      /\ Sftp!Idle.sess = 0 /\ Sftp!Idle.kind = NoOne
  BY EmptyPlan DEF Sftp!Idle, TaskRecord, Fine, HeadFits, Staged, Working, Holding,
                   Sftp!SftpAssumption
<1>3. AllFine /\ KindsKept
  BY <1>2 DEF Sftp!Init, AllFine, KindsKept
<1>4. Held
  BY <1>1, <1>2 DEF Sftp!Init, Held
<1>5. Rest
  BY DEF Sftp!Init, Rest
<1> QED
  BY <1>3, <1>4, <1>5 DEF SftpInv

\* What is known of a task that is at work.
LEMMA AtWork ==
  ASSUME SftpInv, NEW t \in Tasks, task[t].pc \in Working
  PROVE  /\ task[t] \in TaskRecord /\ Fine(task[t], up) /\ up \in BOOLEAN
         /\ task[t].plan \in Seq(Steps) /\ task[t].plan # <<>> /\ Follows(task[t].plan)
         /\ Sftp!Next1(t) \in Steps /\ Tail(task[t].plan) \in Seq(Steps)
         /\ Follows(Tail(task[t].plan))
         /\ Sftp!Next1(t) \in Leaves => /\ Tail(task[t].plan) # <<>>
                                   /\ Head(Tail(task[t].plan)) \in Uses
         /\ up /\ task[t].tmp => Sftp!Next1(t) \in Uses
         /\ task[t].tmp \in BOOLEAN
<1>1. task[t] \in TaskRecord /\ Fine(task[t], up) /\ up \in BOOLEAN
  BY DEF SftpInv, AllFine, Rest
<1>2. /\ task[t].plan \in Seq(Steps) /\ task[t].plan # <<>> /\ Follows(task[t].plan)
      /\ task[t].tmp \in BOOLEAN
  BY <1>1 DEF Fine, HeadFits, TaskRecord
<1>3. up /\ task[t].tmp => Sftp!Next1(t) \in Uses
  BY <1>1 DEF Fine, Staged, Sftp!Next1, Working, Holding
<1> QED
  BY <1>1, <1>2, <1>3, HeadAndTail DEF Sftp!Next1

\* A task at work that goes on, leaving what is used next or nothing, or that stops, leaving
\* something only at a step that makes it, is fine afterwards.
LEMMA GoingOnFine ==
  ASSUME SftpInv, NEW t \in Tasks, task[t].pc \in Working, NEW q \in Seq(Steps), Follows(q),
         NEW tmp \in BOOLEAN, up /\ tmp => q # <<>> /\ Head(q) \in Uses
  PROVE  /\ Fine(Sftp!ProceedWith(task[t], q, tmp), up)
         /\ Sftp!ProceedWith(task[t], q, tmp).sess = 0
         /\ Sftp!ProceedWith(task[t], q, tmp).kind = task[t].kind
<1>1. task[t] \in TaskRecord /\ up \in BOOLEAN
  BY AtWork
<1> QED
  BY <1>1, ProceedFine

LEMMA GoingPlainFine ==
  ASSUME SftpInv, NEW t \in Tasks, task[t].pc \in Working, NEW q \in Seq(Steps), Follows(q),
         ~(up /\ task[t].tmp)
  PROVE  /\ Fine(Sftp!Proceed(task[t], q), up)
         /\ Sftp!Proceed(task[t], q).sess = 0 /\ Sftp!Proceed(task[t], q).kind = task[t].kind
<1>1. task[t] \in TaskRecord /\ up \in BOOLEAN
  BY AtWork
<1> QED
  BY <1>1, PlainFine

LEMMA StoppingFine ==
  ASSUME SftpInv, NEW t \in Tasks, task[t].pc \in Working,
         NEW result \in {"error", "cancelled"}, NEW tmp \in BOOLEAN,
         up /\ tmp => Sftp!Next1(t) \in Leaves
  PROVE  /\ Fine(Sftp!Fail(task[t], result, tmp), up)
         /\ Sftp!Fail(task[t], result, tmp).sess = 0
         /\ Sftp!Fail(task[t], result, tmp).kind = task[t].kind
<1>1. task[t] \in TaskRecord /\ task[t].plan # <<>> /\ up \in BOOLEAN
  BY AtWork
<1> QED
  BY <1>1, FailFine DEF Sftp!Next1

-----------------------------------------------------------------------------
(* The steps.                                                              *)

\* A command of the view starts a task.
LEMMA StartStep ==
  ASSUME Sftp!SftpAssumption, SftpInv, NEW t \in Tasks, Sftp!Start(t)
  PROVE  SftpInv'
<1>0. PICK what \in KindsOf[t] :
        \E plan \in Sftp!Plans(what) : \E path \in IF what = "navigate" THEN Paths ELSE {NoOne} :
          task' = [task EXCEPT ![t] = [Sftp!Idle EXCEPT !.kind = what, !.plan = plan,
                                                   !.pc = "run", !.path = path]]
  BY DEF Sftp!Start
<1>1. PICK plan \in Sftp!Plans(what), path \in IF what = "navigate" THEN Paths ELSE {NoOne} :
        task' = [task EXCEPT ![t] = [Sftp!Idle EXCEPT !.kind = what, !.plan = plan,
                                                 !.pc = "run", !.path = path]]
  BY <1>0
<1> DEFINE r == [Sftp!Idle EXCEPT !.kind = what, !.plan = plan, !.pc = "run", !.path = path]
<1>2. what \in Kinds
  BY DEF Sftp!SftpAssumption, Kinds
<1>3. plan \in {Sftp!DownloadFile, Sftp!DownloadDir, Sftp!UploadFile, Sftp!UploadDir,
                <<"goto">>, <<"stat">>, <<"which">>, <<"rename">>, <<"mkdir">>, <<"stat", "watch">>,
                <<"start", "drain">>}
  BY <1>2 DEF Sftp!Plans, Kinds
<1>4. plan \in Seq(Steps) /\ plan # <<>> /\ Follows(plan)
  BY <1>3, PlansFollow
<1>5. path \in Paths \cup {NoOne}
  OBVIOUS
<1>6. /\ r \in TaskRecord /\ r.kind = what /\ r.plan = plan /\ r.pc = "run" /\ r.tmp = FALSE
      /\ r.sess = 0
  <2>1. Sftp!Idle \in TaskRecord
    BY EmptyPlan DEF Sftp!Idle, TaskRecord, Sftp!SftpAssumption
  <2>2. Sftp!Idle.tmp = FALSE /\ Sftp!Idle.sess = 0
    BY DEF Sftp!Idle
  <2> QED
    BY <1>2, <1>4, <1>5, <2>1, <2>2 DEF TaskRecord, Working
<1> HIDE DEF r
<1>7. Fine(r, up)
  BY <1>4, <1>6 DEF Fine, HeadFits, Staged, Working, Holding
<1>8. task[t].sess = 0
  BY DEF Sftp!Start, SftpInv, AllFine, Fine, Holding
<1>9. task' = [task EXCEPT ![t] = r] /\ UNCHANGED <<cache, sessions, lock, Sftp!shown, backend, up>>
  BY <1>1 DEF Sftp!Start, r
<1>10. ASSUME task'[t].sess = r.sess, Others(t) PROVE Held'
  BY <1>6, <1>8, <1>9, <1>10, Untouched DEF Others, SftpInv
<1>11. Rest'
  BY <1>9 DEF SftpInv, Rest, Sftp!shown
<1> QED
  BY <1>6, <1>7, <1>9, <1>10, <1>11, OneTask

\* take_or_open_sftp: the parked session, if there is one.
LEMMA TakeStep ==
  ASSUME Sftp!SftpAssumption, SftpInv, NEW t \in Tasks, Sftp!TakeSession(t)
  PROVE  SftpInv'
<1> DEFINE pc == IF cache # 0 THEN "hold" ELSE "open"
           r == Moved(task[t], pc, cache)
<1>1. task[t].pc = "run" /\ Sftp!Next1(t) \in Sftp!SftpSteps /\ task' = [task EXCEPT ![t] = r]
      /\ cache' = 0 /\ UNCHANGED <<sessions, lock, Sftp!shown, backend, up>>
  BY DEF Sftp!TakeSession, SftpInv, AllFine, Moved
<1>2. Fine(task[t], up) /\ task[t].pc \in Working /\ task[t].sess = 0
  BY <1>1 DEF SftpInv, AllFine, Fine, Working, Holding
<1>3. cache \in Numbers \cup {0} /\ pc \in Working /\ (pc \in Holding <=> cache # 0)
      /\ pc \in {"open", "hold"}
  BY DEF SftpInv, Held, Working, Holding
<1>4. Fine(r, up) /\ r.sess = cache /\ r.kind = task[t].kind
  BY <1>1, <1>2, <1>3, MoveFine DEF Sftp!Next1
<1> HIDE DEF r, pc
<1>5. 0 \notin Numbers
  BY TasksFinite
<1>6. ASSUME task'[t].sess = r.sess, Others(t) PROVE Held'
  BY <1>1, <1>2, <1>4, <1>5, <1>6, Borrowed DEF SftpInv
<1>7. Rest'
  BY <1>1 DEF SftpInv, Rest, Sftp!shown
<1> QED
  BY <1>1, <1>4, <1>6, <1>7, OneTask

\* take_or_open_sftp: another session, or the task fails.
LEMMA OpenStep ==
  ASSUME Sftp!SftpAssumption, SftpInv, NEW t \in Tasks, Sftp!OpenSession(t)
  PROVE  SftpInv'
<1>1. /\ task[t].pc = "open" /\ UNCHANGED <<cache, lock, Sftp!shown, backend, up>>
      /\ task[t].pc \in Working /\ task[t].sess = 0
      /\ Fine(task[t], up) /\ Sftp!Next1(t) \in Sftp!SftpSteps
  BY DEF Sftp!OpenSession, SftpInv, AllFine, Fine, HeadFits, Working, Holding, Sftp!Next1
<1>2. Rest'
  BY <1>1 DEF SftpInv, Rest, Sftp!shown
<1>3. Sftp!Fresh \in Numbers \ sessions
  BY <1>1, FreshIsNew DEF SftpInv
<1>4. 0 \notin Numbers
  BY TasksFinite
<1>5. CASE /\ sessions' = sessions \cup {Sftp!Fresh}
           /\ task' = [task EXCEPT ![t].pc = "hold", ![t].sess = Sftp!Fresh]
  <2> DEFINE r == Moved(task[t], "hold", Sftp!Fresh)
  <2>1. task' = [task EXCEPT ![t] = r]
    BY <1>5 DEF SftpInv, AllFine, Moved
  <2>2. /\ "hold" \in Working /\ "hold" \in Holding
        /\ Sftp!Fresh \in Numbers \cup {0} /\ Sftp!Fresh # 0
    BY <1>3, <1>4 DEF Working, Holding
  <2>3. Fine(r, up) /\ r.sess = Sftp!Fresh /\ r.kind = task[t].kind
    BY <1>1, <2>2, MoveFine DEF Sftp!Next1
  <2> HIDE DEF r
  <2>4. ASSUME task'[t].sess = r.sess, Others(t) PROVE Held'
    BY <1>1, <1>3, <1>4, <1>5, <2>3, <2>4, Opened DEF SftpInv
  <2> QED
    BY <1>1, <1>2, <2>1, <2>3, <2>4, OneTask
<1>6. CASE /\ task' = [task EXCEPT ![t] = Sftp!Fail(@, "error", @.tmp)]
           /\ UNCHANGED sessions
  <2> DEFINE r == Sftp!Fail(task[t], "error", task[t].tmp)
  <2>1. task' = [task EXCEPT ![t] = r]
    BY <1>6
  <2>2. up /\ task[t].tmp => Sftp!Next1(t) \in Leaves
    BY <1>1, AtWork DEF Uses, Leaves, Sftp!SftpSteps
  <2>5. task[t].tmp \in BOOLEAN
    BY <1>1, AtWork
  <2>3. Fine(r, up) /\ r.sess = 0 /\ r.kind = task[t].kind
    BY <1>1, <2>2, <2>5, StoppingFine
  <2> HIDE DEF r
  <2>4. ASSUME task'[t].sess = r.sess, Others(t) PROVE Held'
    BY <1>1, <1>6, <2>3, <2>4, Untouched DEF Others, SftpInv
  <2> QED
    BY <1>1, <1>2, <2>1, <2>3, <2>4, OneTask
<1> QED
  BY <1>5, <1>6 DEF Sftp!OpenSession

\* The end of a step with a session, which goes back or is closed.
LEMMA SessionEnds ==
  ASSUME SftpInv, NEW t \in Tasks, task[t].pc \in Holding, NEW r, task' = [task EXCEPT ![t] = r],
         Fine(r, up), r.sess = 0, r.kind = task[t].kind,
         Sftp!Park(task[t].sess) \/ Sftp!Close(task[t].sess),
         UNCHANGED <<lock, Sftp!shown, backend, up>>
  PROVE  SftpInv'
<1>1. task[t].sess # 0
  BY DEF SftpInv, AllFine, Fine
<1>2. ASSUME task'[t].sess = r.sess, Others(t) PROVE Held'
  <2>1. CASE Sftp!Park(task[t].sess)
    BY <1>1, <1>2, <2>1, Parked DEF Sftp!Park, SftpInv
  <2>2. CASE Sftp!Close(task[t].sess)
    BY <1>1, <1>2, <2>2, Closed DEF Sftp!Close, SftpInv
  <2> QED
    BY <2>1, <2>2
<1>3. Rest'
  BY DEF SftpInv, Rest, Sftp!shown
<1> QED
  BY <1>2, <1>3, OneTask

\* A plan that goes on after what was found or is done instead.
LEMMA GoesOn ==
  ASSUME SftpInv, NEW t \in Tasks, task[t].pc \in Working,
         NEW more \in Sftp!Found(task[t].kind, Sftp!Next1(t)) \cup Sftp!Fallback(Sftp!Next1(t)),
         NEW rest \in Seq(Steps), Follows(rest)
  PROVE  more \o rest \in Seq(Steps) /\ Follows(more \o rest)
<1>1. Sftp!Next1(t) \in Steps
  BY AtWork
<1>2. more \in Seq(Steps) /\ Follows(more)
  BY <1>1, MoreFollows
<1> QED
  BY <1>2, ConcatPlan

\* The call on the session succeeds, and the session is parked (return_sftp).
LEMMA OkStep == ASSUME SftpInv, NEW t \in Tasks, Sftp!SftpOk(t) PROVE SftpInv'
<1> DEFINE tail == Tail(task[t].plan)
           tmp == task[t].tmp \/ Sftp!MakesTmp(Sftp!Next1(t))
<1>1. PICK more \in Sftp!Found(task[t].kind, Sftp!Next1(t)) :
        task' = [task EXCEPT ![t] = Sftp!ProceedWith(task[t], more \o tail, tmp)]
  BY DEF Sftp!SftpOk
<1>2. /\ task[t].pc = "hold" /\ task[t].pc \in Working /\ task[t].pc \in Holding /\ up
      /\ UNCHANGED <<lock, Sftp!shown, backend, up>> /\ Sftp!Park(task[t].sess)
  BY DEF Sftp!SftpOk, Working, Holding
<1>3. more \o tail \in Seq(Steps) /\ Follows(more \o tail)
  BY <1>2, AtWork, GoesOn
<1>4. tmp \in BOOLEAN
  BY <1>2, AtWork DEF Sftp!MakesTmp
<1>5. ASSUME tmp PROVE more \o tail # <<>> /\ Head(more \o tail) \in Uses
  <2>1. Sftp!Next1(t) \in Sftp!SftpSteps
    BY <1>2 DEF SftpInv, AllFine, Fine, HeadFits, Sftp!Next1
  <2>2. Sftp!Next1(t) \in Leaves /\ Sftp!Next1(t) \notin {"stat", "list", "mkdirs", "which"}
    BY <1>2, <1>5, <2>1, AtWork DEF Sftp!MakesTmp, Leaves, Uses, Sftp!SftpSteps
  <2>3. more = <<>>
    BY <1>2, <2>2, AtWork, MoreFollows
  <2>4. tail \in Seq(Steps) /\ tail # <<>> /\ Head(tail) \in Uses
    BY <1>2, <2>2, AtWork
  <2> HIDE DEF tail
  <2>5. more \o tail = tail
    BY <2>3, <2>4, ConcatEmptySeq
  <2> QED
    BY <2>4, <2>5
<1> HIDE DEF tail, tmp
<1> DEFINE r == Sftp!ProceedWith(task[t], more \o tail, tmp)
<1>6. Fine(r, up) /\ r.sess = 0 /\ r.kind = task[t].kind
  BY <1>2, <1>3, <1>4, <1>5, GoingOnFine
<1> HIDE DEF r
<1>7. task' = [task EXCEPT ![t] = r]
  BY <1>1 DEF r
<1> QED
  BY <1>2, <1>6, <1>7, SessionEnds

\* The server refuses, and the task does something else or fails.
LEMMA RefusedStep == ASSUME SftpInv, NEW t \in Tasks, Sftp!SftpRefused(t) PROVE SftpInv'
<1> DEFINE tail == Tail(task[t].plan)
<1>1. /\ task[t].pc = "hold" /\ task[t].pc \in Working /\ task[t].pc \in Holding /\ up
      /\ UNCHANGED <<lock, Sftp!shown, backend, up>>
      /\ Sftp!Next1(t) \in {"rmdir", "mkdir", "mkdirs"}
      /\ Sftp!Park(task[t].sess) \/ Sftp!Close(task[t].sess)
  BY DEF Sftp!SftpRefused, Working, Holding
<1>2. task[t].tmp = FALSE
  BY <1>1, AtWork DEF Uses
<1>3. CASE \E more \in Sftp!Found(task[t].kind, Sftp!Next1(t)) \cup Sftp!Fallback(Sftp!Next1(t)) :
              task' = [task EXCEPT ![t] = Sftp!Proceed(task[t], more \o tail)]
  <2>1. PICK more \in Sftp!Found(task[t].kind, Sftp!Next1(t)) \cup Sftp!Fallback(Sftp!Next1(t)) :
              task' = [task EXCEPT ![t] = Sftp!Proceed(task[t], more \o tail)]
    BY <1>3
  <2>2. more \o tail \in Seq(Steps) /\ Follows(more \o tail)
    BY <1>1, AtWork, GoesOn
  <2> DEFINE r == Sftp!Proceed(task[t], more \o tail)
  <2>3. Fine(r, up) /\ r.sess = 0 /\ r.kind = task[t].kind
    BY <1>1, <1>2, <2>2, GoingPlainFine
  <2> HIDE DEF r
  <2>4. task' = [task EXCEPT ![t] = r]
    BY <2>1 DEF r
  <2> QED
    BY <1>1, <2>3, <2>4, SessionEnds
<1>4. CASE task' = [task EXCEPT ![t] = Sftp!Fail(task[t], "error", task[t].tmp)]
  <2> DEFINE r == Sftp!Fail(task[t], "error", task[t].tmp)
  <2>1. Fine(r, up) /\ r.sess = 0 /\ r.kind = task[t].kind
    BY <1>1, <1>2, StoppingFine
  <2> HIDE DEF r
  <2>2. task' = [task EXCEPT ![t] = r]
    BY <1>4 DEF r
  <2> QED
    BY <1>1, <2>1, <2>2, SessionEnds
<1> QED
  BY <1>3, <1>4 DEF Sftp!SftpRefused

\* The user cancels a stream, whose file stays behind.
LEMMA CancelStep == ASSUME SftpInv, NEW t \in Tasks, Sftp!SftpCancelled(t) PROVE SftpInv'
<1>1. /\ task[t].pc = "hold" /\ task[t].pc \in Working /\ task[t].pc \in Holding
      /\ UNCHANGED <<lock, Sftp!shown, backend, up>> /\ Sftp!Park(task[t].sess)
      /\ Sftp!Next1(t) \in Leaves
  BY DEF Sftp!SftpCancelled, Working, Holding, Sftp!Streamed, Leaves
<1> DEFINE r == Sftp!Fail(task[t], "cancelled", TRUE)
<1>2. Fine(r, up) /\ r.sess = 0 /\ r.kind = task[t].kind
  BY <1>1, StoppingFine
<1>3. task' = [task EXCEPT ![t] = r]
  BY DEF Sftp!SftpCancelled
<1> HIDE DEF r
<1> QED
  BY <1>1, <1>2, <1>3, SessionEnds

\* The call fails and drops its session.
LEMMA FailsStep == ASSUME SftpInv, NEW t \in Tasks, Sftp!SftpFails(t) PROVE SftpInv'
<1>1. /\ task[t].pc = "hold" /\ task[t].pc \in Working /\ task[t].pc \in Holding
      /\ UNCHANGED <<lock, Sftp!shown, backend, up>> /\ Sftp!Close(task[t].sess)
  BY DEF Sftp!SftpFails, Working, Holding
<1>2. Sftp!Next1(t) \in Sftp!SftpSteps
  BY <1>1 DEF SftpInv, AllFine, Fine, HeadFits, Sftp!Next1
<1> DEFINE tmp == task[t].tmp \/ Sftp!MakesTmp(Sftp!Next1(t))
           r == Sftp!Fail(task[t], "error", tmp)
<1>3. tmp \in BOOLEAN /\ (up /\ tmp => Sftp!Next1(t) \in Leaves)
  BY <1>1, <1>2, AtWork DEF Sftp!MakesTmp, Leaves, Uses, Sftp!SftpSteps
<1>4. task' = [task EXCEPT ![t] = r]
  BY DEF Sftp!SftpFails
<1> HIDE DEF tmp
<1>5. Fine(r, up) /\ r.sess = 0 /\ r.kind = task[t].kind
  BY <1>1, <1>3, StoppingFine
<1> HIDE DEF r
<1> QED
  BY <1>1, <1>4, <1>5, SessionEnds

\* sftp_navigate: the session is parked after what it read was written.
LEMMA NavigateStep == ASSUME SftpInv, NEW t \in Tasks, Sftp!Navigate(t) PROVE SftpInv'
<1>1. ASSUME NEW pc \in {"entries", "cwd", "park"}, task[t].pc \in Holding, Sftp!Next1(t) = "goto",
             task' = [task EXCEPT ![t].pc = pc], Rest', UNCHANGED <<cache, sessions, up>>
      PROVE  SftpInv'
  <2> DEFINE r == Moved(task[t], pc, task[t].sess)
  <2>1. /\ task[t].pc \in Working /\ pc \in Working /\ pc \in Holding
        /\ Fine(task[t], up) /\ task[t].sess \in Numbers /\ task[t].sess # 0
        /\ pc \notin {"open", "hold", "exec"}
    BY <1>1 DEF Working, Holding, SftpInv, AllFine, Fine, TaskRecord
  <2>2. /\ Fine(r, up) /\ r.sess = task[t].sess /\ r.kind = task[t].kind
        /\ r = [task[t] EXCEPT !.pc = pc]
    BY <1>1, <2>1, MoveFine DEF Sftp!Next1
  <2>3. task' = [task EXCEPT ![t] = r]
    BY <1>1, <2>2
  <2> HIDE DEF r
  <2>4. ASSUME task'[t].sess = r.sess, Others(t) PROVE Held'
    BY <1>1, <2>2, <2>4, Untouched DEF Others, SftpInv
  <2> QED
    BY <1>1, <2>2, <2>3, <2>4, OneTask
<1>2. CASE Sftp!ReadDir(t)
  BY <1>1, <1>2 DEF Sftp!ReadDir, Holding, SftpInv, Rest, Sftp!shown
<1>3. ASSUME task[t].pc \in {"entries", "cwd", "park"}
      PROVE  /\ task[t].pc \in Holding /\ task[t].pc \in Working /\ Sftp!Next1(t) = "goto"
             /\ task[t].path \in Paths \cup {NoOne}
  BY <1>3 DEF Holding, Working, SftpInv, AllFine, Fine, HeadFits, Sftp!Next1, TaskRecord
<1>4. CASE Sftp!WriteEntries(t)
  <2>1. Rest' /\ UNCHANGED <<cache, sessions, up>> /\ task' = [task EXCEPT ![t].pc = "cwd"]
    BY <1>3, <1>4 DEF Sftp!WriteEntries, SftpInv, Rest
  <2> QED
    BY <1>1, <1>3, <1>4, <2>1 DEF Sftp!WriteEntries
<1>5. CASE Sftp!WriteCwd(t)
  <2>1. Rest' /\ UNCHANGED <<cache, sessions, up>> /\ task' = [task EXCEPT ![t].pc = "park"]
    BY <1>3, <1>5 DEF Sftp!WriteCwd, SftpInv, Rest
  <2> QED
    BY <1>1, <1>3, <1>5, <2>1 DEF Sftp!WriteCwd
<1>6. CASE Sftp!ParkSession(t)
  <2> DEFINE r == Sftp!Proceed(task[t], <<>>)
  <2>1. task[t].pc \in Holding /\ task[t].pc \in Working /\ Sftp!Next1(t) = "goto"
    BY <1>3, <1>6 DEF Sftp!ParkSession
  <2>2. ~(up /\ task[t].tmp)
    BY <2>1, AtWork DEF Uses
  <2>3. Fine(r, up) /\ r.sess = 0 /\ r.kind = task[t].kind
    BY <2>1, <2>2, EmptyPlan, GoingPlainFine
  <2> HIDE DEF r
  <2>4. task' = [task EXCEPT ![t] = r]
    BY <1>6 DEF Sftp!ParkSession, r
  <2>5. Sftp!Park(task[t].sess) /\ UNCHANGED <<lock, Sftp!shown, backend, up>>
    BY <1>6 DEF Sftp!ParkSession
  <2> QED
    BY <2>1, <2>3, <2>4, <2>5, SessionEnds
<1> QED
  BY <1>2, <1>4, <1>5, <1>6 DEF Sftp!Navigate

\* The end of a step without a session.
LEMMA PlainEnds ==
  ASSUME SftpInv, NEW t \in Tasks, task[t].pc \in {"run", "exec"}, NEW r,
         task' = [task EXCEPT ![t] = r], Fine(r, up), r.sess = 0, r.kind = task[t].kind,
         lock' \in Tasks \cup {NoOne}, UNCHANGED <<cache, sessions, Sftp!shown, backend, up>>
  PROVE  SftpInv'
<1>1. task[t].sess = 0
  BY DEF SftpInv, AllFine, Fine, Holding
<1>2. ASSUME task'[t].sess = r.sess, Others(t) PROVE Held'
  BY <1>1, <1>2, Untouched DEF Others, SftpInv
<1>3. Rest'
  BY DEF SftpInv, Rest, Sftp!shown
<1> QED
  BY <1>2, <1>3, OneTask

\* A command of the task waits for the handle.
LEMMA LockStep == ASSUME SftpInv, NEW t \in Tasks, Sftp!LockHandle(t) PROVE SftpInv'
<1> DEFINE r == Moved(task[t], "exec", 0)
<1>1. /\ task[t].pc = "run" /\ task[t].pc \in Working /\ Sftp!Next1(t) \in Sftp!ExecSteps
      /\ "exec" \in Working /\ "exec" \notin Holding
      /\ Fine(task[t], up) /\ task[t].sess = 0
  BY DEF Sftp!LockHandle, Working, Holding, SftpInv, AllFine, Fine
<1>2. Fine(r, up) /\ r.sess = 0 /\ r.kind = task[t].kind /\ r = [task[t] EXCEPT !.pc = "exec"]
  BY <1>1, MoveFine DEF Sftp!Next1
<1>3. task' = [task EXCEPT ![t] = r]
  BY <1>2 DEF Sftp!LockHandle
<1> HIDE DEF r
<1> QED
  BY <1>1, <1>2, <1>3, PlainEnds DEF Sftp!LockHandle

\* The remote command ends, well or not, or is not there.
LEMMA ExecStep == ASSUME SftpInv, NEW t \in Tasks, Sftp!Exec(t) PROVE SftpInv'
<1> SUFFICES ASSUME ~Sftp!LockHandle(t) PROVE SftpInv'
  BY LockStep
<1> DEFINE tail == Tail(task[t].plan)
<1>1. /\ task[t].pc = "exec" /\ task[t].pc \in Working /\ task[t].pc \in {"run", "exec"}
      /\ lock' \in Tasks \cup {NoOne} /\ UNCHANGED <<cache, sessions, Sftp!shown, backend, up>>
  BY DEF Sftp!Exec, Sftp!ExecOk, Sftp!ExecMissing, Sftp!ExecFails, Sftp!NoTar, Sftp!Unlock, Working
<1>2. Sftp!Next1(t) \in Sftp!ExecSteps
  BY <1>1 DEF SftpInv, AllFine, Fine, HeadFits, Sftp!Next1
<1>3. CASE Sftp!ExecOk(t)
  <2> DEFINE tmp == Sftp!Next1(t) \in {"pack", "tar"}
  <2>1. PICK more \in Sftp!Found(task[t].kind, Sftp!Next1(t)) :
          task' = [task EXCEPT ![t] = Sftp!ProceedWith(task[t], more \o tail, tmp)]
    BY <1>3 DEF Sftp!ExecOk
  <2>2. more \o tail \in Seq(Steps) /\ Follows(more \o tail)
    BY <1>1, AtWork, GoesOn
  <2>3. ASSUME tmp PROVE more \o tail # <<>> /\ Head(more \o tail) \in Uses
    <3>1. Sftp!Next1(t) \in Leaves /\ Sftp!Next1(t) \notin {"stat", "list", "mkdirs", "which"}
      BY <2>3 DEF Leaves
    <3>2. more = <<>>
      BY <1>1, <3>1, AtWork, MoreFollows
    <3>3. tail \in Seq(Steps) /\ tail # <<>> /\ Head(tail) \in Uses
      BY <1>1, <3>1, AtWork
    <3> HIDE DEF tail
    <3>4. more \o tail = tail
      BY <3>2, <3>3, ConcatEmptySeq
    <3> QED
      BY <3>3, <3>4
  <2> DEFINE r == Sftp!ProceedWith(task[t], more \o tail, tmp)
  <2>4. tmp \in BOOLEAN
    OBVIOUS
  <2> HIDE DEF tail, tmp
  <2>7. up /\ tmp => more \o tail # <<>> /\ Head(more \o tail) \in Uses
    BY <2>3
  <2>5. Fine(r, up) /\ r.sess = 0 /\ r.kind = task[t].kind
    BY <1>1, <2>2, <2>7, <2>4, GoingOnFine
  <2> HIDE DEF r
  <2>6. task' = [task EXCEPT ![t] = r]
    BY <2>1 DEF r
  <2> QED
    BY <1>1, <2>5, <2>6, PlainEnds
<1>4. CASE Sftp!ExecMissing(t)
  <2> DEFINE m == IF Sftp!Next1(t) = "tar" THEN 5 ELSE 2
             rest == SubSeq(task[t].plan, m, Len(task[t].plan))
             tmp == task[t].tmp /\ ~up
  <2>1. PICK more \in Sftp!Fallback(Sftp!Next1(t)) :
          task' = [task EXCEPT ![t] = Sftp!ProceedWith(task[t], more \o rest, tmp)]
    BY <1>4 DEF Sftp!ExecMissing
  <2>2. rest \in Seq(Steps) /\ Follows(rest)
    <3>1. m \in 1..5
      OBVIOUS
    <3> HIDE DEF m
    <3> QED
      BY <1>1, <3>1, AtWork, RestOfPlan
  <2>3. tmp \in BOOLEAN /\ ~(up /\ tmp)
    BY <1>1, AtWork
  <2> HIDE DEF rest, tmp
  <2>4. more \o rest \in Seq(Steps) /\ Follows(more \o rest)
    BY <1>1, <2>2, GoesOn
  <2> DEFINE r == Sftp!ProceedWith(task[t], more \o rest, tmp)
  <2>5. Fine(r, up) /\ r.sess = 0 /\ r.kind = task[t].kind
    BY <1>1, <2>3, <2>4, GoingOnFine
  <2> HIDE DEF r
  <2>6. task' = [task EXCEPT ![t] = r]
    BY <2>1 DEF r
  <2> QED
    BY <1>1, <2>5, <2>6, PlainEnds
<1>5. CASE Sftp!ExecFails(t) /\ Sftp!Next1(t) # "rm"
  <2>1. PICK made \in {FALSE, Sftp!Next1(t) \in {"pack", "tar"}} :
          task' = [task EXCEPT
                     ![t] = Sftp!Fail(task[t], "error",
                                      (task[t].tmp \/ made) /\ ~Sftp!Swept(Sftp!Next1(t)))]
    BY <1>5 DEF Sftp!ExecFails
  <2> DEFINE tmp == (task[t].tmp \/ made) /\ ~Sftp!Swept(Sftp!Next1(t))
             r == Sftp!Fail(task[t], "error", tmp)
  <2>2. tmp \in BOOLEAN
    BY <1>1, AtWork
  <2>3. up /\ tmp => Sftp!Next1(t) \in Leaves
    BY <1>1, <1>2, <1>5, AtWork DEF Sftp!Swept, Leaves, Uses, Sftp!ExecSteps
  <2> HIDE DEF tmp
  <2>4. Fine(r, up) /\ r.sess = 0 /\ r.kind = task[t].kind
    BY <1>1, <2>2, <2>3, StoppingFine
  <2>5. task' = [task EXCEPT ![t] = r]
    BY <2>1 DEF tmp
  <2> HIDE DEF r
  <2> QED
    BY <1>1, <2>4, <2>5, PlainEnds
<1>6. CASE Sftp!ExecFails(t) /\ Sftp!Next1(t) = "rm"
  <2>1. ~up /\ task' = [task EXCEPT ![t] = Sftp!Proceed(task[t], tail)]
    BY <1>6 DEF Sftp!ExecFails
  <2>4. tail \in Seq(Steps) /\ Follows(tail)
    BY <1>1, AtWork
  <2> HIDE DEF tail
  <2> DEFINE r == Sftp!Proceed(task[t], tail)
  <2>2. Fine(r, up) /\ r.sess = 0 /\ r.kind = task[t].kind
    BY <1>1, <2>1, <2>4, GoingPlainFine
  <2> HIDE DEF r
  <2>3. task' = [task EXCEPT ![t] = r]
    BY <2>1 DEF r
  <2> QED
    BY <1>1, <2>2, <2>3, PlainEnds
<1>7. CASE Sftp!NoTar(t)
  <2> DEFINE r == Sftp!Proceed(task[t], Sftp!UploadFile)
  <2>1. ~(up /\ task[t].tmp)
    BY <1>1, <1>7, AtWork DEF Sftp!NoTar, Uses
  <2>2. Sftp!UploadFile \in Seq(Steps) /\ Follows(Sftp!UploadFile)
    BY PlansFollow
  <2>3. Fine(r, up) /\ r.sess = 0 /\ r.kind = task[t].kind
    BY <1>1, <2>1, <2>2, GoingPlainFine
  <2>4. task' = [task EXCEPT ![t] = r]
    BY <1>7 DEF Sftp!NoTar
  <2> HIDE DEF r
  <2> QED
    BY <1>1, <2>3, <2>4, PlainEnds
<1> QED
  BY <1>3, <1>4, <1>5, <1>6, <1>7 DEF Sftp!Exec

\* The last step of a capture and of an edit.
LEMMA DrainStep ==
  ASSUME SftpInv, NEW t \in Tasks, Sftp!Drain(t) \/ Sftp!StopWatching(t) PROVE SftpInv'
<1> DEFINE r == Sftp!Proceed(task[t], <<>>)
<1>1. /\ task[t].pc = "run" /\ task[t].pc \in Working /\ Sftp!Next1(t) \notin Uses
      /\ task' = [task EXCEPT ![t] = r]
      /\ UNCHANGED <<cache, sessions, lock, Sftp!shown, backend, up>>
  BY DEF Sftp!Drain, Sftp!StopWatching, Working, Uses
<1>2. ~(up /\ task[t].tmp)
  BY <1>1, AtWork
<1>3. Fine(r, up) /\ r.sess = 0 /\ r.kind = task[t].kind
  BY <1>1, <1>2, EmptyPlan, GoingPlainFine
<1>4. lock' \in Tasks \cup {NoOne}
  BY <1>1 DEF SftpInv, Rest
<1> HIDE DEF r
<1> QED
  BY <1>1, <1>3, <1>4, PlainEnds

\* The editor saved: the file goes up, and then the watch goes on.
LEMMA SaveStep ==
  ASSUME Sftp!SftpAssumption, SftpInv, NEW t \in Tasks, Sftp!Save(t)
  PROVE  SftpInv'
<1> DEFINE p == Sftp!UploadFile \o task[t].plan
           r == [task[t] EXCEPT !.plan = p, !.saves = task[t].saves + 1]
<1>1. /\ task[t].pc = "run" /\ task[t].pc \in Working /\ Sftp!Next1(t) = "watch"
      /\ task[t].saves < MaxSaves /\ task' = [task EXCEPT ![t] = r]
      /\ UNCHANGED <<cache, sessions, lock, Sftp!shown, backend, up>>
  BY DEF Sftp!Save, Working, SftpInv, AllFine
<1>2. Sftp!UploadFile \in Seq(Steps) /\ Sftp!UploadFile # <<>> /\ Follows(Sftp!UploadFile)
  BY PlansFollow
<1>3. p \in Seq(Steps) /\ Follows(p)
  BY <1>1, <1>2, AtWork, ConcatPlan
<1>4. p # <<>>
  BY <1>1, <1>2, AtWork, ConcatEqualIffEmpty
<1> HIDE DEF p
<1>5. /\ r \in TaskRecord /\ r.plan = p /\ r.pc = "run" /\ r.tmp = task[t].tmp
      /\ r.sess = task[t].sess /\ r.kind = task[t].kind
  <2>1. task[t] \in TaskRecord
    BY <1>1, AtWork
  <2>2. task[t].saves + 1 \in 0..MaxSaves
    BY <1>1, <2>1 DEF TaskRecord, Sftp!SftpAssumption
  <2> QED
    BY <1>1, <1>3, <2>1, <2>2 DEF TaskRecord
<1> HIDE DEF r
<1>6. ~(up /\ task[t].tmp) /\ task[t].sess = 0
  BY <1>1, AtWork DEF Uses, Fine, Holding
<1>7. Fine(r, up)
  BY <1>3, <1>4, <1>5, <1>6 DEF Fine, HeadFits, Staged, Holding, Working
<1>8. lock' \in Tasks \cup {NoOne}
  BY <1>1 DEF SftpInv, Rest
<1> QED
  BY <1>1, <1>5, <1>6, <1>7, <1>8, PlainEnds

\* Command::Close: who is aborted lets go of its session, which is closed.
LEMMA AbortStep == ASSUME Sftp!SftpAssumption, SftpInv, Sftp!AbortTransfers PROVE SftpInv'
<1> DEFINE r(t) == [task[t] EXCEPT !.pc = "aborted", !.sess = 0]
<1>1. /\ \A t \in Sftp!Tracked : task'[t] = r(t)
      /\ \A t \in Tasks \ Sftp!Tracked : task'[t] = task[t]
      /\ task' = [t \in Tasks |-> task'[t]]
      /\ sessions' = sessions \ {task[t].sess : t \in Sftp!Tracked} /\ cache' = cache /\ up' = up
      /\ Sftp!Tracked \subseteq Tasks
  BY DEF Sftp!AbortTransfers, Sftp!Tracked
<1>2. ASSUME NEW t \in Sftp!Tracked
      PROVE  r(t) \in TaskRecord /\ Fine(r(t), up) /\ r(t).sess = 0 /\ r(t).kind = task[t].kind
  <2>1. task[t] \in TaskRecord /\ Follows(task[t].plan)
    BY DEF Sftp!Tracked, SftpInv, AllFine, Fine
  <2>2. /\ r(t) \in TaskRecord /\ r(t).pc = "aborted" /\ r(t).sess = 0 /\ r(t).plan = task[t].plan
        /\ r(t).kind = task[t].kind
    BY <2>1 DEF TaskRecord
  <2> QED
    BY <2>1, <2>2 DEF Fine, HeadFits, Staged, Working, Holding
<1> HIDE DEF r
<1>3. AllFine'
  <2>1. \A t \in Tasks : task'[t] \in TaskRecord /\ Fine(task'[t], up)
    BY <1>1, <1>2 DEF SftpInv, AllFine
  <2>2. task' \in [Tasks -> TaskRecord]
    BY <1>1, <2>1
  <2> QED
    BY <1>1, <2>1, <2>2 DEF AllFine
<1>4. KindsKept'
  BY <1>1, <1>2 DEF SftpInv, KindsKept
<1>5. 0 \notin Numbers
  BY TasksFinite
<1>6. \A t \in Tasks : task'[t].sess = IF t \in Sftp!Tracked THEN 0 ELSE task[t].sess
  BY <1>1, <1>2
<1>7. Held'
  BY <1>1, <1>5, <1>6 DEF SftpInv, Held
<1>8. Rest'
  BY DEF Sftp!AbortTransfers, SftpInv, Rest, Sftp!shown
<1> QED
  BY <1>3, <1>4, <1>7, <1>8 DEF SftpInv

\* The parked session is closed, the link dies, or nothing happens.
LEMMA OtherStep ==
  ASSUME SftpInv, Sftp!CloseParked \/ Sftp!LinkDies \/ UNCHANGED Sftp!vars
  PROVE  SftpInv'
<1>1. task' = task /\ (up' = up \/ up' = FALSE)
  BY DEF Sftp!CloseParked, Sftp!LinkDies, Sftp!vars
<1>2. AllFine' /\ KindsKept'
  BY <1>1 DEF SftpInv, AllFine, KindsKept, Fine
<1>3. Held'
  BY <1>1 DEF SftpInv, Held, Sftp!CloseParked, Sftp!LinkDies, Sftp!vars
<1>4. Rest'
  BY DEF Sftp!CloseParked, Sftp!LinkDies, Sftp!vars, Sftp!shown, SftpInv, Rest
<1> QED
  BY <1>2, <1>3, <1>4 DEF SftpInv

\* Every step keeps the invariant.
LEMMA NextStep ==
  ASSUME Sftp!SftpAssumption, SftpInv, [Sftp!Next]_(Sftp!vars)
  PROVE  SftpInv'
<1>1. ASSUME NEW t \in Tasks, Sftp!Sftp(t) PROVE SftpInv'
  BY <1>1, TakeStep, OpenStep, OkStep, RefusedStep, CancelStep, FailsStep DEF Sftp!Sftp
<1>2. ASSUME NEW t \in Tasks, Sftp!Work(t) PROVE SftpInv'
  BY <1>1, <1>2, NavigateStep, ExecStep, DrainStep DEF Sftp!Work
<1> QED
  BY <1>2, StartStep, SaveStep, AbortStep, OtherStep DEF Sftp!Next

-----------------------------------------------------------------------------
\* Every variable of the SFTP tasks keeps its type: among them, every plan is one of steps
\* the backend has, and there are never more sessions than tasks and one.
THEOREM SftpTypeCorrect == ASSUME Sftp!SftpAssumption PROVE Sftp!Spec => []Sftp!TypeOK
<1>1. SftpInv => Sftp!TypeOK
  <2> SUFFICES ASSUME SftpInv PROVE Sftp!TypeOK
    OBVIOUS
  <2>1. \A t \in Tasks :
          /\ task[t].plan \in Seq(Sftp!SftpSteps \cup Sftp!ExecSteps \cup {"watch", "drain"})
          /\ task[t].pc \in {"new", "run", "open", "hold", "entries", "cwd", "park", "exec",
                             "done", "aborted"}
          /\ task[t].tmp \in BOOLEAN /\ task[t].path \in Paths \cup {NoOne}
          /\ task[t].saves \in 0..MaxSaves
          /\ task[t].result \in {NoOne, "ok", "error", "cancelled"}
    BY DEF SftpInv, AllFine, TaskRecord, Steps, Working, Holding
  <2> QED
    BY <2>1, SameCardinality DEF SftpInv, KindsKept, Held, Rest, Sftp!TypeOK, Numbers
<1> QED
  BY <1>1, InitHolds, NextStep, PTL DEF Sftp!Spec

-----------------------------------------------------------------------------
(* The backends of a remote tab, whichever it has (MCBackends).            *)

Line == INSTANCE RemoteBackend WITH status <- lineStatus, said <- lineSaid

\* Until a line is down there is no end to report.
LineInStep ==
  /\ lineStatus \in {"Connecting", "Connected", "Disconnected"}
  /\ {ending, lineSaid} \subseteq {"none", "Error", "Closed"}
  /\ lineStatus # "Disconnected" => ending = "none" /\ lineSaid = "none"

\* A step of Telnet leaves status and end as they are or is one of the backend's.
LEMMA TelnetStep ==
  ASSUME LineInStep, Telnet!Next
  PROVE  LineInStep' /\ [Line!Next]_<<lineStatus, lineSaid>>
<1> USE DEF Telnet!decodeVars, Telnet!loginVars, Telnet!endVars
<1>1. CASE Telnet!Connect
  BY <1>1 DEF Telnet!Connect, LineInStep, Line!Next, Line!Establish
<1>2. CASE Telnet!ConnectFails
  BY <1>2 DEF Telnet!ConnectFails, LineInStep, Line!Next, Line!GoDown
<1>3. CASE Telnet!ReadEof \/ Telnet!ReadError \/ Telnet!KeepaliveFails \/ Telnet!HandleClose
  BY <1>3 DEF Telnet!ReadEof, Telnet!ReadError, Telnet!KeepaliveFails, Telnet!HandleClose,
              Telnet!Down, Telnet!Running, LineInStep, Line!Next, Line!GoDown
<1>4. CASE Telnet!Report
  BY <1>4 DEF Telnet!Report, LineInStep, Line!Next, Line!Report
<1>5. CASE (\E n \in 1..Len(stream) : Telnet!Read(n)) \/ Telnet!Close
           \/ \E w \in {"key", "naws", "nop"} : Telnet!Write(w)
  <2>1. UNCHANGED <<lineStatus, lineSaid, ending>>
    BY <1>5 DEF Telnet!Read, Telnet!Close, Telnet!Write
  <2> QED
    BY <2>1 DEF LineInStep
<1> QED
  BY <1>1, <1>2, <1>3, <1>4, <1>5 DEF Telnet!Next, Telnet!TaskStep

\* So does one of the serial port's two threads.
LEMMA SerialStep ==
  ASSUME LineInStep, Serial!Next
  PROVE  LineInStep' /\ [Line!Next]_<<lineStatus, lineSaid>>
<1> USE DEF Serial!castVars
<1>1. CASE Serial!Open
  BY <1>1 DEF Serial!Open, LineInStep, Line!Next, Line!Establish
<1>2. CASE Serial!OpenFails
  BY <1>2 DEF Serial!OpenFails, LineInStep, Line!Next, Line!GoDown
<1>3. CASE Serial!PipeEnds \/ Serial!HearsClosed
  BY <1>3 DEF Serial!PipeEnds, Serial!HearsClosed, Serial!GoDown, Serial!Casting,
              LineInStep, Line!Next, Line!GoDown
<1>4. CASE Serial!Tell
  BY <1>4 DEF Serial!Tell, LineInStep, Line!Next, Line!Report
<1>5. CASE \/ Serial!IoStep \/ Serial!Type \/ Serial!CloseSerial
           \/ Serial!Broadcast \/ Serial!NothingYet \/ Serial!StillOpen
  <2>1. UNCHANGED <<lineStatus, lineSaid, ending>>
    BY <1>5 DEF Serial!IoStep, Serial!SendStartup, Serial!DrainWrite, Serial!DrainClose,
                Serial!Drained, Serial!ReadChunk, Serial!ReadTimesOut, Serial!ReadEnds,
                Serial!Type, Serial!CloseSerial, Serial!Broadcast, Serial!NothingYet,
                Serial!StillOpen
  <2> QED
    BY <2>1 DEF LineInStep
<1> QED
  BY <1>1, <1>2, <1>3, <1>4, <1>5 DEF Serial!Next, Serial!CastStep

\* What is known of all of them, and what one step of one of them is to the others.
BackendsInv ==
  /\ TypeOK /\ DrainedClosed /\ TransfersDieWithClose /\ InStep
  /\ LineInStep /\ SftpInv

allVars == <<vars, lineVars, telnetVars, serialVars, sftpVars, kind>>

\* Whichever is chosen, all begin in their initial states.
LEMMA BackendsInit == MCInit => BackendsInv /\ Viewed!Init
<1> SUFFICES ASSUME MCInit PROVE BackendsInv /\ Viewed!Init
  OBVIOUS
<1>1. Init /\ Telnet!Init /\ Sftp!Init
  BY DEF MCInit
<1>2. TypeOK /\ DrainedClosed /\ TransfersDieWithClose /\ InStep
  BY <1>1, TypeInit, BackendsAssumption
     DEF Init, DrainedClosed, TransfersDieWithClose, Live, InStep, Stages, Panes
<1>3. LineInStep
  BY <1>1 DEF Telnet!Init, LineInStep
<1>4. SftpInv
  BY <1>1, InitHolds, BackendsAssumption
<1>5. Viewed!Init
  BY <1>1 DEF Init, Telnet!Init, Viewed!Init, StatusShown, EndSaid, Panes
<1> QED
  BY <1>2, <1>3, <1>4, <1>5 DEF BackendsInv

\* Only the chosen one moves.
LEMMA OneAtATime ==
  ASSUME [MCNext]_allVars
  PROVE  /\ kind' = kind
         /\ (kind = "ssh" /\ [Next]_vars) \/ UNCHANGED vars
         /\ (kind # "ssh" /\ (Telnet!Next \/ Serial!Next)) \/ UNCHANGED lineVars
         /\ Sftp!Next \/ UNCHANGED sftpVars
BY DEF MCNext, OnTelnet, OnSerial, OnSsh, OnSftp, allVars

\* Every step keeps the invariant and is, to the view, one of the abstract backend or none.
LEMMA BackendsStep ==
  BackendsInv /\ [MCNext]_allVars => BackendsInv' /\ [Viewed!Next]_<<StatusShown, EndSaid>>
<1> SUFFICES ASSUME BackendsInv, [MCNext]_allVars
             PROVE  BackendsInv' /\ [Viewed!Next]_<<StatusShown, EndSaid>>
  OBVIOUS
<1>1. [Next]_vars /\ [Sftp!Next]_(Sftp!vars)
  BY OneAtATime DEF sftpVars, Sftp!vars, Sftp!shown
<1>2. TypeOK' /\ DrainedClosed' /\ TransfersDieWithClose' /\ SftpInv'
  BY <1>1, TypeStep, TransfersStep, NextStep, BackendsAssumption DEF BackendsInv
<1>3. InStep' /\ [Backend!Next]_<<status, said[Primary]>>
  BY <1>1, BackendStep, BackendsAssumption DEF BackendsInv
<1>4. LineInStep' /\ [Line!Next]_<<lineStatus, lineSaid>>
  <2>1. CASE UNCHANGED lineVars
    BY <2>1 DEF lineVars, BackendsInv, LineInStep
  <2> QED
    BY <2>1, OneAtATime, TelnetStep, SerialStep DEF BackendsInv
<1>5. CASE kind = "ssh"
  <2>1. /\ StatusShown = status /\ EndSaid = said[Primary]
        /\ StatusShown' = status' /\ EndSaid' = said'[Primary]
    BY <1>5, OneAtATime DEF StatusShown, EndSaid
  <2> QED
    BY <1>2, <1>3, <1>4, <2>1
       DEF BackendsInv, Viewed!Next, Viewed!Establish, Viewed!GoDown, Viewed!Report,
           Backend!Next, Backend!Establish, Backend!GoDown, Backend!Report
<1>6. CASE kind # "ssh"
  <2>1. /\ StatusShown = lineStatus /\ EndSaid = lineSaid
        /\ StatusShown' = lineStatus' /\ EndSaid' = lineSaid'
    BY <1>6, OneAtATime DEF StatusShown, EndSaid
  <2> QED
    BY <1>2, <1>3, <1>4, <2>1
       DEF BackendsInv, Viewed!Next, Viewed!Establish, Viewed!GoDown, Viewed!Report,
           Line!Next, Line!Establish, Line!GoDown, Line!Report
<1> QED
  BY <1>5, <1>6

\* Whichever backend a remote tab has, its view learns of it in one order: connected at most
\* once, down for good, its status first and then one final event (RemoteStatus,
\* BackendEvent), for any streams, panes, transfers, tasks and bounds.
THEOREM AnyBackendIsRemote == MCSpec => ImplementRemote
BY BackendsInit, BackendsStep, PTL DEF MCSpec, ImplementRemote, allVars

\* take_or_open_sftp and return_sftp, with the failures and the aborts in between: an open
\* session is the parked one or that of exactly one task; none leaks, two tasks never share
\* one, and none is closed under the task that has it. And what a task put on the remote,
\* an archive, a part or a probe, is gone when it ends well on a live connection; only one
\* that stopped at a step that makes it leaves it behind.
THEOREM SessionsNeverLost == MCSpec => []SessionsSound
<1>1. SftpInv => Sftp!SessionsAccounted
  BY HeldIsAccounted, BackendsAssumption DEF SftpInv
<1>2. SftpInv => Sftp!TmpSwept
  BY DEF SftpInv, AllFine, Fine, Staged, Working, Holding, Leaves, Sftp!TmpSwept
<1>3. BackendsInv => SessionsSound
  BY <1>1, <1>2 DEF BackendsInv, SessionsSound
<1> QED
  BY <1>3, BackendsInit, BackendsStep, PTL DEF MCSpec, allVars

-----------------------------------------------------------------------------
(* A function defined step by step.                                        *)

LEMMA LeastExists ==
  ASSUME NEW S \in SUBSET Nat, S # {}
  PROVE  \E r \in S : \A q \in S : r <= q
<1> DEFINE R == OpToRel(<, Nat)
<1>1. IsWellFoundedOn(R, Nat)
  BY NatLessThanWellFounded
<1>2. \A p, q \in Nat : q < p => <<q, p>> \in R
  BY DEF OpToRel
<1> HIDE DEF R
<1>3. PICK r \in S : \A q \in S : ~(<<q, r>> \in R)
  BY <1>1, WFMin, Zenon
<1>4. ASSUME NEW q \in S PROVE r <= q
  <2>1. q \in Nat /\ r \in Nat
    OBVIOUS
  <2>2. ~(q < r)
    BY <1>2, <1>3, <2>1, Zenon
  <2> QED
    BY <2>1, <2>2
<1> QED
  BY <1>4

\* What is reached from 0 one by one.
LEMMA Climb ==
  ASSUME NEW N \in Nat, NEW S, 0 \in S, \A m \in 1..N : m - 1 \in S => m \in S
  PROVE  \A m \in 0..N : m \in S
<1> DEFINE Bad == {m \in 0..N : m \notin S}
<1> SUFFICES ASSUME Bad # {} PROVE FALSE
  OBVIOUS
<1>1. PICK r \in Bad : \A m \in Bad : r <= m
  <2>1. Bad \in SUBSET Nat
    OBVIOUS
  <2> HIDE DEF Bad
  <2> QED
    BY <2>1, LeastExists
<1>2. r \in 1..N /\ r - 1 \in 0..N /\ r \notin S /\ ~(r <= r - 1)
  OBVIOUS
<1>3. r - 1 \in S
  BY <1>1, <1>2
<1> QED
  BY <1>2, <1>3

\* A function on 0..N defined from its value before: G[i] takes it from i - 1 to i.
Rises(q, N, base, G) == \A i \in 0..N : q[i] = IF i = 0 THEN base ELSE G[i][q[i - 1]]

LEMMA Recursion ==
  ASSUME NEW V, NEW N \in Nat, NEW base \in V, NEW G \in [1..N -> [V -> V]]
  PROVE  \E q \in [0..N -> V] : Rises(q, N, base, G)
<1> DEFINE Up(q, m) == \A i \in 0..m : q[i] = IF i = 0 THEN base ELSE G[i][q[i - 1]]
           S == {m \in 0..N : \E q \in [0..m -> V] : Up(q, m)}
<1>1. 0 \in S
  <2> DEFINE q == [i \in 0..0 |-> base]
  <2>1. q \in [0..0 -> V] /\ Up(q, 0)
    OBVIOUS
  <2> HIDE DEF q
  <2>2. 0 \in 0..N
    OBVIOUS
  <2> QED
    BY <2>1, <2>2
<1>2. ASSUME NEW m \in 1..N, m - 1 \in S PROVE m \in S
  <2>1. PICK q \in [0..m - 1 -> V] : Up(q, m - 1)
    BY <1>2
  <2>2. q[m - 1] \in V /\ G[m][q[m - 1]] \in V
    OBVIOUS
  <2> DEFINE new == G[m][q[m - 1]]
             u == [i \in 0..m |-> IF i = m THEN new ELSE q[i]]
  <2>3. u \in [0..m -> V]
    <3> HIDE DEF new
    <3>1. new \in V
      BY <2>2 DEF new
    <3>2. \A i \in 0..m : i # m => q[i] \in V
      OBVIOUS
    <3> QED
      BY <3>1, <3>2
  <2>4. ASSUME NEW i \in 0..m PROVE u[i] = IF i = 0 THEN base ELSE G[i][u[i - 1]]
    <3>1. CASE i = m
      <4>1. u[i] = new /\ i # 0 /\ u[i - 1] = q[m - 1]
        BY <3>1
      <4> HIDE DEF u
      <4> QED
        BY <3>1, <4>1
    <3>2. CASE i # m
      <4>1. i \in 0..m - 1 /\ u[i] = q[i] /\ (i # 0 => u[i - 1] = q[i - 1])
        BY <3>2
      <4> HIDE DEF u
      <4> QED
        BY <2>1, <4>1
    <3> QED
      BY <3>1, <3>2
  <2> HIDE DEF u
  <2>5. m \in 0..N
    OBVIOUS
  <2> QED
    BY <2>3, <2>4, <2>5
<1> HIDE DEF Up
<1>3. \A m \in 0..N : m \in S
  <2> HIDE DEF S
  <2> QED
    BY <1>1, <1>2, Climb
<1> QED
  BY <1>3 DEF Up, Rises

-----------------------------------------------------------------------------
(* Telnet's decoder.                                                       *)

Sym == Telnet!Bytes
Answers == Seq(Seq(Sym \cup {"is"}))
States == {"normal", "iac", "sb", "sbiac"} \cup Telnet!Commands
Acc == [st : States, opt : Sym \cup {"none"}, data : Seq(Sym), neg : Answers]

\* Where a byte takes the decoder, and whether it is shown.
Goes(st, b) ==
  CASE st = "normal" -> IF b = "iac" THEN "iac" ELSE "normal"
    [] st = "iac"    -> IF b \in Telnet!Commands \cup {"sb"} THEN b ELSE "normal"
    [] st = "sb"     -> IF b = "iac" THEN "sbiac" ELSE "sb"
    [] st = "sbiac"  -> IF b = "se" THEN "normal" ELSE "sb"
    [] OTHER         -> "normal"
Shows(st, b) == (st = "normal" /\ b # "iac") \/ (st = "iac" /\ b = "iac")

LEMMA SymIs ==
  /\ Sym = {"will", "wont", "do", "dont", "echo", "ttype", "naws", "opt", "x", "login",
            "password", "iac", "sb", "se"}
  /\ States = {"normal", "iac", "sb", "sbiac", "will", "wont", "do", "dont"}
BY DEF Sym, States, Telnet!Bytes, Telnet!Commands, Telnet!Options, Telnet!Text

LEMMA VisibleIs ==
  ASSUME NEW acc \in Acc, NEW b \in Sym
  PROVE  /\ Telnet!Visible(acc, b) \in Acc
         /\ Telnet!Visible(acc, b).st = "normal"
         /\ Telnet!Visible(acc, b).data = Append(acc.data, b)
<1>1. Append(acc.data, b) \in Seq(Sym)
  BY AppendProperties DEF Acc
<1> QED
  BY <1>1 DEF Telnet!Visible, Acc, States

LEMMA ReplyIs ==
  ASSUME NEW acc \in Acc, NEW r \in Seq(Sym \cup {"is"})
  PROVE  /\ Telnet!Reply(acc, r) \in Acc
         /\ Telnet!Reply(acc, r).st = "normal"
         /\ Telnet!Reply(acc, r).data = acc.data
<1>1. Append(acc.neg, r) \in Answers
  BY AppendProperties DEF Acc, Answers
<1> QED
  BY <1>1 DEF Telnet!Reply, Acc, States

LEMMA GotoIs ==
  ASSUME NEW acc \in Acc, NEW st \in States
  PROVE  /\ Telnet!Goto(acc, st) \in Acc
         /\ Telnet!Goto(acc, st).st = st
         /\ Telnet!Goto(acc, st).data = acc.data
BY DEF Telnet!Goto, Acc

LEMMA OptIs ==
  ASSUME NEW acc \in Acc, NEW o \in Sym \cup {"none"}
  PROVE  /\ [acc EXCEPT !.opt = o] \in Acc
         /\ [acc EXCEPT !.opt = o].st = acc.st
         /\ [acc EXCEPT !.opt = o].data = acc.data
BY DEF Acc

Moves(acc, b, z) ==
  /\ z \in Acc
  /\ z.st = Goes(acc.st, b)
  /\ z.data = IF Shows(acc.st, b) THEN Append(acc.data, b) ELSE acc.data

LEMMA GoesIs ==
  ASSUME NEW b
  PROVE  /\ Goes("normal", b) = (IF b = "iac" THEN "iac" ELSE "normal")
         /\ Goes("iac", b) = (IF b \in Telnet!Commands \cup {"sb"} THEN b ELSE "normal")
         /\ \A st \in Telnet!Commands : Goes(st, b) = "normal" /\ ~Shows(st, b)
         /\ Goes("sb", b) = (IF b = "iac" THEN "sbiac" ELSE "sb")
         /\ Goes("sbiac", b) = (IF b = "se" THEN "normal" ELSE "sb")
         /\ Shows("normal", b) <=> b # "iac"
         /\ Shows("iac", b) <=> b = "iac"
         /\ ~Shows("sb", b) /\ ~Shows("sbiac", b)
BY DEF Goes, Shows, Telnet!Commands

LEMMA ByteMoves ==
  ASSUME NEW acc \in Acc, NEW b \in Sym
  PROVE  Moves(acc, b, Telnet!ProcessByte(acc, b))
<1> DEFINE z == Telnet!ProcessByte(acc, b)
<1>1. acc.st \in States
  BY DEF Acc
<1>0. "normal" \in States /\ "iac" \in States /\ "sb" \in States /\ "sbiac" \in States
  BY DEF States
<1>2. CASE acc.st = "normal"
  <2>1. CASE b = "iac"
    <3>1. z = Telnet!Goto(acc, "iac")
      BY <1>2, <2>1 DEF Telnet!ProcessByte, Telnet!Commands
    <3> HIDE DEF z
    <3>2. z \in Acc /\ z.st = "iac" /\ z.data = acc.data
      BY <1>0, <3>1, GotoIs
    <3>3. Goes(acc.st, b) = "iac" /\ ~Shows(acc.st, b)
      BY <1>2, <2>1, GoesIs
    <3>4. Moves(acc, b, z)
      BY <3>2, <3>3 DEF Moves
    <3> QED
      BY <3>4 DEF z
  <2>2. CASE b # "iac"
    <3>1. z = Telnet!Visible(acc, b)
      BY <1>2, <2>2 DEF Telnet!ProcessByte, Telnet!Commands
    <3> HIDE DEF z
    <3>2. z \in Acc /\ z.st = "normal" /\ z.data = Append(acc.data, b)
      BY <3>1, VisibleIs
    <3>3. Goes(acc.st, b) = "normal" /\ Shows(acc.st, b)
      BY <1>2, <2>2, GoesIs
    <3>4. Moves(acc, b, z)
      BY <3>2, <3>3 DEF Moves
    <3> QED
      BY <3>4 DEF z
  <2> QED
    BY <2>1, <2>2
<1>3. CASE acc.st = "iac"
  <2>1. CASE b = "iac"
    <3>1. z = Telnet!Visible(acc, b)
      BY <1>3, <2>1 DEF Telnet!ProcessByte, Telnet!Commands, Telnet!AfterIac
    <3> HIDE DEF z
    <3>2. z \in Acc /\ z.st = "normal" /\ z.data = Append(acc.data, b)
      BY <3>1, VisibleIs
    <3>3. Goes(acc.st, b) = "normal" /\ Shows(acc.st, b)
      BY <1>3, <2>1, GoesIs DEF Telnet!Commands
    <3>4. Moves(acc, b, z)
      BY <3>2, <3>3 DEF Moves
    <3> QED
      BY <3>4 DEF z
  <2>2. CASE b \in Telnet!Commands
    <3>1. z = Telnet!Goto(acc, b)
      BY <1>3, <2>2 DEF Telnet!ProcessByte, Telnet!Commands, Telnet!AfterIac
    <3> HIDE DEF z
    <3>2. z \in Acc /\ z.st = b /\ z.data = acc.data
      <4>1. b \in States
        BY <2>2 DEF States
      <4> QED
        BY <3>1, <4>1, GotoIs
    <3>3. Goes(acc.st, b) = b /\ ~Shows(acc.st, b)
      BY <1>3, <2>2, GoesIs DEF Telnet!Commands
    <3>4. Moves(acc, b, z)
      BY <3>2, <3>3 DEF Moves
    <3> QED
      BY <3>4 DEF z
  <2>3. CASE b = "sb"
    <3>1. z = [Telnet!Goto(acc, "sb") EXCEPT !.opt = "none"]
      BY <1>3, <2>3 DEF Telnet!ProcessByte, Telnet!Commands, Telnet!AfterIac
    <3> HIDE DEF z
    <3>2. z \in Acc /\ z.st = "sb" /\ z.data = acc.data
      <4> DEFINE g == Telnet!Goto(acc, "sb")
      <4>1. g \in Acc /\ g.st = "sb" /\ g.data = acc.data
        BY <1>0, GotoIs
      <4>2. z = [g EXCEPT !.opt = "none"]
        BY <3>1
      <4> HIDE DEF g
      <4> QED
        BY <4>1, <4>2 DEF Acc
    <3>3. Goes(acc.st, b) = "sb" /\ ~Shows(acc.st, b)
      BY <1>3, <2>3, GoesIs DEF Telnet!Commands
    <3>4. Moves(acc, b, z)
      BY <3>2, <3>3 DEF Moves
    <3> QED
      BY <3>4 DEF z
  <2>4. CASE b \notin Telnet!Commands \cup {"iac", "sb"}
    <3>1. z = Telnet!Goto(acc, "normal")
      BY <1>3, <2>4 DEF Telnet!ProcessByte, Telnet!Commands, Telnet!AfterIac
    <3> HIDE DEF z
    <3>2. z \in Acc /\ z.st = "normal" /\ z.data = acc.data
      BY <1>0, <3>1, GotoIs
    <3>3. Goes(acc.st, b) = "normal" /\ ~Shows(acc.st, b)
      BY <1>3, <2>4, GoesIs DEF Telnet!Commands
    <3>4. Moves(acc, b, z)
      BY <3>2, <3>3 DEF Moves
    <3> QED
      BY <3>4 DEF z
  <2> QED
    BY <2>1, <2>2, <2>3, <2>4
<1>4. CASE acc.st \in Telnet!Commands
  <2>1. CASE acc.st = "will"
    <3>1. z = Telnet!Reply(acc, <<IF b = "echo" THEN "do" ELSE "dont", b>>)
      BY <1>4, <2>1 DEF Telnet!ProcessByte, Telnet!Commands, Telnet!Negotiate
    <3> HIDE DEF z
    <3>2. z \in Acc /\ z.st = "normal" /\ z.data = acc.data
      <4> DEFINE r == <<IF b = "echo" THEN "do" ELSE "dont", b>>
      <4>1. r \in Seq(Sym \cup {"is"})
        BY SymIs
      <4> HIDE DEF r
      <4>2. z = Telnet!Reply(acc, r)
        BY <3>1 DEF r
      <4> QED
        BY <4>1, <4>2, ReplyIs
    <3>3. Goes(acc.st, b) = "normal" /\ ~Shows(acc.st, b)
      BY <1>4, <2>1, GoesIs DEF Telnet!Commands
    <3>4. Moves(acc, b, z)
      BY <3>2, <3>3 DEF Moves
    <3> QED
      BY <3>4 DEF z
  <2>2. CASE acc.st = "do"
    <3>1. z = Telnet!Reply(acc, <<IF b \in {"echo", "naws", "ttype"} THEN "will" ELSE "wont", b>>)
      BY <1>4, <2>2 DEF Telnet!ProcessByte, Telnet!Commands, Telnet!Negotiate
    <3> HIDE DEF z
    <3>2. z \in Acc /\ z.st = "normal" /\ z.data = acc.data
      <4> DEFINE r == <<IF b \in {"echo", "naws", "ttype"} THEN "will" ELSE "wont", b>>
      <4>1. r \in Seq(Sym \cup {"is"})
        BY SymIs
      <4> HIDE DEF r
      <4>2. z = Telnet!Reply(acc, r)
        BY <3>1 DEF r
      <4> QED
        BY <4>1, <4>2, ReplyIs
    <3>3. Goes(acc.st, b) = "normal" /\ ~Shows(acc.st, b)
      BY <1>4, <2>2, GoesIs DEF Telnet!Commands
    <3>4. Moves(acc, b, z)
      BY <3>2, <3>3 DEF Moves
    <3> QED
      BY <3>4 DEF z
  <2>3. CASE acc.st \notin {"will", "do"}
    <3>1. z = Telnet!Goto(acc, "normal")
      BY <1>4, <2>3 DEF Telnet!ProcessByte, Telnet!Commands, Telnet!Negotiate
    <3> HIDE DEF z
    <3>2. z \in Acc /\ z.st = "normal" /\ z.data = acc.data
      BY <1>0, <3>1, GotoIs
    <3>3. Goes(acc.st, b) = "normal" /\ ~Shows(acc.st, b)
      BY <1>4, <2>3, GoesIs DEF Telnet!Commands
    <3>4. Moves(acc, b, z)
      BY <3>2, <3>3 DEF Moves
    <3> QED
      BY <3>4 DEF z
  <2> QED
    BY <2>1, <2>2, <2>3
<1>5. CASE acc.st \in {"sb", "sbiac"}
  <2>1. CASE acc.st = "sb" /\ b = "iac"
    <3>1. z = Telnet!Goto(acc, "sbiac")
      BY <1>5, <2>1 DEF Telnet!ProcessByte, Telnet!Commands, Telnet!Subnegotiation
    <3> HIDE DEF z
    <3>2. z \in Acc /\ z.st = "sbiac" /\ z.data = acc.data
      BY <1>0, <3>1, GotoIs
    <3>3. Goes(acc.st, b) = "sbiac" /\ ~Shows(acc.st, b)
      BY <1>5, <2>1, GoesIs
    <3>4. Moves(acc, b, z)
      BY <3>2, <3>3 DEF Moves
    <3> QED
      BY <3>4 DEF z
  <2>2. CASE acc.st = "sb" /\ b # "iac"
    <3>1. z = [acc EXCEPT !.opt = IF acc.opt = "none" THEN b ELSE acc.opt]
      BY <1>5, <2>2 DEF Telnet!ProcessByte, Telnet!Commands, Telnet!Subnegotiation, Acc
    <3> HIDE DEF z
    <3>2. z \in Acc /\ z.st = "sb" /\ z.data = acc.data
      <4> DEFINE o == IF acc.opt = "none" THEN b ELSE acc.opt
      <4>1. o \in Sym \cup {"none"}
        BY DEF Acc
      <4> HIDE DEF o
      <4>2. z = [acc EXCEPT !.opt = o]
        BY <3>1 DEF o
      <4> QED
        BY <2>2, <4>1, <4>2, OptIs
    <3>3. Goes(acc.st, b) = "sb" /\ ~Shows(acc.st, b)
      BY <1>5, <2>2, GoesIs
    <3>4. Moves(acc, b, z)
      BY <3>2, <3>3 DEF Moves
    <3> QED
      BY <3>4 DEF z
  <2>3. CASE acc.st = "sbiac" /\ b = "se"
    <3>1. z = IF acc.opt = "ttype" THEN [Telnet!Reply(acc, <<"ttype", "is">>) EXCEPT !.opt = "none"]
               ELSE [Telnet!Goto(acc, "normal") EXCEPT !.opt = "none"]
      BY <1>5, <2>3 DEF Telnet!ProcessByte, Telnet!Commands, Telnet!Subnegotiation
    <3> HIDE DEF z
    <3>2. z \in Acc /\ z.st = "normal" /\ z.data = acc.data
      <4> DEFINE r == Telnet!Reply(acc, <<"ttype", "is">>)
                 g == Telnet!Goto(acc, "normal")
      <4>1. <<"ttype", "is">> \in Seq(Sym \cup {"is"})
        BY SymIs
      <4>2. r \in Acc /\ r.st = "normal" /\ r.data = acc.data
        BY <4>1, ReplyIs
      <4>3. g \in Acc /\ g.st = "normal" /\ g.data = acc.data
        BY <1>0, GotoIs
      <4>4. z = [r EXCEPT !.opt = "none"] \/ z = [g EXCEPT !.opt = "none"]
        BY <3>1
      <4> HIDE DEF r, g
      <4> QED
        BY <4>2, <4>3, <4>4 DEF Acc
    <3>3. Goes(acc.st, b) = "normal" /\ ~Shows(acc.st, b)
      BY <1>5, <2>3, GoesIs
    <3>4. Moves(acc, b, z)
      BY <3>2, <3>3 DEF Moves
    <3> QED
      BY <3>4 DEF z
  <2>4. CASE acc.st = "sbiac" /\ b # "se"
    <3>1. z = Telnet!Goto(acc, "sb")
      BY <1>5, <2>4 DEF Telnet!ProcessByte, Telnet!Commands, Telnet!Subnegotiation
    <3> HIDE DEF z
    <3>2. z \in Acc /\ z.st = "sb" /\ z.data = acc.data
      BY <1>0, <3>1, GotoIs
    <3>3. Goes(acc.st, b) = "sb" /\ ~Shows(acc.st, b)
      BY <1>5, <2>4, GoesIs
    <3>4. Moves(acc, b, z)
      BY <3>2, <3>3 DEF Moves
    <3> QED
      BY <3>4 DEF z
  <2> QED
    BY <1>5, <2>1, <2>2, <2>3, <2>4
<1> QED
  BY <1>1, <1>2, <1>3, <1>4, <1>5 DEF States

\* What the loop of process_iac goes through.
Start(st) == [st |-> st, opt |-> "none", data |-> <<>>, neg |-> <<>>]
Decodes(s, st, a) ==
  /\ a \in [0..Len(s) -> Acc] /\ a[0] = Start(st)
  /\ \A m \in 1..Len(s) : Moves(a[m - 1], s[m], a[m])

LEMMA Decoded ==
  ASSUME NEW s \in Seq(Sym), NEW st \in States
  PROVE  \E a : Decodes(s, st, a) /\ Telnet!process_iac(s, st) = a[Len(s)]
<1> DEFINE N == Len(s)
           Is(u) == u = [n \in 0..N |-> IF n = 0 THEN Start(st)
                                        ELSE Telnet!ProcessByte(u[n - 1], s[n])]
<1>1. N \in Nat /\ \A m \in 1..N : s[m] \in Sym
  OBVIOUS
<1>2. Start(st) \in Acc
  BY DEF Start, Acc, Answers
<1>3. \A v \in Acc, b \in Sym : Telnet!ProcessByte(v, b) \in Acc
  BY ByteMoves DEF Moves
<1>4. \E u : Is(u)
  <2> DEFINE G == [i \in 1..N |-> [v \in Acc |-> Telnet!ProcessByte(v, s[i])]]
  <2>1. G \in [1..N -> [Acc -> Acc]]
    BY <1>1, <1>3
  <2>2. \A i \in 1..N : \A v \in Acc : G[i][v] = Telnet!ProcessByte(v, s[i])
    OBVIOUS
  <2> HIDE DEF G
  <2>3. PICK q \in [0..N -> Acc] : Rises(q, N, Start(st), G)
    <3> HIDE DEF N
    <3> QED
      BY <1>1, <1>2, <2>1, Recursion
  <2>4. ASSUME NEW n \in 0..N
        PROVE  q[n] = IF n = 0 THEN Start(st) ELSE Telnet!ProcessByte(q[n - 1], s[n])
    <3>1. CASE n = 0
      BY <2>3, <3>1 DEF Rises
    <3>2. CASE n # 0
      <4>1. n \in 1..N /\ n - 1 \in 0..N
        BY <1>1, <3>2
      <4>2. q[n - 1] \in Acc /\ q[n] = G[n][q[n - 1]]
        BY <2>3, <3>2, <4>1, Zenon DEF Rises
      <4> QED
        BY <2>2, <3>2, <4>1, <4>2
    <3> QED
      BY <3>1, <3>2
  <2>5. Is(q)
    BY <2>4
  <2> QED
    BY <2>5
<1> DEFINE p == CHOOSE u : Is(u)
<1>5. Is(p)
  BY <1>4
<1>6. Telnet!process_iac(s, st) = p[N]
  BY DEF Telnet!process_iac, Start
<1> HIDE DEF p
<1>7. \A n \in 0..N : p[n] = IF n = 0 THEN Start(st) ELSE Telnet!ProcessByte(p[n - 1], s[n])
  BY <1>5, Zenon
<1>8. p[0] = Start(st) /\ \A m \in 1..N : p[m] = Telnet!ProcessByte(p[m - 1], s[m])
  <2>1. 0 \in 0..N /\ \A m \in 1..N : m \in 0..N /\ m # 0
    BY <1>1
  <2> QED
    BY <1>7, <2>1
<1> DEFINE T == {m \in 0..N : p[m] \in Acc}
<1>9. 0 \in T
  BY <1>1, <1>2, <1>8
<1>10. ASSUME NEW m \in 1..N, m - 1 \in T PROVE m \in T
  BY <1>1, <1>3, <1>8, <1>10
<1>11. \A m \in 0..N : m \in T
  <2> HIDE DEF T, N
  <2> QED
    BY <1>1, <1>9, <1>10, Climb
<1>12. p \in [0..N -> Acc]
  <2>1. p = [n \in 0..N |-> p[n]]
    BY <1>5
  <2> QED
    BY <1>11, <2>1
<1>13. \A m \in 1..N : Moves(p[m - 1], s[m], p[m])
  <2> SUFFICES ASSUME NEW m \in 1..N PROVE Moves(p[m - 1], s[m], p[m])
    OBVIOUS
  <2>1. p[m - 1] \in Acc /\ s[m] \in Sym /\ p[m] = Telnet!ProcessByte(p[m - 1], s[m])
    BY <1>1, <1>8, <1>12
  <2> QED
    BY <2>1, ByteMoves
<1> QED
  BY <1>6, <1>8, <1>12, <1>13 DEF Decodes

\* Where the loop ends up.
D(s, st) == Telnet!process_iac(s, st)

LEMMA DType == ASSUME NEW s \in Seq(Sym), NEW st \in States PROVE D(s, st) \in Acc
<1>1. PICK a : Decodes(s, st, a) /\ D(s, st) = a[Len(s)]
  BY Decoded DEF D
<1>2. Len(s) \in 0..Len(s)
  OBVIOUS
<1> QED
  BY <1>1, <1>2 DEF Decodes

LEMMA Concats ==
  /\ <<>> \in Seq(Sym)
  /\ \A a \in Seq(Sym) : a \o <<>> = a /\ <<>> \o a = a
  /\ \A a, b \in Seq(Sym) : a \o b \in Seq(Sym)
  /\ \A a, b, c \in Seq(Sym) : (a \o b) \o c = a \o (b \o c)
  /\ \A a \in Seq(Sym) : \A x \in Sym : Append(a, x) = a \o <<x>> /\ <<x>> \in Seq(Sym)
<1>1. <<>> \in Seq(Sym)
  OBVIOUS
<1>2. ASSUME NEW a \in Seq(Sym) PROVE a \o <<>> = a /\ <<>> \o a = a
  BY ConcatEmptySeq
<1>3. ASSUME NEW a \in Seq(Sym), NEW b \in Seq(Sym) PROVE a \o b \in Seq(Sym)
  BY ConcatProperties
<1>4. ASSUME NEW a \in Seq(Sym), NEW b \in Seq(Sym), NEW c \in Seq(Sym)
      PROVE (a \o b) \o c = a \o (b \o c)
  BY ConcatAssociative
<1>5. ASSUME NEW a \in Seq(Sym), NEW x \in Sym PROVE Append(a, x) = a \o <<x>> /\ <<x>> \in Seq(Sym)
  BY AppendIsConcat
<1> QED
  BY <1>1, <1>2, <1>3, <1>4, <1>5, Zenon

\* One decoder is where another is, and has shown something more before.
Ahead(x, y, d) == x.st = y.st /\ x.data = d \o y.data

LEMMA StaysAhead ==
  ASSUME NEW x \in Acc, NEW y \in Acc, NEW d \in Seq(Sym), NEW b \in Sym, NEW x2, NEW y2,
         Ahead(x, y, d), Moves(x, b, x2), Moves(y, b, y2)
  PROVE  Ahead(x2, y2, d)
<1>1. y.data \in Seq(Sym) /\ x.st = y.st /\ x.data = d \o y.data
  BY DEF Acc, Ahead
<1>2. x2.st = y2.st
  BY <1>1 DEF Moves
<1>3. CASE Shows(x.st, b)
  <2>1. x2.data = Append(d \o y.data, b) /\ y2.data = Append(y.data, b)
    BY <1>1, <1>3 DEF Moves
  <2>2. Append(d \o y.data, b) = (d \o y.data) \o <<b>> /\ Append(y.data, b) = y.data \o <<b>>
    BY <1>1, Concats
  <2>3. (d \o y.data) \o <<b>> = d \o (y.data \o <<b>>)
    BY <1>1, Concats
  <2> QED
    BY <1>2, <2>1, <2>2, <2>3 DEF Ahead
<1>4. CASE ~Shows(x.st, b)
  <2>1. x2.data = d \o y.data /\ y2.data = y.data
    BY <1>1, <1>4 DEF Moves
  <2> QED
    BY <1>2, <2>1 DEF Ahead
<1> QED
  BY <1>3, <1>4

\* What is read in two pieces is decoded as if it were read in one.
LEMMA Composes ==
  ASSUME NEW s \in Seq(Sym), NEW t \in Seq(Sym), NEW st \in States
  PROVE  Ahead(D(s \o t, st), D(t, D(s, st).st), D(s, st).data)
<1> DEFINE r == s \o t
           M == Len(s)
           N == Len(t)
<1>1. PICK a : Decodes(s, st, a) /\ D(s, st) = a[M]
  BY Decoded DEF D
<1>2. D(s, st) \in Acc /\ D(s, st).st \in States /\ D(s, st).data \in Seq(Sym)
  BY DType DEF Acc
<1>3. PICK b : Decodes(t, D(s, st).st, b) /\ D(t, D(s, st).st) = b[N]
  BY <1>2, Decoded DEF D
<1>4. r \in Seq(Sym) /\ Len(r) = M + N /\ M \in Nat /\ N \in Nat
      /\ \A i \in 1..M + N : r[i] = IF i <= M THEN s[i] ELSE t[i - M]
  BY ConcatProperties
<1>5. PICK c : Decodes(r, st, c) /\ D(r, st) = c[M + N]
  <2> HIDE DEF r
  <2> QED
    BY <1>4, Decoded DEF D
<1>6. /\ a \in [0..M -> Acc] /\ b \in [0..N -> Acc] /\ c \in [0..M + N -> Acc]
      /\ a[0] = Start(st) /\ c[0] = Start(st) /\ b[0] = Start(D(s, st).st)
      /\ \A m \in 1..M : Moves(a[m - 1], s[m], a[m])
      /\ \A m \in 1..N : Moves(b[m - 1], t[m], b[m])
      /\ \A m \in 1..M + N : Moves(c[m - 1], r[m], c[m])
  BY <1>1, <1>3, <1>4, <1>5 DEF Decodes
<1>7. (\A m \in 1..M : s[m] \in Sym) /\ (\A m \in 1..N : t[m] \in Sym)
  OBVIOUS
<1> HIDE DEF r, M, N
<1> DEFINE T == {m \in 0..M : Ahead(c[m], a[m], <<>>)}
<1>8. 0 \in T
  BY <1>4, <1>6, Concats DEF Ahead, Start
<1>9. ASSUME NEW m \in 1..M, m - 1 \in T PROVE m \in T
  <2>1. m \in 1..M + N /\ m \in 0..M /\ m - 1 \in 0..M /\ m - 1 \in 0..M + N /\ r[m] = s[m]
    BY <1>4
  <2>2. /\ Moves(a[m - 1], s[m], a[m]) /\ Moves(c[m - 1], s[m], c[m])
        /\ a[m - 1] \in Acc /\ c[m - 1] \in Acc /\ s[m] \in Sym /\ Ahead(c[m - 1], a[m - 1], <<>>)
    BY <1>6, <1>7, <1>9, <2>1
  <2>3. Ahead(c[m], a[m], <<>>)
    BY <2>2, StaysAhead, Concats
  <2> QED
    BY <2>1, <2>3
<1>10. \A m \in 0..M : m \in T
  <2> HIDE DEF T
  <2> QED
    BY <1>4, <1>8, <1>9, Climb
<1>11. Ahead(c[M], a[M], <<>>) /\ a[M] = D(s, st) /\ M \in 0..M
  BY <1>1, <1>4, <1>10
<1> DEFINE d == D(s, st).data
           U == {m \in 0..N : Ahead(c[M + m], b[m], d)}
<1>12. 0 \in U
  <2>1. c[M].st = D(s, st).st /\ c[M].data = d
    BY <1>2, <1>11, Concats DEF Ahead
  <2>2. b[0].st = D(s, st).st /\ b[0].data = <<>> /\ d \o <<>> = d
    BY <1>2, <1>6, Concats DEF Start
  <2>3. M + 0 = M /\ 0 \in 0..N
    BY <1>4
  <2> QED
    BY <2>1, <2>2, <2>3 DEF Ahead
<1>13. ASSUME NEW m \in 1..N, m - 1 \in U PROVE m \in U
  <2>1. /\ M + m \in 1..M + N /\ m \in 0..N /\ m - 1 \in 0..N /\ M + (m - 1) \in 0..M + N
        /\ (M + m) - 1 = M + (m - 1) /\ r[M + m] = t[m]
    <3>1. /\ M + m \in 1..M + N /\ m \in 0..N /\ m - 1 \in 0..N /\ M + (m - 1) \in 0..M + N
          /\ (M + m) - 1 = M + (m - 1) /\ ~(M + m <= M) /\ (M + m) - M = m
      BY <1>4
    <3> QED
      BY <1>4, <3>1
  <2>2. /\ Moves(b[m - 1], t[m], b[m]) /\ Moves(c[M + (m - 1)], t[m], c[M + m])
        /\ b[m - 1] \in Acc /\ c[M + (m - 1)] \in Acc /\ t[m] \in Sym
        /\ Ahead(c[M + (m - 1)], b[m - 1], d)
    BY <1>6, <1>7, <1>13, <2>1
  <2>3. Ahead(c[M + m], b[m], d)
    BY <1>2, <2>2, StaysAhead
  <2> QED
    BY <2>1, <2>3
<1>14. \A m \in 0..N : m \in U
  <2> HIDE DEF U
  <2> QED
    BY <1>4, <1>12, <1>13, Climb
<1>15. Ahead(c[M + N], b[N], d)
  BY <1>4, <1>14
<1> QED
  BY <1>3, <1>5, <1>15 DEF r

LEMMA DecodesNone == ASSUME NEW st \in States PROVE D(<<>>, st).st = st /\ D(<<>>, st).data = <<>>
<1>1. PICK a : Decodes(<<>>, st, a) /\ D(<<>>, st) = a[Len(<<>>)]
  BY Concats, Decoded DEF D
<1> QED
  BY <1>1 DEF Decodes, Start

LEMMA DecodesOne ==
  ASSUME NEW st \in States, NEW b \in Sym
  PROVE  /\ D(<<b>>, st).st = Goes(st, b)
         /\ D(<<b>>, st).data = IF Shows(st, b) THEN <<b>> ELSE <<>>
<1>1. <<b>> \in Seq(Sym) /\ Len(<<b>>) = 1 /\ <<b>>[1] = b
  OBVIOUS
<1>2. PICK a : Decodes(<<b>>, st, a) /\ D(<<b>>, st) = a[1]
  BY <1>1, Decoded DEF D
<1>3. a[0] = Start(st) /\ Moves(a[0], b, a[1])
  BY <1>1, <1>2 DEF Decodes
<1>4. a[0].st = st /\ a[0].data = <<>> /\ Append(<<>>, b) = <<b>>
  BY <1>3 DEF Start
<1> QED
  BY <1>2, <1>3, <1>4 DEF Moves

-----------------------------------------------------------------------------
(* What the rest of a stream shows, from a place in it.                    *)

Onward(s, i, st) == D(SubSeq(s, i, Len(s)), st).data

LEMMA OnwardGoes ==
  ASSUME NEW s \in Seq(Sym), NEW st \in States, NEW i \in Nat \ {0}
  PROVE  /\ Onward(s, i, st) \in Seq(Sym)
         /\ i > Len(s) => Onward(s, i, st) = <<>>
         /\ i <= Len(s) =>
              /\ s[i] \in Sym /\ Goes(st, s[i]) \in States
              /\ Onward(s, i, st) = (IF Shows(st, s[i]) THEN <<s[i]>> ELSE <<>>)
                                  \o Onward(s, i + 1, Goes(st, s[i]))
<1> DEFINE N == Len(s)
<1>0. N \in Nat /\ i \in Int /\ i + 1 \in Int /\ N \in Int /\ \A j \in 1..N : s[j] \in Sym
  OBVIOUS
<1>1. SubSeq(s, i, N) \in Seq(Sym) /\ SubSeq(s, i + 1, N) \in Seq(Sym)
  <2>1. (\A j \in i..N : s[j] \in Sym) /\ (\A j \in i + 1..N : s[j] \in Sym)
    BY <1>0
  <2> QED
    BY <1>0, <2>1, SubSeqProperties
<1>2. Onward(s, i, st) \in Seq(Sym)
  BY <1>1, DType DEF Onward, Acc
<1>3. CASE i > N
  <2>1. SubSeq(s, i, N) = <<>>
    BY <1>0, <1>3, SubSeqEmpty
  <2>2. Onward(s, i, st) = <<>>
    BY <2>1, DecodesNone DEF Onward
  <2>3. ~(i <= N)
    BY <1>0, <1>3
  <2> HIDE DEF N
  <2> QED
    BY <1>2, <2>2, <2>3 DEF N
<1>4. CASE i <= N
  <2> DEFINE b == s[i]
             t == SubSeq(s, i + 1, N)
  <2>1. i \in 1..N /\ N \in i..N /\ b \in Sym
    BY <1>0, <1>4
  <2>2. SubSeq(s, i, N) = <<b>> \o t
    BY <2>1, SubSeqRecursiveFirst
  <2>3. /\ D(<<b>>, st).st = Goes(st, b)
        /\ D(<<b>>, st).data = IF Shows(st, b) THEN <<b>> ELSE <<>>
    BY <2>1, DecodesOne
  <2>4. Goes(st, b) \in States
    <3>1. <<b>> \in Seq(Sym)
      BY <2>1, Concats
    <3>2. D(<<b>>, st).st \in States
      BY <3>1, DType DEF Acc
    <3> QED
      BY <2>3, <3>2
  <2>5. Ahead(D(<<b>> \o t, st), D(t, Goes(st, b)), D(<<b>>, st).data)
    <3>1. <<b>> \in Seq(Sym) /\ t \in Seq(Sym)
      BY <1>1, <2>1, Concats
    <3>2. Ahead(D(<<b>> \o t, st), D(t, D(<<b>>, st).st), D(<<b>>, st).data)
      BY <3>1, Composes
    <3> QED
      BY <2>3, <3>2
  <2>6. Onward(s, i, st) = D(<<b>>, st).data \o Onward(s, i + 1, Goes(st, b))
    BY <2>2, <2>5 DEF Onward, Ahead
  <2>7. ~(i > N)
    BY <1>0, <1>4
  <2> QED
    BY <1>2, <2>1, <2>3, <2>4, <2>6, <2>7
<1> QED
  BY <1>0, <1>3, <1>4

-----------------------------------------------------------------------------
(* The grammar says the same.                                              *)

Byte(s, i) == IF i <= Len(s) THEN s[i] ELSE "end"
Places(s) == (1..Len(s) + 3) \X BOOLEAN
From(s, f, i, sub) ==
  IF i > Len(s) THEN <<>>
  ELSE IF sub THEN IF s[i] = "iac" THEN f[<<i + 2, Byte(s, i + 1) # "se">>] ELSE f[<<i + 1, TRUE>>]
  ELSE IF s[i] # "iac" THEN <<s[i]>> \o f[<<i + 1, FALSE>>]
  ELSE IF Byte(s, i + 1) = "iac" THEN <<"iac">> \o f[<<i + 2, FALSE>>]
  ELSE IF Byte(s, i + 1) \in Telnet!Commands THEN f[<<i + 3, FALSE>>]
  ELSE f[<<i + 2, Byte(s, i + 1) = "sb">>]

Mode(sub) == IF sub THEN "sb" ELSE "normal"
Left(s) == [p \in Places(s) |-> Onward(s, p[1], Mode(p[2]))]

LEMMA LeftIs ==
  ASSUME NEW s \in Seq(Sym), NEW i \in 1..Len(s) + 3, NEW sub \in BOOLEAN
  PROVE  Left(s)[<<i, sub>>] = Onward(s, i, Mode(sub))
BY DEF Left, Places

LEMMA OnwardType ==
  ASSUME NEW s \in Seq(Sym), NEW st \in States, NEW i \in Nat \ {0} PROVE Onward(s, i, st) \in Seq(Sym)
BY OnwardGoes

LEMMA OnwardEnds ==
  ASSUME NEW s \in Seq(Sym), NEW st \in States, NEW i \in Nat \ {0}, i > Len(s)
  PROVE  Onward(s, i, st) = <<>>
BY OnwardGoes

LEMMA OnwardStep ==
  ASSUME NEW s \in Seq(Sym), NEW st \in States, NEW i \in Nat \ {0}, i <= Len(s)
  PROVE  /\ s[i] \in Sym /\ Goes(st, s[i]) \in States
         /\ Onward(s, i, st) = (IF Shows(st, s[i]) THEN <<s[i]>> ELSE <<>>)
                             \o Onward(s, i + 1, Goes(st, s[i]))
BY OnwardGoes

\* What the decoder shows is what the grammar says, place by place.
LEMMA LeftFollows ==
  ASSUME NEW s \in Seq(Sym), NEW i \in 1..Len(s) + 3, NEW sub \in BOOLEAN
  PROVE  Left(s)[<<i, sub>>] = From(s, Left(s), i, sub)
<1> DEFINE N == Len(s)
           f == Left(s)
<1>0. N \in Nat /\ i \in Nat \ {0} /\ i + 1 \in Nat \ {0} /\ i + 2 \in Nat \ {0}
      /\ (i + 1) + 1 = i + 2 /\ (i + 2) + 1 = i + 3
  OBVIOUS
<1>1. "normal" \in States /\ "iac" \in States /\ "sb" \in States /\ "sbiac" \in States
      /\ Telnet!Commands \subseteq States
  BY DEF States
<1>2. f[<<i, sub>>] = Onward(s, i, Mode(sub)) /\ Mode(sub) \in States
  BY <1>1, LeftIs DEF Mode
<1>3. CASE i > N
  <2>1. Onward(s, i, Mode(sub)) = <<>>
    BY <1>0, <1>2, <1>3, OnwardGoes
  <2> QED
    BY <1>2, <1>3, <2>1 DEF From
<1>4. CASE i <= N
  <2> DEFINE b == s[i]
             y == Byte(s, i + 1)
  <2>0. i + 1 \in 1..N + 3 /\ i + 2 \in 1..N + 3 /\ i + 3 \in 1..N + 3 /\ ~(i > N)
    BY <1>0, <1>4
  <2>1. f[<<i + 1, TRUE>>] = Onward(s, i + 1, "sb") /\ f[<<i + 1, FALSE>>] = Onward(s, i + 1, "normal")
        /\ f[<<i + 2, TRUE>>] = Onward(s, i + 2, "sb") /\ f[<<i + 2, FALSE>>] = Onward(s, i + 2, "normal")
        /\ f[<<i + 3, FALSE>>] = Onward(s, i + 3, "normal")
    BY <2>0, LeftIs DEF Mode
  <2>2. \A st \in States :
          /\ Onward(s, i + 1, st) \in Seq(Sym) /\ Onward(s, i + 2, st) \in Seq(Sym)
          /\ Onward(s, i + 3, st) \in Seq(Sym)
          /\ Goes(st, b) \in States
          /\ Onward(s, i, st) = (IF Shows(st, b) THEN <<b>> ELSE <<>>) \o Onward(s, i + 1, Goes(st, b))
    <3> SUFFICES ASSUME NEW st \in States
                 PROVE  /\ Onward(s, i + 1, st) \in Seq(Sym) /\ Onward(s, i + 2, st) \in Seq(Sym)
                        /\ Onward(s, i + 3, st) \in Seq(Sym)
                        /\ Goes(st, b) \in States
                        /\ Onward(s, i, st) = (IF Shows(st, b) THEN <<b>> ELSE <<>>)
                                            \o Onward(s, i + 1, Goes(st, b))
      OBVIOUS
    <3>1. Onward(s, i + 1, st) \in Seq(Sym)
      BY <1>0, OnwardType
    <3>2. Onward(s, i + 2, st) \in Seq(Sym)
      BY <1>0, OnwardType
    <3>3. Onward(s, i + 3, st) \in Seq(Sym)
      BY <1>0, OnwardType
    <3> QED
      BY <1>0, <1>4, <3>1, <3>2, <3>3, OnwardStep
  <2>3. \A st \in States : i + 1 > N =>
          Onward(s, i + 1, st) = <<>> /\ Onward(s, i + 2, st) = <<>> /\ Onward(s, i + 3, st) = <<>>
    <3>1. i + 1 > N => i + 2 > N /\ i + 3 > N
      BY <1>0
    <3> SUFFICES ASSUME NEW st \in States, i + 1 > N
                 PROVE  Onward(s, i + 1, st) = <<>> /\ Onward(s, i + 2, st) = <<>> /\ Onward(s, i + 3, st) = <<>>
      OBVIOUS
    <3>2. Onward(s, i + 1, st) = <<>>
      BY <1>0, OnwardEnds
    <3>3. Onward(s, i + 2, st) = <<>>
      BY <1>0, <3>1, OnwardEnds
    <3>4. Onward(s, i + 3, st) = <<>>
      BY <1>0, <3>1, OnwardEnds
    <3> QED
      BY <3>2, <3>3, <3>4
  <2>4. \A st \in States : ~(i + 1 > N) =>
          /\ y \in Sym /\ Goes(st, y) \in States
          /\ Onward(s, i + 1, st) = (IF Shows(st, y) THEN <<y>> ELSE <<>>) \o Onward(s, i + 2, Goes(st, y))
    <3>1. ~(i + 1 > N) => i + 1 <= N /\ y = s[i + 1]
      BY <1>0 DEF Byte
    <3> SUFFICES ASSUME NEW st \in States, ~(i + 1 > N)
                 PROVE  /\ y \in Sym /\ Goes(st, y) \in States
                        /\ Onward(s, i + 1, st) = (IF Shows(st, y) THEN <<y>> ELSE <<>>)
                                                \o Onward(s, i + 2, Goes(st, y))
      OBVIOUS
    <3> DEFINE j == i + 1
    <3>2. j \in Nat \ {0} /\ j <= N /\ y = s[j] /\ j + 1 = i + 2
      BY <1>0, <3>1
    <3> HIDE DEF j, y
    <3>3. /\ y \in Sym /\ Goes(st, y) \in States
          /\ Onward(s, j, st) = (IF Shows(st, y) THEN <<y>> ELSE <<>>) \o Onward(s, j + 1, Goes(st, y))
      BY <3>2, OnwardStep
    <3> QED
      BY <3>2, <3>3 DEF j
  <2>5. i + 1 > N => y = "end"
    BY <1>0 DEF Byte
  <2>6. \A st \in Telnet!Commands : Onward(s, i + 2, st) = Onward(s, i + 3, "normal")
    <3> SUFFICES ASSUME NEW st \in Telnet!Commands PROVE Onward(s, i + 2, st) = Onward(s, i + 3, "normal")
      OBVIOUS
    <3>1. CASE i + 2 > N
      <4>1. i + 3 > N
        BY <1>0, <3>1
      <4> QED
        <5>1. Onward(s, i + 2, st) = <<>>
          BY <1>0, <1>1, <3>1, OnwardEnds
        <5>2. Onward(s, i + 3, "normal") = <<>>
          BY <1>0, <1>1, <4>1, OnwardEnds
        <5> QED
          BY <5>1, <5>2
    <3>2. CASE ~(i + 2 > N)
      <4>1. i + 2 <= N
        BY <1>0, <3>2
      <4>2. /\ s[i + 2] \in Sym
            /\ Onward(s, i + 2, st) = (IF Shows(st, s[i + 2]) THEN <<s[i + 2]>> ELSE <<>>)
                                    \o Onward(s, i + 3, Goes(st, s[i + 2]))
        BY <1>0, <1>1, <4>1, OnwardGoes
      <4>3. Goes(st, s[i + 2]) = "normal" /\ ~Shows(st, s[i + 2])
        BY GoesIs
      <4>4. Onward(s, i + 2, st) = <<>> \o Onward(s, i + 3, "normal")
        BY <4>2, <4>3
      <4> QED
        BY <1>1, <2>2, <4>4, Concats
    <3> QED
      BY <3>1, <3>2
  <2> HIDE DEF b, y, f, N
  <2>7. \A st \in States : <<>> \o Onward(s, i + 1, st) = Onward(s, i + 1, st)
                           /\ <<>> \o Onward(s, i + 2, st) = Onward(s, i + 2, st)
    BY <2>2, Concats
  <2>8. From(s, f, i, sub) =
          IF sub THEN IF b = "iac" THEN f[<<i + 2, y # "se">>] ELSE f[<<i + 1, TRUE>>]
          ELSE IF b # "iac" THEN <<b>> \o f[<<i + 1, FALSE>>]
          ELSE IF y = "iac" THEN <<"iac">> \o f[<<i + 2, FALSE>>]
          ELSE IF y \in Telnet!Commands THEN f[<<i + 3, FALSE>>]
          ELSE f[<<i + 2, y = "sb">>]
    BY <2>0 DEF From, b, y, N
  <2>9. CASE sub
    <3>0. f[<<i, sub>>] = Onward(s, i, "sb")
      BY <1>2, <2>9 DEF Mode, f
    <3>1. Onward(s, i, "sb") = Onward(s, i + 1, IF b = "iac" THEN "sbiac" ELSE "sb")
      <4>1. Goes("sb", b) = (IF b = "iac" THEN "sbiac" ELSE "sb") /\ ~Shows("sb", b)
        BY GoesIs
      <4>2. Onward(s, i, "sb") = <<>> \o Onward(s, i + 1, Goes("sb", b)) /\ Goes("sb", b) \in States
        BY <1>1, <2>2, <4>1
      <4> QED
        BY <2>7, <4>1, <4>2
    <3>2. CASE b # "iac"
      BY <2>1, <2>8, <2>9, <3>1, <3>2, <3>0 DEF f
    <3>3. CASE b = "iac" /\ i + 1 > N
      <4>1. Onward(s, i + 1, "sbiac") = <<>> /\ Onward(s, i + 2, "sb") = <<>>
        BY <1>1, <2>3, <3>3
      <4>2. (y # "se") = TRUE
        BY <2>5, <3>3
      <4> QED
        BY <2>1, <2>8, <2>9, <3>1, <3>3, <4>1, <4>2, <3>0 DEF f
    <3>4. CASE b = "iac" /\ ~(i + 1 > N)
      <4>1. Goes("sbiac", y) = (IF y = "se" THEN "normal" ELSE "sb") /\ ~Shows("sbiac", y)
        BY GoesIs
      <4>2. Onward(s, i + 1, "sbiac") = <<>> \o Onward(s, i + 2, Goes("sbiac", y)) /\ Goes("sbiac", y) \in States
        BY <1>1, <2>4, <3>4, <4>1
      <4>3. Onward(s, i + 1, "sbiac") = Onward(s, i + 2, IF y = "se" THEN "normal" ELSE "sb")
        BY <2>7, <4>1, <4>2
      <4>4. CASE y = "se"
        <5>1. (y # "se") = FALSE
          BY <4>4
        <5> QED
          BY <2>1, <2>8, <2>9, <3>1, <3>4, <4>3, <4>4, <5>1, <3>0 DEF f
      <4>5. CASE y # "se"
        <5>1. (y # "se") = TRUE
          BY <4>5
        <5> QED
          BY <2>1, <2>8, <2>9, <3>1, <3>4, <4>3, <4>5, <5>1, <3>0 DEF f
      <4> QED
        BY <4>4, <4>5
    <3> QED
      BY <3>2, <3>3, <3>4
  <2>10. CASE ~sub
    <3>0. f[<<i, sub>>] = Onward(s, i, "normal")
      BY <1>2, <2>10 DEF Mode, f
    <3>1. CASE b # "iac"
      <4>1. Goes("normal", b) = "normal" /\ Shows("normal", b)
        BY <3>1, GoesIs
      <4>2. Onward(s, i, "normal") = <<b>> \o Onward(s, i + 1, "normal")
        BY <1>1, <2>2, <4>1
      <4> QED
        BY <2>1, <2>8, <2>10, <3>1, <4>2, <3>0 DEF f
    <3>2. CASE b = "iac"
      <4>1. Goes("normal", b) = "iac" /\ ~Shows("normal", b)
        BY <3>2, GoesIs
      <4>2. Onward(s, i, "normal") = Onward(s, i + 1, "iac")
        <5>1. Onward(s, i, "normal") = <<>> \o Onward(s, i + 1, "iac")
          BY <1>1, <2>2, <4>1
        <5> QED
          BY <1>1, <2>7, <5>1
      <4>3. From(s, f, i, sub) =
              IF y = "iac" THEN <<"iac">> \o f[<<i + 2, FALSE>>]
              ELSE IF y \in Telnet!Commands THEN f[<<i + 3, FALSE>>]
              ELSE f[<<i + 2, y = "sb">>]
        BY <2>8, <2>10, <3>2
      <4>4. f[<<i, sub>>] = Onward(s, i + 1, "iac")
        BY <1>2, <2>10, <4>2 DEF Mode, f
      <4>5. CASE i + 1 > N
        <5>1. Onward(s, i + 1, "iac") = <<>> /\ Onward(s, i + 2, "normal") = <<>>
          BY <1>1, <2>3, <4>5
        <5>2. y = "end" /\ y # "iac" /\ y \notin Telnet!Commands /\ (y = "sb") = FALSE
          BY <2>5, <4>5 DEF Telnet!Commands
        <5>3. From(s, f, i, sub) = f[<<i + 2, FALSE>>]
          BY <4>3, <5>2
        <5> QED
          BY <2>1, <4>4, <5>1, <5>3 DEF f
      <4>6. CASE ~(i + 1 > N)
        <5>1. /\ Onward(s, i + 1, "iac") = (IF Shows("iac", y) THEN <<y>> ELSE <<>>)
                                         \o Onward(s, i + 2, Goes("iac", y))
              /\ Goes("iac", y) \in States
              /\ Goes("iac", y) = (IF y \in Telnet!Commands \cup {"sb"} THEN y ELSE "normal")
              /\ Shows("iac", y) <=> y = "iac"
          BY <1>1, <2>4, <4>6, GoesIs
        <5>2. CASE y = "iac"
          <6>1. y \notin Telnet!Commands \cup {"sb"}
            BY <5>2 DEF Telnet!Commands
          <6>2. Onward(s, i + 1, "iac") = <<"iac">> \o Onward(s, i + 2, "normal")
            BY <5>1, <5>2, <6>1
          <6>3. From(s, f, i, sub) = <<"iac">> \o f[<<i + 2, FALSE>>]
            BY <4>3, <5>2
          <6> QED
            BY <2>1, <4>4, <6>2, <6>3 DEF f
        <5>3. CASE y # "iac"
          <6>1. Onward(s, i + 1, "iac") = Onward(s, i + 2, Goes("iac", y))
            BY <2>7, <5>1, <5>3
          <6>2. CASE y \in Telnet!Commands
            <7>1. Onward(s, i + 1, "iac") = Onward(s, i + 3, "normal")
              BY <2>6, <5>1, <6>1, <6>2
            <7>2. From(s, f, i, sub) = f[<<i + 3, FALSE>>]
              BY <4>3, <5>3, <6>2
            <7> QED
              BY <2>1, <4>4, <7>1, <7>2 DEF f
          <6>3. CASE y = "sb"
            <7>1. y \notin Telnet!Commands /\ (y = "sb") = TRUE
              BY <6>3 DEF Telnet!Commands
            <7>2. Onward(s, i + 1, "iac") = Onward(s, i + 2, "sb")
              BY <5>1, <6>1, <6>3
            <7>3. From(s, f, i, sub) = f[<<i + 2, TRUE>>]
              BY <4>3, <5>3, <7>1
            <7> QED
              BY <2>1, <4>4, <7>2, <7>3 DEF f
          <6>4. CASE y \notin Telnet!Commands \cup {"sb"}
            <7>1. (y = "sb") = FALSE
              BY <6>4
            <7>2. Onward(s, i + 1, "iac") = Onward(s, i + 2, "normal")
              BY <5>1, <6>1, <6>4
            <7>3. From(s, f, i, sub) = f[<<i + 2, FALSE>>]
              BY <4>3, <5>3, <6>4, <7>1
            <7> QED
              BY <2>1, <4>4, <7>2, <7>3 DEF f
          <6> QED
            BY <6>2, <6>3, <6>4
        <5> QED
          BY <5>2, <5>3
      <4> QED
        BY <4>5, <4>6
    <3> QED
      BY <3>1, <3>2
  <2> QED
    BY <2>9, <2>10
<1> QED
  BY <1>0, <1>3, <1>4

\* And nothing else follows it.
LEMMA OnlyLeft ==
  ASSUME NEW s \in Seq(Sym), NEW p,
         p = [q \in Places(s) |-> From(s, p, q[1], q[2])]
  PROVE  p[<<1, FALSE>>] = Left(s)[<<1, FALSE>>]
<1> DEFINE N == Len(s) + 3
           u == Left(s)
           Bad == {k \in 0..N - 1 : \E sub \in BOOLEAN : p[<<N - k, sub>>] # u[<<N - k, sub>>]}
<1>1. N \in Nat /\ N >= 3 /\ N - 1 \in Nat
  OBVIOUS
<1>2. \A i \in 1..N, sub \in BOOLEAN : p[<<i, sub>>] = From(s, p, i, sub)
  BY DEF Places
<1>3. \A i \in 1..N, sub \in BOOLEAN : u[<<i, sub>>] = From(s, u, i, sub)
  BY LeftFollows
<1>4. Bad = {}
  <2> SUFFICES ASSUME Bad # {} PROVE FALSE
    OBVIOUS
  <2>1. Bad \in SUBSET Nat
    BY <1>1
  <2>2. PICK k \in Bad : \A m \in Bad : k <= m
    <3> HIDE DEF Bad
    <3> QED
      BY <2>1, LeastExists
  <2>3. PICK sub \in BOOLEAN : p[<<N - k, sub>>] # u[<<N - k, sub>>]
    OBVIOUS
  <2> DEFINE i == N - k
  <2>4. k \in 0..N - 1 /\ i \in 1..N
    BY <1>1
  <2>5. ASSUME NEW j \in {i + 1, i + 2, i + 3}, j <= N, NEW m \in BOOLEAN
        PROVE  p[<<j, m>>] = u[<<j, m>>]
    <3> SUFFICES ASSUME p[<<j, m>>] # u[<<j, m>>] PROVE FALSE
      OBVIOUS
    <3>1. N - j \in 0..N - 1 /\ N - (N - j) = j /\ ~(k <= N - j)
      BY <1>1, <2>4, <2>5
    <3>2. N - j \in Bad
      BY <3>1
    <3> HIDE DEF Bad
    <3> QED
      BY <2>2, <3>1, <3>2
  <2>6. ~(i > Len(s)) => i + 1 <= N /\ i + 2 <= N /\ i + 3 <= N
    BY <1>1, <2>4
  <2> HIDE DEF u, i, N
  <2>7. From(s, p, i, sub) = From(s, u, i, sub)
    <3>1. CASE i > Len(s)
      BY <3>1 DEF From
    <3>2. CASE ~(i > Len(s))
      <4>1. \A m \in BOOLEAN : /\ p[<<i + 1, m>>] = u[<<i + 1, m>>]
                               /\ p[<<i + 2, m>>] = u[<<i + 2, m>>]
                               /\ p[<<i + 3, m>>] = u[<<i + 3, m>>]
        BY <2>5, <2>6, <3>2
      <4>2. (Byte(s, i + 1) # "se") \in BOOLEAN /\ (Byte(s, i + 1) = "sb") \in BOOLEAN
        OBVIOUS
      <4>3. /\ p[<<i + 2, Byte(s, i + 1) # "se">>] = u[<<i + 2, Byte(s, i + 1) # "se">>]
            /\ p[<<i + 2, Byte(s, i + 1) = "sb">>] = u[<<i + 2, Byte(s, i + 1) = "sb">>]
        BY <4>1, <4>2
      <4> QED
        BY <4>1, <4>3, Zenon DEF From
    <3> QED
      BY <3>1, <3>2
  <2>8. p[<<i, sub>>] = u[<<i, sub>>]
    BY <1>2, <1>3, <2>4, <2>7
  <2> QED
    BY <2>3, <2>8 DEF i
<1>5. N - 1 \in 0..N - 1 /\ N - (N - 1) = 1
  BY <1>1
<1> QED
  BY <1>4, <1>5

\* The terminal's text is that of RFC 854, for any stream.
LEMMA TextIs == ASSUME NEW s \in Seq(Sym) PROVE Telnet!TextOf(s) = D(s, "normal").data
<1> DEFINE Is(u) == u = [p \in Places(s) |-> From(s, u, p[1], p[2])]
           p == CHOOSE u : Is(u)
<1>1. Is(Left(s))
  <2>1. Left(s) = [q \in Places(s) |-> Left(s)[q]]
    BY DEF Left
  <2>2. ASSUME NEW q \in Places(s) PROVE Left(s)[q] = From(s, Left(s), q[1], q[2])
    <3>1. q[1] \in 1..Len(s) + 3 /\ q[2] \in BOOLEAN /\ q = <<q[1], q[2]>>
      BY DEF Places
    <3> QED
      BY <3>1, LeftFollows
  <2> QED
    BY <2>1, <2>2
<1>2. Is(p)
  BY <1>1
<1>3. Telnet!TextOf(s) = p[<<1, FALSE>>]
  BY DEF Telnet!TextOf, From, Byte, Places
<1> HIDE DEF p
<1>4. p[<<1, FALSE>>] = Left(s)[<<1, FALSE>>]
  BY <1>2, OnlyLeft
<1>5. Left(s)[<<1, FALSE>>] = Onward(s, 1, "normal")
  <2>1. 1 \in 1..Len(s) + 3
    OBVIOUS
  <2> QED
    BY <2>1, LeftIs DEF Mode
<1>6. SubSeq(s, 1, Len(s)) = s
  BY SubSeqFull
<1> QED
  BY <1>3, <1>4, <1>5, <1>6 DEF Onward

-----------------------------------------------------------------------------
(* What Telnet shows and types.                                            *)

\* The decoder carried over from read to read is one that has read it all.
Heard ==
  /\ stream \in Seq(Sym) /\ pos \in 0..Len(stream)
  /\ iac = D(SubSeq(stream, 1, pos), "normal").st
  /\ data = D(SubSeq(stream, 1, pos), "normal").data

Words == {"user", "pass", "startup", "key", "naws", "nop", "init"}
Has(q, w) == \E i \in DOMAIN q : q[i] = w
Once(q, w) == \A i, j \in DOMAIN q : q[i] = w /\ q[j] = w => i = j
Before(q, v, w) == \A i \in DOMAIN q : q[i] = w => \E j \in DOMAIN q : j < i /\ q[j] = v

\* How far the login is, and what was typed on the way.
LoggedIn ==
  /\ typed \in Seq(Words)
  /\ startupSent \in BOOLEAN
  /\ kind = "telnet" /\ lineStatus = "Connecting" => typed = <<>> /\ phase = "idle" /\ ~startupSent
  /\ Once(typed, "user") /\ Once(typed, "pass") /\ Once(typed, "startup")
  /\ Before(typed, "user", "pass") /\ (Creds => Before(typed, "pass", "startup"))
  /\ phase \in {"idle", "loginPrompt", "passwordPrompt", "done"}
  /\ Has(typed, "user") <=> phase # "idle"
  /\ Has(typed, "pass") <=> phase \in {"passwordPrompt", "done"}
  /\ Has(typed, "startup") => startupSent
  /\ Creds /\ startupSent => phase = "done"

LEMMA TypesOne ==
  ASSUME NEW q \in Seq(Words), NEW x \in Words
  PROVE  /\ q \o <<x>> \in Seq(Words)
         /\ \A w : Has(q \o <<x>>, w) <=> Has(q, w) \/ x = w
         /\ \A w : Once(q, w) /\ (x = w => ~Has(q, w)) => Once(q \o <<x>>, w)
         /\ \A v, w : Before(q, v, w) /\ (x = w => Has(q, v)) => Before(q \o <<x>>, v, w)
<1> DEFINE r == Append(q, x)
           N == Len(q)
<1>1. q \o <<x>> = r
  BY AppendIsConcat
<1>2. /\ r \in Seq(Words) /\ N \in Nat /\ DOMAIN q = 1..N /\ DOMAIN r = 1..N + 1
      /\ r[N + 1] = x /\ \A i \in 1..N : r[i] = q[i]
  BY AppendProperties
<1> HIDE DEF r, N
<1>3. \A i \in 1..N + 1 : i \in 1..N \/ i = N + 1
  BY <1>2
<1>4. \A i \in 1..N : i \in 1..N + 1 /\ i < N + 1 /\ i # N + 1
  BY <1>2
<1>5. N + 1 \in 1..N + 1
  BY <1>2
<1>6. \A w : Has(r, w) <=> Has(q, w) \/ x = w
  BY <1>2, <1>3, <1>4, <1>5 DEF Has
<1>7. ASSUME NEW w, Once(q, w), x = w => ~Has(q, w) PROVE Once(r, w)
  BY <1>2, <1>3, <1>4, <1>7 DEF Has, Once
<1>8. ASSUME NEW v, NEW w, Before(q, v, w), x = w => Has(q, v) PROVE Before(r, v, w)
  BY <1>2, <1>3, <1>4, <1>8 DEF Has, Before
<1> QED
  BY <1>1, <1>2, <1>6, <1>7, <1>8

LEMMA TelnetBegins == ASSUME Telnet!TelnetAssumption, Telnet!Init PROVE Heard /\ LoggedIn
<1>1. stream \in Seq(Sym) /\ pos = 0 /\ iac = "normal" /\ data = <<>>
  BY DEF Telnet!TelnetAssumption, Telnet!Init, Sym
<1>2. SubSeq(stream, 1, 0) = <<>> /\ "normal" \in States
  BY SubSeqEmpty DEF States
<1>3. Heard
  <2>1. SubSeq(stream, 1, pos) = <<>> /\ 0 \in 0..Len(stream)
    BY <1>1, <1>2
  <2>2. D(<<>>, "normal").st = "normal" /\ D(<<>>, "normal").data = <<>>
    BY <1>2, DecodesNone
  <2> QED
    BY <1>1, <2>1, <2>2 DEF Heard
<1>4. typed = <<>> /\ phase = "idle" /\ startupSent = FALSE
  BY DEF Telnet!Init
<1>5. <<>> \in Seq(Words) /\ \A w : ~Has(<<>>, w) /\ Once(<<>>, w) /\ \A v : Before(<<>>, v, w)
  BY DEF Has, Once, Before
<1> QED
  BY <1>3, <1>4, <1>5 DEF LoggedIn

\* One read, whatever its size, decodes what one read of all so far would.
LEMMA ReadHeard ==
  ASSUME Heard, NEW n \in 1..Len(stream), Telnet!Read(n)
  PROVE  Heard'
<1> DEFINE s == SubSeq(stream, 1, pos)
           t == SubSeq(stream, pos + 1, pos + n)
           a == D(s, "normal")
           b == D(t, iac)
<1>1. /\ stream \in Seq(Sym) /\ pos \in 0..Len(stream) /\ Len(stream) \in Nat /\ n \in Nat
      /\ iac = a.st /\ data = a.data
  BY DEF Heard
<1>2. /\ stream' = stream /\ pos' = pos + n /\ iac' = b.st /\ data' = data \o b.data
      /\ n <= Len(stream) - pos
  BY DEF Telnet!Read, D
<1>3. 1 \in 1..Len(stream) + 1 /\ pos \in 1 - 1..Len(stream) /\ pos + n \in pos..Len(stream)
      /\ pos + n \in 0..Len(stream)
  BY <1>1, <1>2
<1>4. s \o t = SubSeq(stream, 1, pos + n)
  BY <1>1, <1>3, ConcatAdjacentSubSeq
<1>5. s \in Seq(Sym) /\ t \in Seq(Sym)
  <2>1. /\ \A i \in 1..pos : stream[i] \in Sym
        /\ \A i \in pos + 1..pos + n : stream[i] \in Sym
    BY <1>1, <1>3
  <2>2. pos \in Int /\ pos + 1 \in Int /\ pos + n \in Int /\ 1 \in Int
    BY <1>1
  <2> QED
    BY <2>1, <2>2, SubSeqProperties
<1> HIDE DEF s, t
<1>6. Ahead(D(s \o t, "normal"), D(t, D(s, "normal").st), D(s, "normal").data)
  <2>1. "normal" \in States
    BY DEF States
  <2> QED
    BY <1>5, <2>1, Composes
<1>7. D(s \o t, "normal").st = b.st /\ D(s \o t, "normal").data = data \o b.data
  BY <1>1, <1>6 DEF Ahead
<1> QED
  BY <1>1, <1>2, <1>3, <1>4, <1>7 DEF Heard

LEMMA FeedLogs ==
  ASSUME LoggedIn, kind' = kind, lineStatus = "Connected", lineStatus' = lineStatus,
         NEW chunk, Telnet!feed(chunk)
  PROVE  LoggedIn'
<1>1. \/ /\ phase = "done" /\ ~startupSent /\ phase' = phase /\ startupSent' = TRUE
         /\ typed' = typed \o <<"startup">>
      \/ /\ phase = "loginPrompt" /\ phase' = "passwordPrompt" /\ startupSent' = startupSent
         /\ typed' = typed \o <<"pass">>
      \/ /\ phase = "idle" /\ phase' = "loginPrompt" /\ startupSent' = startupSent
         /\ typed' = typed \o <<"user">>
      \/ /\ phase = "passwordPrompt" /\ phase' = "done" /\ startupSent' = startupSent
         /\ typed' = typed \o <<>>
      \/ /\ phase' = phase /\ typed' = typed \o <<>>
         /\ startupSent' = startupSent \/ (startupSent' = TRUE /\ phase = "done")
  <2> DEFINE due == phase = "done" /\ ~startupSent
             seen == recent \cup Telnet!ToSet(chunk)
  <2>1. CASE due /\ Startup
    BY <2>1 DEF Telnet!feed, Telnet!Login
  <2>2. CASE ~(due /\ Startup) /\ Telnet!PasswordExpected(seen)
    BY <2>2 DEF Telnet!feed, Telnet!Login, Telnet!PasswordExpected
  <2>3. CASE ~(due /\ Startup) /\ ~Telnet!PasswordExpected(seen) /\ phase = "idle" /\ "login" \in seen
    BY <2>3 DEF Telnet!feed, Telnet!Login
  <2>4. CASE /\ ~(due /\ Startup) /\ ~Telnet!PasswordExpected(seen)
             /\ ~(phase = "idle" /\ "login" \in seen) /\ phase = "passwordPrompt"
    BY <2>4 DEF Telnet!feed, Telnet!Login
  <2>5. CASE /\ ~(due /\ Startup) /\ ~Telnet!PasswordExpected(seen)
             /\ ~(phase = "idle" /\ "login" \in seen) /\ phase # "passwordPrompt"
    <3>1. Telnet!Login(phase, seen, startupSent \/ due, <<>>)
      BY <2>5 DEF Telnet!feed
    <3>2. startupSent \in BOOLEAN
      BY DEF LoggedIn
    <3> QED
      BY <3>1, <3>2 DEF Telnet!Login
  <2> QED
    BY <2>1, <2>2, <2>3, <2>4, <2>5
<1>2. typed \o <<>> = typed /\ typed \in Seq(Words)
  BY ConcatEmptySeq DEF LoggedIn
<1>3. ASSUME NEW x \in {"user", "pass", "startup"}
      PROVE  /\ typed \o <<x>> \in Seq(Words)
             /\ \A w : Has(typed \o <<x>>, w) <=> Has(typed, w) \/ x = w
             /\ \A w : Once(typed, w) /\ (x = w => ~Has(typed, w)) => Once(typed \o <<x>>, w)
             /\ \A v, w : Before(typed, v, w) /\ (x = w => Has(typed, v)) => Before(typed \o <<x>>, v, w)
  <2>1. x \in Words
    BY DEF Words
  <2> QED
    BY <1>2, <2>1, TypesOne
<1>4. CASE /\ phase = "done" /\ ~startupSent /\ phase' = phase /\ startupSent' = TRUE
           /\ typed' = typed \o <<"startup">>
  BY <1>3, <1>4 DEF LoggedIn
<1>5. CASE /\ phase = "loginPrompt" /\ phase' = "passwordPrompt" /\ startupSent' = startupSent
           /\ typed' = typed \o <<"pass">>
  BY <1>3, <1>5 DEF LoggedIn
<1>6. CASE /\ phase = "idle" /\ phase' = "loginPrompt" /\ startupSent' = startupSent
           /\ typed' = typed \o <<"user">>
  BY <1>3, <1>6 DEF LoggedIn
<1>7. CASE /\ phase = "passwordPrompt" /\ phase' = "done" /\ startupSent' = startupSent
           /\ typed' = typed \o <<>>
  BY <1>2, <1>7 DEF LoggedIn
<1>8. CASE /\ phase' = phase /\ typed' = typed \o <<>>
           /\ startupSent' = startupSent \/ (startupSent' = TRUE /\ phase = "done")
  <2>1. CASE startupSent' = startupSent
    BY <1>2, <1>8, <2>1 DEF LoggedIn
  <2>2. CASE startupSent' = TRUE /\ phase = "done"
    BY <1>2, <1>8, <2>2 DEF LoggedIn
  <2> QED
    BY <1>8, <2>1, <2>2
<1> QED
  BY <1>1, <1>4, <1>5, <1>6, <1>7, <1>8

LEMMA ConnectLogs == ASSUME LoggedIn, kind = "telnet", kind' = kind, Telnet!Connect PROVE LoggedIn'
<1> DEFINE a == <<>> \o <<"init">>
           b == a \o <<"naws">>
           c == b \o <<"startup">>
<1>1. typed = <<>> /\ phase = "idle" /\ phase' = "idle" /\ lineStatus' = "Connected"
      /\ startupSent' = (~Creds /\ Startup)
      /\ typed' = <<"init", "naws">> \o (IF ~Creds /\ Startup THEN <<"startup">> ELSE <<>>)
  BY DEF Telnet!Connect, Telnet!decodeVars, LoggedIn
<1>2. b = <<"init", "naws">> /\ <<"init", "naws">> \o <<>> = <<"init", "naws">>
  <2>1. <<"init">> \in Seq(Words) /\ <<"init", "naws">> \in Seq(Words)
    BY DEF Words
  <2>2. a = <<"init">> /\ <<"init", "naws">> \o <<>> = <<"init", "naws">>
    BY <2>1, ConcatEmptySeq
  <2>3. <<"init">> \o <<"naws">> = <<"init", "naws">>
    <3>1. Append(<<"init">>, "naws") = <<"init">> \o <<"naws">>
      BY <2>1, AppendIsConcat DEF Words
    <3>2. Append(<<"init">>, "naws") = <<"init", "naws">>
      <4> DEFINE x == Append(<<"init">>, "naws")
                 y == <<"init", "naws">>
      <4>1. Len(<<"init">>) = 1 /\ <<"init">>[1] = "init" /\ "naws" \in Words
        BY DEF Words
      <4>2. x \in Seq(Words) /\ Len(x) = 2 /\ x[1] = "init" /\ x[2] = "naws"
        BY <2>1, <4>1, AppendProperties
      <4>3. y \in Seq(Words) /\ Len(y) = 2 /\ y[1] = "init" /\ y[2] = "naws"
        BY <2>1
      <4> HIDE DEF x, y
      <4>4. \A i \in 1..2 : x[i] = y[i]
        BY <4>2, <4>3
      <4>5. x = y
        BY <4>2, <4>3, <4>4, SeqEqual
      <4> QED
        BY <4>5 DEF x, y
    <3> QED
      BY <3>1, <3>2
  <2> QED
    BY <2>2, <2>3
<1>3. /\ a \in Seq(Words) /\ ~Has(a, "user") /\ ~Has(a, "pass") /\ ~Has(a, "startup")
      /\ Once(a, "user") /\ Once(a, "pass") /\ Once(a, "startup")
      /\ Before(a, "user", "pass") /\ Before(a, "pass", "startup")
  <2>1. <<>> \in Seq(Words) /\ "init" \in Words
    BY DEF Words
  <2>2. /\ \A w : ~Has(<<>>, w) /\ Once(<<>>, w)
        /\ \A v, w : Before(<<>>, v, w)
    BY DEF Has, Once, Before
  <2> QED
    BY <2>1, <2>2, TypesOne
<1> HIDE DEF a
<1>4. /\ b \in Seq(Words) /\ ~Has(b, "user") /\ ~Has(b, "pass") /\ ~Has(b, "startup")
      /\ Once(b, "user") /\ Once(b, "pass") /\ Once(b, "startup")
      /\ Before(b, "user", "pass") /\ Before(b, "pass", "startup")
  <2>1. "naws" \in Words
    BY DEF Words
  <2> QED
    BY <1>3, <2>1, TypesOne
<1> HIDE DEF b
<1>5. /\ c \in Seq(Words) /\ ~Has(c, "user") /\ ~Has(c, "pass")
      /\ Once(c, "user") /\ Once(c, "pass") /\ Once(c, "startup") /\ Before(c, "user", "pass")
  <2>1. "startup" \in Words
    BY DEF Words
  <2> QED
    BY <1>4, <2>1, TypesOne
<1> HIDE DEF c
<1>6. CASE ~Creds /\ Startup
  <2>1. typed' = c /\ startupSent' = TRUE
    BY <1>1, <1>2, <1>6 DEF c
  <2> QED
    BY <1>1, <1>5, <1>6, <2>1 DEF LoggedIn
<1>7. CASE ~(~Creds /\ Startup)
  <2>1. typed' = b /\ startupSent' = FALSE
    BY <1>1, <1>2, <1>7
  <2> QED
    BY <1>1, <1>4, <2>1 DEF LoggedIn
<1> QED
  BY <1>6, <1>7

LEMMA WriteLogs ==
  ASSUME LoggedIn, kind' = kind, NEW w \in {"key", "naws", "nop"}, Telnet!Write(w)
  PROVE  LoggedIn'
<1>1. /\ typed' = Append(typed, w) /\ UNCHANGED <<phase, startupSent, lineStatus>>
      /\ lineStatus = "Connected"
  BY DEF Telnet!Write, Telnet!loginVars, Telnet!endVars, Telnet!Running
<1>2. typed \in Seq(Words) /\ w \in Words
  BY DEF LoggedIn, Words
<1>3. typed' = typed \o <<w>>
  BY <1>1, <1>2, AppendIsConcat
<1>4. /\ typed' \in Seq(Words)
      /\ \A x : Has(typed', x) <=> Has(typed, x) \/ w = x
      /\ \A x : Once(typed, x) /\ (w = x => ~Has(typed, x)) => Once(typed', x)
      /\ \A v, x : Before(typed, v, x) /\ (w = x => Has(typed, v)) => Before(typed', v, x)
  BY <1>2, <1>3, TypesOne
<1> QED
  BY <1>1, <1>4 DEF LoggedIn

LEMMA TelnetGoesOn ==
  ASSUME Heard, LoggedIn, [MCNext]_allVars
  PROVE  Heard' /\ LoggedIn'
<1> USE DEF Telnet!decodeVars, Telnet!loginVars, Telnet!endVars
<1>1. CASE UNCHANGED telnetVars /\ kind' = kind /\ (kind # "telnet" \/ UNCHANGED lineStatus)
  BY <1>1 DEF telnetVars, Heard, LoggedIn
<1>2. CASE kind = "telnet" /\ kind' = kind /\ Telnet!Next
  <2>1. CASE Telnet!Connect
    BY <1>2, <2>1, ConnectLogs DEF Telnet!Connect, Heard
  <2>2. CASE \E n \in 1..Len(stream) : Telnet!Read(n)
    <3>1. PICK n \in 1..Len(stream) : Telnet!Read(n)
      BY <2>2
    <3>2. Heard'
      BY <3>1, ReadHeard
    <3>3. lineStatus = "Connected" /\ lineStatus' = lineStatus
      BY <3>1 DEF Telnet!Read, Telnet!Running
    <3>4. CASE UNCHANGED <<phase, recent, startupSent, typed>>
      BY <1>2, <3>2, <3>3, <3>4 DEF LoggedIn
    <3>5. CASE \E chunk : Telnet!feed(chunk)
      BY <1>2, <3>2, <3>3, <3>5, FeedLogs
    <3> QED
      BY <3>1, <3>4, <3>5 DEF Telnet!Read
  <2>3. CASE \E w \in {"key", "naws", "nop"} : Telnet!Write(w)
    <3>1. Heard'
      BY <2>3 DEF Telnet!Write, Heard
    <3> QED
      BY <1>2, <2>3, <3>1, WriteLogs
  <2>4. CASE \/ Telnet!ConnectFails \/ Telnet!HandleClose \/ Telnet!Report
             \/ Telnet!ReadEof \/ Telnet!ReadError \/ Telnet!KeepaliveFails \/ Telnet!Close
    <3>1. UNCHANGED <<stream, pos, iac, data, replies, phase, recent, startupSent, typed>>
          /\ (lineStatus' = "Connecting" => lineStatus = "Connecting")
      BY <2>4 DEF Telnet!ConnectFails, Telnet!HandleClose, Telnet!Report, Telnet!ReadEof,
                  Telnet!ReadError, Telnet!KeepaliveFails, Telnet!Close, Telnet!Down
    <3> QED
      BY <1>2, <3>1 DEF Heard, LoggedIn
  <2> QED
    BY <1>2, <2>1, <2>2, <2>3, <2>4 DEF Telnet!Next, Telnet!TaskStep
<1> QED
  BY <1>1, <1>2 DEF MCNext, OnTelnet, OnSerial, OnSsh, OnSftp, allVars, lineVars, telnetVars

LEMMA TelnetIsSound == ASSUME Heard, LoggedIn PROVE TelnetSound
<1>1. SubSeq(stream, 1, pos) \in Seq(Sym)
  <2>1. pos \in Int /\ 1 \in Int /\ \A i \in 1..pos : stream[i] \in Sym
    BY DEF Heard
  <2> QED
    BY <2>1, SubSeqProperties
<1>2. Telnet!TextIsWhole
  BY <1>1, TextIs DEF Heard, Telnet!TextIsWhole
<1>3. Telnet!LoginInOrder
  BY DEF LoggedIn, Once, Before, Telnet!LoginInOrder
<1> QED
  BY <1>2, <1>3 DEF TelnetSound

\* process_iac, called once per read with the state it left: whatever a server sends and
\* however it is cut into reads, the terminal gets its text, whole and in order, and
\* nothing of its commands (RFC 854).  And AutoLogin::feed, with whatever prompts come in
\* whatever order: the name before the password, each at most once, and the startup
\* command once, after both.
THEOREM TelnetLosesNothing == MCSpec => []TelnetSound
<1>1. MCInit => Heard /\ LoggedIn
  BY TelnetBegins, BackendsAssumption DEF MCInit
<1>2. Heard /\ LoggedIn /\ [MCNext]_allVars => Heard' /\ LoggedIn'
  BY TelnetGoesOn
<1>3. Heard /\ LoggedIn => TelnetSound
  BY TelnetIsSound
<1> QED
  BY <1>1, <1>2, <1>3, PTL DEF MCSpec, allVars
=============================================================================
