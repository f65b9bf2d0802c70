--------------------------- MODULE TrafficProofs ---------------------------
(***************************************************************************)
(* Proofs about what runs in tasks and threads of its own: the control of  *)
(* a transfer, for files of any length; the panel that lists transfers,    *)
(* for any number of transfers, hosts, rows and records; the session of a  *)
(* local terminal, for any commands, keystrokes and channel.               *)
(***************************************************************************)
EXTENDS MCTraffic, SequenceTheorems, FiniteSetTheorems, WellFoundedInduction, TLAPS

-----------------------------------------------------------------------------
(* A transfer's control and its streaming loop.                            *)

\* What ties the loop's place to what it has stored so far.
Progress ==
    /\ pc \in {"check", "await", "parked", "chunk", "tail"} => result = "none"
    /\ pc \in {"report", "flag", "done"} => result # "none"
    /\ pc = "tail" \/ result = "complete" => moved = Chunks
    /\ pc \in {"flag", "done"} => success = (result = "complete")
    /\ finished <=> pc = "done"

\* The inductive invariant.
IInv == TypeOK /\ NoLostWakeup /\ Progress

LEMMA InitInv == Init => IInv
  <1> SUFFICES ASSUME Init PROVE IInv
      OBVIOUS
  <1> USE ChunksAssumption DEF Init, RUNNING, PAUSED, CANCELLED
  <1>1. TypeOK
    <2>1. {permit, reported, success, finished} \subseteq BOOLEAN
          BY Zenon
    <2>2. moved \in 0..Chunks
          BY SMT
    <2> QED BY <2>1, <2>2, Zenon DEF TypeOK
  <1>2. NoLostWakeup
        BY DEF NoLostWakeup
  <1>3. Progress
        BY DEF Progress
  <1> QED BY <1>1, <1>2, <1>3 DEF IInv

\* The steps of the UI thread keep it: a resume or a cancel that finds the
\* task waiting leaves its notify_one pending.
LEMMA UserKeepsInv == IInv /\ User => IInv'
  <1> SUFFICES ASSUME IInv, User PROVE IInv'
      OBVIOUS
  <1> USE DEF IInv, TypeOK, NoLostWakeup, Progress, RUNNING, PAUSED, CANCELLED
  <1>1. CASE Pause
        BY <1>1 DEF Pause, DoPause, loop
  <1>2. CASE Resume
        BY <1>2 DEF Resume, DoResume, loop
  <1>3. CASE Cancel
        BY <1>3 DEF Cancel, loop
  <1>4. CASE TogglePause
        BY <1>4 DEF TogglePause, DoPause, DoResume, loop
  <1> QED BY <1>1, <1>2, <1>3, <1>4 DEF User

LEMMA NotifyKeepsInv == IInv /\ NotifyOne => IInv'
  <1> SUFFICES ASSUME IInv, NotifyOne PROVE IInv'
      OBVIOUS
  <1> USE DEF NotifyOne, IInv
  <1>1. TypeOK'
        BY DEF TypeOK, RUNNING, PAUSED, CANCELLED
  <1>2. NoLostWakeup'
        BY DEF TypeOK, NoLostWakeup
  <1>3. Progress'
        BY DEF TypeOK, Progress
  <1> QED BY <1>1, <1>2, <1>3

\* The steps of the transfer task keep it.
LEMMA TaskKeepsInv == IInv /\ (Step \/ Abort) => IInv'
  <1> SUFFICES ASSUME IInv, Step \/ Abort PROVE IInv'
      OBVIOUS
  <1> USE ChunksAssumption
      DEF IInv, TypeOK, NoLostWakeup, Progress, RUNNING, PAUSED, CANCELLED
  <1>1. CASE Checkpoint
        BY <1>1 DEF Checkpoint
  <1>2. CASE Await
        BY <1>2 DEF Await
  <1>3. CASE MoveChunk
        BY <1>3 DEF MoveChunk
  <1>4. CASE StreamEnds
        BY <1>4 DEF StreamEnds
  <1>5. CASE AfterStream
        BY <1>5 DEF AfterStream
  <1>6. CASE FinishOutcome
        BY <1>6 DEF FinishOutcome
  <1>7. CASE FinishFlag
        BY <1>7 DEF FinishFlag
  <1>8. CASE Abort
        BY <1>8 DEF Abort
  <1> QED BY <1>1, <1>2, <1>3, <1>4, <1>5, <1>6, <1>7, <1>8 DEF Step

LEMMA NextKeepsInv == IInv /\ [Next]_vars => IInv'
  <1>1. IInv /\ UNCHANGED vars => IInv'
        BY DEF vars, IInv, TypeOK, NoLostWakeup, Progress
  <1> QED BY <1>1, UserKeepsInv, NotifyKeepsInv, TaskKeepsInv DEF Next

LEMMA Invariance == Spec => []IInv
  BY InitInv, NextKeepsInv, PTL DEF Spec

\* The fields of TransferControl and the transfer task stay in their types
\* (the counters, flags and states of control.rs and the loop).
THEOREM TypeCorrect == Spec => []TypeOK
  BY Invariance, PTL DEF IInv

\* Resume and cancel never lose the wakeup of a paused transfer, whatever the
\* length of the file and however the clicks fall between load and wait.
THEOREM WakeupNeverLost == Spec => []NoLostWakeup
  BY Invariance, PTL DEF IInv

\* The UI never reads a finished transfer without its own outcome, and a
\* success is reported only for a file moved completely.
THEOREM FinishedIsFinal == Spec => []OutcomeBeforeFlag
  <1>1. IInv => OutcomeBeforeFlag
        BY DEF IInv, Progress, OutcomeBeforeFlag
  <1> QED BY <1>1, Invariance, PTL

-----------------------------------------------------------------------------
(* The control and the loop implement the promise (its safety part). *)

LEMMA PromiseInit == Init => Promise!Init
  BY DEF Init, Promise!Init, RUNNING

LEMMA PromiseStep == IInv /\ [Next]_vars => [Promise!Next]_(Promise!vars)
  <1> SUFFICES ASSUME IInv, [Next]_vars PROVE [Promise!Next]_(Promise!vars)
      OBVIOUS
  <1> USE DEF IInv, TypeOK, Progress, RUNNING, PAUSED, CANCELLED
  <1>1. CASE User
    <2>1. CASE state' = state
          BY <1>1, <2>1 DEF User, Pause, Resume, Cancel, TogglePause, DoPause,
             DoResume, loop, Promise!vars
    <2>2. CASE state' # state
      <3>1. Promise!Ask(state')
            BY <1>1, <2>2 DEF User, Pause, Resume, Cancel, TogglePause, DoPause,
               DoResume, loop, Promise!Ask
      <3> QED BY <3>1, <1>1 DEF User, Pause, Resume, Cancel, TogglePause, DoPause,
               DoResume, Promise!Next
    <2> QED BY <2>1, <2>2
  <1>2. CASE NotifyOne
        BY <1>2 DEF NotifyOne, Promise!vars
  <1>3. CASE Checkpoint
    <2>1. CASE state = CANCELLED
          BY <1>3, <2>1 DEF Checkpoint, Promise!Next, Promise!Refuse
    <2>2. CASE state = PAUSED
          BY <1>3, <2>2 DEF Checkpoint, Promise!vars
    <2>3. CASE state = RUNNING
          BY <1>3, <2>3 DEF Checkpoint, Promise!Next, Promise!Grant
    <2> QED BY <2>1, <2>2, <2>3
  <1>4. CASE Await
        BY <1>4 DEF Await, Promise!vars
  <1>5. CASE MoveChunk
        BY <1>5 DEF MoveChunk, Promise!Next, Promise!Move
  <1>6. CASE StreamEnds
    <2>1. CASE pc' = "tail"
          BY <1>6, <2>1 DEF StreamEnds, Promise!vars
    <2>2. CASE pc' = "report"
      <3>1. Promise!End("error")
            BY <1>6, <2>2 DEF StreamEnds, Promise!End
      <3> QED BY <3>1 DEF Promise!Next
    <2> QED BY <1>6, <2>1, <2>2 DEF StreamEnds
  <1>7. CASE AfterStream
    <2>1. Promise!End(result')
          BY <1>7 DEF AfterStream, Promise!End
    <2> QED BY <1>7, <2>1 DEF AfterStream, Promise!Next
  <1>8. CASE FinishOutcome
        BY <1>8 DEF FinishOutcome, Promise!vars
  <1>9. CASE FinishFlag
        BY <1>9 DEF FinishFlag, Promise!vars
  <1>10. CASE Abort
        BY <1>10 DEF Abort, Promise!Next, Promise!Abort
  <1>11. CASE UNCHANGED vars
        BY <1>11 DEF vars, Promise!vars
  <1> QED BY <1>1, <1>2, <1>3, <1>4, <1>5, <1>6, <1>7, <1>8, <1>9, <1>10, <1>11
          DEF Next, Step

\* Every behaviour of the atomics, the Notify and the polling loop is one the
\* promise allows: pausing stops the stream within a chunk, cancelling refuses
\* the next one, nothing is reported that did not happen.
THEOREM ControlKeepsPromise == Spec => Promise!Spec
  BY Invariance, PromiseInit, PromiseStep, PTL DEF Spec, Promise!Spec

-----------------------------------------------------------------------------
(* The panel: a transfer has a row or a record, and an open panel a place. *)

RecordType == [of : Transfers \cup {Panel!Other}, success : BOOLEAN]

\* No transfer has two rows, two records or one of each; a row is of one that has begun,
\* a record of one that has ended, as it ended.
RowsAccounted ==
  /\ \A i, j \in 1..Len(jobs) : jobs[i] = jobs[j] => i = j
  /\ \A i, j \in 1..Len(records) :
        records[i].of = records[j].of /\ records[i].of # Panel!Other => i = j
  /\ \A i \in 1..Len(jobs) : work[jobs[i]] # "new"
  /\ \A i \in 1..Len(jobs) : \A j \in 1..Len(records) : jobs[i] # records[j].of
  /\ \A i \in 1..Len(records) : records[i].of # Panel!Other =>
        Panel!HasEnded(records[i].of) /\ records[i].success = (records[i].of \in succeeded)

\* A panel is shown in a generation no timer is for.
PlaceHeld ==
  /\ generation \in Nat /\ timers \subseteq 0..generation
  /\ open \in BOOLEAN /\ (open => anchored /\ generation \notin timers)

PanelInv ==
  /\ jobs \in Seq(Transfers) /\ records \in Seq(RecordType)
  /\ work \in [Transfers -> {"new", "running", "finished", "told", "aborted"}]
  /\ RowsAccounted /\ PlaceHeld

LEMMA PanelInit == ASSUME Panel!Init PROVE PanelInv
<1>1. /\ jobs = <<>> /\ records = <<>> /\ work = [t \in Transfers |-> "new"]
      /\ open = FALSE /\ generation = 0 /\ timers = {}
  BY DEF Panel!Init
<1>2. jobs \in Seq(Transfers) /\ records \in Seq(RecordType) /\ Len(jobs) = 0 /\ Len(records) = 0
  BY <1>1
<1>3. work \in [Transfers -> {"new", "running", "finished", "told", "aborted"}]
  BY <1>1
<1>4. RowsAccounted
  BY <1>2 DEF RowsAccounted
<1>5. PlaceHeld
  BY <1>1 DEF PlaceHeld
<1> QED
  BY <1>2, <1>3, <1>4, <1>5 DEF PanelInv

LEMMA RecordsAre ==
  ASSUME records \in Seq(RecordType), NEW i \in 1..Len(records)
  PROVE  records[i].of \in Transfers \cup {Panel!Other}
<1>1. records[i] \in RecordType
  OBVIOUS
<1> QED
  BY <1>1 DEF RecordType

\* The parts of the invariant, in the next state.
LEMMA Accounted ==
  ASSUME \A i, j \in 1..Len(jobs') : jobs'[i] = jobs'[j] => i = j,
         \A i, j \in 1..Len(records') :
            records'[i].of = records'[j].of /\ records'[i].of # Panel!Other => i = j,
         \A i \in 1..Len(jobs') : work'[jobs'[i]] # "new",
         \A i \in 1..Len(jobs') : \A j \in 1..Len(records') : jobs'[i] # records'[j].of,
         \A i \in 1..Len(records') : records'[i].of # Panel!Other =>
            /\ work'[records'[i].of] \in {"finished", "told"}
            /\ records'[i].success = (records'[i].of \in succeeded')
  PROVE  RowsAccounted'
  BY DEF RowsAccounted, Panel!HasEnded

\* A list of records that begins a longer one.
LEMMA CutShort ==
  ASSUME NEW all \in Seq(RecordType), records' = Panel!Newest(all)
  PROVE  /\ records' \in Seq(RecordType)
         /\ \A i \in 1..Len(records') : i \in 1..Len(all) /\ records'[i] = all[i]
<1>1. MaxRecords \in Nat
  BY TrafficAssumption DEF Panel!PanelAssumption
<1>2. CASE Len(all) > MaxRecords
  <2>1. records' = SubSeq(all, 1, MaxRecords)
    BY <1>2 DEF Panel!Newest
  <2> QED
    BY <1>1, <1>2, <2>1
<1>3. CASE ~(Len(all) > MaxRecords)
  BY <1>3 DEF Panel!Newest
<1> QED
  BY <1>2, <1>3

LEMMA LeastExists ==
  ASSUME NEW S \in SUBSET Nat, S # {}
  PROVE  \E r \in S : \A q \in S : r <= q
<1> DEFINE R == OpToRel(<, Nat)
<1>1. IsWellFoundedOn(R, Nat)
  BY NatLessThanWellFounded
<1>2. \A p, q \in Nat : q < p => <<q, p>> \in R
  BY DEF OpToRel
<1> HIDE DEF R
<1>3. PICK r \in S : \A q \in S : ~(<<q, r>> \in R)
  BY <1>1, WFMin, Zenon
<1>4. ASSUME NEW q \in S PROVE r <= q
  <2>1. q \in Nat /\ r \in Nat
    OBVIOUS
  <2>2. ~(q < r)
    BY <1>2, <1>3, <2>1, Zenon
  <2> QED
    BY <2>1, <2>2
<1> QED
  BY <1>4

\* q[n] is what the loop of retire_finished has after the first n jobs.
LoopBody(q, i) ==
  IF i = 0 THEN [jobs |-> <<>>, records |-> records] ELSE Panel!KeepOrFile(q[i - 1], jobs[i])
Loop(q, n) == q = [i \in 0..n |-> LoopBody(q, i)]

LEMMA LoopExists ==
  ASSUME NEW n \in Nat
  PROVE  \E q : Loop(q, n)
<1> DEFINE Bad == {m \in 0..n : ~\E q : Loop(q, m)}
<1>1. Loop([i \in 0..0 |-> [jobs |-> <<>>, records |-> records]], 0)
  BY DEF Loop, LoopBody
<1>2. ASSUME NEW m \in Nat, NEW q, Loop(q, m) PROVE \E u : Loop(u, m + 1)
  <2> DEFINE new == Panel!KeepOrFile(q[m], jobs[m + 1])
             u == [i \in 0..m + 1 |-> IF i = m + 1 THEN new ELSE q[i]]
  <2>1. \A i \in 0..m : q[i] = LoopBody(q, i)
    BY <1>2, Zenon DEF Loop
  <2>2. ASSUME NEW i \in 0..m + 1 PROVE u[i] = LoopBody(u, i)
    <3>1. CASE i = m + 1
      <4>1. u[i] = new /\ u[i - 1] = q[m] /\ i # 0
        BY <3>1
      <4> HIDE DEF u
      <4> QED
        BY <3>1, <4>1 DEF LoopBody
    <3>2. CASE i # m + 1
      <4>1. i \in 0..m /\ u[i] = q[i] /\ (i # 0 => u[i - 1] = q[i - 1])
        BY <3>2
      <4>2. LoopBody(u, i) = LoopBody(q, i)
        BY <4>1 DEF LoopBody
      <4> QED
        BY <2>1, <4>1, <4>2
    <3> QED
      BY <3>1, <3>2
  <2>3. u = [i \in 0..m + 1 |-> LoopBody(u, i)]
    <3> HIDE DEF new
    <3> QED
      BY <2>2, Zenon
  <2> QED
    BY <2>3 DEF Loop
<1> SUFFICES ASSUME Bad # {} PROVE FALSE
  OBVIOUS
<1>3. PICK r \in Bad : \A m \in Bad : r <= m
  <2>1. Bad \in SUBSET Nat
    OBVIOUS
  <2> HIDE DEF Bad
  <2> QED
    BY <2>1, LeastExists
<1>4. r # 0
  BY <1>1, <1>3
<1>5. r - 1 \in Nat /\ r - 1 \in 0..n /\ r - 1 \notin Bad
  BY <1>3, <1>4
<1>6. \E q : Loop(q, r - 1)
  BY <1>5
<1>7. \E u : Loop(u, (r - 1) + 1)
  BY <1>2, <1>5, <1>6
<1> QED
  BY <1>3, <1>7

\* One put in front of a list, one put behind it.
LEMMA InFront ==
  ASSUME NEW R, NEW s \in Seq(R), NEW x \in R
  PROVE  /\ <<x>> \o s \in Seq(R) /\ Len(<<x>> \o s) = Len(s) + 1 /\ (<<x>> \o s)[1] = x
         /\ \A i \in 1..Len(<<x>> \o s) :
               i # 1 => i - 1 \in 1..Len(s) /\ (<<x>> \o s)[i] = s[i - 1]
  OBVIOUS

LEMMA Behind ==
  ASSUME NEW R, NEW s \in Seq(R), NEW x \in R
  PROVE  /\ Append(s, x) \in Seq(R)
         /\ \A i \in 1..Len(Append(s, x)) :
               \/ i \in 1..Len(s) /\ Append(s, x)[i] = s[i]
               \/ i = Len(s) + 1 /\ Append(s, x)[i] = x
  OBVIOUS

\* What the loop keeps and what it files, of the first n jobs: kept rows are of jobs that go
\* on, records of what has ended, and no later job is among them.
Kept(left, n) ==
  /\ left \in Seq(Transfers)
  /\ \A i, j \in 1..Len(left) : left[i] = left[j] => i = j
  /\ \A i \in 1..Len(left) : ~Panel!HasEnded(left[i]) /\ \E k \in 1..n : jobs[k] = left[i]
Filed(all, n) ==
  /\ all \in Seq(RecordType)
  /\ \A i, j \in 1..Len(all) : all[i].of = all[j].of /\ all[i].of # Panel!Other => i = j
  /\ \A i \in 1..Len(all) : all[i].of # Panel!Other =>
        Panel!HasEnded(all[i].of) /\ all[i].success = (all[i].of \in succeeded)
  /\ \A k \in 1..Len(jobs) : k > n => \A i \in 1..Len(all) : jobs[k] # all[i].of

LEMMA LoopTurns ==
  ASSUME PanelInv, NEW m \in 1..Len(jobs), NEW rows, NEW after,
         after = Panel!KeepOrFile(rows, jobs[m]),
         rows \in [jobs : Seq(Transfers), records : Seq(RecordType)],
         Kept(rows.jobs, m - 1), Filed(rows.records, m - 1)
  PROVE  /\ after \in [jobs : Seq(Transfers), records : Seq(RecordType)]
         /\ Kept(after.jobs, m) /\ Filed(after.records, m)
<1> DEFINE t == jobs[m]
           left == rows.jobs
           all == rows.records
<1>1. /\ t \in Transfers /\ m \in Nat /\ m - 1 \in Nat /\ Len(jobs) \in Nat
      /\ \A k \in 1..m - 1 : k \in 1..m /\ k \in 1..Len(jobs) /\ k # m
      /\ \A k \in 1..Len(jobs) : k > m => k > m - 1 /\ k # m
      /\ m \in 1..m /\ m > m - 1
  BY DEF PanelInv
<1>2. \A i, j \in 1..Len(jobs) : jobs[i] = jobs[j] => i = j
  BY DEF PanelInv, RowsAccounted
<1>3. left \in Seq(Transfers) /\ all \in Seq(RecordType)
  OBVIOUS
<1>4. CASE Panel!HasEnded(t)
  <2> DEFINE new == Panel!Record(t)
             more == <<new>> \o all
  <2>1. after = [jobs |-> left, records |-> more]
    BY <1>3, <1>4 DEF Panel!KeepOrFile
  <2>2. new \in RecordType /\ new.of = t /\ new.success = (t \in succeeded)
    BY <1>1 DEF Panel!Record, RecordType
  <2> HIDE DEF new
  <2>3. /\ more \in Seq(RecordType) /\ more[1] = new
        /\ \A i \in 1..Len(more) : i # 1 => i - 1 \in 1..Len(all) /\ more[i] = all[i - 1]
    BY <1>3, <2>2, InFront
  <2> HIDE DEF more
  <2>4. \A i \in 1..Len(all) : all[i].of # t
    BY <1>1 DEF Filed
  <2>5. ASSUME NEW i \in 1..Len(more), NEW j \in 1..Len(more), more[i].of = more[j].of,
               more[i].of # Panel!Other
        PROVE  i = j
    <3>1. CASE i = 1 \/ j = 1
      BY <2>2, <2>3, <2>4, <2>5, <3>1
    <3>2. CASE i # 1 /\ j # 1
      <4>1. /\ i - 1 \in 1..Len(all) /\ j - 1 \in 1..Len(all)
            /\ more[i] = all[i - 1] /\ more[j] = all[j - 1]
        BY <2>3, <3>2
      <4>2. i - 1 = j - 1
        BY <2>5, <4>1 DEF Filed
      <4> QED
        BY <4>2
    <3> QED
      BY <3>1, <3>2
  <2>6. ASSUME NEW i \in 1..Len(more), more[i].of # Panel!Other
        PROVE  Panel!HasEnded(more[i].of) /\ more[i].success = (more[i].of \in succeeded)
    <3>1. CASE i = 1
      BY <1>4, <2>2, <2>3, <3>1
    <3>2. CASE i # 1
      <4>1. i - 1 \in 1..Len(all) /\ more[i] = all[i - 1]
        BY <2>3, <3>2
      <4> QED
        BY <2>6, <4>1 DEF Filed
    <3> QED
      BY <3>1, <3>2
  <2>7. ASSUME NEW k \in 1..Len(jobs), k > m, NEW i \in 1..Len(more) PROVE jobs[k] # more[i].of
    <3>1. CASE i = 1
      BY <1>1, <1>2, <2>2, <2>3, <2>7, <3>1
    <3>2. CASE i # 1
      <4>1. i - 1 \in 1..Len(all) /\ more[i] = all[i - 1]
        BY <2>3, <3>2
      <4>2. k > m - 1
        BY <1>1, <2>7
      <4> QED
        BY <4>1, <4>2 DEF Filed
    <3> QED
      BY <3>1, <3>2
  <2>8. Filed(more, m)
    BY <2>3, <2>5, <2>6, <2>7 DEF Filed
  <2>9. Kept(left, m)
    BY <1>1 DEF Kept
  <2>10. after.jobs = left /\ after.records = more
    BY <2>1
  <2> QED
    BY <1>3, <2>1, <2>3, <2>8, <2>9, <2>10
<1>5. CASE ~Panel!HasEnded(t)
  <2> DEFINE more == Append(left, t)
  <2>1. after = [jobs |-> more, records |-> all]
    BY <1>3, <1>5 DEF Panel!KeepOrFile
  <2>2. /\ more \in Seq(Transfers)
        /\ \A i \in 1..Len(more) : \/ i \in 1..Len(left) /\ more[i] = left[i]
                                   \/ i = Len(left) + 1 /\ more[i] = t
    BY <1>1, <1>3, Behind
  <2> HIDE DEF more
  <2>3. \A i \in 1..Len(left) : left[i] # t
    BY <1>1, <1>2 DEF Kept
  <2>4. ASSUME NEW i \in 1..Len(more), NEW j \in 1..Len(more), more[i] = more[j] PROVE i = j
    BY <2>2, <2>3, <2>4 DEF Kept
  <2>5. ASSUME NEW i \in 1..Len(more)
        PROVE  ~Panel!HasEnded(more[i]) /\ \E k \in 1..m : jobs[k] = more[i]
    BY <1>1, <1>5, <2>2 DEF Kept
  <2>6. Kept(more, m)
    BY <2>2, <2>4, <2>5 DEF Kept
  <2>7. Filed(all, m)
    BY <1>1 DEF Filed
  <2>8. after.jobs = more /\ after.records = all
    BY <2>1
  <2> QED
    BY <1>3, <2>1, <2>2, <2>6, <2>7, <2>8
<1> QED
  BY <1>4, <1>5

\* retire_finished
LEMMA Retires == ASSUME PanelInv, Panel!RetireFinished, UNCHANGED <<work, succeeded>>
                 PROVE  /\ jobs' \in Seq(Transfers) /\ records' \in Seq(RecordType)
                        /\ RowsAccounted'
<1> DEFINE N == Len(jobs)
           q == CHOOSE u : Loop(u, N)
<1>1. N \in Nat
  BY DEF PanelInv
<1>2. Loop(q, N)
  BY <1>1, LoopExists
<1>3. jobs' = q[N].jobs /\ records' = Panel!Newest(q[N].records)
  BY DEF Panel!RetireFinished, Loop, LoopBody
<1> HIDE DEF q
<1> DEFINE Good(m) == /\ q[m] \in [jobs : Seq(Transfers), records : Seq(RecordType)]
                      /\ Kept(q[m].jobs, m) /\ Filed(q[m].records, m)
<1>4. \A i \in 0..N : q[i] = LoopBody(q, i)
  BY <1>2, Zenon DEF Loop
<1>5. Good(0)
  <2>1. q[0] = [jobs |-> <<>>, records |-> records]
    BY <1>1, <1>4 DEF LoopBody
  <2>2. q[0].jobs = <<>> /\ q[0].records = records
    BY <2>1
  <2>3. Kept(<<>>, 0)
    BY DEF Kept
  <2>4. Filed(records, 0)
    BY DEF Filed, PanelInv, RowsAccounted
  <2>5. q[0] \in [jobs : Seq(Transfers), records : Seq(RecordType)]
    BY <2>1 DEF PanelInv
  <2> QED
    BY <2>2, <2>3, <2>4, <2>5
<1>6. ASSUME NEW m \in 1..N, Good(m - 1) PROVE Good(m)
  <2>1. q[m] = Panel!KeepOrFile(q[m - 1], jobs[m])
    BY <1>1, <1>4 DEF LoopBody
  <2> QED
    BY <1>6, <2>1, LoopTurns
<1> DEFINE Bad == {m \in 0..N : ~Good(m)}
<1>7. Bad = {}
  <2> SUFFICES ASSUME Bad # {} PROVE FALSE
    OBVIOUS
  <2>1. Bad \in SUBSET Nat
    BY <1>1
  <2>2. PICK r \in Bad : \A m \in Bad : r <= m
    <3> HIDE DEF Bad
    <3> QED
      BY <2>1, LeastExists
  <2>3. r \in 0..N /\ ~Good(r)
    OBVIOUS
  <2> HIDE DEF Good
  <2>4. r \in 1..N /\ r - 1 \in 0..N /\ ~(r <= r - 1)
    BY <1>1, <1>5, <2>3
  <2>5. Good(r - 1)
    BY <2>2, <2>4
  <2> QED
    BY <1>6, <2>3, <2>4, <2>5
<1>8. Good(N)
  <2> HIDE DEF Good
  <2> QED
    BY <1>1, <1>7
<1> DEFINE left == q[N].jobs
           all == q[N].records
<1>9. jobs' = left /\ Kept(left, N) /\ Filed(all, N)
  BY <1>3, <1>8
<1> HIDE DEF left, Good
<1>10. /\ records' \in Seq(RecordType)
       /\ \A i \in 1..Len(records') : i \in 1..Len(all) /\ records'[i] = all[i]
  <2>1. all \in Seq(RecordType)
    BY <1>9 DEF Filed
  <2> QED
    BY <1>3, <2>1, CutShort
<1> HIDE DEF all
<1>11. \A i, j \in 1..Len(jobs') : jobs'[i] = jobs'[j] => i = j
  BY <1>9 DEF Kept
<1>12. \A i, j \in 1..Len(records') :
          records'[i].of = records'[j].of /\ records'[i].of # Panel!Other => i = j
  BY <1>9, <1>10 DEF Filed
<1>13. \A i \in 1..Len(jobs') : work'[jobs'[i]] # "new"
  BY <1>9 DEF Kept, PanelInv, RowsAccounted
<1>14. \A i \in 1..Len(jobs') : \A j \in 1..Len(records') : jobs'[i] # records'[j].of
  <2> SUFFICES ASSUME NEW i \in 1..Len(jobs'), NEW j \in 1..Len(records'),
                      jobs'[i] = records'[j].of
               PROVE  FALSE
    OBVIOUS
  <2>1. j \in 1..Len(all) /\ records'[j] = all[j] /\ jobs' = left
    BY <1>9, <1>10
  <2>2. left[i] \in Transfers /\ ~Panel!HasEnded(left[i])
    BY <1>9, <2>1 DEF Kept
  <2>3. left[i] # Panel!Other
    BY <2>2, TrafficAssumption DEF Panel!PanelAssumption
  <2> QED
    BY <1>9, <2>1, <2>2, <2>3 DEF Filed
<1>15. \A i \in 1..Len(records') : records'[i].of # Panel!Other =>
          /\ work'[records'[i].of] \in {"finished", "told"}
          /\ records'[i].success = (records'[i].of \in succeeded')
  <2> TAKE i \in 1..Len(records')
  <2>1. i \in 1..Len(all) /\ records'[i] = all[i]
    BY <1>10
  <2> QED
    BY <1>9, <2>1 DEF Filed, Panel!HasEnded
<1>16. jobs' \in Seq(Transfers)
  BY <1>9 DEF Kept
<1> QED
  BY <1>10, <1>11, <1>12, <1>13, <1>14, <1>15, <1>16, Accounted

LEMMA PanelStep == PanelInv /\ [Panel!Next]_panelVars => PanelInv'
<1> SUFFICES ASSUME PanelInv, [Panel!Next]_panelVars PROVE PanelInv'
  OBVIOUS
<1> USE DEF PanelInv
<1>0. Panel!Other \notin Transfers
  BY TrafficAssumption DEF Panel!PanelAssumption
<1>1. ASSUME NEW t \in Transfers, Panel!StartJob(t) PROVE PanelInv'
  <2>1. work[t] = "new" /\ work' = [work EXCEPT ![t] = "running"]
        /\ UNCHANGED <<records, succeeded, open, anchored, generation, timers>>
        /\ jobs' = IF Len(jobs) < MaxJobs THEN <<t>> \o jobs ELSE jobs
    BY <1>1 DEF Panel!StartJob, Panel!showVars
  <2>2. jobs' \in Seq(Transfers)
    BY <2>1
  <2>3. (\A i \in 1..Len(jobs) : jobs[i] # t) /\ \A i \in 1..Len(records) : records[i].of # t
    BY <1>0, <2>1 DEF RowsAccounted, Panel!HasEnded
  <2>4. \A x \in Transfers \ {t} : work'[x] = work[x]
    BY <2>1
  <2>5. \A i \in 1..Len(records) : records[i].of # Panel!Other =>
           work'[records[i].of] = work[records[i].of]
    <3>1. \A i \in 1..Len(records) : records[i].of \in Transfers \cup {Panel!Other}
      BY RecordsAre
    <3> QED
      BY <2>3, <2>4, <3>1
  <2>6. \A i \in 1..Len(jobs) : jobs[i] \in Transfers /\ work'[jobs[i]] # "new"
    BY <2>3, <2>4 DEF RowsAccounted
  <2>7. CASE jobs' = jobs
    BY <2>1, <2>5, <2>6, <2>7 DEF RowsAccounted, PlaceHeld, Panel!HasEnded
  <2>8. CASE jobs' = <<t>> \o jobs
    <3>1. Len(jobs') = Len(jobs) + 1 /\ jobs'[1] = t
          /\ \A i \in 1..Len(jobs) : jobs'[i + 1] = jobs[i]
      BY <2>8
    <3>2. \A i \in 1..Len(jobs') : i = 1 \/ (i - 1 \in 1..Len(jobs) /\ jobs'[i] = jobs[i - 1])
      BY <3>1
    <3>3. \A i, j \in 1..Len(jobs') : jobs'[i] = jobs'[j] => i = j
      <4> SUFFICES ASSUME NEW i \in 1..Len(jobs'), NEW j \in 1..Len(jobs'), jobs'[i] = jobs'[j]
                   PROVE  i = j
        OBVIOUS
      <4>1. CASE i # 1 /\ j # 1
        BY <3>2, <4>1 DEF RowsAccounted
      <4>2. CASE i = 1 \/ j = 1
        BY <2>3, <3>1, <3>2, <4>2
      <4> QED
        BY <4>1, <4>2
    <3>4. \A i \in 1..Len(jobs') :
             /\ work'[jobs'[i]] # "new"
             /\ \A j \in 1..Len(records) : jobs'[i] # records[j].of
      <4> TAKE i \in 1..Len(jobs')
      <4>1. work'[t] = "running"
        BY <2>1
      <4>2. CASE i = 1
        BY <2>3, <3>1, <4>1, <4>2
      <4>3. CASE i # 1
        BY <2>6, <3>2, <4>3 DEF RowsAccounted
      <4> QED
        BY <4>2, <4>3
    <3>5. RowsAccounted'
      BY <2>1, <2>5, <3>3, <3>4 DEF RowsAccounted, Panel!HasEnded
    <3>6. PlaceHeld'
      BY <2>1 DEF PlaceHeld
    <3> QED
      BY <2>1, <2>2, <3>5, <3>6
  <2> QED
    BY <2>1, <2>7, <2>8
<1>2. ASSUME UNCHANGED <<jobs, records, open, anchored, generation, timers>>,
             work' \in [Transfers -> {"new", "running", "finished", "told", "aborted"}],
             \A x \in Transfers : work[x] # "new" => work'[x] # "new",
             \A x \in Transfers : Panel!HasEnded(x) => /\ work'[x] \in {"finished", "told"}
                                                       /\ (x \in succeeded') = (x \in succeeded)
      PROVE  PanelInv'
  <2>1. /\ \A i \in 1..Len(jobs) : jobs[i] \in Transfers
        /\ \A i \in 1..Len(records) : records[i].of \in Transfers \cup {Panel!Other}
    BY RecordsAre
  <2>2. RowsAccounted'
    BY <1>2, <2>1 DEF RowsAccounted, Panel!HasEnded
  <2>3. PlaceHeld'
    BY <1>2 DEF PlaceHeld
  <2> QED
    BY <1>2, <2>2, <2>3
<1>3. ASSUME NEW t \in Transfers, Panel!Finish(t) PROVE PanelInv'
  BY <1>2, <1>3 DEF Panel!Finish, Panel!showVars, Panel!HasEnded
<1>4. ASSUME NEW t \in Transfers, Panel!Announce(t) PROVE PanelInv'
  BY <1>2, <1>4 DEF Panel!Announce, Panel!showVars, Panel!HasEnded
<1>5. ASSUME NEW t \in Transfers, Panel!Button(t) PROVE PanelInv'
  BY <1>2, <1>5 DEF Panel!Button, Panel!showVars, Panel!taskVars, Panel!HasEnded
<1>6. ASSUME NEW h \in Hosts, Panel!CloseHost(h) PROVE PanelInv'
  BY <1>2, <1>6 DEF Panel!CloseHost, Panel!showVars, Panel!HasEnded
<1>7. CASE Panel!Push
  <2> DEFINE one == [of |-> Panel!Other, success |-> TRUE]
             all == <<one>> \o records
  <2>1. /\ UNCHANGED <<jobs, work, succeeded, open, anchored, generation, timers>>
        /\ records' = Panel!Newest(all)
    BY <1>7 DEF Panel!Push, Panel!showVars, Panel!taskVars
  <2>2. /\ all \in Seq(RecordType) /\ Len(all) = Len(records) + 1
        /\ all[1].of = Panel!Other /\ \A i \in 1..Len(records) : all[i + 1] = records[i]
    <3>1. one \in RecordType
      BY DEF RecordType
    <3> QED
      BY <3>1
  <2> HIDE DEF all, one
  <2>3. \A i \in 1..Len(all) : i = 1 \/ (i - 1 \in 1..Len(records) /\ all[i] = records[i - 1])
    BY <2>2
  <2>4. /\ records' \in Seq(RecordType)
        /\ \A i \in 1..Len(records') : i \in 1..Len(all) /\ records'[i] = all[i]
    BY <2>1, <2>2, CutShort
  <2>5. \A i, j \in 1..Len(all) : all[i].of = all[j].of /\ all[i].of # Panel!Other => i = j
    <3> SUFFICES ASSUME NEW i \in 1..Len(all), NEW j \in 1..Len(all), all[i].of = all[j].of,
                        all[i].of # Panel!Other
                 PROVE  i = j
      OBVIOUS
    <3>1. i - 1 \in 1..Len(records) /\ all[i] = records[i - 1] /\ j - 1 \in 1..Len(records)
          /\ all[j] = records[j - 1]
      BY <2>2, <2>3
    <3>2. i - 1 = j - 1
      BY <3>1 DEF RowsAccounted
    <3> QED
      BY <3>2
  <2>6. \A i \in 1..Len(all) : all[i].of # Panel!Other =>
          Panel!HasEnded(all[i].of) /\ all[i].success = (all[i].of \in succeeded)
    <3> TAKE i \in 1..Len(all)
    <3>1. CASE i = 1
      BY <2>2, <3>1
    <3>2. CASE i # 1
      <4>1. i - 1 \in 1..Len(records) /\ all[i] = records[i - 1]
        BY <2>3, <3>2
      <4> QED
        BY <4>1 DEF RowsAccounted
    <3> QED
      BY <3>1, <3>2
  <2>7. \A i \in 1..Len(jobs) : \A j \in 1..Len(all) : jobs[i] # all[j].of
    <3> TAKE i \in 1..Len(jobs)
    <3> TAKE j \in 1..Len(all)
    <3>1. CASE j = 1
      BY <1>0, <2>2, <3>1
    <3>2. CASE j # 1
      <4>1. j - 1 \in 1..Len(records) /\ all[j] = records[j - 1]
        BY <2>3, <3>2
      <4> QED
        BY <4>1 DEF RowsAccounted
    <3> QED
      BY <3>1, <3>2
  <2>8. RowsAccounted'
    <3>1. \A i, j \in 1..Len(jobs') : jobs'[i] = jobs'[j] => i = j
      BY <2>1 DEF RowsAccounted
    <3>2. \A i, j \in 1..Len(records') :
             records'[i].of = records'[j].of /\ records'[i].of # Panel!Other => i = j
      BY <2>4, <2>5
    <3>3. \A i \in 1..Len(jobs') : work'[jobs'[i]] # "new"
      BY <2>1 DEF RowsAccounted
    <3>4. \A i \in 1..Len(jobs') : \A j \in 1..Len(records') : jobs'[i] # records'[j].of
      BY <2>1, <2>4, <2>7
    <3>5. \A i \in 1..Len(records') : records'[i].of # Panel!Other =>
             /\ work'[records'[i].of] \in {"finished", "told"}
             /\ records'[i].success = (records'[i].of \in succeeded')
      <4> TAKE i \in 1..Len(records')
      <4>1. i \in 1..Len(all) /\ records'[i] = all[i]
        BY <2>4
      <4> QED
        BY <2>1, <2>6, <4>1 DEF Panel!HasEnded
    <3> QED
      BY <3>1, <3>2, <3>3, <3>4, <3>5, Accounted
  <2>9. PlaceHeld'
    BY <2>1 DEF PlaceHeld
  <2> QED
    BY <2>1, <2>4, <2>8, <2>9
<1>8. CASE Panel!Render \/ Panel!Redraw
  <2>1. Panel!RetireFinished
        /\ UNCHANGED <<work, succeeded, open, anchored, generation, timers>>
    BY <1>8 DEF Panel!Render, Panel!Redraw, Panel!taskVars, Panel!showVars
  <2>2. PlaceHeld'
    BY <2>1 DEF PlaceHeld
  <2> QED
    BY <2>1, <2>2, Retires
<1>9. ASSUME UNCHANGED <<jobs, records, work, succeeded>>, PlaceHeld' PROVE PanelInv'
  <2>1. RowsAccounted'
    BY <1>9 DEF RowsAccounted, Panel!HasEnded
  <2> QED
    BY <1>9, <2>1
<1>10. CASE Panel!Show
  <2>1. PlaceHeld'
    BY <1>10 DEF Panel!Show, PlaceHeld
  <2> QED
    BY <1>9, <1>10, <2>1 DEF Panel!Show, Panel!taskVars
<1>11. CASE Panel!Hide
  <2>1. PlaceHeld'
    <3>1. /\ generation' = generation + 1 /\ open' = FALSE
          /\ timers' = timers \cup {generation'}
      BY <1>11 DEF Panel!Hide
    <3>2. generation \in Nat /\ timers \subseteq 0..generation
      BY DEF PlaceHeld
    <3>3. 0..generation \subseteq 0..generation' /\ generation' \in 0..generation' /\ generation' \in Nat
      BY <3>1, <3>2
    <3>4. timers' \subseteq 0..generation'
      BY <3>1, <3>2, <3>3
    <3> QED
      BY <3>1, <3>3, <3>4 DEF PlaceHeld
  <2> QED
    BY <1>9, <1>11, <2>1 DEF Panel!Hide, Panel!taskVars
<1>12. ASSUME NEW g \in timers, Panel!DismissTimer(g) PROVE PanelInv'
  <2>1. PlaceHeld'
    BY <1>12 DEF Panel!DismissTimer, Panel!SameGeneration, PlaceHeld
  <2> QED
    BY <1>9, <1>12, <2>1 DEF Panel!DismissTimer, Panel!taskVars
<1>13. CASE UNCHANGED panelVars
  BY <1>13 DEF panelVars, RowsAccounted, PlaceHeld, Panel!HasEnded
<1> QED
  BY <1>1, <1>3, <1>4, <1>5, <1>6, <1>7, <1>8, <1>10, <1>11, <1>12, <1>13 DEF Panel!Next

\* Counting the rows of one transfer.
LEMMA CountIs == \A S : Panel!Cardinality(S) = Cardinality(S)
  BY DEF Panel!Cardinality, Cardinality

LEMMA AloneIs == ASSUME NEW S, \A i, j \in S : i = j PROVE S = {} \/ \E x : S = {x}
<1>1. SUFFICES ASSUME NEW x \in S PROVE S = {x}
  OBVIOUS
<1> QED
  BY <1>1

LEMMA PanelAccounts == PanelInv => JobsAccounted
<1> SUFFICES ASSUME PanelInv PROVE JobsAccounted
  OBVIOUS
<1> USE DEF PanelInv
<1>1. ASSUME NEW t \in Transfers
      PROVE  Panel!Cardinality({i \in 1..Len(jobs) : jobs[i] = t})
             + Panel!Cardinality({i \in 1..Len(records) : records[i].of = t}) <= 1
  <2> DEFINE A == {i \in 1..Len(jobs) : jobs[i] = t}
             B == {i \in 1..Len(records) : records[i].of = t}
  <2>0. t # Panel!Other
    BY TrafficAssumption DEF Panel!PanelAssumption
  <2>1. /\ \A i, j \in A : i = j
        /\ \A i, j \in B : i = j
        /\ A = {} \/ B = {}
    BY <2>0 DEF RowsAccounted
  <2> HIDE DEF A, B
  <2>2. (A = {} \/ \E x : A = {x}) /\ (B = {} \/ \E x : B = {x})
    BY <2>1, AloneIs
  <2>3. Cardinality({}) = 0 /\ \A x : Cardinality({x}) = 1
    BY FS_EmptySet, FS_Singleton
  <2>4. Cardinality(A) \in {0, 1} /\ Cardinality(B) \in {0, 1}
    BY <2>1, <2>2, <2>3
  <2>5. Cardinality(A) = 0 \/ Cardinality(B) = 0
    BY <2>1, <2>3
  <2>6. Cardinality(A) + Cardinality(B) <= 1
    BY <2>4, <2>5
  <2> QED
    BY <2>6, CountIs DEF A, B
<1> QED
  BY <1>1 DEF JobsAccounted, Panel!JobsAccounted, RowsAccounted, PlaceHeld

LEMMA PanelKept == MCSpec => []PanelInv
<1>1. MCInit => PanelInv
  BY PanelInit DEF MCInit
<1>2. PanelInv /\ [MCNext]_<<vars, copyVars, panelVars, managerVars, sessionVars, part>>
         => PanelInv'
  <2>1. [MCNext]_<<vars, copyVars, panelVars, managerVars, sessionVars, part>> => [Panel!Next]_panelVars
    BY DEF MCNext, OnControl, OnTunnels, OnTerminal
  <2> QED
    BY <2>1, PanelStep
<1> QED
  BY <1>1, <1>2, PTL DEF MCSpec

\* However transfers start, end, are cut off and are rendered or not, a transfer has one row
\* at most, in the list or in the history, a record says how its transfer ended, and an
\* open panel keeps its place whatever timers are still on their way (transfer_center.rs
\* retire_finished, push, show, hide).
THEOREM JobsFiledOnce == MCSpec => []JobsAccounted
  BY PanelAccounts, PanelKept, PTL

-----------------------------------------------------------------------------
(* A local terminal: the commands of its history and its keyboard flag.    *)

\* What is reached from 0 one by one.
LEMMA Climb ==
  ASSUME NEW N \in Nat, NEW S, 0 \in S, \A m \in 1..N : m - 1 \in S => m \in S
  PROVE  \A m \in 0..N : m \in S
<1> DEFINE Bad == {m \in 0..N : m \notin S}
<1> SUFFICES ASSUME Bad # {} PROVE FALSE
  OBVIOUS
<1>1. PICK r \in Bad : \A m \in Bad : r <= m
  <2>1. Bad \in SUBSET Nat
    OBVIOUS
  <2> HIDE DEF Bad
  <2> QED
    BY <2>1, LeastExists
<1>2. r \in 1..N /\ r - 1 \in 0..N /\ r \notin S /\ ~(r <= r - 1)
  OBVIOUS
<1>3. r - 1 \in S
  BY <1>1, <1>2
<1> QED
  BY <1>2, <1>3

\* A function on 0..N defined from its value before: G[i] takes it from i - 1 to i.
Rises(q, N, base, G) == \A i \in 0..N : q[i] = IF i = 0 THEN base ELSE G[i][q[i - 1]]

LEMMA Recursion ==
  ASSUME NEW V, NEW N \in Nat, NEW base \in V, NEW G \in [1..N -> [V -> V]]
  PROVE  \E q \in [0..N -> V] : Rises(q, N, base, G)
<1> DEFINE Up(q, m) == \A i \in 0..m : q[i] = IF i = 0 THEN base ELSE G[i][q[i - 1]]
           S == {m \in 0..N : \E q \in [0..m -> V] : Up(q, m)}
<1>1. 0 \in S
  <2> DEFINE q == [i \in 0..0 |-> base]
  <2>1. q \in [0..0 -> V] /\ Up(q, 0)
    OBVIOUS
  <2> HIDE DEF q
  <2>2. 0 \in 0..N
    OBVIOUS
  <2> QED
    BY <2>1, <2>2
<1>2. ASSUME NEW m \in 1..N, m - 1 \in S PROVE m \in S
  <2>1. PICK q \in [0..m - 1 -> V] : Up(q, m - 1)
    BY <1>2
  <2>2. q[m - 1] \in V /\ G[m][q[m - 1]] \in V
    OBVIOUS
  <2> DEFINE new == G[m][q[m - 1]]
             u == [i \in 0..m |-> IF i = m THEN new ELSE q[i]]
  <2>3. u \in [0..m -> V]
    <3> HIDE DEF new
    <3>1. new \in V
      BY <2>2 DEF new
    <3>2. \A i \in 0..m : i # m => q[i] \in V
      OBVIOUS
    <3> QED
      BY <3>1, <3>2
  <2>4. ASSUME NEW i \in 0..m PROVE u[i] = IF i = 0 THEN base ELSE G[i][u[i - 1]]
    <3>1. CASE i = m
      <4>1. u[i] = new /\ i # 0 /\ u[i - 1] = q[m - 1]
        BY <3>1
      <4> HIDE DEF u
      <4> QED
        BY <3>1, <4>1
    <3>2. CASE i # m
      <4>1. i \in 0..m - 1 /\ u[i] = q[i] /\ (i # 0 => u[i - 1] = q[i - 1])
        BY <3>2
      <4> HIDE DEF u
      <4> QED
        BY <2>1, <4>1
    <3> QED
      BY <3>1, <3>2
  <2> HIDE DEF u
  <2>5. m \in 0..N
    OBVIOUS
  <2> QED
    BY <2>3, <2>4, <2>5
<1> HIDE DEF Up
<1>3. \A m \in 0..N : m \in S
  <2> HIDE DEF S
  <2> QED
    BY <1>1, <1>2, Climb
<1> QED
  BY <1>3 DEF Up, Rises

LEMMA WithoutIs ==
  ASSUME NEW s \in Seq(Cmds), NEW out
  PROVE  /\ Session!Without(s, out) \in Seq(Cmds)
         /\ \A i \in 1..Len(s) : s[i] \notin out =>
               \E j \in 1..Len(Session!Without(s, out)) : Session!Without(s, out)[j] = s[i]
         /\ s # <<>> /\ s[1] \notin out =>
               Session!Without(s, out) # <<>> /\ Session!Without(s, out)[1] = s[1]
<1> DEFINE N == Len(s)
           Left(u) == u = [n \in 0..N |-> IF n = 0 THEN <<>>
                                          ELSE IF s[n] \in out THEN u[n - 1] ELSE Append(u[n - 1], s[n])]
<1>1. N \in Nat /\ \A m \in 1..N : s[m] \in Cmds
  OBVIOUS
<1>2. \E u : Left(u)
  <2> DEFINE G == [i \in 1..N |-> [v \in Seq(Cmds) |-> IF s[i] \in out THEN v ELSE Append(v, s[i])]]
  <2>1. G \in [1..N -> [Seq(Cmds) -> Seq(Cmds)]]
    BY <1>1
  <2>2. <<>> \in Seq(Cmds)
    OBVIOUS
  <2>3. \A i \in 1..N : \A v \in Seq(Cmds) : G[i][v] = IF s[i] \in out THEN v ELSE Append(v, s[i])
    OBVIOUS
  <2> HIDE DEF G
  <2>4. PICK q \in [0..N -> Seq(Cmds)] : Rises(q, N, <<>>, G)
    <3>1. N \in Nat
      BY <1>1
    <3> HIDE DEF N
    <3> QED
      BY <2>1, <2>2, <3>1, Recursion
  <2>5. ASSUME NEW n \in 0..N
        PROVE  q[n] = IF n = 0 THEN <<>>
                      ELSE IF s[n] \in out THEN q[n - 1] ELSE Append(q[n - 1], s[n])
    <3>1. CASE n = 0
      BY <2>4, <3>1 DEF Rises
    <3>2. CASE n # 0
      <4>1. n \in 1..N /\ n - 1 \in 0..N
        BY <1>1, <3>2
      <4>2. q[n - 1] \in Seq(Cmds)
        BY <4>1
      <4>3. q[n] = G[n][q[n - 1]]
        BY <2>4, <3>2, Zenon DEF Rises
      <4> QED
        BY <2>3, <3>2, <4>1, <4>2, <4>3
    <3> QED
      BY <3>1, <3>2
  <2>6. Left(q)
    BY <2>5
  <2> QED
    BY <2>6
<1> DEFINE p == CHOOSE u : Left(u)
<1>3. Left(p)
  BY <1>2
<1>4. Session!Without(s, out) = p[N]
  BY DEF Session!Without
<1> HIDE DEF p
<1>5. /\ p[0] = <<>>
      /\ \A m \in 1..N : p[m] = IF s[m] \in out THEN p[m - 1] ELSE Append(p[m - 1], s[m])
  <2>1. \A n \in 0..N : p[n] = IF n = 0 THEN <<>>
                             ELSE IF s[n] \in out THEN p[n - 1] ELSE Append(p[n - 1], s[n])
    BY <1>3, Zenon
  <2>2. 0 \in 0..N /\ \A m \in 1..N : m \in 0..N /\ m # 0
    BY <1>1
  <2> QED
    BY <2>1, <2>2
<1> DEFINE Good(m) == /\ p[m] \in Seq(Cmds)
                      /\ \A i \in 1..m : s[i] \notin out => \E j \in 1..Len(p[m]) : p[m][j] = s[i]
                      /\ m > 0 /\ s[1] \notin out => p[m] # <<>> /\ p[m][1] = s[1]
           S == {m \in 0..N : Good(m)}
<1>6. 0 \in S
  <2>1. p[0] \in Seq(Cmds) /\ ~(0 > 0) /\ \A i \in 1..0 : FALSE
    BY <1>5
  <2>2. Good(0)
    BY <2>1
  <2>3. 0 \in 0..N
    BY <1>1
  <2> HIDE DEF Good
  <2> QED
    BY <2>2, <2>3
<1>7. ASSUME NEW m \in 1..N, m - 1 \in S PROVE m \in S
  <2>1. Good(m - 1) /\ m \in 0..N /\ m \in Nat /\ m > 0 /\ s[m] \in Cmds
    BY <1>1, <1>7
  <2>2. \A i \in 1..m : i = m \/ i \in 1..m - 1
    BY <2>1
  <2>3. CASE s[m] \in out
    <3>1. p[m] = p[m - 1]
      BY <1>5, <2>3
    <3>2. s[1] \notin out => m - 1 > 0
      BY <2>1, <2>3
    <3> QED
      BY <2>1, <2>2, <2>3, <3>1, <3>2
  <2>4. CASE s[m] \notin out
    <3> DEFINE r == p[m - 1]
    <3>1. r \in Seq(Cmds) /\ p[m] = Append(r, s[m])
      BY <1>5, <2>1, <2>4
    <3> HIDE DEF r
    <3>2. /\ p[m] \in Seq(Cmds) /\ Len(p[m]) = Len(r) + 1 /\ Len(r) \in Nat
          /\ p[m][Len(r) + 1] = s[m] /\ \A j \in 1..Len(r) : p[m][j] = r[j]
      BY <2>1, <3>1
    <3>3. ASSUME NEW i \in 1..m, s[i] \notin out PROVE \E j \in 1..Len(p[m]) : p[m][j] = s[i]
      <4>1. CASE i = m
        BY <3>2, <4>1
      <4>2. CASE i # m
        <5>1. PICK j \in 1..Len(r) : r[j] = s[i]
          BY <2>1, <2>2, <3>3, <4>2 DEF r
        <5>2. j \in 1..Len(p[m]) /\ p[m][j] = s[i]
          BY <3>2, <5>1
        <5> QED
          BY <5>2
      <4> QED
        BY <4>1, <4>2
    <3>4. ASSUME s[1] \notin out PROVE p[m] # <<>> /\ p[m][1] = s[1]
      <4>1. CASE m = 1
        <5>1. r = <<>>
          BY <1>5, <4>1 DEF r
        <5> QED
          BY <3>1, <4>1, <5>1
      <4>2. CASE m # 1
        <5>1. r # <<>> /\ r[1] = s[1]
          BY <2>1, <3>4, <4>2 DEF r
        <5>2. 1 \in 1..Len(r)
          BY <3>1, <5>1
        <5> QED
          BY <3>2, <5>1, <5>2
      <4> QED
        BY <4>1, <4>2
    <3> QED
      BY <2>1, <3>2, <3>3, <3>4
  <2> QED
    BY <2>3, <2>4
<1>8. N \in S
  <2>1. N \in Nat /\ N \in 0..N
    BY <1>1
  <2> HIDE DEF S, N
  <2> QED
    BY <1>6, <1>7, <2>1, Climb
<1>9. s # <<>> => N > 0
  BY <1>1
<1> QED
  BY <1>4, <1>8, <1>9

\* What only memory knows stays in front, whatever is read from the file.
LEMMA MergeIs ==
  ASSUME NEW h \in Seq(Cmds), NEW cmds \in Seq(Cmds)
  PROVE  /\ Session!Merge(h, cmds) \in Seq(Cmds)
         /\ h # <<>> /\ h[1] \notin Session!ToSet(cmds) =>
               Session!Merge(h, cmds) # <<>> /\ Session!Merge(h, cmds)[1] = h[1]
<1> DEFINE N == Len(cmds)
           base == Session!Without(h, Session!ToSet(cmds))
           Merged(u) == u = [n \in 0..N |-> IF n = 0 THEN base ELSE Session!Added(u[n - 1], cmds[n])]
<1>1. N \in Nat /\ (\A m \in 1..N : cmds[m] \in Cmds) /\ base \in Seq(Cmds)
  BY WithoutIs
<1>2. h # <<>> /\ h[1] \notin Session!ToSet(cmds) => base # <<>> /\ base[1] = h[1]
  BY WithoutIs
<1>3. ASSUME NEW v \in Seq(Cmds), NEW c \in Cmds
      PROVE  Session!Added(v, c) \in Seq(Cmds)
             /\ (v # <<>> => Session!Added(v, c) # <<>> /\ Session!Added(v, c)[1] = v[1])
  <2>1. /\ Append(v, c) \in Seq(Cmds) /\ Append(v, c) # <<>>
        /\ (v # <<>> => Append(v, c)[1] = v[1])
    <3>1. v # <<>> => 1 \in 1..Len(v)
      OBVIOUS
    <3>2. \A i \in 1..Len(v) : Append(v, c)[i] = v[i]
      OBVIOUS
    <3>3. Append(v, c) \in Seq(Cmds) /\ Len(Append(v, c)) = Len(v) + 1 /\ Len(v) \in Nat
      OBVIOUS
    <3>4. Append(v, c) # <<>>
      <4> DEFINE r == Append(v, c)
      <4> HIDE DEF r
      <4>1. Len(r) # 0
        BY <3>3 DEF r
      <4>2. r # <<>>
        BY <4>1
      <4> QED
        BY <4>2 DEF r
    <3> QED
      BY <3>1, <3>2, <3>3, <3>4
  <2> QED
    BY <2>1 DEF Session!Added
<1>4. Session!Merge(h, cmds) = (CHOOSE u : Merged(u))[N]
  BY DEF Session!Merge
<1> HIDE DEF base
<1>5. \E u : Merged(u)
  <2> DEFINE G == [i \in 1..N |-> [v \in Seq(Cmds) |-> Session!Added(v, cmds[i])]]
  <2>1. G \in [1..N -> [Seq(Cmds) -> Seq(Cmds)]]
    BY <1>1, <1>3
  <2>2. \A i \in 1..N : \A v \in Seq(Cmds) : G[i][v] = Session!Added(v, cmds[i])
    OBVIOUS
  <2> HIDE DEF G
  <2>3. PICK q \in [0..N -> Seq(Cmds)] : Rises(q, N, base, G)
    <3>1. N \in Nat
      BY <1>1
    <3> HIDE DEF N
    <3> QED
      BY <1>1, <2>1, <3>1, Recursion
  <2>4. ASSUME NEW n \in 0..N
        PROVE  q[n] = IF n = 0 THEN base ELSE Session!Added(q[n - 1], cmds[n])
    <3>1. CASE n = 0
      BY <2>3, <3>1 DEF Rises
    <3>2. CASE n # 0
      <4>1. n \in 1..N /\ n - 1 \in 0..N
        BY <1>1, <3>2
      <4>2. q[n - 1] \in Seq(Cmds)
        BY <4>1
      <4>3. q[n] = G[n][q[n - 1]]
        BY <2>3, <3>2, Zenon DEF Rises
      <4> QED
        BY <2>2, <3>2, <4>1, <4>2, <4>3
    <3> QED
      BY <3>1, <3>2
  <2>5. Merged(q)
    BY <2>4
  <2> QED
    BY <2>5
<1> DEFINE p == CHOOSE u : Merged(u)
<1>6. Merged(p)
  BY <1>5
<1>7. Session!Merge(h, cmds) = p[N]
  BY <1>4
<1> HIDE DEF p
<1>8. p[0] = base /\ \A m \in 1..N : p[m] = Session!Added(p[m - 1], cmds[m])
  BY <1>1, <1>6
<1> DEFINE Good(m) == p[m] \in Seq(Cmds) /\ (base # <<>> => p[m] # <<>> /\ p[m][1] = base[1])
           S == {m \in 0..N : Good(m)}
<1>9. 0 \in S
  BY <1>1, <1>8
<1>10. ASSUME NEW m \in 1..N, m - 1 \in S PROVE m \in S
  <2>1. Good(m - 1) /\ m \in 0..N /\ cmds[m] \in Cmds /\ p[m] = Session!Added(p[m - 1], cmds[m])
    BY <1>1, <1>8, <1>10
  <2> QED
    BY <1>3, <2>1
<1>11. N \in S
  <2>1. N \in Nat /\ N \in 0..N
    BY <1>1
  <2> HIDE DEF S, N
  <2> QED
    BY <1>9, <1>10, <2>1, Climb
<1> QED
  BY <1>2, <1>7, <1>11

\* What a read of the history file may have given: the file only ever grows.
Reads == {h \in Seq(Cmds) : Session!ToSet(h) \subseteq Session!ToSet(file)}
SessionEvents == {Session!Data(c) : c \in PtyChunks} \cup {Session!Loaded(h) : h \in Reads}
                 \cup {Session!Plain(e) : e \in {"Ready", "Closed", "Error"}}

\* What the history knows, and what is on its way to it, beside what is promised.
HistoryInv ==
    /\ history \in Seq(Cmds) /\ file \in Seq(Cmds) /\ latest \in Cmds \cup {None}
    /\ loading \in Seq(Reads) /\ chan \in Seq(SessionEvents)
    /\ Session!UnflushedFirst

\* The keyboard's flag suits the screen within a batch, too.
SessionInv == HistoryInv /\ (kitty => alt)

\* A sequence with one element put in front of it.
LEMMA Ahead ==
  ASSUME NEW S, NEW c \in S, NEW r \in Seq(S)
  PROVE  /\ <<c>> \o r \in Seq(S) /\ Len(<<c>> \o r) = 1 + Len(r) /\ Len(r) \in Nat
         /\ (<<c>> \o r)[1] = c
         /\ \A j \in 1..Len(r) : j + 1 \in 1..1 + Len(r) /\ (<<c>> \o r)[j + 1] = r[j]
<1> DEFINE one == <<c>>
<1>1. one \in Seq(S) /\ Len(one) = 1 /\ one[1] = c
  OBVIOUS
<1> HIDE DEF one
<1>2. one \o r \in Seq(S) /\ Len(one \o r) = 1 + Len(r) /\ Len(r) \in Nat
  <2>1. one \o r \in Seq(S) /\ Len(one \o r) = Len(one) + Len(r)
    BY <1>1, ConcatProperties, Zenon
  <2>2. Len(r) \in Nat
    OBVIOUS
  <2> QED
    BY <1>1, <2>1, <2>2
<1>3. \A k \in 1..Len(one) + Len(r) :
         (one \o r)[k] = IF k <= Len(one) THEN one[k] ELSE r[k - Len(one)]
  BY <1>1, ConcatProperties
<1>4. (one \o r)[1] = c
  BY <1>1, <1>2, <1>3
<1>5. ASSUME NEW j \in 1..Len(r)
      PROVE  j + 1 \in 1..1 + Len(r) /\ (one \o r)[j + 1] = r[j]
  <2>1. j + 1 \in 1..1 + Len(r) /\ ~(j + 1 <= 1) /\ (j + 1) - 1 = j
    BY <1>2
  <2> QED
    BY <1>1, <1>3, <2>1
<1> QED
  BY <1>2, <1>4, <1>5 DEF one

LEMMA SessionInit == ASSUME Session!Init PROVE SessionInv
<1>1. file \in Seq(Cmds)
  <2>1. PICK c \in Cmds : file = <<c>>
    BY DEF Session!Init
  <2> QED
    BY <2>1
<1>2. /\ history = <<>> /\ latest = None /\ loading = <<>> /\ chan = <<>>
      /\ kitty = FALSE
  BY DEF Session!Init
<1>3. <<>> \in Seq(Reads) /\ <<>> \in Seq(SessionEvents) /\ <<>> \in Seq(Cmds)
  OBVIOUS
<1> QED
  BY <1>1, <1>2, <1>3 DEF SessionInv, HistoryInv, Session!UnflushedFirst

LEMMA ToSetIs == \A s \in Seq(Cmds) : \A x : x \in Session!ToSet(s) <=> \E i \in 1..Len(s) : s[i] = x
  BY DEF Session!ToSet

\* Enter puts the line in front.
LEMMA CapturedIs ==
  ASSUME history \in Seq(Cmds), NEW c \in Cmds
  PROVE  Session!Captured(c) \in Seq(Cmds) /\ Session!Captured(c) # <<>> /\ Head(Session!Captured(c)) = c
<1> DEFINE rest == Session!Without(history, {c})
           cut == SubSeq(rest, 1, IF Len(rest) < MaxHistory THEN Len(rest) ELSE MaxHistory - 1)
<1>1. rest \in Seq(Cmds)
  BY WithoutIs
<1>2. MaxHistory \in Nat /\ MaxHistory # 0
  BY TrafficAssumption DEF Session!TerminalAssumption
<1>3. Session!Captured(c) = IF history # <<>> /\ Head(history) = c THEN history ELSE <<c>> \o cut
  BY DEF Session!Captured
<1> HIDE DEF rest
<1>4. cut \in Seq(Cmds)
  BY <1>1, <1>2
<1> HIDE DEF cut
<1>5. <<c>> \o cut \in Seq(Cmds) /\ <<c>> \o cut # <<>> /\ Head(<<c>> \o cut) = c
  <2> DEFINE r == <<c>> \o cut
  <2>1. r \in Seq(Cmds) /\ Len(r) = 1 + Len(cut) /\ Len(cut) \in Nat /\ r[1] = c
    BY <1>4, Ahead
  <2> HIDE DEF r
  <2>2. r # <<>> /\ Head(r) = c
    BY <2>1
  <2> QED
    BY <2>1, <2>2 DEF r
<1> QED
  BY <1>3, <1>5

\* A line that reaches the file takes none of the others from it.
LEMMA FileGrows ==
  ASSUME file \in Seq(Cmds), NEW c \in Cmds, file' = <<c>> \o Session!Without(file, {c})
  PROVE  file' \in Seq(Cmds) /\ Session!ToSet(file) \subseteq Session!ToSet(file')
<1> DEFINE rest == Session!Without(file, {c})
<1>1. /\ rest \in Seq(Cmds)
      /\ \A i \in 1..Len(file) : file[i] # c => \E j \in 1..Len(rest) : rest[j] = file[i]
  BY WithoutIs
<1>2. file' = <<c>> \o rest
  OBVIOUS
<1> HIDE DEF rest
<1>3. /\ file' \in Seq(Cmds) /\ Len(file') = 1 + Len(rest) /\ Len(rest) \in Nat
      /\ file'[1] = c /\ \A j \in 1..Len(rest) : j + 1 \in 1..Len(file') /\ file'[j + 1] = rest[j]
  <2> DEFINE f == <<c>> \o rest
  <2>1. /\ f \in Seq(Cmds) /\ Len(f) = 1 + Len(rest) /\ Len(rest) \in Nat /\ f[1] = c
        /\ \A j \in 1..Len(rest) : j + 1 \in 1..1 + Len(rest) /\ f[j + 1] = rest[j]
    BY <1>1, Ahead
  <2>2. file' = f
    BY <1>2
  <2> HIDE DEF f
  <2> QED
    BY <2>1, <2>2
<1>4. ASSUME NEW i \in 1..Len(file) PROVE \E k \in 1..Len(file') : file'[k] = file[i]
  <2>1. CASE file[i] = c
    BY <1>3, <2>1
  <2>2. CASE file[i] # c
    <3>1. PICK j \in 1..Len(rest) : rest[j] = file[i]
      BY <1>1, <2>2
    <3> QED
      BY <1>3, <3>1
  <2> QED
    BY <2>1, <2>2
<1>5. ASSUME NEW x \in Session!ToSet(file) PROVE x \in Session!ToSet(file')
  <2>1. PICK i \in 1..Len(file) : file[i] = x
    BY ToSetIs
  <2>2. PICK k \in 1..Len(file') : file'[k] = file[i]
    BY <1>4
  <2> QED
    BY <1>3, <2>1, <2>2, ToSetIs
<1> QED
  BY <1>3, <1>5

\* The channel gains an event, or loses one, while the history stays.
LEMMA Undisturbed ==
  ASSUME HistoryInv, UNCHANGED Session!histVars,
         \/ UNCHANGED chan
         \/ chan # <<>> /\ chan' = Tail(chan)
         \/ \E e \in SessionEvents : chan' = Append(chan, e)
  PROVE  HistoryInv'
<1>1. SessionEvents' = SessionEvents /\ Reads' = Reads
  BY DEF SessionEvents, Reads, Session!histVars
<1>2. chan' \in Seq(SessionEvents)
  <2>1. chan \in Seq(SessionEvents)
    BY DEF HistoryInv
  <2> QED
    BY <2>1
<1> QED
  BY <1>1, <1>2 DEF HistoryInv, Session!histVars, Session!UnflushedFirst

LEMMA EventsAre ==
  /\ \A c \in PtyChunks : Session!Data(c) \in SessionEvents
  /\ \A e \in {"Ready", "Closed", "Error"} : Session!Plain(e) \in SessionEvents
  /\ \A h \in Reads : Session!Loaded(h) \in SessionEvents
  /\ \A e \in SessionEvents : e.event = "HistoryLoaded" => e.cmds \in Reads
<1> USE DEF SessionEvents, Session!Data, Session!Plain, Session!Loaded
<1>1. ASSUME NEW e \in SessionEvents, e.event = "HistoryLoaded" PROVE e.cmds \in Reads
  <2>1. CASE e \in {Session!Data(c) : c \in PtyChunks}
    BY <1>1, <2>1
  <2>2. CASE e \in {Session!Loaded(h) : h \in Reads}
    BY <2>2
  <2>3. CASE e \in {Session!Plain(x) : x \in {"Ready", "Closed", "Error"}}
    BY <1>1, <2>3
  <2> QED
    BY <2>1, <2>2, <2>3
<1> QED
  BY <1>1

\* The pump shows what comes and merges the histories that were read.
LEMMA PumpKeeps == ASSUME SessionInv, Session!Pump PROVE SessionInv'
<1> USE DEF SessionInv
<1>1. CASE Session!RecvData \/ Session!DrainData
  <2>1. chan # <<>> /\ chan' = Tail(chan) /\ UNCHANGED Session!histVars
    BY <1>1 DEF Session!RecvData, Session!DrainData, Session!Receive
  <2>2. kitty' => alt'
    BY <1>1 DEF Session!RecvData, Session!DrainData, Session!Advance, Session!DrainAdvance
  <2> QED
    BY <2>1, <2>2, Undisturbed
<1>2. CASE Session!DrainOther \/ Session!DrainClosed \/ Session!RecvOther
  <2>1. chan # <<>> /\ chan' = Tail(chan) /\ UNCHANGED <<Session!histVars, alt, kitty>>
    BY <1>2 DEF Session!DrainOther, Session!DrainClosed, Session!RecvOther, Session!Receive,
                Session!pumpVars
  <2> QED
    BY <2>1, Undisturbed
<1>3. CASE Session!DrainEnds
  <2>1. UNCHANGED <<chan, Session!histVars, alt, kitty>>
    BY <1>3 DEF Session!DrainEnds
  <2> QED
    BY <2>1, Undisturbed
<1>4. CASE Session!RecvHistory
  <2> DEFINE read == Head(chan).cmds
  <2>1. /\ chan # <<>> /\ Head(chan).event = "HistoryLoaded" /\ chan' = Tail(chan)
        /\ history' = Session!Merge(history, read)
        /\ UNCHANGED <<file, latest, loading, alt, kitty>>
    BY <1>4 DEF Session!RecvHistory, Session!Receive, Session!Next1, Session!pumpVars
  <2>2. chan \in Seq(SessionEvents) /\ chan' \in Seq(SessionEvents) /\ Head(chan) \in SessionEvents
    <3>1. chan \in Seq(SessionEvents)
      BY DEF HistoryInv
    <3> QED
      BY <2>1, <3>1
  <2>3. read \in Reads
    BY <2>1, <2>2, EventsAre
  <2> HIDE DEF read
  <2>4. read \in Seq(Cmds) /\ Session!ToSet(read) \subseteq Session!ToSet(file)
    BY <2>3 DEF Reads
  <2>5. history' \in Seq(Cmds)
        /\ (history # <<>> /\ history[1] \notin Session!ToSet(read) =>
               history' # <<>> /\ history'[1] = history[1])
    BY <2>1, <2>4, MergeIs DEF HistoryInv
  <2>6. Session!UnflushedFirst'
    <3>1. SUFFICES ASSUME latest # None, latest \notin Session!ToSet(file)
                   PROVE  history' # <<>> /\ Head(history') = latest
      BY <2>1 DEF Session!UnflushedFirst
    <3>2. history # <<>> /\ Head(history) = latest /\ history \in Seq(Cmds)
      BY <3>1 DEF HistoryInv, Session!UnflushedFirst
    <3>3. history[1] = latest
      BY <3>2
    <3> QED
      BY <2>4, <2>5, <3>1, <3>2, <3>3
  <2>7. SessionEvents' = SessionEvents /\ Reads' = Reads
    BY <2>1 DEF SessionEvents, Reads
  <2> QED
    BY <2>1, <2>2, <2>5, <2>6, <2>7 DEF HistoryInv
<1> QED
  BY <1>1, <1>2, <1>3, <1>4 DEF Session!Pump

\* Enter, the shell's own writing of its file, and the reads of it.
LEMMA HistoryKeeps ==
  ASSUME SessionInv,
         Session!LoadDone \/ \E c \in Cmds : Session!Enter(c) \/ Session!Flush(c)
  PROVE  SessionInv'
<1> USE DEF SessionInv
<1>1. ASSUME NEW c \in Cmds, Session!Enter(c) PROVE SessionInv'
  <2>1. /\ history' = Session!Captured(c) /\ latest' = c
        /\ loading' \in {loading, Append(loading, file)}
        /\ UNCHANGED <<chan, file, alt, kitty>>
    BY <1>1 DEF Session!Enter, Session!pumpVars
  <2>2. history' \in Seq(Cmds) /\ history' # <<>> /\ Head(history') = c
    BY <2>1, CapturedIs DEF HistoryInv
  <2>3. SessionEvents' = SessionEvents /\ Reads' = Reads
    BY <2>1 DEF SessionEvents, Reads
  <2>4. file \in Reads
    BY DEF Reads, HistoryInv
  <2>5. loading' \in Seq(Reads)
    <3>1. loading \in Seq(Reads)
      BY DEF HistoryInv
    <3> QED
      BY <2>1, <2>4, <3>1
  <2> QED
    BY <2>1, <2>2, <2>3, <2>5 DEF HistoryInv, Session!UnflushedFirst
<1>2. ASSUME NEW c \in Cmds, Session!Flush(c) PROVE SessionInv'
  <2>1. /\ file' = <<c>> \o Session!Without(file, {c})
        /\ UNCHANGED <<chan, history, latest, loading, alt, kitty>>
    BY <1>2 DEF Session!Flush, Session!pumpVars
  <2>2. file' \in Seq(Cmds) /\ Session!ToSet(file) \subseteq Session!ToSet(file')
    BY <2>1, FileGrows DEF HistoryInv
  <2>3. Session!ToSet(file)' = Session!ToSet(file')
    BY DEF Session!ToSet
  <2>4. Reads \subseteq Reads'
    BY <2>2, <2>3 DEF Reads
  <2>5. SessionEvents \subseteq SessionEvents'
    BY <2>4 DEF SessionEvents
  <2>6. loading \in Seq(Reads') /\ chan \in Seq(SessionEvents')
    <3>1. loading \in Seq(Reads) /\ chan \in Seq(SessionEvents)
      BY DEF HistoryInv
    <3> QED
      BY <2>4, <2>5, <3>1, SeqMonotonic
  <2>7. Session!UnflushedFirst'
    BY <2>1, <2>2, <2>3 DEF HistoryInv, Session!UnflushedFirst
  <2> QED
    BY <2>1, <2>2, <2>6, <2>7 DEF HistoryInv
<1>3. CASE Session!LoadDone
  <2>1. /\ loading # <<>> /\ loading' = Tail(loading)
        /\ chan' = chan \/ chan' = Append(chan, Session!Loaded(Head(loading)))
        /\ UNCHANGED <<history, file, latest, alt, kitty>>
    BY <1>3 DEF Session!LoadDone, Session!pumpVars
  <2>2. SessionEvents' = SessionEvents /\ Reads' = Reads
    BY <2>1 DEF SessionEvents, Reads
  <2>3. loading' \in Seq(Reads) /\ Head(loading) \in Reads
    <3>1. loading \in Seq(Reads)
      BY DEF HistoryInv
    <3> QED
      BY <2>1, <3>1
  <2>4. chan' \in Seq(SessionEvents)
    <3>1. chan \in Seq(SessionEvents) /\ Session!Loaded(Head(loading)) \in SessionEvents
      BY <2>3, EventsAre DEF HistoryInv
    <3> QED
      BY <2>1, <3>1
  <2> QED
    BY <2>1, <2>2, <2>3, <2>4 DEF HistoryInv, Session!UnflushedFirst
<1> QED
  BY <1>1, <1>2, <1>3

\* What the backend and its threads say leaves the history alone.
LEMMA BackendKeeps ==
  ASSUME SessionInv,
         \/ Session!Built \/ Session!BuildFails \/ Session!Forward \/ Session!Install
         \/ Session!Type \/ Session!Buffer \/ Session!Close \/ Session!Write \/ Session!HangUp
         \/ Session!Read \/ Session!ShellExits
         \/ \E who \in Session!Speakers : Session!SayClosed(who)
  PROVE  SessionInv'
<1> USE DEF SessionInv
<1> DEFINE Closed == Session!Plain("Closed")
           Ready == Session!Plain("Ready")
<1>0. Closed \in SessionEvents /\ Ready \in SessionEvents
  BY EventsAre
<1> HIDE DEF Closed, Ready
<1>1. CASE \/ Session!Built \/ Session!Forward \/ Session!Type \/ Session!Buffer \/ Session!Write
           \/ Session!ShellExits
  <2>1. UNCHANGED <<chan, Session!histVars, alt, kitty>>
    BY <1>1 DEF Session!Built, Session!Forward, Session!Type, Session!Buffer, Session!Write,
                Session!ShellExits, Session!pumpVars
  <2> QED
    BY <2>1, Undisturbed
<1>2. CASE Session!Install
  <2>1. /\ chan' = chan \/ chan' = Append(chan, Ready)
        /\ UNCHANGED <<Session!histVars, alt, kitty>>
    BY <1>2 DEF Session!Install, Session!pumpVars, Ready
  <2> QED
    BY <1>0, <2>1, Undisturbed
<1>3. CASE \/ Session!Close \/ Session!HangUp
           \/ \E who \in Session!Speakers : Session!SayClosed(who)
  <2>1. /\ chan' = chan \/ chan' = Append(chan, Closed)
        /\ UNCHANGED <<Session!histVars, alt, kitty>>
    BY <1>3 DEF Session!Close, Session!HangUp, Session!SayClosed, Session!Says,
                Session!pumpVars, Closed
  <2> QED
    BY <1>0, <2>1, Undisturbed
<1>4. CASE Session!Read
  <2>1. /\ chan' = chan \/ \E c \in PtyChunks : chan' = Append(chan, Session!Data(c))
        /\ UNCHANGED <<Session!histVars, alt, kitty>>
    BY <1>4 DEF Session!Read, Session!Says, Session!pumpVars
  <2> QED
    BY <2>1, EventsAre, Undisturbed
<1>5. CASE Session!BuildFails
  <2> DEFINE both == <<Session!Plain("Error"), Session!Plain("Closed")>>
             n == IF Len(chan) + 2 < Cap THEN Len(chan) + 2 ELSE Cap
  <2>1. chan' = SubSeq(chan \o both, 1, n) /\ UNCHANGED <<Session!histVars, alt, kitty>>
    BY <1>5 DEF Session!BuildFails, Session!pumpVars
  <2>2. chan \in Seq(SessionEvents) /\ both \in Seq(SessionEvents) /\ Len(both) = 2
    BY EventsAre DEF HistoryInv
  <2>3. Cap \in Nat
    BY TrafficAssumption DEF Session!TerminalAssumption
  <2> HIDE DEF both
  <2>4. chan' \in Seq(SessionEvents)
    <3> DEFINE all == chan \o both
    <3>1. all \in Seq(SessionEvents) /\ Len(all) = Len(chan) + Len(both) /\ Len(chan) \in Nat
      <4>1. Len(chan) \in Nat
        BY <2>2
      <4> QED
        BY <2>2, <4>1, ConcatProperties, Zenon
    <3> HIDE DEF all
    <3>2. n \in Int /\ \A i \in 1..n : all[i] \in SessionEvents
      BY <2>2, <2>3, <3>1
    <3> HIDE DEF n
    <3>3. SubSeq(all, 1, n) \in Seq(SessionEvents)
      BY <3>2, SubSeqProperties
    <3> QED
      BY <2>1, <3>3 DEF all
  <2>5. SessionEvents' = SessionEvents /\ Reads' = Reads
    BY <2>1 DEF SessionEvents, Reads, Session!histVars
  <2> QED
    BY <2>1, <2>4, <2>5 DEF HistoryInv, Session!histVars, Session!UnflushedFirst
<1> QED
  BY <1>1, <1>2, <1>3, <1>4, <1>5

LEMMA SessionStep == SessionInv /\ [Session!Next]_sessionVars => SessionInv'
<1> SUFFICES ASSUME SessionInv, [Session!Next]_sessionVars PROVE SessionInv'
  OBVIOUS
<1>1. CASE Session!Next
  BY <1>1, PumpKeeps, HistoryKeeps, BackendKeeps DEF Session!Next, Session!Threads
<1>2. CASE UNCHANGED sessionVars
  <2>1. UNCHANGED <<chan, Session!histVars, alt, kitty>>
    BY <1>2 DEF sessionVars, Session!histVars
  <2> QED
    BY <2>1, Undisturbed DEF SessionInv
<1> QED
  BY <1>1, <1>2

\* However stale the reads of the history file that come in, in whatever order and with
\* whatever else is on the channel, the freshest command stays in front until the shell's
\* file knows it; and between batches keys are encoded for kitty only while the program that
\* asked owns the alternate screen (terminal.rs TerminalSession::start,
\* merge_history_entries, snapshot_command_from_grid).
THEOREM FreshestStaysFirst == MCSpec => []SessionSound
<1>1. MCInit => SessionInv
  BY SessionInit DEF MCInit
<1>2. SessionInv /\ [MCNext]_<<vars, copyVars, panelVars, managerVars, sessionVars, part>>
         => SessionInv'
  <2>1. [MCNext]_<<vars, copyVars, panelVars, managerVars, sessionVars, part>>
           => [Session!Next]_sessionVars
    BY DEF MCNext, OnControl, OnPanel, OnTunnels
  <2> QED
    BY <2>1, SessionStep
<1>3. SessionInv => SessionSound
  BY DEF SessionInv, HistoryInv, SessionSound, Session!SessionSound, Session!KittyNeedsAltScreen
<1> QED
  BY <1>1, <1>2, <1>3, PTL DEF MCSpec
=============================================================================
