------------------------ MODULE TunnelRegistryProofs ------------------------
(* Proofs about TunnelRegistry as MCTunnels runs it, for any tunnels, tabs, *)
(* starts and jobs, and with no bound on what is begun.                    *)
EXTENDS MCTunnels, TLAPS

\* What a runtime tells of its start: it is over, and was of this tunnel.
RuntimeRegistered ==
    \A i \in Ids : runtime[i] # None =>
        att[runtime[i]].pc = "over" /\ att[runtime[i]].id = i

\* Nobody stops a manager between its start and its registration.
StartedIsLive == \A a \in Starts : att[a].pc = "started" => a \in live

\* What each kind of job works on.
JobShape ==
    \A j \in Stops :
        /\ jobs[j].kind = "tab" => jobs[j].id = None /\ jobs[j].tab \in Conns
        /\ jobs[j].pc = "snapshot" => jobs[j].kind \in {"remove", "tab"}

\* A job stops managers of its own tunnel, or of its own tab.
TodoIsOwn ==
    \A j \in Stops : \A a \in jobs[j].todo :
        /\ att[a].pc = "over"
        /\ \/ jobs[j].id = att[a].id
           \/ jobs[j].kind = "tab" /\ att[a].tab = jobs[j].tab

\* The inductive invariant.
IInv ==
    /\ Registry!RegistryAssumption
    /\ Registry!TypeOK /\ RuntimeRegistered /\ StartedIsLive
    /\ JobShape /\ TodoIsOwn /\ Registry!RunningIsLive

LEMMA InitInv == Registry!RegistryAssumption /\ Registry!Init => IInv
  <1> SUFFICES ASSUME Registry!RegistryAssumption, Registry!Init PROVE IInv
      OBVIOUS
  <1> USE DEF Registry!Init, Registry!RegistryAssumption
  <1>1. Registry!TypeOK
        BY DEF Registry!TypeOK, Registry!Attempt, Registry!Job
  <1>2. RuntimeRegistered /\ Registry!RunningIsLive
        BY DEF RuntimeRegistered, Registry!RunningIsLive
  <1>3. StartedIsLive
        BY DEF StartedIsLive
  <1>4. JobShape
        BY DEF JobShape
  <1>5. TodoIsOwn
    <2>1. \A j \in Stops : jobs[j].todo = {}
          OBVIOUS
    <2> QED BY <2>1 DEF TodoIsOwn
  <1> QED BY <1>1, <1>2, <1>3, <1>4, <1>5 DEF IInv

\* What a start has met only grows while it is under way and after.
LEMMA MeetGrows ==
    ASSUME Registry!TypeOK, NEW S, NEW w \in {"start", "job", "form"}
    PROVE  /\ Registry!Meet(S, w) \in [Starts -> SUBSET {"start", "job", "form"}]
           /\ \A a \in Starts : /\ met[a] \subseteq Registry!Meet(S, w)[a]
                                /\ a \in S => w \in Registry!Meet(S, w)[a]
                                /\ Registry!Meet(S, w)[a] \subseteq met[a] \cup {w}
  <1> QED BY DEF Registry!TypeOK, Registry!Meet

-----------------------------------------------------------------------------
(* The saved configs change nothing a start or a job relies on. *)

LEMMA SavedKeepsInv ==
    ASSUME IInv,
           \/ \E i \in Ids, p \in Ports : Registry!Create(i, p)
           \/ \E i \in Ids : Registry!OpenEdit(i) \/ Registry!RemoveHost(i)
           \/ \E p \in Ports : Registry!SaveEdit(p)
           \/ Registry!CloseForm
    PROVE  IInv'
  <1> USE DEF Registry!RegistryAssumption, IInv
  <1>1. UNCHANGED <<runtime, att, live, sessions, jobs, tabs>>
        BY DEF Registry!Create, Registry!OpenEdit, Registry!RemoveHost, Registry!SaveEdit,
           Registry!CloseForm
  <1>2. Registry!TypeOK'
    <2> USE DEF Registry!TypeOK
    <2>1. ASSUME NEW i \in Ids, NEW p \in Ports, Registry!Create(i, p) PROVE Registry!TypeOK'
          BY <2>1, <1>1 DEF Registry!Create
    <2>2. ASSUME NEW i \in Ids, Registry!OpenEdit(i) \/ Registry!RemoveHost(i) PROVE Registry!TypeOK'
          BY <2>2, <1>1, MeetGrows DEF Registry!OpenEdit, Registry!RemoveHost
    <2>3. ASSUME NEW p \in Ports, Registry!SaveEdit(p) PROVE Registry!TypeOK'
          BY <2>3, <1>1 DEF Registry!SaveEdit
    <2>4. CASE Registry!CloseForm
          BY <2>4, <1>1 DEF Registry!CloseForm
    <2> QED BY <2>1, <2>2, <2>3, <2>4
  <1>3. (RuntimeRegistered /\ StartedIsLive /\ JobShape /\ TodoIsOwn)'
        BY <1>1 DEF RuntimeRegistered, StartedIsLive, JobShape, TodoIsOwn
  <1>4. Registry!RunningIsLive'
        BY <1>1 DEF Registry!RunningIsLive, Registry!Clearing
  <1> QED BY <1>2, <1>3, <1>4

-----------------------------------------------------------------------------
(* Starts *)

AttemptStep(a) ==
    \/ \E i \in Ids : Registry!StartOwned(a, i) \/ \E t \in Conns : Registry!StartBorrowed(a, i, t)
    \/ Registry!Connect(a) \/ Registry!StartSucceeds(a) \/ Registry!StartFails(a)
    \/ Registry!Register(a) \/ Registry!ReportFailure(a)

\* Only the start's own record and what hangs on it change; jobs do not.
LEMMA StartKeepsType ==
    ASSUME Registry!TypeOK, NEW a \in Starts, AttemptStep(a)
    PROVE  Registry!TypeOK'
  <1> USE DEF Registry!TypeOK, Registry!saved
  <1>1. att' \in [Starts -> Registry!Attempt]
        BY DEF AttemptStep, Registry!Attempt, Registry!StartOwned, Registry!StartBorrowed,
           Registry!Connect, Registry!StartSucceeds,
               Registry!StartFails, Registry!Register, Registry!ReportFailure
  <1>2. runtime' \in {r \in [Ids -> Starts \cup {None}] :
                        \A k \in Ids : configs'[k] = None => r[k] = None}
        BY DEF AttemptStep, Registry!StartOwned, Registry!StartBorrowed, Registry!Connect,
           Registry!StartSucceeds,
               Registry!StartFails, Registry!Register, Registry!ReportFailure
  <1>3. /\ used' \in SUBSET Ids
        /\ store' \in [Ids -> Ports \cup {None}] /\ configs' \in [Ids -> Ports \cup {None}]
        /\ live' \in SUBSET Starts /\ sessions' \in SUBSET Starts
        /\ tabs' \in SUBSET Conns /\ form' \in Ids \cup {None}
        /\ jobs' \in [Stops -> Registry!Job]
        BY DEF AttemptStep, Registry!StartOwned, Registry!StartBorrowed, Registry!Connect,
           Registry!StartSucceeds,
               Registry!StartFails, Registry!Register, Registry!ReportFailure
  <1>4. met' \in [Starts -> SUBSET {"start", "job", "form"}]
    <2>1. \A i : Registry!MetBy(i) \subseteq {"start", "job", "form"}
          BY DEF Registry!MetBy
    <2>2. ASSUME NEW i \in Ids,
                 met' = [Registry!Meet(Registry!StartsOf(i), "start") EXCEPT ![a] = Registry!MetBy(i)]
          PROVE  met' \in [Starts -> SUBSET {"start", "job", "form"}]
          BY <2>1, <2>2, MeetGrows
    <2> QED BY <2>2 DEF AttemptStep, Registry!StartOwned, Registry!StartBorrowed,
               Registry!Connect, Registry!StartSucceeds,
               Registry!StartFails, Registry!Register, Registry!ReportFailure
  <1> QED BY <1>1, <1>2, <1>3, <1>4

LEMMA StartKeepsInv ==
    ASSUME IInv, NEW a \in Starts, AttemptStep(a)
    PROVE  IInv'
  <1> USE DEF Registry!RegistryAssumption, IInv
  <1>1. Registry!TypeOK'
        BY StartKeepsType
  <1>2. /\ att[a].pc # "over" /\ live \subseteq live' /\ jobs' = jobs
        /\ att'[a].pc = "started" => a \in live'
        /\ \A b \in Starts \ {a} : att'[b] = att[b]
    <2> USE DEF Registry!TypeOK, Registry!Attempt, Registry!saved
    <2>1. CASE \E i \in Ids : Registry!StartOwned(a, i)
          \/ \E t \in Conns : Registry!StartBorrowed(a, i, t)
          BY <2>1 DEF Registry!StartOwned, Registry!StartBorrowed
    <2>2. CASE Registry!Connect(a)
          BY <2>2 DEF Registry!Connect
    <2>3. CASE Registry!StartSucceeds(a) \/ Registry!StartFails(a)
          BY <2>3 DEF Registry!StartSucceeds, Registry!StartFails
    <2>4. CASE Registry!Register(a) \/ Registry!ReportFailure(a)
          BY <2>4 DEF Registry!Register, Registry!ReportFailure
    <2> QED BY <2>1, <2>2, <2>3, <2>4 DEF AttemptStep
  <1>3. StartedIsLive'
        BY <1>2 DEF StartedIsLive
  <1>4. JobShape'
        BY <1>2 DEF JobShape
  <1>5. TodoIsOwn'
        BY <1>2 DEF TodoIsOwn, Registry!TypeOK, Registry!Job
  <1>6. \A k \in Ids : runtime'[k] # None =>
            \/ runtime'[k] = runtime[k]
            \/ k = att[a].id /\ runtime'[k] = a /\ Registry!Register(a) /\ a \in live
        BY DEF AttemptStep, Registry!TypeOK, StartedIsLive, Registry!saved, Registry!StartOwned,
           Registry!StartBorrowed, Registry!Connect, Registry!StartSucceeds,
               Registry!StartFails, Registry!Register, Registry!ReportFailure
  <1>7. RuntimeRegistered'
    <2>1. Registry!Register(a) => att'[a].pc = "over" /\ att'[a].id = att[a].id
          BY DEF Registry!Register, Registry!TypeOK, Registry!Attempt
    <2>2. \A k \in Ids : runtime[k] # None => att'[runtime[k]] = att[runtime[k]]
          BY <1>2 DEF Registry!TypeOK, RuntimeRegistered
    <2> QED BY <1>6, <2>1, <2>2 DEF RuntimeRegistered
  <1>8. Registry!RunningIsLive'
    <2> SUFFICES ASSUME NEW k \in Ids, runtime'[k] # None
                 PROVE  runtime'[k] \in live' \/ \E j \in Stops : Registry!Clearing(j, k, runtime[k])'
        BY DEF Registry!RunningIsLive
    <2>1. CASE runtime'[k] = a /\ a \in live
          BY <2>1, <1>2
    <2>2. CASE runtime'[k] = runtime[k]
      <3>1. runtime[k] \in Starts \ {a}
            BY <2>2, <1>2 DEF Registry!TypeOK, RuntimeRegistered
      <3>2. ASSUME NEW j \in Stops, Registry!Clearing(j, k, runtime[k])
            PROVE  Registry!Clearing(j, k, runtime[k])'
            BY <3>1, <3>2, <2>2, <1>2 DEF Registry!Clearing
      <3> QED BY <2>2, <1>2, <3>2 DEF Registry!RunningIsLive
    <2> QED BY <1>6, <2>1, <2>2
  <1> QED BY <1>1, <1>3, <1>4, <1>5, <1>7, <1>8

-----------------------------------------------------------------------------
(* Jobs *)

JobStep(j) ==
    \/ \E i \in Ids : Registry!StopTunnel(j, i) \/ Registry!RemoveTunnel(j, i)
    \/ \E t \in Conns : Registry!CloseTab(j, t)
    \/ \E a \in Starts : Registry!StopManager(j, a)
    \/ Registry!Snapshot(j) \/ Registry!FinishStop(j) \/ Registry!FinishTab(j)
    \/ Registry!FinishRemove(j) \/ Registry!RemoveRow(j)

LEMMA JobKeepsType ==
    ASSUME Registry!TypeOK, NEW j \in Stops, JobStep(j)
    PROVE  Registry!TypeOK'
  <1> USE DEF Registry!TypeOK, Registry!saved
  <1>1. jobs' \in [Stops -> Registry!Job]
    <2>1. CASE \E i \in Ids : Registry!StopTunnel(j, i) \/ Registry!RemoveTunnel(j, i)
          BY <2>1 DEF Registry!Job, Registry!StopTunnel, Registry!RemoveTunnel, Registry!Begin,
             Registry!is_running
    <2>2. CASE \E t \in Conns : Registry!CloseTab(j, t)
          BY <2>2 DEF Registry!Job, Registry!CloseTab, Registry!Begin
    <2>3. CASE \E a \in Starts : Registry!StopManager(j, a)
          BY SMTT(30), <2>3 DEF Registry!Job, Registry!StopManager
    <2>4. CASE Registry!Snapshot(j)
      <3>1. Registry!ToStop(j) \subseteq Starts
            BY DEF Registry!ToStop, Registry!is_running
      <3>2. [jobs[j] EXCEPT !.pc = "stopping", !.todo = Registry!ToStop(j)] \in Registry!Job
            BY ZenonT(60), <3>1 DEF Registry!Job
      <3> QED BY <2>4, <3>2 DEF Registry!Snapshot
    <2>5. CASE Registry!FinishStop(j) \/ Registry!FinishTab(j)
               \/ Registry!FinishRemove(j) \/ Registry!RemoveRow(j)
          BY SMTT(30), <2>5 DEF Registry!Job, Registry!FinishStop, Registry!FinishTab,
             Registry!FinishRemove, Registry!RemoveRow
    <2> QED BY <2>1, <2>2, <2>3, <2>4, <2>5 DEF JobStep
  <1>2. runtime' \in {r \in [Ids -> Starts \cup {None}] :
                        \A k \in Ids : configs'[k] = None => r[k] = None}
        BY DEF JobStep, Registry!StopTunnel, Registry!RemoveTunnel, Registry!CloseTab,
           Registry!StopManager, Registry!Snapshot,
               Registry!FinishStop, Registry!FinishTab, Registry!FinishRemove, Registry!RemoveRow
  <1>3. /\ used' \in SUBSET Ids
        /\ store' \in [Ids -> Ports \cup {None}] /\ configs' \in [Ids -> Ports \cup {None}]
        /\ live' \in SUBSET Starts /\ sessions' \in SUBSET Starts
        /\ tabs' \in SUBSET Conns /\ form' \in Ids \cup {None}
        /\ att' \in [Starts -> Registry!Attempt]
        BY DEF JobStep, Registry!StopTunnel, Registry!RemoveTunnel, Registry!CloseTab,
           Registry!StopManager, Registry!Snapshot,
               Registry!FinishStop, Registry!FinishTab, Registry!FinishRemove, Registry!RemoveRow
  <1>4. met' \in [Starts -> SUBSET {"start", "job", "form"}]
    <2>1. met' = met \/ \E S \in SUBSET Starts : met' = Registry!Meet(S, "job")
          BY DEF JobStep, Registry!StopTunnel, Registry!RemoveTunnel, Registry!CloseTab,
             Registry!StopManager, Registry!Snapshot,
             Registry!FinishStop, Registry!FinishTab, Registry!FinishRemove, Registry!RemoveRow,
             Registry!StartsOf, Registry!StartsOn
    <2> QED BY <2>1, MeetGrows
  <1> QED BY <1>1, <1>2, <1>3, <1>4

LEMMA JobKeepsShape ==
    ASSUME IInv, NEW j \in Stops, JobStep(j)
    PROVE  (RuntimeRegistered /\ StartedIsLive /\ JobShape /\ TodoIsOwn)'
  <1> USE DEF Registry!RegistryAssumption, IInv
  <1>0. att' = att /\ \A k \in Stops \ {j} : jobs'[k] = jobs[k]
    <2> USE DEF Registry!TypeOK, Registry!saved
    <2>1. att' = att
          BY DEF JobStep, Registry!StopTunnel, Registry!RemoveTunnel, Registry!CloseTab,
             Registry!StopManager, Registry!Snapshot,
                 Registry!FinishStop, Registry!FinishTab, Registry!FinishRemove,
                 Registry!RemoveRow
    <2>2. \A k \in Stops \ {j} : jobs'[k] = jobs[k]
          BY DEF JobStep, Registry!StopTunnel, Registry!RemoveTunnel, Registry!CloseTab,
             Registry!Begin, Registry!StopManager, Registry!Snapshot,
                 Registry!FinishStop, Registry!FinishTab, Registry!FinishRemove,
                 Registry!RemoveRow
    <2> QED BY <2>1, <2>2
  <1>1. RuntimeRegistered'
    <2>1. \A i \in Ids : runtime'[i] # None => runtime'[i] = runtime[i]
          BY DEF Registry!TypeOK, Registry!saved, JobStep, Registry!StopTunnel,
             Registry!RemoveTunnel, Registry!CloseTab, Registry!StopManager,
                 Registry!Snapshot, Registry!FinishStop, Registry!FinishTab,
                 Registry!FinishRemove, Registry!RemoveRow
    <2> QED BY <2>1, <1>0 DEF RuntimeRegistered
  <1>2. StartedIsLive'
    <2>1. CASE \E a \in Starts : Registry!StopManager(j, a)
      <3> PICK a \in Starts : Registry!StopManager(j, a)
          BY <2>1
      <3>1. att[a].pc = "over" /\ live' = live \ {a}
            BY DEF Registry!StopManager, TodoIsOwn
      <3> QED BY <3>1, <1>0 DEF StartedIsLive
    <2>2. CASE live' = live
          BY <2>2, <1>0 DEF StartedIsLive
    <2> QED BY <2>1, <2>2 DEF JobStep, Registry!StopTunnel, Registry!RemoveTunnel,
               Registry!CloseTab, Registry!Snapshot,
               Registry!FinishStop, Registry!FinishTab, Registry!FinishRemove, Registry!RemoveRow
  <1>3. JobShape' /\ TodoIsOwn'
    <2>1. CASE \E i \in Ids : Registry!StopTunnel(j, i)
      <3> PICK i \in Ids : Registry!StopTunnel(j, i)
          BY <2>1
      <3>1. jobs'[j] = [pc |-> "stopping", kind |-> "stop", id |-> i, tab |-> None,
                        todo |-> {runtime[i]}]
            BY DEF Registry!StopTunnel, Registry!Begin, Registry!TypeOK
      <3>2. att[runtime[i]].pc = "over" /\ att[runtime[i]].id = i
            BY DEF Registry!StopTunnel, Registry!is_running, RuntimeRegistered
      <3> QED BY <3>1, <3>2, <1>0 DEF JobShape, TodoIsOwn
    <2>2. CASE \E i \in Ids : Registry!RemoveTunnel(j, i)
      <3> PICK i \in Ids : Registry!RemoveTunnel(j, i)
          BY <2>2
      <3>1. jobs'[j] = [pc |-> "snapshot", kind |-> "remove", id |-> i, tab |-> None,
                        todo |-> {}]
            BY DEF Registry!RemoveTunnel, Registry!Begin, Registry!TypeOK
      <3> QED BY <3>1, <1>0 DEF JobShape, TodoIsOwn
    <2>3. CASE \E t \in Conns : Registry!CloseTab(j, t)
      <3> PICK t \in Conns : Registry!CloseTab(j, t)
          BY <2>3
      <3>1. jobs'[j] = [pc |-> "snapshot", kind |-> "tab", id |-> None, tab |-> t,
                        todo |-> {}]
            BY DEF Registry!CloseTab, Registry!Begin, Registry!TypeOK
      <3> QED BY <3>1, <1>0 DEF JobShape, TodoIsOwn
    <2>4. CASE Registry!Snapshot(j)
      <3>1. /\ jobs'[j].kind = jobs[j].kind /\ jobs'[j].id = jobs[j].id
            /\ jobs'[j].tab = jobs[j].tab /\ jobs'[j].pc = "stopping"
            /\ jobs'[j].todo = Registry!ToStop(j) /\ jobs[j].kind \in {"remove", "tab"}
            BY <2>4 DEF Registry!Snapshot, Registry!TypeOK, Registry!Job, JobShape
      <3>2. JobShape'
            BY <3>1, <1>0 DEF JobShape
      <3>3. \A a \in Registry!ToStop(j) : /\ att[a].pc = "over"
                                          /\ \/ jobs[j].id = att[a].id
                                             \/ jobs[j].kind = "tab" /\ att[a].tab = jobs[j].tab
            BY <3>1 DEF Registry!ToStop, Registry!is_running, Registry!LentBy, RuntimeRegistered
      <3>4. TodoIsOwn'
            BY <3>1, <3>3, <1>0 DEF TodoIsOwn
      <3> QED BY <3>2, <3>4
    <2>5. CASE \/ \E a \in Starts : Registry!StopManager(j, a)
               \/ Registry!FinishStop(j) \/ Registry!FinishTab(j)
               \/ Registry!FinishRemove(j) \/ Registry!RemoveRow(j)
      <3>1. /\ jobs'[j].kind = jobs[j].kind /\ jobs'[j].id = jobs[j].id
            /\ jobs'[j].tab = jobs[j].tab /\ jobs'[j].pc # "snapshot"
            /\ jobs'[j].todo \subseteq jobs[j].todo
            BY <2>5 DEF Registry!StopManager, Registry!FinishStop, Registry!FinishTab,
               Registry!FinishRemove, Registry!RemoveRow, Registry!TypeOK, Registry!Job
      <3>2. JobShape'
            BY <3>1, <1>0 DEF JobShape
      <3>3. TodoIsOwn'
            BY <3>1, <1>0 DEF TodoIsOwn
      <3> QED BY <3>2, <3>3
    <2> QED BY <2>1, <2>2, <2>3, <2>4, <2>5 DEF JobStep
  <1> QED BY <1>1, <1>2, <1>3

\* The step that empties a manager is one of a job that will clear its runtime,
\* and a job that ends has cleared every runtime it was to clear.
LEMMA JobKeepsRunning ==
    ASSUME IInv, NEW j \in Stops, JobStep(j)
    PROVE  Registry!RunningIsLive'
  <1> USE DEF Registry!RegistryAssumption, IInv
  <1>1. att' = att /\ \A k \in Stops \ {j} : jobs'[k] = jobs[k]
    <2>1. att' = att
          BY DEF JobStep, Registry!StopTunnel, Registry!RemoveTunnel, Registry!CloseTab,
             Registry!StopManager, Registry!Snapshot,
                 Registry!FinishStop, Registry!FinishTab, Registry!FinishRemove,
                 Registry!RemoveRow
    <2>2. \A k \in Stops \ {j} : jobs'[k] = jobs[k]
          BY DEF Registry!TypeOK, JobStep, Registry!StopTunnel, Registry!RemoveTunnel,
             Registry!CloseTab, Registry!Begin, Registry!StopManager,
                 Registry!Snapshot, Registry!FinishStop, Registry!FinishTab,
                 Registry!FinishRemove, Registry!RemoveRow
    <2> QED BY <2>1, <2>2
  <1>2. \A i \in Ids : runtime'[i] # None => runtime'[i] = runtime[i]
        BY DEF Registry!TypeOK, Registry!saved, JobStep, Registry!StopTunnel,
           Registry!RemoveTunnel, Registry!CloseTab, Registry!StopManager,
               Registry!Snapshot, Registry!FinishStop, Registry!FinishTab, Registry!FinishRemove,
               Registry!RemoveRow
  <1> SUFFICES ASSUME NEW i \in Ids, NEW r \in Starts, runtime[i] = r, runtime'[i] = r
               PROVE  r \in live' \/ \E k \in Stops : Registry!Clearing(k, i, r)'
        BY <1>2 DEF Registry!TypeOK, Registry!RunningIsLive, Registry!Clearing
  <1>3. r # None
        OBVIOUS
  <1>4. CASE r \in live
    <2>1. CASE Registry!StopManager(j, r)
      <3>1. /\ jobs'[j].pc = "stopping" /\ r \notin jobs'[j].todo
            /\ jobs'[j].id = jobs[j].id /\ jobs'[j].kind = jobs[j].kind
            /\ jobs'[j].tab = jobs[j].tab /\ r \in jobs[j].todo
            BY <2>1 DEF Registry!StopManager, Registry!TypeOK, Registry!Job
      <3>2. att[r].id = i
            BY <1>3 DEF RuntimeRegistered
      <3> QED BY <3>1, <3>2, <1>1 DEF TodoIsOwn, Registry!Clearing
    <2>2. CASE ~Registry!StopManager(j, r)
      <3>1. r \in live'
            BY <2>2, <1>4 DEF JobStep, Registry!StopTunnel, Registry!RemoveTunnel,
               Registry!CloseTab, Registry!StopManager,
               Registry!Snapshot, Registry!FinishStop, Registry!FinishTab, Registry!FinishRemove,
               Registry!RemoveRow
      <3> QED BY <3>1
    <2> QED BY <2>1, <2>2
  <1>5. CASE \E k \in Stops : Registry!Clearing(k, i, r)
    <2> PICK k \in Stops : Registry!Clearing(k, i, r)
        BY <1>5
    <2>1. CASE k # j
          BY <2>1, <1>1 DEF Registry!Clearing
    <2>2. CASE k = j
      <3>1. jobs[j].pc = "stopping" /\ r \notin jobs[j].todo
            BY <2>2 DEF Registry!Clearing
      <3>2. CASE \E a \in Starts : Registry!StopManager(j, a)
        <4>1. /\ jobs'[j].pc = "stopping" /\ r \notin jobs'[j].todo
              /\ jobs'[j].id = jobs[j].id /\ jobs'[j].kind = jobs[j].kind
              /\ jobs'[j].tab = jobs[j].tab
              BY <3>1, <3>2 DEF Registry!StopManager, Registry!TypeOK, Registry!Job
        <4> QED BY <4>1, <2>2, <1>1 DEF Registry!Clearing
      <3>3. CASE Registry!FinishStop(j) \/ Registry!FinishRemove(j)
        <4>1. jobs[j].id = i
              BY <2>2, <3>3 DEF Registry!Clearing, Registry!FinishStop, Registry!FinishRemove,
                 Registry!Stopped
        <4> QED BY <4>1, <3>3, <1>3 DEF Registry!FinishStop, Registry!FinishRemove,
                   Registry!TypeOK
      <3>4. CASE Registry!FinishTab(j)
        <4>1. jobs[j].id # i
              BY <3>4 DEF Registry!FinishTab, Registry!Stopped, JobShape
        <4>2. Registry!LentBy(jobs[j].tab, i)
              BY <4>1, <2>2, <1>3 DEF Registry!Clearing, Registry!LentBy
        <4> QED BY <4>2, <3>4, <1>3 DEF Registry!FinishTab
      <3>5. ~Registry!Snapshot(j) /\ ~Registry!RemoveRow(j)
            BY <3>1 DEF Registry!Snapshot, Registry!RemoveRow
      <3>6. /\ \A k1 \in Ids : ~Registry!StopTunnel(j, k1) /\ ~Registry!RemoveTunnel(j, k1)
            /\ \A t \in Conns : ~Registry!CloseTab(j, t)
            BY <3>1 DEF Registry!StopTunnel, Registry!RemoveTunnel, Registry!CloseTab,
               Registry!Begin
      <3> QED BY <3>2, <3>3, <3>4, <3>5, <3>6 DEF JobStep
    <2> QED BY <2>1, <2>2
  <1> QED BY <1>3, <1>4, <1>5 DEF Registry!RunningIsLive

-----------------------------------------------------------------------------
(* The theorems *)

LEMMA NextKeepsInv == IInv /\ [Registry!Next]_registryVars => IInv'
  <1> SUFFICES ASSUME IInv, [Registry!Next]_registryVars PROVE IInv'
      OBVIOUS
  <1>1. CASE \/ \E i \in Ids, p \in Ports : Registry!Create(i, p)
             \/ \E i \in Ids : Registry!OpenEdit(i) \/ Registry!RemoveHost(i)
             \/ \E p \in Ports : Registry!SaveEdit(p)
             \/ Registry!CloseForm
        BY <1>1, SavedKeepsInv
  <1>2. CASE \E a \in Starts : AttemptStep(a)
        BY <1>2, StartKeepsInv
  <1>3. ASSUME NEW j \in Stops, JobStep(j) PROVE IInv'
        BY <1>3, JobKeepsType, JobKeepsShape, JobKeepsRunning DEF IInv
  <1>4. CASE UNCHANGED registryVars
        BY <1>4 DEF registryVars, IInv, Registry!TypeOK, RuntimeRegistered, StartedIsLive,
           JobShape,
           TodoIsOwn, Registry!RunningIsLive, Registry!Clearing
  <1> QED BY <1>1, <1>2, <1>3, <1>4 DEF Registry!Next, AttemptStep, JobStep

\* What MCTunnels does to the registry is a step of the registry, or nothing.
LEMMA InitStarts == MCInit => Registry!Init
  <1> QED BY DEF MCInit

LEMMA StepsAreSteps == [MCNext]_allVars => [Registry!Next]_registryVars
  <1> QED BY DEF MCNext, allVars, registryVars

LEMMA InvHolds ==
    ASSUME Registry!RegistryAssumption
    PROVE  MCSpec => []IInv
  <1>1. MCInit => IInv
        BY InitInv, InitStarts
  <1>2. IInv /\ [MCNext]_allVars => IInv'
        BY NextKeepsInv, StepsAreSteps
  <1> QED BY <1>1, <1>2, PTL DEF MCSpec

\* Whatever is started, stopped, removed, edited and closed, in any order, the
\* registry keeps its type: no runtime without its config among it.
THEOREM TypeCorrect ==
    ASSUME Registry!RegistryAssumption
    PROVE  MCSpec => []Registry!TypeOK
  <1>1. IInv => Registry!TypeOK
        BY DEF IInv
  <1> QED BY <1>1, InvHolds, PTL

\* For any number of tunnels, starts and jobs: what the Tunnels page shows
\* running is live, or about to be shown stopped.
THEOREM ShownRunningIsLive ==
    ASSUME Registry!RegistryAssumption
    PROVE  MCSpec => []RunningIsLive
  <1>1. IInv => RunningIsLive
        BY DEF IInv, RunningIsLive
  <1> QED BY <1>1, InvHolds, PTL

\* Closing a tab never takes an owned tunnel down, whatever else goes on.
THEOREM TabsSpareOwned ==
    ASSUME Registry!RegistryAssumption
    PROVE  MCSpec => OwnedSurvivesTabs
  <1>1. ASSUME IInv, [Registry!Next]_registryVars, NEW a \in live \ live', att[a].tab = None
        PROVE  \E j \in Stops : a \in jobs[j].todo /\ jobs[j].id = att[a].id
    <2>1. PICK j \in Stops : Registry!StopManager(j, a)
          BY <1>1 DEF IInv, Registry!TypeOK, registryVars, Registry!saved, Registry!Next,
             Registry!Create, Registry!OpenEdit, Registry!RemoveHost, Registry!SaveEdit,
             Registry!CloseForm, Registry!StartOwned, Registry!StartBorrowed, Registry!Connect,
             Registry!StartSucceeds, Registry!StartFails,
             Registry!Register, Registry!ReportFailure, Registry!StopTunnel,
             Registry!RemoveTunnel, Registry!CloseTab, Registry!StopManager,
             Registry!Snapshot, Registry!FinishStop, Registry!FinishTab, Registry!FinishRemove,
             Registry!RemoveRow
    <2>2. a \in jobs[j].todo
          BY <2>1 DEF Registry!StopManager
    <2>3. ~(jobs[j].kind = "tab" /\ att[a].tab = jobs[j].tab)
          BY <1>1 DEF Registry!RegistryAssumption, IInv, JobShape
    <2> QED BY <2>2, <2>3, <1>1 DEF IInv, TodoIsOwn
  <1>2. IInv /\ [Registry!Next]_registryVars =>
          [\A a \in live \ live' : att[a].tab = None =>
              \E j \in Stops : a \in jobs[j].todo /\ jobs[j].id = att[a].id]_registryVars
        BY <1>1
  <1> QED BY <1>2, StepsAreSteps, InvHolds, PTL
          DEF MCSpec, OwnedSurvivesTabs, Registry!OwnedSurvivesTabs, Registry!vars, registryVars

-----------------------------------------------------------------------------
(* Registry and store *)

\* An id the store has not handed out yet is nowhere.
FreshIsNowhere == \A i \in Ids \ used : store[i] = None /\ configs[i] = None

\* A removal that has yet to reach the store has left the registry, for good:
\* ids are never handed out twice.
RowIsLast ==
    \A j \in Stops :
        /\ jobs[j].kind = "remove" => jobs[j].id \in used
        /\ jobs[j].pc = "row" => jobs[j].kind = "remove" /\ configs[jobs[j].id] = None

StoreInv == IInv /\ FreshIsNowhere /\ RowIsLast /\ Registry!ConfigsMatchStore

LEMMA StoreInit == Registry!RegistryAssumption /\ Registry!Init => StoreInv
  <1> SUFFICES ASSUME Registry!RegistryAssumption, Registry!Init PROVE StoreInv
      OBVIOUS
  <1>1. FreshIsNowhere /\ RowIsLast /\ Registry!ConfigsMatchStore
        BY DEF Registry!RegistryAssumption, Registry!Init, FreshIsNowhere, RowIsLast,
           Registry!ConfigsMatchStore
  <1> QED BY <1>1, InitInv DEF StoreInv

LEMMA SavedKeepsStore ==
    ASSUME StoreInv, HostRemovals = FALSE,
           \/ \E i \in Ids, p \in Ports : Registry!Create(i, p)
           \/ \E i \in Ids : Registry!OpenEdit(i) \/ Registry!RemoveHost(i)
           \/ \E p \in Ports : Registry!SaveEdit(p)
           \/ Registry!CloseForm
    PROVE  (FreshIsNowhere /\ RowIsLast /\ Registry!ConfigsMatchStore)'
  <1> USE DEF Registry!RegistryAssumption, StoreInv, IInv, Registry!TypeOK
  <1>1. ASSUME NEW i \in Ids, NEW p \in Ports, Registry!Create(i, p)
        PROVE  (FreshIsNowhere /\ RowIsLast /\ Registry!ConfigsMatchStore)'
    <2>1. FreshIsNowhere'
          BY <1>1 DEF Registry!Create, FreshIsNowhere
    <2>2. RowIsLast'
          BY <1>1 DEF Registry!Create, RowIsLast
    <2>3. Registry!ConfigsMatchStore'
          BY <1>1 DEF Registry!Create, Registry!ConfigsMatchStore
    <2> QED BY <2>1, <2>2, <2>3
  <1>2. ASSUME NEW p \in Ports, Registry!SaveEdit(p)
        PROVE  (FreshIsNowhere /\ RowIsLast /\ Registry!ConfigsMatchStore)'
    <2>1. form \in used \/ (store[form] = None /\ configs[form] = None)
          BY <1>2 DEF Registry!SaveEdit, FreshIsNowhere
    <2>2. FreshIsNowhere'
          BY <1>2, <2>1 DEF Registry!SaveEdit, FreshIsNowhere
    <2>3. RowIsLast'
          BY <1>2, <2>1 DEF Registry!SaveEdit, RowIsLast
    <2>4. Registry!ConfigsMatchStore'
          BY <1>2, <2>1 DEF Registry!SaveEdit, Registry!ConfigsMatchStore
    <2> QED BY <2>2, <2>3, <2>4
  <1>3. CASE (\E i \in Ids : Registry!OpenEdit(i)) \/ Registry!CloseForm
        BY <1>3 DEF Registry!OpenEdit, Registry!CloseForm, FreshIsNowhere, RowIsLast,
           Registry!ConfigsMatchStore
  <1> QED BY <1>1, <1>2, <1>3 DEF Registry!RemoveHost

\* Until its last two steps a job is away from the saved configs.
LEMMA JobAwayFromStore ==
    ASSUME IInv, RowIsLast, NEW j \in Stops,
           \/ \E i \in Ids : Registry!StopTunnel(j, i) \/ Registry!RemoveTunnel(j, i)
           \/ \E t \in Conns : Registry!CloseTab(j, t)
           \/ \E a \in Starts : Registry!StopManager(j, a)
           \/ Registry!Snapshot(j) \/ Registry!FinishStop(j) \/ Registry!FinishTab(j)
    PROVE  /\ jobs'[j].pc # "row" /\ jobs[j].pc # "row"
           /\ jobs'[j].kind = "remove" => jobs'[j].id \in used
  <1> USE DEF Registry!RegistryAssumption, IInv, Registry!TypeOK
  <1>1. CASE \E i \in Ids : Registry!StopTunnel(j, i) \/ Registry!RemoveTunnel(j, i)
        BY <1>1 DEF Registry!StopTunnel, Registry!RemoveTunnel, Registry!Begin
  <1>2. CASE \E t \in Conns : Registry!CloseTab(j, t)
        BY <1>2 DEF Registry!CloseTab, Registry!Begin
  <1>3. CASE (\E a \in Starts : Registry!StopManager(j, a)) \/ Registry!Snapshot(j)
        BY <1>3 DEF Registry!StopManager, Registry!Snapshot, RowIsLast, Registry!Job
  <1>4. CASE Registry!FinishStop(j) \/ Registry!FinishTab(j)
        BY <1>4 DEF Registry!FinishStop, Registry!FinishTab, Registry!Stopped, RowIsLast,
           Registry!Job
  <1> QED BY <1>1, <1>2, <1>3, <1>4

\* A job's own row leaves the registry before the store, and nothing else does.
LEMMA JobKeepsRows ==
    ASSUME IInv, FreshIsNowhere, RowIsLast, NEW j \in Stops, JobStep(j)
    PROVE  (FreshIsNowhere /\ RowIsLast)'
  <1> USE DEF Registry!RegistryAssumption, IInv, Registry!TypeOK
  <1>1. CASE Registry!FinishRemove(j)
    <2>1. jobs[j].kind = "remove" /\ jobs[j].id \in used
          BY <1>1 DEF Registry!FinishRemove, Registry!Stopped, RowIsLast
    <2>2. FreshIsNowhere'
          BY <1>1 DEF Registry!FinishRemove, FreshIsNowhere
    <2>3. RowIsLast'
          BY <1>1, <2>1 DEF Registry!FinishRemove, RowIsLast, Registry!Job
    <2> QED BY <2>2, <2>3
  <1>2. CASE Registry!RemoveRow(j)
    <2>1. FreshIsNowhere'
          BY <1>2 DEF Registry!RemoveRow, FreshIsNowhere
    <2>2. RowIsLast'
          BY <1>2 DEF Registry!RemoveRow, RowIsLast, Registry!Job
    <2> QED BY <2>1, <2>2
  <1>3. CASE \/ \E i \in Ids : Registry!StopTunnel(j, i) \/ Registry!RemoveTunnel(j, i)
             \/ \E t \in Conns : Registry!CloseTab(j, t)
             \/ \E a \in Starts : Registry!StopManager(j, a)
             \/ Registry!Snapshot(j) \/ Registry!FinishStop(j) \/ Registry!FinishTab(j)
    <2>1. /\ UNCHANGED <<used, store, configs>>
          /\ \A k \in Stops \ {j} : jobs'[k] = jobs[k]
          BY <1>3 DEF Registry!saved, Registry!StopTunnel, Registry!RemoveTunnel,
             Registry!CloseTab, Registry!Begin, Registry!StopManager,
             Registry!Snapshot, Registry!FinishStop, Registry!FinishTab
    <2>2. jobs'[j].pc # "row" /\ (jobs'[j].kind = "remove" => jobs'[j].id \in used)
          BY <1>3, JobAwayFromStore
    <2>3. FreshIsNowhere'
          BY <2>1 DEF FreshIsNowhere
    <2>4. RowIsLast'
          BY <2>1, <2>2 DEF RowIsLast
    <2> QED BY <2>3, <2>4
  <1> QED BY <1>1, <1>2, <1>3 DEF JobStep

LEMMA JobKeepsStore ==
    ASSUME StoreInv, NEW j \in Stops, JobStep(j)
    PROVE  (FreshIsNowhere /\ RowIsLast /\ Registry!ConfigsMatchStore)'
  <1> USE DEF Registry!RegistryAssumption, StoreInv, IInv, Registry!TypeOK
  <1>1. (FreshIsNowhere /\ RowIsLast)'
        BY JobKeepsRows
  <1>2. CASE Registry!FinishRemove(j)
    <2>1. jobs[j].kind = "remove" /\ jobs[j].id \in used
          BY <1>2 DEF Registry!FinishRemove, Registry!Stopped, RowIsLast
    <2>2. Registry!ConfigsMatchStore'
          BY <1>2, <2>1 DEF Registry!FinishRemove, Registry!ConfigsMatchStore, RowIsLast,
             Registry!Job
    <2> QED BY <1>1, <2>2
  <1>3. CASE Registry!RemoveRow(j)
    <2>1. jobs[j].id \in used /\ configs[jobs[j].id] = None
          BY <1>3 DEF Registry!RemoveRow, RowIsLast
    <2>2. Registry!ConfigsMatchStore'
          BY <1>3, <2>1 DEF Registry!RemoveRow, Registry!ConfigsMatchStore, Registry!Job
    <2> QED BY <1>1, <2>2
  <1>4. CASE \/ \E i \in Ids : Registry!StopTunnel(j, i) \/ Registry!RemoveTunnel(j, i)
             \/ \E t \in Conns : Registry!CloseTab(j, t)
             \/ \E a \in Starts : Registry!StopManager(j, a)
             \/ Registry!Snapshot(j) \/ Registry!FinishStop(j) \/ Registry!FinishTab(j)
    <2>1. /\ UNCHANGED <<used, store, configs>>
          /\ \A k \in Stops \ {j} : jobs'[k] = jobs[k]
          BY <1>4 DEF Registry!saved, Registry!StopTunnel, Registry!RemoveTunnel,
             Registry!CloseTab, Registry!Begin, Registry!StopManager,
             Registry!Snapshot, Registry!FinishStop, Registry!FinishTab
    <2>2. jobs[j].pc # "row"
          BY <1>4, JobAwayFromStore
    <2>3. Registry!ConfigsMatchStore'
          BY <2>1, <2>2 DEF Registry!ConfigsMatchStore
    <2> QED BY <1>1, <2>3
  <1> QED BY <1>2, <1>3, <1>4 DEF JobStep

\* As long as no host is removed, the registry lists what the store holds, but
\* for a removal on its way there.
THEOREM StoreAgrees ==
    ASSUME Registry!RegistryAssumption, HostRemovals = FALSE
    PROVE  MCSpec => []Registry!ConfigsMatchStore
  <1>1. StoreInv /\ [Registry!Next]_registryVars => StoreInv'
    <2> SUFFICES ASSUME StoreInv, [Registry!Next]_registryVars PROVE StoreInv'
        OBVIOUS
    <2>1. IInv'
          BY NextKeepsInv DEF StoreInv
    <2>2. CASE \/ \E i \in Ids, p \in Ports : Registry!Create(i, p)
               \/ \E i \in Ids : Registry!OpenEdit(i) \/ Registry!RemoveHost(i)
               \/ \E p \in Ports : Registry!SaveEdit(p)
               \/ Registry!CloseForm
          BY <2>1, <2>2, SavedKeepsStore DEF StoreInv
    <2>3. CASE \E a \in Starts : AttemptStep(a)
      <3>1. UNCHANGED <<used, store, configs, jobs>>
            BY <2>3 DEF AttemptStep, Registry!saved, Registry!StartOwned, Registry!StartBorrowed,
               Registry!Connect, Registry!StartSucceeds,
               Registry!StartFails, Registry!Register, Registry!ReportFailure
      <3> QED BY <2>1, <3>1 DEF StoreInv, FreshIsNowhere, RowIsLast, Registry!ConfigsMatchStore
    <2>4. ASSUME NEW j \in Stops, JobStep(j) PROVE StoreInv'
          BY <2>1, <2>4, JobKeepsStore DEF StoreInv
    <2>5. CASE UNCHANGED registryVars
          BY <2>1, <2>5 DEF registryVars, StoreInv, FreshIsNowhere, RowIsLast,
             Registry!ConfigsMatchStore
    <2> QED BY <2>2, <2>3, <2>4, <2>5 DEF Registry!Next, AttemptStep, JobStep
  <1>2. StoreInv => Registry!ConfigsMatchStore
        BY DEF StoreInv
  <1>3. MCInit => StoreInv
        BY StoreInit, InitStarts
  <1>4. StoreInv /\ [MCNext]_allVars => StoreInv'
        BY <1>1, StepsAreSteps
  <1> QED BY <1>2, <1>3, <1>4, PTL DEF MCSpec

-----------------------------------------------------------------------------
(***************************************************************************)
(* What the registry keeps for the tunnels whose start nothing overlapped. *)
(* The invariant ties what is true of a start under way to what it has met *)
(* so far: whatever has been changed under it has left its mark in met.    *)
(***************************************************************************)

\* What the store has, the registry has with the same address, unless it is
\* about to leave the store as well.
SavedAgree ==
    \A i \in Ids : store[i] # None =>
        configs[i] = store[i] \/ \E j \in Stops : jobs[j].id = i /\ jobs[j].pc = "row"

\* A start under way has its tunnel to itself: stopped, saved as it was when the
\* start began, not being edited, neither a job's nor another start's, and the
\* tab it borrows from open; or it has met what took that away.
PendingMet ==
    \A a \in Starts : Registry!Pending(a) =>
        /\ att[a].id \in used /\ att[a].port # None
        /\ form = att[a].id => "form" \in met[a]
        /\ configs[att[a].id] \in {att[a].port, None} \/ "form" \in met[a]
        /\ configs[att[a].id] = None => "job" \in met[a]
        /\ runtime[att[a].id] # None =>
              "start" \in met[a] /\ "start" \in met[runtime[att[a].id]]
        /\ att[a].tab \in tabs \cup {None} \/ "job" \in met[a]
        /\ \A b \in Starts : Registry!Pending(b) /\ att[b].id = att[a].id => a = b \/ "start" \in met[a]
        /\ \A j \in Stops : Registry!Running(j) /\ jobs[j].id = att[a].id => "job" \in met[a]

\* A registered tunnel is not being edited, and is what it was started as, or its
\* form was open during its start.
RunningUnedited ==
    \A i \in Ids : runtime[i] # None =>
        \/ "form" \in met[runtime[i]]
        \/ form # i /\ att[runtime[i]].port = configs[i]

\* A live manager is registered, or its start is about to register it, or its
\* start was overlapped.
LiveFound ==
    \A a \in live :
        \/ att[a].pc = "started"
        \/ /\ att[a].pc = "over" /\ att[a].id \in Ids
           /\ runtime[att[a].id] = a \/ ~Registry!Alone(a)

\* The runtimes that job j will clear when it ends.
Clears(j, i) == i = jobs[j].id \/ (jobs[j].kind = "tab" /\ Registry!LentBy(jobs[j].tab, i))

\* A job stops what it is going to clear, but for overlapped starts.
JobHits ==
    \A j \in Stops : jobs[j].pc = "stopping" =>
        \A i \in Ids : runtime[i] \in live /\ Registry!Alone(runtime[i]) /\ Clears(j, i)
            => runtime[i] \in jobs[j].todo

\* A tab being closed is shut to starts, and a closed one lends nothing but to
\* starts it overlapped.
TabsClosed ==
    \A j \in Stops : jobs[j].kind = "tab" =>
        /\ jobs[j].tab \notin tabs
        /\ jobs[j].pc = "done" =>
              \A i \in Ids : Registry!LentBy(jobs[j].tab, i) => ~Registry!Alone(runtime[i])

MetInv ==
    /\ IInv
    /\ FreshIsNowhere /\ RowIsLast /\ SavedAgree
    /\ PendingMet /\ RunningUnedited /\ LiveFound /\ JobHits /\ TabsClosed

LEMMA MetInit == Registry!RegistryAssumption /\ Registry!Init => MetInv
  <1> SUFFICES ASSUME Registry!RegistryAssumption, Registry!Init PROVE MetInv
      OBVIOUS
  <1> USE DEF Registry!RegistryAssumption
  <1>1. FreshIsNowhere /\ RowIsLast /\ SavedAgree
        BY DEF Registry!Init, FreshIsNowhere, RowIsLast, SavedAgree
  <1>2. PendingMet /\ RunningUnedited /\ LiveFound /\ JobHits /\ TabsClosed
        BY DEF Registry!Init, PendingMet, Registry!Pending, RunningUnedited, LiveFound, JobHits,
           TabsClosed
  <1> QED BY <1>1, <1>2, InitInv DEF MetInv

\* With nothing new but the form, a start that was alone still is.
LEMMA AloneKept ==
    ASSUME NEW a, met[a] \subseteq met'[a]
    PROVE  /\ Registry!Alone(a)' => Registry!Alone(a)
           /\ met'[a] \subseteq met[a] \cup {"form"} => (Registry!Alone(a) => Registry!Alone(a)')
  <1> QED BY DEF Registry!Alone

-----------------------------------------------------------------------------
(* The saved configs *)

SavedStep ==
    \/ \E i \in Ids, p \in Ports : Registry!Create(i, p)
    \/ \E i \in Ids : Registry!OpenEdit(i) \/ Registry!RemoveHost(i)
    \/ \E p \in Ports : Registry!SaveEdit(p)
    \/ Registry!CloseForm

\* What a saving step does to the registry: it may add a config no start and no
\* runtime is of, or change the one the form is open for; and the form opens only
\* on a stopped tunnel, in sight of its starts.
LEMMA SavedOnlyEdited ==
    ASSUME MetInv, SavedStep
    PROVE  /\ UNCHANGED <<runtime, att, live, sessions, jobs, tabs>>
           /\ used \subseteq used'
           /\ \A a \in Starts : met[a] \subseteq met'[a] /\ met'[a] \subseteq met[a] \cup {"form"}
           /\ \A i \in used : form # i => configs'[i] = configs[i]
           /\ \A i \in used : configs'[i] = None => configs[i] = None
           /\ \A i \in used : form' = i => \/ form = i
                                           \/ /\ runtime[i] = None
                                              /\ \A a \in Registry!StartsOf(i) : "form" \in met'[a]
           /\ \A i \in Ids \ used : runtime[i] = None
  <1> USE DEF MetInv, Registry!RegistryAssumption, IInv, Registry!TypeOK
  <1>1. UNCHANGED <<runtime, att, live, sessions, jobs, tabs>> /\ used \subseteq used'
        BY DEF SavedStep, Registry!Create, Registry!OpenEdit, Registry!RemoveHost,
           Registry!SaveEdit, Registry!CloseForm
  <1>2. \A i \in used : form # i => configs'[i] = configs[i]
        BY DEF SavedStep, Registry!Create, Registry!OpenEdit, Registry!RemoveHost,
           Registry!SaveEdit, Registry!CloseForm
  <1>3. \A i \in used : configs'[i] = None => configs[i] = None
        BY DEF SavedStep, Registry!Create, Registry!OpenEdit, Registry!RemoveHost,
           Registry!SaveEdit, Registry!CloseForm
  <1>4. \A i \in Ids : form' = i => form = i \/ Registry!OpenEdit(i)
        BY DEF SavedStep, Registry!Create, Registry!OpenEdit, Registry!RemoveHost,
           Registry!SaveEdit, Registry!CloseForm
  <1>5. met' = met \/ \E i \in Ids : Registry!OpenEdit(i)
        BY DEF SavedStep, Registry!Create, Registry!RemoveHost, Registry!SaveEdit,
           Registry!CloseForm
  <1>6. ASSUME NEW i \in Ids, Registry!OpenEdit(i)
        PROVE  /\ runtime[i] = None
               /\ \A a \in Registry!StartsOf(i) : "form" \in met'[a]
               /\ \A a \in Starts : /\ met[a] \subseteq met'[a]
                                    /\ met'[a] \subseteq met[a] \cup {"form"}
    <2>1. runtime[i] = None /\ met' = Registry!Meet(Registry!StartsOf(i), "form")
          /\ Registry!StartsOf(i) \subseteq Starts
          BY <1>6 DEF Registry!OpenEdit, Registry!is_running, Registry!StartsOf
    <2> QED BY <2>1, MeetGrows
  <1>7. \A i \in Ids \ used : runtime[i] = None
        BY DEF FreshIsNowhere
  <1>8. \A a \in Starts : met[a] \subseteq met'[a] /\ met'[a] \subseteq met[a] \cup {"form"}
        BY <1>5, <1>6
  <1>9. \A i \in used : form' = i => \/ form = i
                                     \/ /\ runtime[i] = None
                                        /\ \A a \in Registry!StartsOf(i) : "form" \in met'[a]
        BY <1>4, <1>6
  <1> QED BY <1>1, <1>2, <1>3, <1>7, <1>8, <1>9

LEMMA SavedKeepsSaved ==
    ASSUME MetInv, SavedStep
    PROVE  (FreshIsNowhere /\ RowIsLast /\ SavedAgree)'
  <1> USE DEF MetInv, Registry!RegistryAssumption, IInv, Registry!TypeOK
  <1>1. ASSUME NEW i \in Ids, NEW p \in Ports, Registry!Create(i, p)
        PROVE  (FreshIsNowhere /\ RowIsLast /\ SavedAgree)'
    <2>1. FreshIsNowhere'
          BY <1>1 DEF Registry!Create, FreshIsNowhere
    <2>2. RowIsLast'
          BY <1>1 DEF Registry!Create, RowIsLast
    <2>3. SavedAgree'
          BY <1>1 DEF Registry!Create, SavedAgree
    <2> QED BY <2>1, <2>2, <2>3
  <1>2. ASSUME NEW p \in Ports, Registry!SaveEdit(p)
        PROVE  (FreshIsNowhere /\ RowIsLast /\ SavedAgree)'
    <2>1. form \in used \/ (store[form] = None /\ configs[form] = None)
          BY <1>2 DEF Registry!SaveEdit, FreshIsNowhere
    <2>2. FreshIsNowhere'
          BY <1>2, <2>1 DEF Registry!SaveEdit, FreshIsNowhere
    <2>3. RowIsLast'
          BY <1>2, <2>1 DEF Registry!SaveEdit, RowIsLast
    <2>4. SavedAgree'
          BY <1>2, <2>1 DEF Registry!SaveEdit, SavedAgree
    <2> QED BY <2>2, <2>3, <2>4
  <1>3. CASE (\E i \in Ids : Registry!OpenEdit(i) \/ Registry!RemoveHost(i)) \/ Registry!CloseForm
    <2>1. /\ UNCHANGED <<used, configs, jobs>>
          /\ \A k \in Ids : store'[k] = store[k] \/ store'[k] = None
          BY <1>3 DEF Registry!OpenEdit, Registry!RemoveHost, Registry!CloseForm
    <2> QED BY <2>1 DEF FreshIsNowhere, RowIsLast, SavedAgree
  <1> QED BY <1>1, <1>2, <1>3 DEF SavedStep

LEMMA SavedKeepsMet ==
    ASSUME MetInv, SavedStep
    PROVE  MetInv'
  <1> USE DEF MetInv, Registry!RegistryAssumption
  <1>1. IInv'
        BY SavedKeepsInv DEF SavedStep
  <1>2. (FreshIsNowhere /\ RowIsLast /\ SavedAgree)'
        BY SavedKeepsSaved
  <1>3. /\ UNCHANGED <<runtime, att, live, sessions, jobs, tabs>>
        /\ used \subseteq used'
        /\ \A a \in Starts : met[a] \subseteq met'[a] /\ met'[a] \subseteq met[a] \cup {"form"}
        /\ \A i \in used : form # i => configs'[i] = configs[i]
        /\ \A i \in used : configs'[i] = None => configs[i] = None
        /\ \A i \in used : form' = i => \/ form = i
                                        \/ /\ runtime[i] = None
                                           /\ \A a \in Registry!StartsOf(i) : "form" \in met'[a]
        /\ \A i \in Ids \ used : runtime[i] = None
        BY SavedOnlyEdited
  <1>4. \A a \in Starts : Registry!Alone(a)' <=> Registry!Alone(a)
        BY <1>3, AloneKept
  <1>5. \A i \in Ids : runtime[i] # None => runtime[i] \in Starts /\ i \in used
        BY <1>3 DEF IInv, Registry!TypeOK
  <1>6. LiveFound'
        BY <1>3, <1>4 DEF LiveFound, IInv, Registry!TypeOK
  <1>7. JobHits' /\ TabsClosed'
    <2>1. \A t : \A i \in Ids : Registry!LentBy(t, i)' <=> Registry!LentBy(t, i)
          BY <1>3 DEF Registry!LentBy
    <2>2. \A j \in Stops, i \in Ids : Clears(j, i)' <=> Clears(j, i)
          BY <1>3, <2>1 DEF Clears
    <2>3. JobHits'
          BY <1>3, <1>4, <2>2 DEF JobHits, IInv, Registry!TypeOK
    <2>4. \A i \in Ids : \A t : Registry!LentBy(t, i) => runtime[i] \in Starts
          BY <1>5 DEF Registry!LentBy
    <2>5. TabsClosed'
          BY <1>3, <1>4, <2>1, <2>4 DEF TabsClosed
    <2> QED BY <2>3, <2>5
  <1>8. RunningUnedited'
    <2> SUFFICES ASSUME NEW i \in Ids, runtime[i] # None
                 PROVE  \/ "form" \in met'[runtime[i]]
                        \/ form' # i /\ att[runtime[i]].port = configs'[i]
        BY <1>3 DEF RunningUnedited
    <2>1. CASE "form" \in met[runtime[i]]
          BY <2>1, <1>3, <1>5
    <2>2. CASE form # i /\ att[runtime[i]].port = configs[i]
          BY <2>2, <1>3, <1>5
    <2> QED BY <2>1, <2>2 DEF RunningUnedited
  <1>9. PendingMet'
    <2> SUFFICES ASSUME NEW a \in Starts, Registry!Pending(a)
                 PROVE  /\ att[a].id \in used' /\ att[a].port # None
                        /\ form' = att[a].id => "form" \in met'[a]
                        /\ configs'[att[a].id] \in {att[a].port, None} \/ "form" \in met'[a]
                        /\ configs'[att[a].id] = None => "job" \in met'[a]
                        /\ runtime[att[a].id] # None =>
                              "start" \in met'[a] /\ "start" \in met'[runtime[att[a].id]]
                        /\ att[a].tab \in tabs \cup {None} \/ "job" \in met'[a]
                        /\ \A b \in Starts : Registry!Pending(b) /\ att[b].id = att[a].id
                              => a = b \/ "start" \in met'[a]
                        /\ \A j \in Stops : Registry!Running(j) /\ jobs[j].id = att[a].id
                              => "job" \in met'[a]
        BY <1>3 DEF PendingMet, Registry!Pending, Registry!Running
    <2>1. att[a].id \in used /\ att[a].id \in Ids /\ met[a] \subseteq met'[a]
          /\ a \in Registry!StartsOf(att[a].id)
          BY <1>3 DEF PendingMet, IInv, Registry!TypeOK, Registry!StartsOf
    <2>2. form' = att[a].id => "form" \in met'[a]
          BY <1>3, <2>1 DEF PendingMet
    <2>3. configs'[att[a].id] \in {att[a].port, None} \/ "form" \in met'[a]
          BY <1>3, <2>1 DEF PendingMet
    <2>4. configs'[att[a].id] = None => "job" \in met'[a]
          BY <1>3, <2>1 DEF PendingMet
    <2>5. runtime[att[a].id] # None =>
             "start" \in met'[a] /\ "start" \in met'[runtime[att[a].id]]
          BY <1>3, <1>5, <2>1 DEF PendingMet
    <2> QED BY <1>3, <2>1, <2>2, <2>3, <2>4, <2>5 DEF PendingMet
  <1> QED BY <1>1, <1>2, <1>6, <1>7, <1>8, <1>9

-----------------------------------------------------------------------------
(* Starts *)

\* What a start that begins on tunnel i finds, and what it and the others under
\* way on i have met from then on.
LEMMA BeginsMet ==
    ASSUME MetInv, NEW a \in Starts, NEW i \in Ids,
           Registry!StartOwned(a, i) \/ \E t \in Conns : Registry!StartBorrowed(a, i, t)
    PROVE  /\ att[a].pc = "idle" /\ a \notin live /\ \A k \in Ids : runtime[k] # a
           /\ UNCHANGED <<Registry!saved, runtime, live, sessions, jobs, tabs>>
           /\ att'[a].id = i /\ att'[a].port = store[i]
           /\ att'[a].tab \in tabs \cup {None}
           /\ att'[a].pc \in {"connecting", "starting"}
           /\ \A b \in Starts \ {a} : att'[b] = att[b] /\ met[b] \subseteq met'[b]
           /\ \A b \in Registry!StartsOf(i) : b # a /\ "start" \in met'[b] /\ "start" \in met'[a]
           /\ \A j \in Stops : Registry!Running(j) /\ jobs[j].id = i => "job" \in met'[a]
           /\ form = i => "form" \in met'[a]
           /\ i \in used /\ store[i] # None /\ runtime[i] = None
           /\ configs[i] \in {store[i], None}
           /\ configs[i] = None => "job" \in met'[a]
  <1> USE DEF MetInv, Registry!RegistryAssumption, IInv
  <1>1. /\ att[a].pc = "idle" /\ store[i] # None /\ runtime[i] = None
        /\ met' = [Registry!Meet(Registry!StartsOf(i), "start") EXCEPT ![a] = Registry!MetBy(i)]
        /\ UNCHANGED <<Registry!saved, runtime, live, sessions, jobs, tabs>>
        BY DEF Registry!StartOwned, Registry!StartBorrowed, Registry!is_running
  <1>2. /\ att'[a].id = i /\ att'[a].port = store[i]
        /\ att'[a].tab \in tabs \cup {None}
        /\ att'[a].pc \in {"connecting", "starting"}
        /\ \A b \in Starts \ {a} : att'[b] = att[b]
        BY DEF Registry!StartOwned, Registry!StartBorrowed, Registry!TypeOK
  <1>3. a \notin live /\ \A k \in Ids : runtime[k] # a
        BY <1>1 DEF LiveFound, RuntimeRegistered, Registry!TypeOK
  <1>4. met'[a] = Registry!MetBy(i)
        BY <1>1, MeetGrows
  <1>5. \A b \in Starts \ {a} : /\ met[b] \subseteq met'[b]
                                /\ b \in Registry!StartsOf(i) => "start" \in met'[b]
        BY <1>1, MeetGrows
  <1>6. \A b \in Registry!StartsOf(i) : b # a /\ b \in Starts
        BY <1>1 DEF Registry!StartsOf, Registry!Pending
  <1>7. /\ Registry!StartsOf(i) # {} => "start" \in met'[a]
        /\ \A j \in Stops : Registry!Running(j) /\ jobs[j].id = i => "job" \in met'[a]
        /\ form = i => "form" \in met'[a]
        BY <1>4 DEF Registry!MetBy
  <1>8. i \in used
        BY <1>1 DEF FreshIsNowhere
  <1>9. configs[i] = store[i] \/ (configs[i] = None /\ "job" \in met'[a])
    <2>1. ASSUME NEW j \in Stops, jobs[j].id = i, jobs[j].pc = "row"
          PROVE  configs[i] = None /\ "job" \in met'[a]
          BY <2>1, <1>7 DEF RowIsLast, Registry!Running
    <2> QED BY <1>1, <2>1 DEF SavedAgree
  <1> QED BY <1>1, <1>2, <1>3, <1>5, <1>6, <1>7, <1>8, <1>9

LEMMA BeginKeepsMet ==
    ASSUME MetInv, NEW a \in Starts, NEW i \in Ids,
           Registry!StartOwned(a, i) \/ \E t \in Conns : Registry!StartBorrowed(a, i, t)
    PROVE  (PendingMet /\ RunningUnedited /\ LiveFound /\ JobHits /\ TabsClosed)'
  <1> USE DEF MetInv, Registry!RegistryAssumption, IInv
  <1>1. /\ att[a].pc = "idle" /\ a \notin live /\ \A k \in Ids : runtime[k] # a
        /\ UNCHANGED <<used, store, configs, form, runtime, live, sessions, jobs, tabs>>
        /\ att'[a].id = i /\ att'[a].port = store[i]
        /\ att'[a].tab \in tabs \cup {None}
        /\ att'[a].pc \in {"connecting", "starting"}
        /\ \A b \in Starts \ {a} : att'[b] = att[b] /\ met[b] \subseteq met'[b]
        /\ \A b \in Registry!StartsOf(i) : b # a /\ "start" \in met'[b] /\ "start" \in met'[a]
        /\ \A j \in Stops : Registry!Running(j) /\ jobs[j].id = i => "job" \in met'[a]
        /\ form = i => "form" \in met'[a]
        /\ i \in used /\ store[i] # None /\ runtime[i] = None
        /\ configs[i] \in {store[i], None}
        /\ configs[i] = None => "job" \in met'[a]
        BY BeginsMet DEF Registry!saved
  <1>2. \A b \in Starts \ {a} : Registry!Alone(b)' => Registry!Alone(b)
        BY <1>1, AloneKept
  <1>3. \A k \in Ids : runtime[k] # None => runtime[k] \in Starts \ {a}
        BY <1>1 DEF Registry!TypeOK
  <1>4. PendingMet'
    <2> SUFFICES ASSUME NEW b \in Starts, Registry!Pending(b)'
                 PROVE  /\ att'[b].id \in used /\ att'[b].port # None
                        /\ form = att'[b].id => "form" \in met'[b]
                        /\ configs[att'[b].id] \in {att'[b].port, None} \/ "form" \in met'[b]
                        /\ configs[att'[b].id] = None => "job" \in met'[b]
                        /\ runtime[att'[b].id] # None =>
                              "start" \in met'[b] /\ "start" \in met'[runtime[att'[b].id]]
                        /\ att'[b].tab \in tabs \cup {None} \/ "job" \in met'[b]
                        /\ \A c \in Starts : Registry!Pending(c)' /\ att'[c].id = att'[b].id
                              => b = c \/ "start" \in met'[b]
                        /\ \A j \in Stops : Registry!Running(j) /\ jobs[j].id = att'[b].id
                              => "job" \in met'[b]
        BY <1>1 DEF PendingMet, Registry!Running
    <2>1. \A c \in Starts \ {a} : Registry!Pending(c)' => Registry!Pending(c)
          BY <1>1 DEF Registry!Pending
    <2>2. CASE b = a
      <3>1. ASSUME NEW c \in Starts, Registry!Pending(c)', att'[c].id = i, c # a
            PROVE  "start" \in met'[a]
        <4>1. c \in Registry!StartsOf(i)
              BY <3>1, <2>1, <1>1 DEF Registry!StartsOf
        <4> QED BY <4>1, <1>1
      <3> QED BY <1>1, <2>2, <3>1
    <2>3. CASE b # a
      <3>1. Registry!Pending(b) /\ att'[b] = att[b] /\ met[b] \subseteq met'[b]
            BY <2>1, <2>3, <1>1
      <3>2. att[b].id \in Ids
            BY <3>1 DEF PendingMet, Registry!TypeOK
      <3>3. runtime[att[b].id] # None =>
               "start" \in met'[b] /\ "start" \in met'[runtime[att[b].id]]
            BY <3>1, <3>2, <1>1, <1>3 DEF PendingMet
      <3>4. ASSUME NEW c \in Starts, Registry!Pending(c)', att'[c].id = att[b].id, c # b
            PROVE  "start" \in met'[b]
        <4>1. CASE c = a
          <5>1. b \in Registry!StartsOf(i)
                BY <3>1, <3>4, <4>1, <1>1 DEF Registry!StartsOf
          <5> QED BY <5>1, <1>1
        <4>2. CASE c # a
              BY <3>1, <3>4, <4>2, <2>1, <1>1 DEF PendingMet
        <4> QED BY <4>1, <4>2
      <3> QED BY <3>1, <3>3, <3>4 DEF PendingMet
    <2> QED BY <2>2, <2>3
  <1>5. RunningUnedited'
        BY <1>1, <1>3 DEF RunningUnedited
  <1>6. LiveFound'
        BY <1>1, <1>2 DEF LiveFound, Registry!TypeOK
  <1>7. \A t : \A k \in Ids : Registry!LentBy(t, k)' = Registry!LentBy(t, k)
        BY <1>1, <1>3 DEF Registry!LentBy
  <1>8. JobHits'
    <2> SUFFICES ASSUME NEW j \in Stops, jobs[j].pc = "stopping", NEW k \in Ids,
                        runtime[k] \in live, Registry!Alone(runtime[k])', Clears(j, k)'
                 PROVE  runtime[k] \in jobs[j].todo
        BY <1>1 DEF JobHits
    <2>1. runtime[k] \in Starts \ {a}
          BY <1>1 DEF Registry!TypeOK
    <2>2. Registry!Alone(runtime[k]) /\ Clears(j, k)
          BY <1>1, <1>2, <1>7, <2>1 DEF Clears
    <2> QED BY <2>2 DEF JobHits
  <1>9. TabsClosed'
    <2>1. \A k \in Ids : \A t : Registry!LentBy(t, k) => runtime[k] \in Starts \ {a}
          BY <1>3 DEF Registry!LentBy
    <2> QED BY <1>1, <1>2, <1>7, <2>1 DEF TabsClosed
  <1> QED BY <1>4, <1>5, <1>6, <1>8, <1>9

\* A start under way goes on: it stays the one it is, may come to be live, and
\* changes at most its own tunnel's runtime.
LEMMA GoesOn ==
    ASSUME MetInv, NEW a \in Starts,
           Registry!Connect(a) \/ Registry!StartSucceeds(a) \/ Registry!StartFails(a)
           \/ Registry!Register(a) \/ Registry!ReportFailure(a)
    PROVE  /\ UNCHANGED <<Registry!saved, jobs, tabs, met>>
           /\ Registry!Pending(a) /\ att[a].id \in Ids /\ att'[a].pc # "idle"
           /\ \A b \in Starts : /\ att'[b].id = att[b].id /\ att'[b].port = att[b].port
                                /\ att'[b].tab = att[b].tab
                                /\ b # a => att'[b] = att[b]
           /\ live' \ {a} = live \ {a} /\ live \subseteq live'
           /\ a \in live' => \/ att'[a].pc = "started"
                             \/ /\ att'[a].pc = "over"
                                /\ runtime'[att[a].id] = a \/ ~Registry!Alone(a)
           /\ \A k \in Ids : \/ runtime'[k] = runtime[k]
                             \/ k = att[a].id /\ runtime'[k] = None
                             \/ /\ k = att[a].id /\ runtime'[k] = a
                                /\ configs[k] # None /\ att'[a].pc = "over"
  <1> USE DEF MetInv, Registry!RegistryAssumption, IInv
  <1>1. UNCHANGED <<Registry!saved, jobs, tabs, met>> /\ Registry!Pending(a)
        BY DEF Registry!Connect, Registry!StartSucceeds, Registry!StartFails, Registry!Register,
           Registry!ReportFailure, Registry!Pending
  <1>2. att[a].id \in Ids
        BY <1>1 DEF PendingMet, Registry!TypeOK
  <1>3. a \in live => att[a].pc = "started"
        BY <1>1 DEF LiveFound, Registry!Pending
  <1>4. CASE Registry!Connect(a) \/ Registry!StartSucceeds(a) \/ Registry!StartFails(a)
    <2>1. runtime' = runtime
          BY <1>4 DEF Registry!Connect, Registry!StartSucceeds, Registry!StartFails
    <2>2. /\ \A b \in Starts : /\ att'[b].id = att[b].id /\ att'[b].port = att[b].port
                               /\ att'[b].tab = att[b].tab
                               /\ b # a => att'[b] = att[b]
          /\ att'[a].pc \in {"starting", "started", "failed"}
          BY <1>4 DEF Registry!Connect, Registry!StartSucceeds, Registry!StartFails,
             Registry!TypeOK, Registry!Attempt
    <2>3. /\ live' \ {a} = live \ {a} /\ live \subseteq live'
          /\ a \in live' => att'[a].pc = "started"
          BY <1>4, <1>3 DEF Registry!Connect, Registry!StartSucceeds, Registry!StartFails,
             Registry!TypeOK, Registry!Attempt
    <2> QED BY <1>1, <1>2, <2>1, <2>2, <2>3
  <1>5. CASE Registry!Register(a) \/ Registry!ReportFailure(a)
    <2>1. /\ \A b \in Starts : /\ att'[b].id = att[b].id /\ att'[b].port = att[b].port
                               /\ att'[b].tab = att[b].tab
                               /\ b # a => att'[b] = att[b]
          /\ att'[a].pc = "over" /\ live' = live
          BY <1>5 DEF Registry!Register, Registry!ReportFailure, Registry!TypeOK, Registry!Attempt
    <2>2. \A k \in Ids : \/ runtime'[k] = runtime[k]
                         \/ k = att[a].id /\ runtime'[k] = None
                         \/ k = att[a].id /\ runtime'[k] = a /\ configs[k] # None
          BY <1>5, <1>2 DEF Registry!Register, Registry!ReportFailure, Registry!TypeOK
    <2>3. a \in live => runtime'[att[a].id] = a \/ ~Registry!Alone(a)
      <3>1. Registry!ReportFailure(a) => a \notin live
            BY <1>3 DEF Registry!ReportFailure
      <3>2. Registry!Register(a) /\ configs[att[a].id] # None => runtime'[att[a].id] = a
            BY <1>2 DEF Registry!Register, Registry!TypeOK
      <3>3. configs[att[a].id] = None => ~Registry!Alone(a)
            BY <1>1 DEF PendingMet, Registry!Alone
      <3> QED BY <1>5, <3>1, <3>2, <3>3
    <2> QED BY <1>1, <1>2, <2>1, <2>2, <2>3
  <1> QED BY <1>4, <1>5

LEMMA GoingOnKeepsMet ==
    ASSUME MetInv, NEW a \in Starts,
           Registry!Connect(a) \/ Registry!StartSucceeds(a) \/ Registry!StartFails(a)
           \/ Registry!Register(a) \/ Registry!ReportFailure(a)
    PROVE  (PendingMet /\ RunningUnedited /\ LiveFound /\ JobHits /\ TabsClosed)'
  <1> USE DEF MetInv, Registry!RegistryAssumption, IInv
  <1>1. /\ UNCHANGED <<used, store, configs, form, jobs, tabs, met>>
        /\ Registry!Pending(a) /\ att[a].id \in Ids /\ att'[a].pc # "idle"
        /\ \A b \in Starts : /\ att'[b].id = att[b].id /\ att'[b].port = att[b].port
                             /\ att'[b].tab = att[b].tab
                             /\ b # a => att'[b] = att[b]
        /\ live' \ {a} = live \ {a} /\ live \subseteq live'
        /\ a \in live' => \/ att'[a].pc = "started"
                          \/ /\ att'[a].pc = "over"
                             /\ runtime'[att[a].id] = a \/ ~Registry!Alone(a)
        /\ \A k \in Ids : \/ runtime'[k] = runtime[k]
                          \/ k = att[a].id /\ runtime'[k] = None
                          \/ /\ k = att[a].id /\ runtime'[k] = a
                             /\ configs[k] # None /\ att'[a].pc = "over"
        BY GoesOn DEF Registry!saved
  <1>2. \A b \in Starts : Registry!Alone(b)' <=> Registry!Alone(b)
        BY <1>1 DEF Registry!Alone
  <1>3. \A k \in Ids : runtime[k] # a
        BY <1>1 DEF RuntimeRegistered, Registry!Pending, Registry!TypeOK
  <1>4. PendingMet'
    <2> SUFFICES ASSUME NEW b \in Starts, Registry!Pending(b)'
                 PROVE  /\ att[b].id \in used /\ att[b].port # None
                        /\ form = att[b].id => "form" \in met[b]
                        /\ configs[att[b].id] \in {att[b].port, None} \/ "form" \in met[b]
                        /\ configs[att[b].id] = None => "job" \in met[b]
                        /\ runtime'[att[b].id] # None =>
                              "start" \in met[b] /\ "start" \in met[runtime'[att[b].id]]
                        /\ att[b].tab \in tabs \cup {None} \/ "job" \in met[b]
                        /\ \A c \in Starts : Registry!Pending(c)' /\ att[c].id = att[b].id
                              => b = c \/ "start" \in met[b]
                        /\ \A j \in Stops : Registry!Running(j) /\ jobs[j].id = att[b].id
                              => "job" \in met[b]
        BY <1>1 DEF PendingMet, Registry!Running
    <2>1. \A c \in Starts : Registry!Pending(c)' => Registry!Pending(c)
          BY <1>1 DEF Registry!Pending
    <2>2. att[b].id \in Ids
          BY <2>1 DEF PendingMet, Registry!TypeOK
    <2>3. ASSUME runtime'[att[b].id] # None
          PROVE  "start" \in met[b] /\ "start" \in met[runtime'[att[b].id]]
      <3>1. CASE runtime'[att[b].id] = runtime[att[b].id]
            BY <2>1, <2>3, <3>1 DEF PendingMet
      <3>2. CASE att[b].id = att[a].id /\ runtime'[att[b].id] = a /\ att'[a].pc = "over"
        <4>1. b # a
              BY <3>2 DEF Registry!Pending
        <4> QED BY <4>1, <3>2, <2>1, <1>1 DEF PendingMet
      <3> QED BY <2>2, <2>3, <3>1, <3>2, <1>1
    <2> QED BY <2>1, <2>3 DEF PendingMet
  <1>5. RunningUnedited'
    <2> SUFFICES ASSUME NEW k \in Ids, runtime'[k] # None
                 PROVE  \/ "form" \in met[runtime'[k]]
                        \/ form # k /\ att'[runtime'[k]].port = configs[k]
        BY <1>1 DEF RunningUnedited
    <2>1. CASE runtime'[k] = runtime[k]
      <3>1. runtime[k] \in Starts
            BY <2>1 DEF Registry!TypeOK
      <3> QED BY <2>1, <3>1, <1>1 DEF RunningUnedited
    <2>2. CASE k = att[a].id /\ runtime'[k] = a /\ configs[k] # None
          BY <2>2, <1>1 DEF PendingMet
    <2> QED BY <2>1, <2>2, <1>1
  <1>6. LiveFound'
    <2> SUFFICES ASSUME NEW b \in live'
                 PROVE  \/ att'[b].pc = "started"
                        \/ /\ att'[b].pc = "over" /\ att[b].id \in Ids
                           /\ runtime'[att[b].id] = b \/ ~Registry!Alone(b)
        BY <1>1, <1>2 DEF LiveFound, Registry!TypeOK
    <2>1. CASE b = a
          BY <2>1, <1>1
    <2>2. CASE b # a
      <3>1. b \in live /\ b \in Starts /\ att'[b] = att[b]
            BY <2>2, <1>1 DEF Registry!TypeOK
      <3>2. ASSUME att[b].id \in Ids, runtime[att[b].id] = b, runtime'[att[b].id] # b
            PROVE  ~Registry!Alone(b)
        <4>1. att[b].id = att[a].id /\ runtime[att[a].id] = b
              BY <3>2, <1>1
        <4>2. b # None
              BY <3>1
        <4> QED BY <4>1, <4>2, <1>1 DEF PendingMet, Registry!Alone
      <3> QED BY <3>1, <3>2 DEF LiveFound
    <2> QED BY <2>1, <2>2
  <1>7. ASSUME NEW j \in Stops, jobs[j].kind = "tab", NEW k \in Ids, Registry!LentBy(jobs[j].tab, k)'
        PROVE  \/ runtime'[k] = runtime[k] /\ Registry!LentBy(jobs[j].tab, k)
               \/ ~Registry!Alone(runtime'[k])
    <2>1. jobs[j].tab # None /\ jobs[j].tab \notin tabs
          BY <1>7 DEF JobShape, TabsClosed
    <2>2. runtime'[k] # None /\ att'[runtime'[k]].tab = jobs[j].tab
          BY <1>7, <1>1 DEF Registry!LentBy
    <2>3. CASE runtime'[k] = runtime[k]
      <3>1. runtime[k] \in Starts
            BY <2>2, <2>3 DEF Registry!TypeOK
      <3> QED BY <2>2, <2>3, <3>1, <1>1 DEF Registry!LentBy
    <2>4. CASE runtime'[k] = a
      <3>1. att[a].tab = jobs[j].tab
            BY <2>2, <2>4, <1>1
      <3> QED BY <2>1, <2>4, <3>1, <1>1 DEF PendingMet, Registry!Alone
    <2> QED BY <2>2, <2>3, <2>4, <1>1
  <1>8. JobHits'
    <2> SUFFICES ASSUME NEW j \in Stops, jobs[j].pc = "stopping", NEW k \in Ids,
                        runtime'[k] \in live', Registry!Alone(runtime'[k]), Clears(j, k)'
                 PROVE  runtime'[k] \in jobs[j].todo
        BY <1>1 DEF JobHits, Registry!Alone
    <2>1. runtime'[k] # None
      <3>1. live' \subseteq Starts
            BY <1>1 DEF Registry!TypeOK
      <3> QED BY <3>1
    <2>2. k = jobs[j].id \/ (jobs[j].kind = "tab" /\ Registry!LentBy(jobs[j].tab, k)')
          BY <1>1 DEF Clears
    <2>3. CASE k = jobs[j].id /\ runtime'[k] # runtime[k]
      <3>1. runtime'[k] = a /\ k = att[a].id
            BY <2>1, <2>3, <1>1
      <3>2. Registry!Running(j)
            BY DEF Registry!Running
      <3>3. "job" \in met[a]
            BY <2>3, <3>1, <3>2, <1>1 DEF PendingMet
      <3> QED BY <3>1, <3>3 DEF Registry!Alone
    <2>4. CASE runtime'[k] = runtime[k] /\ Clears(j, k)
      <3>1. runtime[k] \in live
            BY <2>4, <1>1, <1>3
      <3> QED BY <2>4, <3>1 DEF JobHits
    <2> QED BY <2>2, <2>3, <2>4, <1>7 DEF Clears
  <1>9. TabsClosed'
    <2> SUFFICES ASSUME NEW j \in Stops, jobs[j].kind = "tab"
                 PROVE  /\ jobs[j].tab \notin tabs
                        /\ jobs[j].pc = "done" => \A k \in Ids : Registry!LentBy(jobs[j].tab, k)'
                                                     => ~Registry!Alone(runtime'[k])
        BY <1>1 DEF TabsClosed, Registry!LentBy, Registry!Alone
    <2> QED BY <1>7 DEF TabsClosed
  <1> QED BY <1>4, <1>5, <1>6, <1>8, <1>9

LEMMA StartKeepsMet ==
    ASSUME MetInv, NEW a \in Starts, AttemptStep(a)
    PROVE  MetInv'
  <1>1. IInv'
        BY StartKeepsInv DEF MetInv
  <1>2. UNCHANGED <<used, store, configs, jobs>>
        BY DEF AttemptStep, Registry!saved, Registry!StartOwned, Registry!StartBorrowed,
           Registry!Connect, Registry!StartSucceeds,
           Registry!StartFails, Registry!Register, Registry!ReportFailure
  <1>3. (FreshIsNowhere /\ RowIsLast /\ SavedAgree)'
        BY <1>2 DEF MetInv, FreshIsNowhere, RowIsLast, SavedAgree
  <1>4. (PendingMet /\ RunningUnedited /\ LiveFound /\ JobHits /\ TabsClosed)'
        BY BeginKeepsMet, GoingOnKeepsMet DEF AttemptStep
  <1> QED BY <1>1, <1>3, <1>4 DEF MetInv

-----------------------------------------------------------------------------
(* Jobs *)

\* What a job's step leaves alone, and that the runtimes it clears are those of
\* managers that are no longer live, or of overlapped starts.
LEMMA JobOnlyClears ==
    ASSUME MetInv, NEW j \in Stops, JobStep(j)
    PROVE  /\ att' = att /\ used' = used /\ form' = form
           /\ live' \subseteq live /\ tabs' \subseteq tabs
           /\ \A k \in Stops \ {j} : jobs'[k] = jobs[k]
           /\ \A a \in Starts : met[a] \subseteq met'[a]
           /\ \A i \in Ids : runtime'[i] # runtime[i] =>
                 runtime'[i] = None /\ (runtime[i] \notin live \/ ~Registry!Alone(runtime[i]))
           /\ \A i \in Ids : configs'[i] # configs[i] =>
                 /\ i = jobs[j].id /\ Registry!Running(j)
                 /\ configs'[i] = None /\ runtime'[i] = None
  <1> USE DEF MetInv, Registry!RegistryAssumption, IInv, Registry!TypeOK
  <1>1. /\ att' = att /\ used' = used /\ form' = form
        /\ live' \subseteq live /\ tabs' \subseteq tabs
        BY DEF JobStep, Registry!saved, Registry!StopTunnel, Registry!RemoveTunnel,
           Registry!CloseTab, Registry!StopManager, Registry!Snapshot,
               Registry!FinishStop, Registry!FinishTab, Registry!FinishRemove, Registry!RemoveRow
  <1>2. \A k \in Stops \ {j} : jobs'[k] = jobs[k]
        BY DEF JobStep, Registry!StopTunnel, Registry!RemoveTunnel, Registry!CloseTab,
           Registry!Begin, Registry!StopManager, Registry!Snapshot,
               Registry!FinishStop, Registry!FinishTab, Registry!FinishRemove, Registry!RemoveRow
  <1>3. \A a \in Starts : met[a] \subseteq met'[a]
    <2>1. met' = met \/ \E S \in SUBSET Starts : met' = Registry!Meet(S, "job")
          BY DEF JobStep, Registry!StopTunnel, Registry!RemoveTunnel, Registry!CloseTab,
             Registry!StopManager, Registry!Snapshot,
             Registry!FinishStop, Registry!FinishTab, Registry!FinishRemove, Registry!RemoveRow,
             Registry!StartsOf, Registry!StartsOn
    <2> QED BY <2>1, MeetGrows
  <1>4. \A i \in Ids : runtime'[i] # runtime[i] =>
           runtime'[i] = None /\ jobs[j].pc = "stopping" /\ jobs[j].todo = {} /\ Clears(j, i)
        BY DEF JobStep, Registry!StopTunnel, Registry!RemoveTunnel, Registry!CloseTab,
           Registry!StopManager, Registry!Snapshot,
               Registry!FinishStop, Registry!FinishTab, Registry!FinishRemove,
               Registry!RemoveRow, Registry!Stopped, Clears
  <1>5. \A i \in Ids : runtime'[i] # runtime[i] =>
           runtime[i] \notin live \/ ~Registry!Alone(runtime[i])
        BY <1>4 DEF JobHits
  <1>6. \A i \in Ids : configs'[i] # configs[i] =>
           /\ i = jobs[j].id /\ Registry!Running(j)
           /\ configs'[i] = None /\ runtime'[i] = None
        BY DEF JobStep, Registry!saved, Registry!StopTunnel, Registry!RemoveTunnel,
           Registry!CloseTab, Registry!StopManager, Registry!Snapshot,
               Registry!FinishStop, Registry!FinishTab, Registry!FinishRemove,
               Registry!RemoveRow, Registry!Stopped, Registry!Running
  <1> QED BY <1>1, <1>2, <1>3, <1>4, <1>5, <1>6

\* A job that begins marks every start under way on its tunnel or its tab; and it
\* goes on with the tunnel or the tab it began on.
LEMMA JobBegins ==
    ASSUME MetInv, NEW j \in Stops, JobStep(j)
    PROVE  \/ /\ Registry!Running(j) /\ jobs'[j].id = jobs[j].id /\ jobs'[j].kind = jobs[j].kind
              /\ jobs'[j].tab = jobs[j].tab /\ tabs' = tabs
           \/ /\ jobs'[j].kind \in {"stop", "remove"} /\ tabs' = tabs
              /\ jobs'[j].pc # "done"
              /\ \A a \in Registry!StartsOf(jobs'[j].id) : "job" \in met'[a]
           \/ /\ jobs'[j].kind = "tab" /\ jobs'[j].id = None /\ tabs' = tabs \ {jobs'[j].tab}
              /\ jobs'[j].pc = "snapshot"
              /\ \A a \in Registry!StartsOn(jobs'[j].tab) : "job" \in met'[a]
  <1> USE DEF MetInv, Registry!RegistryAssumption, IInv, Registry!TypeOK
  <1>1. ASSUME NEW i \in Ids, Registry!StopTunnel(j, i) \/ Registry!RemoveTunnel(j, i)
        PROVE  /\ jobs'[j].kind \in {"stop", "remove"} /\ tabs' = tabs
               /\ jobs'[j].pc # "done"
               /\ \A a \in Registry!StartsOf(jobs'[j].id) : "job" \in met'[a]
    <2>1. /\ jobs'[j].id = i /\ jobs'[j].kind \in {"stop", "remove"}
          /\ jobs'[j].pc # "done" /\ tabs' = tabs
          BY <1>1 DEF Registry!StopTunnel, Registry!RemoveTunnel, Registry!Begin
    <2>2. met' = Registry!Meet(Registry!StartsOf(i), "job") /\ Registry!StartsOf(i) \subseteq Starts
          BY <1>1 DEF Registry!StopTunnel, Registry!RemoveTunnel, Registry!StartsOf
    <2> QED BY <2>1, <2>2, MeetGrows
  <1>2. ASSUME NEW t \in Conns, Registry!CloseTab(j, t)
        PROVE  /\ jobs'[j].kind = "tab" /\ jobs'[j].id = None /\ tabs' = tabs \ {jobs'[j].tab}
               /\ jobs'[j].pc = "snapshot"
               /\ \A a \in Registry!StartsOn(jobs'[j].tab) : "job" \in met'[a]
    <2>1. /\ jobs'[j].kind = "tab" /\ jobs'[j].id = None /\ jobs'[j].tab = t
          /\ jobs'[j].pc = "snapshot" /\ tabs' = tabs \ {t}
          BY <1>2 DEF Registry!CloseTab, Registry!Begin
    <2>2. met' = Registry!Meet(Registry!StartsOn(t), "job") /\ Registry!StartsOn(t) \subseteq Starts
          BY <1>2 DEF Registry!CloseTab, Registry!StartsOn
    <2> QED BY <2>1, <2>2, MeetGrows
  <1>3. CASE (\E a \in Starts : Registry!StopManager(j, a)) \/ Registry!Snapshot(j)
        BY <1>3 DEF Registry!StopManager, Registry!Snapshot, Registry!Running, Registry!Job
  <1>4. CASE Registry!FinishStop(j) \/ Registry!FinishTab(j)
             \/ Registry!FinishRemove(j) \/ Registry!RemoveRow(j)
        BY <1>4 DEF Registry!FinishStop, Registry!FinishTab, Registry!FinishRemove,
           Registry!RemoveRow, Registry!Stopped, Registry!Running, Registry!Job
  <1> QED BY <1>1, <1>2, <1>3, <1>4 DEF JobStep

LEMMA JobKeepsHits ==
    ASSUME MetInv, NEW j \in Stops, JobStep(j)
    PROVE  (JobHits /\ TabsClosed)'
  <1> USE DEF MetInv, Registry!RegistryAssumption, IInv
  <1>1. /\ att' = att /\ live' \subseteq live /\ tabs' \subseteq tabs
        /\ \A k \in Stops \ {j} : jobs'[k] = jobs[k]
        /\ \A a \in Starts : met[a] \subseteq met'[a]
        /\ \A i \in Ids : runtime'[i] # runtime[i] => runtime'[i] = None
        BY JobOnlyClears
  <1>2. \A t : \A i \in Ids : Registry!LentBy(t, i)' => Registry!LentBy(t, i) /\ runtime'[i] = runtime[i]
        BY <1>1 DEF Registry!LentBy
  <1>3. \A i \in Ids : runtime'[i] \in live' => runtime'[i] = runtime[i] /\ runtime[i] \in live
        BY <1>1 DEF Registry!TypeOK
  <1>4. \A a \in Starts : Registry!Alone(a)' => Registry!Alone(a)
        BY <1>1, AloneKept
  <1>5. JobHits'
    <2> SUFFICES ASSUME NEW k \in Stops, jobs'[k].pc = "stopping", NEW i \in Ids,
                        runtime'[i] \in live', Registry!Alone(runtime[i])', Clears(k, i)'
                 PROVE  runtime[i] \in jobs'[k].todo
        BY <1>3 DEF JobHits, Registry!Alone
    <2>1. /\ runtime[i] \in live /\ runtime[i] # None /\ runtime[i] \in Starts
          /\ runtime'[i] = runtime[i]
          BY <1>3 DEF Registry!TypeOK
    <2>2. Registry!Alone(runtime[i])
          BY <2>1, <1>3, <1>4 DEF Registry!Alone
    <2>3. i = jobs'[k].id \/ (jobs'[k].kind = "tab" /\ Registry!LentBy(jobs'[k].tab, i))
          BY <1>2 DEF Clears, Registry!LentBy
    <2>4. CASE k # j
          BY <2>1, <2>2, <2>3, <2>4, <1>1 DEF JobHits, Clears
    <2>5. CASE k = j
      <3>1. CASE \E l \in Ids : Registry!StopTunnel(j, l)
        <4> PICK l \in Ids : Registry!StopTunnel(j, l)
            BY <3>1
        <4>1. jobs'[j] = [pc |-> "stopping", kind |-> "stop", id |-> l, tab |-> None,
                          todo |-> {runtime[l]}]
              BY DEF Registry!StopTunnel, Registry!Begin, Registry!TypeOK
        <4> QED BY <4>1, <2>3, <2>5
      <3>2. CASE Registry!Snapshot(j)
        <4>1. /\ jobs'[j].kind = jobs[j].kind /\ jobs'[j].id = jobs[j].id
              /\ jobs'[j].tab = jobs[j].tab /\ jobs'[j].todo = Registry!ToStop(j)
              /\ jobs[j].kind \in {"remove", "tab"}
              BY <3>2 DEF Registry!Snapshot, Registry!TypeOK, Registry!Job, JobShape
        <4>2. jobs[j].kind = "tab" => jobs[j].id # i
              BY DEF JobShape
        <4> QED BY <4>1, <4>2, <2>1, <2>3, <2>5 DEF Registry!ToStop, Registry!is_running
      <3>3. CASE \E a \in Starts : Registry!StopManager(j, a)
        <4> PICK a \in Starts : Registry!StopManager(j, a)
            BY <3>3
        <4>1. /\ jobs'[j].kind = jobs[j].kind /\ jobs'[j].id = jobs[j].id
              /\ jobs'[j].tab = jobs[j].tab /\ jobs'[j].todo = jobs[j].todo \ {a}
              /\ jobs[j].pc = "stopping" /\ live' = live \ {a}
              BY DEF Registry!StopManager, Registry!TypeOK, Registry!Job
        <4>2. runtime[i] # a
              BY <4>1, <1>3
        <4> QED BY <4>1, <4>2, <2>1, <2>2, <2>3, <2>5 DEF JobHits, Clears
      <3>4. /\ \A l \in Ids : ~Registry!RemoveTunnel(j, l)
            /\ \A t \in Conns : ~Registry!CloseTab(j, t)
            /\ ~Registry!FinishStop(j) /\ ~Registry!FinishTab(j)
            /\ ~Registry!FinishRemove(j) /\ ~Registry!RemoveRow(j)
            BY <2>5 DEF Registry!TypeOK, Registry!Job, Registry!RemoveTunnel, Registry!CloseTab,
               Registry!Begin, Registry!FinishStop, Registry!FinishTab,
               Registry!FinishRemove, Registry!RemoveRow
      <3> QED BY <3>1, <3>2, <3>3, <3>4 DEF JobStep
    <2> QED BY <2>4, <2>5
  <1>6. TabsClosed'
    <2> DEFINE Lent(k, i) == runtime'[i] # None /\ att[runtime'[i]].tab = jobs'[k].tab
    <2>1. \A k \in Stops, i \in Ids : Lent(k, i) =>
             /\ Registry!LentBy(jobs'[k].tab, i)
             /\ runtime'[i] = runtime[i] /\ runtime[i] \in Starts
          BY <1>1 DEF Registry!LentBy, Registry!TypeOK
    <2>2. SUFFICES ASSUME NEW k \in Stops, jobs'[k].kind = "tab"
                   PROVE  /\ jobs'[k].tab \notin tabs'
                          /\ jobs'[k].pc = "done" =>
                                \A i \in Ids : Lent(k, i) => ~Registry!Alone(runtime[i])
      <3>1. ASSUME NEW k \in Stops, NEW i \in Ids, Lent(k, i), ~Registry!Alone(runtime[i])
            PROVE  met'[runtime'[i]] \cap {"start", "job"} # {}
        <4>1. met[runtime[i]] \subseteq met'[runtime[i]] /\ runtime'[i] = runtime[i]
              BY <3>1, <2>1, <1>1
        <4> QED BY <3>1, <4>1 DEF Registry!Alone
      <3>2. \A k \in Stops, i \in Ids :
               (runtime'[i] # None /\ att'[runtime'[i]].tab = jobs'[k].tab) => Lent(k, i)
            BY <1>1
      <3> QED BY <3>1, <3>2 DEF TabsClosed, Registry!LentBy, Registry!Alone
    <2>3. CASE k # j
      <3>1. jobs'[k] = jobs[k] /\ jobs[k].tab \notin tabs
            BY <2>2, <2>3, <1>1 DEF TabsClosed
      <3>2. ASSUME jobs'[k].pc = "done", NEW i \in Ids, Lent(k, i)
            PROVE  ~Registry!Alone(runtime[i])
        <4>1. Registry!LentBy(jobs[k].tab, i)
              BY <3>1, <3>2, <2>1
        <4> QED BY <2>2, <3>1, <3>2, <4>1 DEF TabsClosed
      <3> QED BY <3>1, <3>2, <1>1
    <2>4. CASE k = j
      <3>1. jobs'[j].tab \notin tabs'
            BY <2>2, <2>4, JobBegins DEF TabsClosed
      <3>2. ASSUME jobs'[j].pc = "done", NEW i \in Ids, Lent(j, i)
            PROVE  FALSE
        <4>1. Registry!FinishStop(j) \/ Registry!FinishTab(j) \/ Registry!RemoveRow(j)
              BY <3>2 DEF JobStep, Registry!TypeOK, Registry!Job, Registry!StopTunnel,
                 Registry!RemoveTunnel, Registry!CloseTab, Registry!Begin,
                 Registry!StopManager, Registry!Snapshot, Registry!FinishRemove
        <4>2. jobs'[j].kind = jobs[j].kind /\ jobs'[j].tab = jobs[j].tab
              BY <4>1 DEF Registry!FinishStop, Registry!FinishTab, Registry!RemoveRow,
                 Registry!TypeOK, Registry!Job
        <4>3. Registry!FinishTab(j)
              BY <2>2, <2>4, <4>1, <4>2 DEF Registry!FinishStop, Registry!RemoveRow,
                 Registry!Stopped, RowIsLast
        <4>4. Registry!LentBy(jobs[j].tab, i) => runtime'[i] = None
              BY <4>3 DEF Registry!FinishTab
        <4> QED BY <3>2, <4>2, <4>4, <2>1
      <3> QED BY <2>4, <3>1, <3>2
    <2> QED BY <2>3, <2>4
  <1> QED BY <1>5, <1>6

LEMMA JobKeepsSaved ==
    ASSUME MetInv, NEW j \in Stops, JobStep(j)
    PROVE  SavedAgree'
  <1> USE DEF MetInv, Registry!RegistryAssumption
  <1>1. /\ \A k \in Stops \ {j} : jobs'[k] = jobs[k]
        /\ \A i \in Ids : configs'[i] # configs[i] => i = jobs[j].id
        BY JobOnlyClears
  <1>2. CASE Registry!FinishRemove(j)
    <2>1. store' = store /\ jobs'[j].id = jobs[j].id /\ jobs'[j].pc = "row"
          BY <1>2 DEF Registry!FinishRemove, IInv, Registry!TypeOK, Registry!Job
    <2>2. \A i \in Ids : i # jobs[j].id => configs'[i] = configs[i]
          BY <1>1
    <2>3. jobs[j].pc # "row"
          BY <1>2 DEF Registry!FinishRemove, Registry!Stopped
    <2> QED BY <2>1, <2>2, <2>3, <1>1 DEF SavedAgree
  <1>3. CASE Registry!RemoveRow(j)
    <2>1. /\ \A i \in Ids : store'[i] # None => i # jobs[j].id /\ store'[i] = store[i]
          /\ configs' = configs
          BY <1>3 DEF Registry!RemoveRow, IInv, Registry!TypeOK
    <2> QED BY <2>1, <1>1 DEF SavedAgree
  <1>4. CASE \/ \E i \in Ids : Registry!StopTunnel(j, i) \/ Registry!RemoveTunnel(j, i)
             \/ \E t \in Conns : Registry!CloseTab(j, t)
             \/ \E a \in Starts : Registry!StopManager(j, a)
             \/ Registry!Snapshot(j) \/ Registry!FinishStop(j) \/ Registry!FinishTab(j)
    <2>1. store' = store /\ configs' = configs
          BY <1>4 DEF Registry!saved, Registry!StopTunnel, Registry!RemoveTunnel,
             Registry!CloseTab, Registry!StopManager, Registry!Snapshot,
             Registry!FinishStop, Registry!FinishTab
    <2>2. jobs[j].pc # "row"
          BY <1>4, JobAwayFromStore
    <2> QED BY <2>1, <2>2, <1>1 DEF SavedAgree
  <1> QED BY <1>2, <1>3, <1>4 DEF JobStep

LEMMA JobKeepsMet ==
    ASSUME MetInv, NEW j \in Stops, JobStep(j)
    PROVE  MetInv'
  <1> USE DEF MetInv, Registry!RegistryAssumption
  <1>1. IInv'
        BY JobKeepsType, JobKeepsShape, JobKeepsRunning DEF IInv
  <1>2. (FreshIsNowhere /\ RowIsLast /\ SavedAgree /\ JobHits /\ TabsClosed)'
        BY JobKeepsRows, JobKeepsSaved, JobKeepsHits
  <1>3. /\ att' = att /\ used' = used /\ form' = form
        /\ live' \subseteq live /\ tabs' \subseteq tabs
        /\ \A k \in Stops \ {j} : jobs'[k] = jobs[k]
        /\ \A a \in Starts : met[a] \subseteq met'[a]
        /\ \A i \in Ids : runtime'[i] # runtime[i] =>
              runtime'[i] = None /\ (runtime[i] \notin live \/ ~Registry!Alone(runtime[i]))
        /\ \A i \in Ids : configs'[i] # configs[i] =>
              /\ i = jobs[j].id /\ Registry!Running(j)
              /\ configs'[i] = None /\ runtime'[i] = None
        BY JobOnlyClears
  <1>4. \A i \in Ids : runtime'[i] # None => runtime'[i] = runtime[i] /\ runtime[i] \in Starts
        BY <1>3 DEF IInv, Registry!TypeOK
  <1>5. RunningUnedited'
    <2> SUFFICES ASSUME NEW i \in Ids, runtime'[i] # None
                 PROVE  \/ "form" \in met'[runtime[i]]
                        \/ form # i /\ att[runtime[i]].port = configs'[i]
        BY <1>3, <1>4 DEF RunningUnedited
    <2>1. configs'[i] = configs[i] /\ met[runtime[i]] \subseteq met'[runtime[i]]
          BY <1>3, <1>4
    <2> QED BY <2>1, <1>4 DEF RunningUnedited
  <1>6. LiveFound'
    <2> SUFFICES ASSUME NEW a \in live'
                 PROVE  \/ att[a].pc = "started"
                        \/ /\ att[a].pc = "over" /\ att[a].id \in Ids
                           /\ runtime'[att[a].id] = a \/ ~Registry!Alone(a)'
        BY <1>3 DEF LiveFound
    <2>1. a \in live /\ a \in Starts
          BY <1>3 DEF IInv, Registry!TypeOK
    <2>2. ~Registry!Alone(a) => ~Registry!Alone(a)'
          BY <2>1, <1>3, AloneKept
    <2>3. att[a].id \in Ids /\ runtime[att[a].id] = a => runtime'[att[a].id] = a \/ ~Registry!Alone(a)
          BY <2>1, <1>3
    <2> QED BY <2>1, <2>2, <2>3 DEF LiveFound
  <1>7. PendingMet'
    <2> SUFFICES ASSUME NEW a \in Starts, Registry!Pending(a)
                 PROVE  /\ form = att[a].id => "form" \in met'[a]
                        /\ configs'[att[a].id] \in {att[a].port, None} \/ "form" \in met'[a]
                        /\ configs'[att[a].id] = None => "job" \in met'[a]
                        /\ runtime'[att[a].id] # None =>
                              "start" \in met'[a] /\ "start" \in met'[runtime'[att[a].id]]
                        /\ att[a].tab \in tabs' \cup {None} \/ "job" \in met'[a]
                        /\ \A b \in Starts : Registry!Pending(b) /\ att[b].id = att[a].id
                              => a = b \/ "start" \in met'[a]
                        /\ \A k \in Stops : Registry!Running(k)' /\ jobs'[k].id = att[a].id
                              => "job" \in met'[a]
        BY <1>3 DEF PendingMet, Registry!Pending
    <2>1. att[a].id \in Ids /\ att[a].id # None /\ met[a] \subseteq met'[a]
          BY <1>3 DEF PendingMet, IInv, Registry!TypeOK
    <2>2. configs'[att[a].id] \in {att[a].port, None} \/ "form" \in met'[a]
          BY <1>3, <2>1 DEF PendingMet
    <2>3. configs'[att[a].id] = None => "job" \in met'[a]
          BY <1>3, <2>1 DEF PendingMet
    <2>4. runtime'[att[a].id] # None =>
             "start" \in met'[a] /\ "start" \in met'[runtime'[att[a].id]]
          BY <1>3, <1>4, <2>1 DEF PendingMet
    <2>5. att[a].tab \in tabs' \cup {None} \/ "job" \in met'[a]
      <3>1. CASE tabs' = tabs
            BY <2>1, <3>1 DEF PendingMet
      <3>2. CASE /\ tabs' = tabs \ {jobs'[j].tab}
                 /\ \A b \in Registry!StartsOn(jobs'[j].tab) : "job" \in met'[b]
            BY <2>1, <3>2 DEF PendingMet, Registry!StartsOn
      <3> QED BY <3>1, <3>2, JobBegins
    <2>6. Registry!Running(j)' /\ jobs'[j].id = att[a].id => "job" \in met'[a]
      <3>1. CASE Registry!Running(j) /\ jobs'[j].id = jobs[j].id
            BY <2>1, <3>1 DEF PendingMet
      <3>2. CASE \A b \in Registry!StartsOf(jobs'[j].id) : "job" \in met'[b]
            BY <3>2 DEF Registry!StartsOf
      <3>3. CASE jobs'[j].id = None
            BY <2>1, <3>3
      <3> QED BY <3>1, <3>2, <3>3, JobBegins
    <2>7. \A k \in Stops \ {j} : Registry!Running(k)' /\ jobs'[k].id = att[a].id => "job" \in met'[a]
          BY <1>3, <2>1 DEF PendingMet, Registry!Running
    <2> QED BY <2>1, <2>2, <2>3, <2>4, <2>5, <2>6, <2>7 DEF PendingMet
  <1> QED BY <1>1, <1>2, <1>5, <1>6, <1>7

-----------------------------------------------------------------------------
(* The theorems *)

LEMMA MetHolds ==
    ASSUME Registry!RegistryAssumption
    PROVE  MCSpec => []MetInv
  <1>1. MetInv /\ [Registry!Next]_registryVars => MetInv'
    <2> SUFFICES ASSUME MetInv, [Registry!Next]_registryVars PROVE MetInv'
        OBVIOUS
    <2>1. CASE SavedStep
          BY <2>1, SavedKeepsMet
    <2>2. CASE \E a \in Starts : AttemptStep(a)
          BY <2>2, StartKeepsMet
    <2>3. CASE \E j \in Stops : JobStep(j)
          BY <2>3, JobKeepsMet
    <2>4. CASE UNCHANGED registryVars
      <3>1. IInv'
            BY NextKeepsInv DEF MetInv
      <3> QED BY <2>4, <3>1 DEF registryVars, MetInv, FreshIsNowhere, RowIsLast, SavedAgree,
             PendingMet, Registry!Pending, Registry!Running, RunningUnedited, LiveFound, JobHits,
             Clears,
             Registry!LentBy, TabsClosed, Registry!Alone
    <2> QED BY <2>1, <2>2, <2>3, <2>4 DEF Registry!Next, SavedStep, AttemptStep, JobStep
  <1>2. MCInit => MetInv
        BY MetInit, InitStarts
  <1>3. MetInv /\ [MCNext]_allVars => MetInv'
        BY <1>1, StepsAreSteps
  <1> QED BY <1>2, <1>3, PTL DEF MCSpec

\* No listener is orphaned but one whose own start was overlapped: whatever else
\* is live is registered, or about to be, whatever happens to its tunnel later.
THEOREM NothingIsOrphaned ==
    ASSUME Registry!RegistryAssumption
    PROVE  MCSpec => []LiveAccounted
  <1>1. MetInv => LiveAccounted
        BY DEF MetInv, LiveFound, LiveAccounted, Registry!LiveAccounted
  <1> QED BY <1>1, MetHolds, PTL

\* What runs of a tunnel runs once, unless starts of it overlapped, and on the
\* address it is saved with, unless its form was open while it was started.
THEOREM EachRunsAsSaved ==
    ASSUME Registry!RegistryAssumption
    PROVE  MCSpec => []RunsAsSaved
  <1>1. MetInv => Registry!AloneIsOnly
    <2> SUFFICES ASSUME MetInv, NEW a \in live, NEW b \in live, att[a].id = att[b].id,
                        Registry!Alone(a), Registry!Alone(b)
                 PROVE  a = b
        BY DEF Registry!AloneIsOnly
    <2>1. a \in Starts /\ b \in Starts /\ a # None /\ b # None
          BY DEF Registry!RegistryAssumption, MetInv, IInv, Registry!TypeOK
    <2>2. /\ Registry!Pending(a) \/ runtime[att[a].id] = a
          /\ Registry!Pending(b) \/ runtime[att[a].id] = b
          BY DEF MetInv, LiveFound, Registry!Pending
    <2> QED BY <2>1, <2>2 DEF MetInv, PendingMet, Registry!Alone
  <1>2. MetInv => Registry!RunningKeepsConfig
        BY DEF MetInv, RunningUnedited, Registry!RunningKeepsConfig
  <1>3. MetInv => RunsAsSaved
        BY <1>1, <1>2 DEF RunsAsSaved, Registry!RunsAsSaved
  <1> QED BY <1>3, MetHolds, PTL

\* Once the closing of a tab is done, nothing on its session is live but what a
\* start it overlapped has left.
THEOREM ClosedTabsLendNothing ==
    ASSUME Registry!RegistryAssumption
    PROVE  MCSpec => []TabsTornDown
  <1>1. MetInv => TabsTornDown
    <2> SUFFICES ASSUME MetInv, NEW j \in Stops, jobs[j].kind = "tab", jobs[j].pc = "done",
                        NEW a \in live, att[a].tab = jobs[j].tab, Registry!Alone(a)
                 PROVE  FALSE
        BY DEF TabsTornDown, Registry!TabsTornDown
    <2> USE DEF MetInv, Registry!RegistryAssumption
    <2>1. jobs[j].tab # None /\ jobs[j].tab \notin tabs
          BY DEF IInv, JobShape, TabsClosed
    <2>2. a \in Starts /\ ~Registry!Pending(a)
          BY <2>1 DEF PendingMet, Registry!Alone, IInv, Registry!TypeOK
    <2>3. att[a].id \in Ids /\ runtime[att[a].id] = a
          BY <2>2 DEF LiveFound, Registry!Pending
    <2>4. Registry!LentBy(jobs[j].tab, att[a].id)
          BY <2>2, <2>3 DEF Registry!LentBy, IInv
    <2> QED BY <2>3, <2>4 DEF TabsClosed
  <1> QED BY <1>1, MetHolds, PTL

\* No tunnel outlives its config but one whose start was overlapped: what has left
\* the registry is stopped.
THEOREM NothingOutlivesItsConfig ==
    ASSUME Registry!RegistryAssumption
    PROVE  MCSpec => []RemovedIsStopped
  <1>1. MetInv => RemovedIsStopped
    <2> SUFFICES ASSUME MetInv, NEW a \in live, Registry!Alone(a) PROVE configs[att[a].id] # None
        BY DEF RemovedIsStopped, Registry!RemovedIsStopped
    <2>1. CASE att[a].pc = "started"
          BY <2>1 DEF MetInv, IInv, Registry!TypeOK, PendingMet, Registry!Pending, Registry!Alone
    <2>2. CASE att[a].id \in Ids /\ runtime[att[a].id] = a
          BY <2>2 DEF Registry!RegistryAssumption, MetInv, IInv, Registry!TypeOK
    <2> QED BY <2>1, <2>2 DEF MetInv, LiveFound
  <1> QED BY <1>1, MetHolds, PTL

\* The clear on a failed start takes nothing away, unless another start of the
\* tunnel was under way beside it.
THEOREM FailedStartsClearNothing ==
    ASSUME Registry!RegistryAssumption
    PROVE  MCSpec => FailureClearsNothing
  <1>1. ASSUME MetInv, [Registry!Next]_registryVars, NEW a \in Starts,
               att[a].pc = "failed", att'[a].pc = "over"
        PROVE  runtime' = runtime \/ "start" \in met[a]
    <2> USE DEF Registry!RegistryAssumption, MetInv, IInv, Registry!TypeOK
    <2>1. ASSUME NEW b \in Starts, AttemptStep(b)
          PROVE  runtime' = runtime \/ "start" \in met[a]
      <3>1. b = a
            BY <1>1, <2>1 DEF AttemptStep, Registry!Attempt, Registry!StartOwned,
               Registry!StartBorrowed, Registry!Connect,
               Registry!StartSucceeds, Registry!StartFails, Registry!Register,
               Registry!ReportFailure
      <3>2. CASE Registry!ReportFailure(a)
        <4>1. Registry!Pending(a)
              BY <1>1 DEF Registry!Pending
        <4>2. att[a].id \in Ids /\ (runtime[att[a].id] = None \/ "start" \in met[a])
              BY <1>1, <4>1 DEF PendingMet
        <4> QED BY <1>1, <3>2, <4>2 DEF Registry!ReportFailure
      <3>3. CASE ~Registry!ReportFailure(a)
            BY <1>1, <2>1, <3>1, <3>3 DEF AttemptStep, Registry!StartOwned,
               Registry!StartBorrowed, Registry!Connect,
               Registry!StartSucceeds, Registry!StartFails, Registry!Register
      <3> QED BY <3>2, <3>3
    <2>2. CASE att' = att
          BY <1>1, <2>2
    <2>3. SavedStep => att' = att
          BY DEF SavedStep, Registry!Create, Registry!OpenEdit, Registry!RemoveHost,
             Registry!SaveEdit, Registry!CloseForm
    <2>4. \A j \in Stops : JobStep(j) => att' = att
          BY DEF JobStep, Registry!StopTunnel, Registry!RemoveTunnel, Registry!CloseTab,
             Registry!StopManager, Registry!Snapshot,
             Registry!FinishStop, Registry!FinishTab, Registry!FinishRemove, Registry!RemoveRow
    <2> QED BY <1>1, <2>1, <2>2, <2>3, <2>4 DEF Registry!Next, registryVars, SavedStep,
               AttemptStep, JobStep
  <1>2. MetInv /\ [Registry!Next]_registryVars =>
          [\A a \in Starts : att[a].pc = "failed" /\ att'[a].pc = "over"
              => runtime' = runtime \/ "start" \in met[a]]_registryVars
        BY <1>1
  <1> QED BY <1>2, StepsAreSteps, MetHolds, PTL
          DEF MCSpec, FailureClearsNothing, Registry!FailureClearsNothing, Registry!vars,
             registryVars
=============================================================================
