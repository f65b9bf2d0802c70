----------------------------- MODULE AgentProofs -----------------------------
(***************************************************************************)
(* The agent's tunnels and the answers it acts on.                         *)
(*                                                                         *)
(* What an agent has opened it can close, and it goes when the panel goes, *)
(* for any number of tool calls, definitions and reconnects.  A call's own *)
(* record says what it may be about (CallFacts); a definition that says    *)
(* Running names a call that has finished (RunningFacts); an entry of the  *)
(* manager is one that a call put there and nobody has since stopped       *)
(* (LiveFacts).  When calls on one tunnel follow each other, a call finds  *)
(* its definition as it left it (InTurn).  Once the panel's drop has       *)
(* begun, only a start that was under way adds an entry (Drops).           *)
(*                                                                         *)
(* A turn's message says what its own response said, for any number of     *)
(* turns and chunks.  The accumulator has what came, call by call (Kept);  *)
(* what came is what the panel shows and has pending, then the events in   *)
(* the channel, then those the worker has not sent (Flow), and a worker    *)
(* that has ended adds nothing (Grows).                                    *)
(***************************************************************************)
EXTENDS MCAgent, SequenceTheorems, WellFoundedInduction, TLAPS

Opening == {"starting", "polling", "opened", "failed"}
Stopping == {"stopping", "stopped"}

CallFacts ==
  \A c \in Calls :
    /\ call[c].at \in Opening => call[c].tool = "open" /\ call[c].tid = NoTid
    /\ call[c].at \in Stopping => call[c].tool # "open"
    /\ call[c].at \in Opening \cup Stopping => call[c].of \in DOMAIN tunnels
    /\ call[c].at = "waiting" => call[c].of = 0
    /\ call[c].tid # NoTid => call[call[c].tid].at = "done" /\ call[call[c].tid].of = call[c].of

RunningFacts ==
  \A d \in DOMAIN tunnels : tunnels[d].st = "Running" =>
    /\ tunnels[d].tid \in Calls
    /\ call[tunnels[d].tid].at = "done" /\ call[tunnels[d].tid].of = d

LiveFacts ==
  /\ \A c \in live : call[c].tool = "open" /\ call[c].at \in {"polling", "opened", "done"}
  /\ \A c \in Calls : call[c].at = "stopped" => call[c].tid \notin live
  /\ panel = "open" => \A c \in Calls : call[c].at = "opened" => c \in live

InTurn ==
  ~overlap =>
    /\ \A x, y \in Pending : call[x].of = call[y].of /\ call[x].of # 0 => x = y
    /\ \A c \in Calls : call[c].at \in Opening => tunnels[call[c].of].st # "Running"
    /\ \A c \in Calls :
         call[c].at \in Stopping /\ tunnels[call[c].of].st = "Running" =>
           tunnels[call[c].of].tid = call[c].tid

Drops ==
  panel # "open" =>
    /\ \A c \in Calls : call[c].at = "starting" => c \in flying
    /\ live \subseteq todo \cup flying
    /\ panel = "gone" => live \subseteq flying

Facts == CallFacts /\ RunningFacts /\ LiveFacts
IInv == TypeOK /\ Facts /\ InTurn /\ TunnelsReachable /\ Drops

-----------------------------------------------------------------------------
(* Types.                                                                  *)

CallType ==
  [at : {"idle", "starting", "polling", "stopping", "opened", "failed", "stopped", "waiting",
         "done"},
   tool : Tools, of : 0..MaxDefs, tid : Calls \cup {NoTid}]

\* A definition has a row, and a number that a call can name.
LEMMA Rows ==
  ASSUME AgentAssumption, TypeOK, NEW d \in DOMAIN tunnels
  PROVE  tunnels[d] \in Tunnel /\ d \in 0..MaxDefs /\ d # 0
BY DEF TypeOK, AgentAssumption

\* Recording an outcome changes one row at most.
LEMMA RowReplaced ==
  ASSUME NEW S, NEW s \in Seq(S), NEW i, NEW e \in S
  PROVE  [s EXCEPT ![i] = e] \in Seq(S) /\ Len([s EXCEPT ![i] = e]) = Len(s)
<1>1. CASE i \in 1..Len(s)
  BY <1>1, ExceptSeq
<1>2. CASE i \notin 1..Len(s)
  <2>1. DOMAIN s = 1..Len(s) /\ s \in [1..Len(s) -> S]
    BY LenProperties
  <2>2. [s EXCEPT ![i] = e] = s
    BY <1>2, <2>1
  <2> QED
    BY <2>2
<1> QED
  BY <1>1, <1>2

\* A begun call has its type.
LEMMA GoType ==
  ASSUME TypeOK, NEW c \in Calls, NEW tool \in Tools, NEW d \in 0..MaxDefs,
         NEW goes \in {"starting", "stopping", "stopped", "waiting", "done"},
         NEW tid \in Calls \cup {NoTid}, Go(c, tool, d, goes, tid)
  PROVE  call' \in [Calls -> CallType]
BY DEF TypeOK, CallType, Go

LEMMA StepType ==
  ASSUME TypeOK, NEW c \in Calls, NEW from,
         NEW to \in {"polling", "opened", "failed", "stopped", "done"}, Step(c, from, to)
  PROVE  call' \in [Calls -> CallType]
BY DEF TypeOK, CallType, Step

LEMMA TypeInit == ASSUME AgentAssumption, Init PROVE TypeOK
<1>1. Idle \in CallType
  BY DEF Idle, CallType, Tools, AgentAssumption
<1>2. call \in [Calls -> CallType]
  BY <1>1 DEF Init
<1> QED
  BY <1>2 DEF Init, TypeOK, CallType, AgentAssumption

LEMMA TypeStep == ASSUME AgentAssumption, TypeOK, [Next]_vars PROVE TypeOK'
<1> USE DEF panelVars
<1>1. ASSUME NEW c \in Calls, NEW d \in DOMAIN tunnels, Open(c, d) \/ Close(c, d) \/ Delete(c, d)
      PROVE  TypeOK'
  <2>1. tunnels[d].tid \in Calls \cup {NoTid} /\ d \in 0..MaxDefs
    BY Rows DEF Tunnel
  <2>2. call' \in [Calls -> CallType]
    BY <1>1, <2>1, GoType DEF Open, Close, Delete, Tools
  <2>3. UNCHANGED <<tunnels, live, config, commands>> /\ Session
    BY <1>1 DEF Open, Close, Delete
  <2> QED
    BY <2>2, <2>3 DEF TypeOK, CallType, Session, AgentAssumption
<1>2. ASSUME NEW c \in Calls, NEW tool \in Tools, RegistryOp(c, tool) PROVE TypeOK'
  <2>1. call' \in [Calls -> CallType]
    BY <1>2, GoType DEF RegistryOp, AgentAssumption
  <2>2. commands' \in Seq(Tools)
    BY SMTT(30), <1>2 DEF RegistryOp, TypeOK
  <2>3. UNCHANGED <<tunnels, live, config>> /\ Session
    BY <1>2 DEF RegistryOp
  <2> QED
    BY <2>1, <2>2, <2>3 DEF TypeOK, CallType, Session, AgentAssumption
<1>3. ASSUME NEW c \in Calls,
             \/ StartSucceeds(c) \/ StartFails(c) \/ PollActive(c) \/ PollTimesOut(c)
             \/ StopEnds(c) \/ RegistryAnswers(c)
      PROVE  TypeOK'
  <2>1. call' \in [Calls -> CallType]
    BY <1>3, StepType DEF StartSucceeds, StartFails, PollActive, PollTimesOut, StopEnds,
       RegistryAnswers
  <2>2. live' \subseteq Calls /\ UNCHANGED <<tunnels, panelVars, config, commands>>
    BY <1>3 DEF StartSucceeds, StartFails, PollActive, PollTimesOut, StopEnds, RegistryAnswers,
       TypeOK
  <2> QED
    BY <2>1, <2>2 DEF TypeOK, CallType
<1>4. ASSUME NEW c \in Calls, Record(c) PROVE TypeOK'
  <2>1. call' \in [Calls -> CallType]
    BY SMTT(30), <1>4 DEF Record, TypeOK, CallType
  <2>2. Outcome(c) \in Tunnel
    <3>1. \A st \in States, tid \in Calls \cup {NoTid} : [st |-> st, tid |-> tid] \in Tunnel
      BY DEF Tunnel
    <3> QED
      BY <3>1 DEF Outcome, States
  <2>3. tunnels' \in Seq(Tunnel) /\ Len(tunnels') = Len(tunnels)
    BY <1>4, <2>2, RowReplaced DEF Record, TypeOK
  <2> QED
    BY <1>4, <2>1, <2>3 DEF Record, TypeOK, CallType
<1>5. CASE Create
  <2>1. [st |-> "Created", tid |-> NoTid] \in Tunnel
    BY DEF Tunnel, States
  <2>2. tunnels' \in Seq(Tunnel) /\ Len(tunnels') <= MaxDefs
    BY <1>5, <2>1 DEF Create, TypeOK, AgentAssumption
  <2> QED
    BY <1>5, <2>2 DEF Create, Session, TypeOK, AgentAssumption
<1>6. CASE DropPanel \/ DropStops
  BY <1>6 DEF DropPanel, Dropping, DropStops, TypeOK
<1>7. CASE Reconnect
  BY <1>7 DEF Reconnect, TypeOK, AgentAssumption
<1>8. CASE Drain
  <2>1. commands' \in Seq(Tools)
    BY <1>8 DEF Drain, TypeOK
  <2>2. config' \in {"stopped", "starting", "running", "stopping", "removing", "removed"}
    BY <1>8 DEF Drain, Served, TypeOK
  <2> QED
    BY <1>8, <2>1, <2>2 DEF Drain, TypeOK
<1>9. CASE ConfigMoves
  BY <1>9 DEF ConfigMoves, TypeOK
<1>10. CASE UNCHANGED vars
  BY <1>10 DEF vars, TypeOK
<1> QED
  BY <1>1, <1>2, <1>3, <1>4, <1>5, <1>6, <1>7, <1>8, <1>9, <1>10 DEF Next, Task

\* Every variable of the agent's tunnels keeps its type.
THEOREM TypeCorrect == ASSUME AgentAssumption PROVE Spec => []TypeOK
<1>1. Init => TypeOK
  BY TypeInit
<1>2. TypeOK /\ [Next]_vars => TypeOK'
  BY TypeStep
<1> QED
  BY <1>1, <1>2, PTL DEF Spec

\* NoTid names no entry of the manager.
LEMMA NoTidIsNoEntry == ASSUME AgentAssumption, TypeOK PROVE NoTid \notin live
BY DEF AgentAssumption, TypeOK

-----------------------------------------------------------------------------
(* What the steps change.                                                  *)

\* A click begins call c about definition d, and answers it at once when there is
\* nothing to do.
Begins(c, d) ==
  /\ May(c, d) /\ panel' = panel /\ overlap' = overlap /\ tunnels' = tunnels /\ live' = live
  /\ \A x \in Calls : x # c => call'[x] = call[x]
  /\ call'[c].of = d
  /\ \/ call'[c].at = "starting" /\ call'[c].tool = "open" /\ call'[c].tid = NoTid
        /\ tunnels[d].st # "Running"
     \/ call'[c].at = "done" /\ call'[c].tid = NoTid
     \/ call'[c].at = "stopping" /\ call'[c].tool # "open" /\ tunnels[d].st = "Running"
        /\ call'[c].tid = tunnels[d].tid
     \/ call'[c].at = "stopped" /\ call'[c].tool # "open" /\ call'[c].tid = NoTid
        /\ tunnels[d].st # "Running"

LEMMA Clicks ==
  ASSUME TypeOK, NEW c \in Calls, NEW d \in DOMAIN tunnels,
         Open(c, d) \/ Close(c, d) \/ Delete(c, d)
  PROVE  Begins(c, d)
<1>1. ASSUME NEW goes, NEW tool, NEW tid, Go(c, tool, d, goes, tid)
      PROVE  /\ \A x \in Calls : x # c => call'[x] = call[x]
             /\ call'[c].at = goes /\ call'[c].tool = tool /\ call'[c].of = d /\ call'[c].tid = tid
  BY <1>1 DEF Go, TypeOK
<1>2. May(c, d) /\ panel' = panel /\ overlap' = overlap /\ tunnels' = tunnels /\ live' = live
  BY DEF Open, Close, Delete, Session
<1>3. CASE Open(c, d)
  <2>1. \/ tunnels[d].st # "Running" /\ Go(c, "open", d, "starting", NoTid)
        \/ Go(c, "open", d, "done", NoTid)
    BY <1>3 DEF Open, CanOpen
  <2> QED
    BY <1>1, <1>2, <2>1 DEF Begins
<1>4. CASE Close(c, d)
  <2>1. \/ tunnels[d].st = "Running" /\ Go(c, "close", d, "stopping", tunnels[d].tid)
        \/ Go(c, "close", d, "done", NoTid)
    BY <1>4 DEF Close
  <2> QED
    BY <1>1, <1>2, <2>1 DEF Begins
<1>5. CASE Delete(c, d)
  <2>1. \/ tunnels[d].st = "Running" /\ Go(c, "delete", d, "stopping", tunnels[d].tid)
        \/ tunnels[d].st # "Running" /\ Go(c, "delete", d, "stopped", NoTid)
    BY <1>5 DEF Delete
  <2> QED
    BY <1>1, <1>2, <2>1 DEF Begins
<1> QED
  BY <1>3, <1>4, <1>5

\* A task moves call c on; all but its place stays.
Moves(c, from, to) ==
  /\ panel' = panel /\ overlap' = overlap /\ todo' = todo /\ flying' = flying
  /\ \A x \in Calls : x # c => call'[x] = call[x]
  /\ call[c].at = from /\ call'[c].at = to
  /\ call'[c].tool = call[c].tool /\ call'[c].of = call[c].of /\ call'[c].tid = call[c].tid

LEMMA TaskMoves ==
  ASSUME TypeOK, NEW c \in Calls, Task(c)
  PROVE  \/ tunnels' = tunnels /\ live' = live \cup {c} /\ Moves(c, "starting", "polling")
         \/ tunnels' = tunnels /\ live' = live /\ Moves(c, "starting", "failed")
         \/ tunnels' = tunnels /\ live' = live /\ c \in live /\ Moves(c, "polling", "opened")
         \/ tunnels' = tunnels /\ live' = live /\ c \notin live /\ Moves(c, "polling", "failed")
         \/ /\ tunnels' = tunnels /\ live' = live \ {call[c].tid}
            /\ Moves(c, "stopping", "stopped")
         \/ Record(c) /\ Moves(c, call[c].at, "done")
         \/ tunnels' = tunnels /\ live' = live /\ Moves(c, "waiting", "done")
<1> USE DEF panelVars
<1>1. \A from, to : call[c].at = from /\ call' = [call EXCEPT ![c].at = to] /\ UNCHANGED panelVars
                     => Moves(c, from, to)
  BY DEF Moves, TypeOK
<1> QED
  BY <1>1 DEF Task, Step, StartSucceeds, StartFails, PollActive, PollTimesOut, StopEnds, Record,
     RegistryAnswers

\* What is left: a definition or a call for the page is added, the panel goes, or what
\* the calls are about stays as it is.
Rest ==
  \/ /\ Create /\ live' = live /\ call' = call /\ panel' = panel /\ overlap' = overlap
  \/ /\ \E c \in Calls, tool \in Tools : RegistryOp(c, tool)
     /\ tunnels' = tunnels /\ live' = live /\ panel' = panel /\ overlap' = overlap
  \/ DropPanel \/ DropStops
  \/ UNCHANGED <<tunnels, live, call, panel, overlap, todo, flying>>

LEMMA StepCases ==
  ASSUME TypeOK, [Next]_vars
  PROVE  \/ \E c \in Calls, d \in DOMAIN tunnels : Begins(c, d)
         \/ \E c \in Calls : Task(c)
         \/ Rest
<1>1. \/ \E c \in Calls, d \in DOMAIN tunnels : Open(c, d) \/ Close(c, d) \/ Delete(c, d)
      \/ \E c \in Calls : Task(c)
      \/ Rest
  BY DEF Next, vars, panelVars, Rest, Create, RegistryOp, Session, Reconnect, Drain, ConfigMoves
<1> QED
  BY <1>1, Clicks

-----------------------------------------------------------------------------
(* Calls, definitions and entries.                                         *)

LEMMA FactsBegin ==
  ASSUME AgentAssumption, TypeOK, Facts, NEW c \in Calls, NEW d \in DOMAIN tunnels, Begins(c, d)
  PROVE  Facts'
<1>0. call[c].at = "idle" /\ c \notin live
  BY DEF Begins, May, Facts, LiveFacts
<1>1. CallFacts'
  <2>1. tunnels[d].st = "Running" =>
          tunnels[d].tid \in Calls /\ call[tunnels[d].tid].at = "done"
          /\ call[tunnels[d].tid].of = d
    BY DEF Facts, RunningFacts
  <2>2. ASSUME NEW x \in Calls, call'[x].tid # NoTid
        PROVE  call'[call'[x].tid].at = "done" /\ call'[call'[x].tid].of = call'[x].of
    <3>1. CASE x = c
      BY <1>0, <2>1, <2>2, <3>1 DEF Begins
    <3>2. CASE x # c
      <4>1. call'[x] = call[x] /\ call[x].tid \in Calls /\ call[call[x].tid].at = "done"
            /\ call[call[x].tid].of = call[x].of
        BY <2>2, <3>2 DEF Begins, Facts, CallFacts, TypeOK
      <4> QED
        BY <1>0, <4>1 DEF Begins
    <3> QED
      BY <3>1, <3>2
  <2> QED
    BY <2>2 DEF Begins, Facts, CallFacts, Opening, Stopping
<1>2. RunningFacts'
  BY <1>0 DEF Begins, Facts, RunningFacts
<1>3. LiveFacts'
  <2>1. \A x \in live : x \in Calls /\ x # c
    BY <1>0 DEF TypeOK
  <2>2. \A x \in live' : call'[x].tool = "open" /\ call'[x].at \in {"polling", "opened", "done"}
    BY <2>1 DEF Begins, Facts, LiveFacts
  <2>3. \A x \in Calls : call'[x].at = "stopped" => call'[x].tid \notin live'
    BY NoTidIsNoEntry DEF Begins, Facts, LiveFacts
  <2>4. panel' = "open" => \A x \in Calls : call'[x].at = "opened" => x \in live'
    BY DEF Begins, Facts, LiveFacts
  <2> QED
    BY <2>2, <2>3, <2>4 DEF LiveFacts
<1> QED
  BY <1>1, <1>2, <1>3 DEF Facts

LEMMA FactsTask ==
  ASSUME AgentAssumption, TypeOK, Facts, NEW c \in Calls, Task(c)
  PROVE  Facts'
<1> DEFINE Moved(from, to) == Moves(c, from, to)
<1>1. \A x \in Calls : call[x].at = "done" => call'[x] = call[x]
  <2>1. call[c].at # "done"
    BY TaskMoves DEF Moves, Record
  <2> QED
    BY <2>1, TaskMoves DEF Moves
<1>2. \A x \in Calls : call'[x].tool = call[x].tool /\ call'[x].of = call[x].of
                        /\ call'[x].tid = call[x].tid
  BY TaskMoves DEF Moves
<1>3. DOMAIN tunnels' = DOMAIN tunnels
  BY TaskMoves DEF Record
<1>4. \A x \in Calls : call[x].tid # NoTid => call[x].tid \in Calls
  BY DEF TypeOK
<1>5. CallFacts'
  BY <1>1, <1>2, <1>3, <1>4, TaskMoves DEF Facts, CallFacts, Opening, Stopping, Moves, Record
<1>6. RunningFacts'
  <2>1. ASSUME tunnels' = tunnels PROVE RunningFacts'
    BY <1>1, <2>1 DEF Facts, RunningFacts
  <2>2. ASSUME Record(c), Moves(c, call[c].at, "done") PROVE RunningFacts'
    <3>1. ASSUME NEW e \in DOMAIN tunnels', tunnels'[e].st = "Running"
          PROVE  /\ tunnels'[e].tid \in Calls
                 /\ call'[tunnels'[e].tid].at = "done" /\ call'[tunnels'[e].tid].of = e
      <4>1. CASE e # call[c].of
        <5>1. e \in DOMAIN tunnels /\ tunnels'[e] = tunnels[e]
          BY <1>3, <2>2, <3>1, <4>1 DEF Record
        <5> QED
          BY <1>1, <3>1, <5>1 DEF Facts, RunningFacts
      <4>2. CASE e = call[c].of
        <5>1. tunnels'[e] = Outcome(c)
          BY <1>3, <2>2, <3>1, <4>2 DEF Record
        <5>2. tunnels'[e].tid = c
          BY <3>1, <5>1 DEF Outcome
        <5> QED
          BY <2>2, <4>2, <5>2 DEF Moves
      <4> QED
        BY <4>1, <4>2
    <3> QED
      BY <3>1 DEF RunningFacts
  <2> QED
    BY <2>1, <2>2, TaskMoves
<1>7. LiveFacts'
  <2>1. \A x \in live : call[x].tool = "open" /\ call[x].at \in {"polling", "opened", "done"}
    BY DEF Facts, LiveFacts
  <2>2. \A x \in Calls : call[x].at = "starting" => x \notin live /\ call[x].tool = "open"
    BY <2>1 DEF Facts, CallFacts, Opening
  <2>3. \A x \in Calls : call[x].at = "stopping" => x \notin live
    BY <2>1
  <2>4. \A x \in Calls : call[x].at # "done" => \A y \in Calls : call[y].tid # x
    BY DEF Facts, CallFacts, AgentAssumption
  <2>5. \A x \in live' : call'[x].tool = "open" /\ call'[x].at \in {"polling", "opened", "done"}
    BY <2>1, <2>2, TaskMoves DEF Moves, Record, TypeOK
  <2>6. \A x \in Calls : call'[x].at = "stopped" => call'[x].tid \notin live'
    BY <1>2, <2>4, TaskMoves DEF Moves, Record, Facts, LiveFacts
  <2>7. panel' = "open" => \A x \in Calls : call'[x].at = "opened" => x \in live'
    BY <2>4, TaskMoves DEF Moves, Record, Facts, LiveFacts
  <2> QED
    BY <2>5, <2>6, <2>7 DEF LiveFacts
<1> QED
  BY <1>5, <1>6, <1>7 DEF Facts

\* A call for the page begins with no definition and no entry.
LEMMA PageCall ==
  ASSUME TypeOK, NEW c \in Calls, NEW tool \in Tools, RegistryOp(c, tool)
  PROVE  /\ call[c].at = "idle" /\ \A x \in Calls : x # c => call'[x] = call[x]
         /\ call'[c].at \in {"waiting", "done"} /\ call'[c].of = 0 /\ call'[c].tid = NoTid
<1>1. ASSUME NEW goes, Go(c, tool, 0, goes, NoTid)
      PROVE  /\ \A x \in Calls : x # c => call'[x] = call[x]
             /\ call'[c].at = goes /\ call'[c].of = 0 /\ call'[c].tid = NoTid
  BY <1>1 DEF Go, TypeOK
<1>2. Go(c, tool, 0, "done", NoTid) \/ Go(c, tool, 0, "waiting", NoTid)
  BY DEF RegistryOp
<1> QED
  BY <1>1, <1>2 DEF RegistryOp

\* A new definition comes after the others and does not say Running.
LEMMA Created ==
  ASSUME TypeOK, Create
  PROVE  /\ DOMAIN tunnels \subseteq DOMAIN tunnels'
         /\ \A d \in DOMAIN tunnels : tunnels'[d] = tunnels[d]
         /\ \A d \in DOMAIN tunnels' \ DOMAIN tunnels : tunnels'[d].st # "Running"
<1> DEFINE new == [st |-> "Created", tid |-> NoTid]
<1>1. tunnels \in Seq(Tunnel) /\ new \in Tunnel /\ tunnels' = Append(tunnels, new)
  BY DEF TypeOK, Create, Tunnel, States
<1> HIDE DEF new
<1>2. /\ tunnels' \in Seq(Tunnel) /\ Len(tunnels') = Len(tunnels) + 1
      /\ \A i \in 1..Len(tunnels) : tunnels'[i] = tunnels[i]
      /\ tunnels'[Len(tunnels) + 1] = new
  BY <1>1, AppendProperties
<1>3. Len(tunnels) \in Nat /\ DOMAIN tunnels = 1..Len(tunnels)
      /\ DOMAIN tunnels' = 1..(Len(tunnels) + 1)
  BY <1>1, <1>2, LenProperties
<1>4. new.st # "Running"
  BY DEF new
<1> QED
  BY <1>2, <1>3, <1>4

LEMMA FactsRest ==
  ASSUME AgentAssumption, TypeOK, Facts, Rest
  PROVE  Facts'
<1>1. CASE /\ Create /\ live' = live /\ call' = call /\ panel' = panel /\ overlap' = overlap
  <2>1. CallFacts'
    BY <1>1, Created DEF Facts, CallFacts
  <2>2. RunningFacts'
    BY <1>1, Created DEF Facts, RunningFacts
  <2>3. LiveFacts'
    BY <1>1 DEF Facts, LiveFacts
  <2> QED
    BY <2>1, <2>2, <2>3 DEF Facts
<1>2. ASSUME NEW c \in Calls, NEW tool \in Tools, RegistryOp(c, tool),
             tunnels' = tunnels, live' = live, panel' = panel
      PROVE  Facts'
  <2>0. \A x \in Calls : call[x].tid # NoTid => call[x].tid \in Calls
    BY DEF TypeOK
  <2>1. CallFacts'
    BY <1>2, <2>0, PageCall DEF Facts, CallFacts, Opening, Stopping
  <2>2. RunningFacts'
    BY <1>2, PageCall DEF Facts, RunningFacts
  <2>3. LiveFacts'
    <3>1. live \subseteq Calls
      BY DEF TypeOK
    <3>2. c \notin live
      BY <1>2, PageCall DEF Facts, LiveFacts
    <3>3. \A x \in Calls : x # c => call'[x] = call[x]
      BY <1>2, PageCall
    <3>4. call'[c].at \notin {"stopped", "opened"}
      BY <1>2, PageCall
    <3> QED
      BY <1>2, <3>1, <3>2, <3>3, <3>4 DEF Facts, LiveFacts
  <2> QED
    BY <2>1, <2>2, <2>3 DEF Facts
<1>3. CASE DropPanel \/ DropStops
  <2>1. /\ tunnels' = tunnels /\ call' = call /\ live' \subseteq live /\ panel' # "open"
    BY <1>3 DEF DropPanel, DropStops, Dropping
  <2> QED
    BY <2>1 DEF Facts, CallFacts, RunningFacts, LiveFacts
<1>4. CASE UNCHANGED <<tunnels, live, call, panel, overlap, todo, flying>>
  BY <1>4 DEF Facts, CallFacts, RunningFacts, LiveFacts
<1> QED
  BY <1>1, <1>2, <1>3, <1>4 DEF Rest

-----------------------------------------------------------------------------
(* Calls that follow each other.                                           *)

LEMMA InTurnBegin ==
  ASSUME AgentAssumption, TypeOK, Facts, InTurn, ~overlap,
         NEW c \in Calls, NEW d \in DOMAIN tunnels, Begins(c, d)
  PROVE  InTurn'
<1>1. /\ c \notin Pending /\ \A x \in Pending : call[x].of # d
      /\ Pending' \subseteq Pending \cup {c} /\ d # 0
  BY Rows DEF Begins, May, Pending
<1>2. \A x, y \in Pending' : call'[x].of = call'[y].of /\ call'[x].of # 0 => x = y
  BY <1>1 DEF Begins, InTurn, Pending
<1>3. \A x \in Calls : call'[x].at \in Opening => tunnels'[call'[x].of].st # "Running"
  BY DEF Begins, InTurn, Opening
<1>4. ASSUME NEW x \in Calls, call'[x].at \in Stopping, tunnels'[call'[x].of].st = "Running"
      PROVE  tunnels'[call'[x].of].tid = call'[x].tid
  BY <1>4 DEF Begins, InTurn, Stopping
<1> QED
  BY <1>2, <1>3, <1>4 DEF InTurn

LEMMA InTurnTask ==
  ASSUME AgentAssumption, TypeOK, Facts, InTurn, ~overlap, NEW c \in Calls, Task(c)
  PROVE  InTurn'
<1>1. \A x \in Calls : call'[x].of = call[x].of /\ call'[x].tid = call[x].tid
  BY TaskMoves DEF Moves
<1>2. Pending' \subseteq Pending
  BY TaskMoves DEF Moves, Pending, Record
<1>3. \A x, y \in Pending' : call'[x].of = call'[y].of /\ call'[x].of # 0 => x = y
  BY <1>1, <1>2 DEF InTurn, Pending
<1>4. \A x \in Calls : /\ call'[x].at \in Opening => call[x].at \in Opening
                       /\ call'[x].at \in Stopping => call[x].at \in Stopping
                       /\ call'[x].at \in Opening \cup Stopping =>
                             tunnels'[call[x].of] = tunnels[call[x].of]
  <2>1. ASSUME Record(c), Moves(c, call[c].at, "done"), NEW x \in Calls,
               call'[x].at \in Opening \cup Stopping
        PROVE  tunnels'[call[x].of] = tunnels[call[x].of]
    <3>1. x # c /\ call'[x] = call[x]
      BY <2>1 DEF Moves, Opening, Stopping
    <3>2. x \in Pending /\ c \in Pending
      BY <2>1, <3>1 DEF Pending, Record, Opening, Stopping
    <3>3. call[x].of \in DOMAIN tunnels /\ call[x].of # 0
      BY <2>1, <3>1, Rows DEF Facts, CallFacts
    <3>4. call[x].of # call[c].of
      BY <3>1, <3>2, <3>3 DEF InTurn
    <3> QED
      BY <2>1, <3>3, <3>4 DEF Record
  <2> QED
    BY <2>1, TaskMoves DEF Moves, Opening, Stopping
<1>5. \A x \in Calls : call'[x].at \in Opening => tunnels'[call'[x].of].st # "Running"
  BY <1>1, <1>4 DEF InTurn
<1>6. \A x \in Calls : call'[x].at \in Stopping /\ tunnels'[call'[x].of].st = "Running" =>
        tunnels'[call'[x].of].tid = call'[x].tid
  BY <1>1, <1>4 DEF InTurn
<1> QED
  BY <1>3, <1>5, <1>6 DEF InTurn

LEMMA InTurnRest ==
  ASSUME AgentAssumption, TypeOK, Facts, InTurn, ~overlap, Rest
  PROVE  InTurn'
<1>1. CASE /\ Create /\ live' = live /\ call' = call /\ panel' = panel /\ overlap' = overlap
  BY <1>1, Created DEF InTurn, Pending, Facts, CallFacts
<1>2. ASSUME NEW c \in Calls, NEW tool \in Tools, RegistryOp(c, tool), tunnels' = tunnels
      PROVE  InTurn'
  <2>1. Pending' \subseteq Pending \cup {c}
    BY <1>2, PageCall DEF Pending
  <2>2. \A x, y \in Pending' : call'[x].of = call'[y].of /\ call'[x].of # 0 => x = y
    BY <1>2, <2>1, PageCall DEF InTurn, Pending
  <2> QED
    BY <1>2, <2>2, PageCall DEF InTurn, Opening, Stopping
<1>3. CASE DropPanel \/ DropStops
  <2>1. /\ tunnels' = tunnels /\ call' = call
    BY <1>3 DEF DropPanel, DropStops
  <2> QED
    BY <2>1 DEF InTurn, Pending
<1>4. CASE UNCHANGED <<tunnels, live, call, panel, overlap, todo, flying>>
  BY <1>4 DEF InTurn, Pending
<1> QED
  BY <1>1, <1>2, <1>3, <1>4 DEF Rest

-----------------------------------------------------------------------------
(* Nothing is forgotten while the panel is open.                           *)

\* The two halves of TunnelsReachable.
AllKnown == \A t \in live : Known(t)
RunningLive ==
  \A d \in DOMAIN tunnels :
    tunnels[d].st = "Running" => tunnels[d].tid \in live \/ \E c \in Pending : call[c].of = d

LEMMA ReachableBegin ==
  ASSUME AgentAssumption, TypeOK, AllKnown, RunningLive,
         NEW c \in Calls, NEW d \in DOMAIN tunnels, Begins(c, d)
  PROVE  AllKnown' /\ RunningLive'
<1>1. call[c].at = "idle"
  BY DEF Begins, May
<1>2. AllKnown'
  BY <1>1 DEF Begins, AllKnown, Known, HeldBy
<1>3. RunningLive'
  BY <1>1 DEF Begins, RunningLive, Pending
<1> QED
  BY <1>2, <1>3

\* A call that has opened a tunnel, or found that it cannot, or stopped one, records it.
LEMMA ReachableRecord ==
  ASSUME AgentAssumption, TypeOK, Facts, InTurn, ~overlap, panel = "open", AllKnown, RunningLive,
         NEW c \in Calls, Record(c), Moves(c, call[c].at, "done")
  PROVE  AllKnown' /\ RunningLive'
<1> DEFINE own == call[c].of
<1>1. own \in DOMAIN tunnels /\ own # 0 /\ c \in Pending
  BY Rows DEF Record, Facts, CallFacts, Opening, Stopping, Pending
<1>2. /\ live' = live /\ DOMAIN tunnels' = DOMAIN tunnels /\ tunnels'[own] = Outcome(c)
      /\ \A d \in DOMAIN tunnels : d # own => tunnels'[d] = tunnels[d]
  BY <1>1 DEF Record
<1>3. ASSUME call[c].at = "opened"
      PROVE  Outcome(c) = [st |-> "Running", tid |-> c] /\ c \in live
             /\ tunnels[own].st # "Running"
  BY <1>3 DEF Outcome, Facts, LiveFacts, InTurn, Opening
<1>4. ASSUME call[c].at # "opened"
      PROVE  /\ Outcome(c).st # "Running" /\ c \notin live /\ call[c].tid \notin live
             /\ tunnels[own].st = "Running" => tunnels[own].tid \notin live
  <2>1. Outcome(c).st # "Running" /\ c \notin live
    BY <1>4 DEF Outcome, Record, Facts, LiveFacts
  <2>2. CASE call[c].at = "failed"
    BY <2>1, <2>2, NoTidIsNoEntry DEF Facts, CallFacts, InTurn, Opening
  <2>3. CASE call[c].at = "stopped"
    BY <2>1, <2>3 DEF Facts, LiveFacts, InTurn, Stopping
  <2> QED
    BY <1>4, <2>2, <2>3 DEF Record
<1>5. ASSUME NEW t \in live PROVE Known(t)'
  <2>1. CASE \E d \in DOMAIN tunnels : tunnels[d] = [st |-> "Running", tid |-> t]
    <3>1. PICK d \in DOMAIN tunnels : tunnels[d] = [st |-> "Running", tid |-> t]
      BY <2>1
    <3>2. d # own
      BY <1>3, <1>4, <1>5, <3>1
    <3> QED
      BY <1>2, <3>1, <3>2 DEF Known
  <2>2. CASE \E x \in Calls : HeldBy(x) /\ (x = t \/ call[x].tid = t)
    <3>1. PICK x \in Calls : HeldBy(x) /\ (x = t \/ call[x].tid = t)
      BY <2>2
    <3>2. CASE x # c
      BY <3>1, <3>2 DEF Known, HeldBy, Moves
    <3>3. CASE x = c
      <4>1. call[c].at = "opened"
        BY <1>4, <1>5, <3>1, <3>3
      <4>2. t = c
        BY <1>5, <3>1, <3>3, <4>1, NoTidIsNoEntry DEF Facts, CallFacts, Opening
      <4> QED
        BY <1>1, <1>2, <1>3, <4>1, <4>2 DEF Known
    <3> QED
      BY <3>2, <3>3
  <2> QED
    BY <2>1, <2>2, <1>5 DEF AllKnown, Known
<1>6. ASSUME NEW d \in DOMAIN tunnels', tunnels'[d].st = "Running"
      PROVE  tunnels'[d].tid \in live' \/ \E x \in Pending' : call'[x].of = d
  <2>1. CASE d = own
    BY <1>2, <1>3, <1>4, <1>6, <2>1
  <2>2. CASE d # own
    <3>1. tunnels[d].tid \in live \/ \E x \in Pending : call[x].of = d
      BY <1>2, <1>6, <2>2 DEF RunningLive
    <3> QED
      BY <1>2, <2>2, <3>1 DEF Moves, Pending
  <2> QED
    BY <2>1, <2>2
<1>7. AllKnown'
  BY <1>2, <1>5 DEF AllKnown
<1>8. RunningLive'
  BY <1>6 DEF RunningLive
<1> QED
  BY <1>7, <1>8

LEMMA ReachableTask ==
  ASSUME AgentAssumption, TypeOK, Facts, InTurn, ~overlap, panel = "open", AllKnown, RunningLive,
         NEW c \in Calls, Task(c)
  PROVE  AllKnown' /\ RunningLive'
<1>1. ASSUME Record(c), Moves(c, call[c].at, "done") PROVE AllKnown' /\ RunningLive'
  BY <1>1, ReachableRecord
<1>2. ASSUME tunnels' = tunnels, live' = live \cup {c}, Moves(c, "starting", "polling")
      PROVE  AllKnown' /\ RunningLive'
  <2>1. \A x \in Calls : HeldBy(x) => HeldBy(x)' /\ call'[x].tid = call[x].tid
    BY <1>2 DEF Moves, HeldBy
  <2>2. HeldBy(c)'
    BY <1>2 DEF Moves, HeldBy
  <2>3. AllKnown'
    BY <1>2, <2>1, <2>2 DEF AllKnown, Known
  <2>4. RunningLive'
    BY <1>2 DEF Moves, RunningLive, Pending
  <2> QED
    BY <2>3, <2>4
<1>3. ASSUME tunnels' = tunnels, live' = live, c \notin live,
             Moves(c, "starting", "failed") \/ Moves(c, "polling", "failed")
      PROVE  AllKnown' /\ RunningLive'
  <2>1. call[c].tid = NoTid
    BY <1>3 DEF Moves, Facts, CallFacts, Opening
  <2>2. AllKnown'
    BY <1>3, <2>1, NoTidIsNoEntry DEF Moves, AllKnown, Known, HeldBy
  <2>3. RunningLive'
    BY <1>3 DEF Moves, RunningLive, Pending
  <2> QED
    BY <2>2, <2>3
<1>4. ASSUME tunnels' = tunnels, live' = live,
             Moves(c, "polling", "opened") \/ Moves(c, "waiting", "done")
      PROVE  AllKnown' /\ RunningLive'
  <2>1. AllKnown'
    BY <1>4 DEF Moves, AllKnown, Known, HeldBy
  <2>2. call[c].at = "waiting" => \A d \in DOMAIN tunnels : call[c].of # d
    BY Rows DEF Facts, CallFacts
  <2>3. RunningLive'
    BY <1>4, <2>2 DEF Moves, RunningLive, Pending
  <2> QED
    BY <2>1, <2>3
<1>5. ASSUME tunnels' = tunnels, live' = live \ {call[c].tid}, Moves(c, "stopping", "stopped")
      PROVE  AllKnown' /\ RunningLive'
  <2>1. AllKnown'
    BY <1>5 DEF Moves, AllKnown, Known, HeldBy
  <2>2. ASSUME NEW d \in DOMAIN tunnels, tunnels[d].st = "Running"
        PROVE  tunnels[d].tid \in live' \/ \E x \in Pending' : call'[x].of = d
    <3>1. CASE tunnels[d].tid = call[c].tid
      <4>1. call[c].of = d
        BY <2>2, <3>1 DEF Facts, RunningFacts, CallFacts, AgentAssumption
      <4> QED
        BY <1>5, <4>1 DEF Moves, Pending
    <3>2. CASE tunnels[d].tid # call[c].tid
      BY <1>5, <2>2, <3>2 DEF Moves, RunningLive, Pending
    <3> QED
      BY <3>1, <3>2
  <2>3. RunningLive'
    BY <1>5, <2>2 DEF RunningLive
  <2> QED
    BY <2>1, <2>3
<1>6. call[c].at = "starting" => c \notin live
  BY DEF Facts, LiveFacts
<1> QED
  BY <1>1, <1>2, <1>3, <1>4, <1>5, <1>6, TaskMoves DEF Moves

LEMMA ReachableRest ==
  ASSUME AgentAssumption, TypeOK, AllKnown, RunningLive, Rest, panel' = "open"
  PROVE  AllKnown' /\ RunningLive'
<1>1. CASE /\ Create /\ live' = live /\ call' = call /\ panel' = panel /\ overlap' = overlap
  <2>1. AllKnown'
    BY <1>1, Created DEF AllKnown, Known, HeldBy
  <2>2. RunningLive'
    BY <1>1, Created DEF RunningLive, Pending
  <2> QED
    BY <2>1, <2>2
<1>2. ASSUME NEW c \in Calls, NEW tool \in Tools, RegistryOp(c, tool),
             tunnels' = tunnels, live' = live
      PROVE  AllKnown' /\ RunningLive'
  <2>1. AllKnown'
    BY <1>2, PageCall DEF AllKnown, Known, HeldBy
  <2>2. RunningLive'
    BY <1>2, PageCall DEF RunningLive, Pending
  <2> QED
    BY <2>1, <2>2
<1>3. ~DropPanel /\ ~DropStops
  BY DEF DropPanel, DropStops, Dropping
<1>4. CASE UNCHANGED <<tunnels, live, call, panel, overlap, todo, flying>>
  BY <1>4 DEF AllKnown, RunningLive, Known, HeldBy, Pending
<1> QED
  BY <1>1, <1>2, <1>3, <1>4 DEF Rest

-----------------------------------------------------------------------------
(* The panel's end.                                                        *)

LEMMA DropsStep == ASSUME TypeOK, Drops, [Next]_vars PROVE Drops'
<1> USE DEF panelVars
<1>1. CASE DropPanel
  BY <1>1 DEF DropPanel, Dropping, Drops
<1>2. CASE DropStops
  BY <1>2 DEF DropStops, Drops
<1>3. ASSUME NEW c \in Calls, Task(c) PROVE Drops'
  <2>1. \A x \in Calls : call'[x].at = "starting" => call[x].at = "starting"
    BY <1>3, TaskMoves DEF Moves
  <2>2. /\ panel' = panel /\ todo' = todo /\ flying' = flying
        /\ live' \subseteq live \/ (call[c].at = "starting" /\ live' = live \cup {c})
    BY <1>3, TaskMoves DEF Moves, Record
  <2> QED
    BY <2>1, <2>2 DEF Drops
<1>4. \/ panel' = "open"
      \/ DropPanel \/ DropStops \/ \E c \in Calls : Task(c)
      \/ UNCHANGED <<live, call, panel, todo, flying>>
  BY DEF Next, vars, Create, RegistryOp, Open, Close, Delete, Session, Reconnect, Drain, ConfigMoves
<1>5. CASE panel' = "open" \/ UNCHANGED <<live, call, panel, todo, flying>>
  BY <1>5 DEF Drops
<1> QED
  BY <1>1, <1>2, <1>3, <1>4, <1>5

-----------------------------------------------------------------------------
(* The theorem.                                                            *)

LEMMA Initially == ASSUME AgentAssumption, Init PROVE IInv
<1>1. TypeOK
  BY TypeInit
<1>2. tunnels = <<>> /\ DOMAIN tunnels = {} /\ live = {} /\ panel = "open"
  BY DEF Init
<1>3. \A c \in Calls : call[c].at = "idle" /\ call[c].tid = NoTid
  BY DEF Init, Idle
<1>4. Facts /\ InTurn /\ Drops
  BY <1>2, <1>3 DEF Facts, CallFacts, RunningFacts, LiveFacts, InTurn, Drops, Opening, Stopping,
     Pending
<1>5. TunnelsReachable
  BY <1>2 DEF TunnelsReachable
<1> QED
  BY <1>1, <1>4, <1>5 DEF IInv

LEMMA Inductive == ASSUME AgentAssumption, IInv, [Next]_vars PROVE IInv'
<1>0. TypeOK /\ Facts /\ InTurn /\ Drops
  BY DEF IInv
<1>1. TypeOK'
  BY <1>0, TypeStep
<1>2. Facts'
  BY <1>0, StepCases, FactsBegin, FactsTask, FactsRest
<1>3. overlap' = overlap /\ (panel' = "open" => panel = "open")
  BY DEF Next, vars, panelVars, Create, RegistryOp, Open, Close, Delete, Session, Reconnect, Drain,
     ConfigMoves, DropPanel, Dropping, DropStops, Task, StartSucceeds, StartFails, PollActive,
     PollTimesOut, StopEnds, Record, RegistryAnswers
<1>4. InTurn'
  <2>1. CASE overlap
    BY <1>3, <2>1 DEF InTurn
  <2>2. CASE ~overlap
    BY <1>0, <2>2, StepCases, InTurnBegin, InTurnTask, InTurnRest
  <2> QED
    BY <2>1, <2>2
<1>5. TunnelsReachable'
  <2>1. SUFFICES ASSUME ~overlap, panel' = "open", panel = "open" PROVE AllKnown' /\ RunningLive'
    BY <1>3 DEF TunnelsReachable, AllKnown, RunningLive
  <2>2. AllKnown /\ RunningLive
    BY <2>1 DEF IInv, TunnelsReachable, AllKnown, RunningLive
  <2> QED
    BY <1>0, <2>1, <2>2, StepCases, ReachableBegin, ReachableTask, ReachableRest
<1>6. Drops'
  BY <1>0, DropsStep
<1> QED
  BY <1>1, <1>2, <1>4, <1>5, <1>6 DEF IInv

\* When calls on one tunnel follow each other the agent can still close every tunnel its
\* manager has, and a definition that says Running is true unless a call is at work on it;
\* and whatever overlaps, a tunnel outlives the panel only if its start was under way when
\* the panel went (Drop for AiPanel) - for any number of calls and definitions.
THEOREM AgentHoldsItsTunnels == ASSUME AgentAssumption PROVE Spec => []TunnelsHeld
<1>1. Init => IInv
  BY Initially
<1>2. IInv /\ [Next]_vars => IInv'
  BY Inductive
<1>3. IInv => TunnelsHeld
  BY DEF IInv, TunnelsHeld, Drops, DropFreesPorts
<1> QED
  BY <1>1, <1>2, <1>3, PTL DEF Spec

-----------------------------------------------------------------------------
(* Sequences built by a recursive function.                                *)

LEMMA LeastExists ==
  ASSUME NEW S \in SUBSET Nat, S # {}
  PROVE  \E r \in S : \A q \in S : r <= q
<1> DEFINE R == OpToRel(<, Nat)
<1>1. IsWellFoundedOn(R, Nat)
  BY NatLessThanWellFounded
<1>2. \A p, q \in Nat : q < p => <<q, p>> \in R
  BY DEF OpToRel
<1> HIDE DEF R
<1>3. PICK r \in S : \A q \in S : ~(<<q, r>> \in R)
  BY <1>1, WFMin, Zenon
<1>4. ASSUME NEW q \in S PROVE r <= q
  <2>1. q \in Nat /\ r \in Nat
    OBVIOUS
  <2>2. ~(q < r)
    BY <1>2, <1>3, <2>1, Zenon
  <2> QED
    BY <2>1, <2>2
<1> QED
  BY <1>4

\* What is reached from 0 one by one.
LEMMA Climb ==
  ASSUME NEW N \in Nat, NEW S, 0 \in S, \A m \in 1..N : m - 1 \in S => m \in S
  PROVE  \A m \in 0..N : m \in S
<1> DEFINE Bad == {m \in 0..N : m \notin S}
<1> SUFFICES ASSUME Bad # {} PROVE FALSE
  OBVIOUS
<1>1. PICK r \in Bad : \A m \in Bad : r <= m
  <2>1. Bad \in SUBSET Nat
    OBVIOUS
  <2> HIDE DEF Bad
  <2> QED
    BY <2>1, LeastExists
<1>2. r \in 1..N /\ r - 1 \in 0..N /\ r \notin S /\ ~(r <= r - 1)
  OBVIOUS
<1>3. r - 1 \in S
  BY <1>1, <1>2
<1> QED
  BY <1>2, <1>3

\* A function on 0..N defined from its value before: G[i] takes it from i - 1 to i.
Rises(q, N, base, G) == \A i \in 0..N : q[i] = IF i = 0 THEN base ELSE G[i][q[i - 1]]

LEMMA Recursion ==
  ASSUME NEW V, NEW N \in Nat, NEW base \in V, NEW G \in [1..N -> [V -> V]]
  PROVE  \E q \in [0..N -> V] : Rises(q, N, base, G)
<1> DEFINE Up(q, m) == \A i \in 0..m : q[i] = IF i = 0 THEN base ELSE G[i][q[i - 1]]
           S == {m \in 0..N : \E q \in [0..m -> V] : Up(q, m)}
<1>1. 0 \in S
  <2> DEFINE q == [i \in 0..0 |-> base]
  <2>1. q \in [0..0 -> V] /\ Up(q, 0)
    OBVIOUS
  <2> HIDE DEF q
  <2>2. 0 \in 0..N
    OBVIOUS
  <2> QED
    BY <2>1, <2>2
<1>2. ASSUME NEW m \in 1..N, m - 1 \in S PROVE m \in S
  <2>1. PICK q \in [0..m - 1 -> V] : Up(q, m - 1)
    BY <1>2
  <2>2. q[m - 1] \in V /\ G[m][q[m - 1]] \in V
    OBVIOUS
  <2> DEFINE new == G[m][q[m - 1]]
             u == [i \in 0..m |-> IF i = m THEN new ELSE q[i]]
  <2>3. u \in [0..m -> V]
    <3> HIDE DEF new
    <3>1. new \in V
      BY <2>2 DEF new
    <3>2. \A i \in 0..m : i # m => q[i] \in V
      OBVIOUS
    <3> QED
      BY <3>1, <3>2
  <2>4. ASSUME NEW i \in 0..m PROVE u[i] = IF i = 0 THEN base ELSE G[i][u[i - 1]]
    <3>1. CASE i = m
      <4>1. u[i] = new /\ i # 0 /\ u[i - 1] = q[m - 1]
        BY <3>1
      <4> HIDE DEF u
      <4> QED
        BY <3>1, <4>1
    <3>2. CASE i # m
      <4>1. i \in 0..m - 1 /\ u[i] = q[i] /\ (i # 0 => u[i - 1] = q[i - 1])
        BY <3>2
      <4> HIDE DEF u
      <4> QED
        BY <2>1, <4>1
    <3> QED
      BY <3>1, <3>2
  <2> HIDE DEF u
  <2>5. m \in 0..N
    OBVIOUS
  <2> QED
    BY <2>3, <2>4, <2>5
<1> HIDE DEF Up
<1>3. \A m \in 0..N : m \in S
  <2> HIDE DEF S
  <2> QED
    BY <1>1, <1>2, Climb
<1> QED
  BY <1>3 DEF Up, Rises

-----------------------------------------------------------------------------
(* The elements of a sequence at chosen places.                            *)

Chosen(s, keep) == Stream!Chosen(s, keep)

\* The values a loop over s goes through that keeps what is at these places.
Runs(s, keep, S, c) ==
  /\ c \in [0..Len(s) -> Seq(S)] /\ c[0] = << >>
  /\ \A m \in 1..Len(s) : c[m] = IF m \in keep THEN Append(c[m - 1], s[m]) ELSE c[m - 1]

LEMMA ChosenRuns ==
  ASSUME NEW S, NEW s \in Seq(S), NEW keep
  PROVE  \E c : Runs(s, keep, S, c) /\ Chosen(s, keep) = c[Len(s)]
<1> DEFINE N == Len(s)
           Is(u) == u = [n \in 0..N |-> IF n = 0 THEN << >>
                                        ELSE IF n \in keep THEN Append(u[n - 1], s[n]) ELSE u[n - 1]]
<1>1. N \in Nat /\ \A m \in 1..N : s[m] \in S
  OBVIOUS
<1>2. \E u : u \in [0..N -> Seq(S)] /\ Is(u)
  <2> DEFINE G == [i \in 1..N |-> [v \in Seq(S) |-> IF i \in keep THEN Append(v, s[i]) ELSE v]]
  <2>1. G \in [1..N -> [Seq(S) -> Seq(S)]]
    BY <1>1
  <2>2. << >> \in Seq(S)
    OBVIOUS
  <2>3. \A i \in 1..N : \A v \in Seq(S) : G[i][v] = IF i \in keep THEN Append(v, s[i]) ELSE v
    OBVIOUS
  <2> HIDE DEF G
  <2>4. PICK q \in [0..N -> Seq(S)] : Rises(q, N, << >>, G)
    <3>1. N \in Nat
      BY <1>1
    <3> HIDE DEF N
    <3> QED
      BY <2>1, <2>2, <3>1, Recursion
  <2>5. ASSUME NEW n \in 0..N
        PROVE  q[n] = IF n = 0 THEN << >>
                      ELSE IF n \in keep THEN Append(q[n - 1], s[n]) ELSE q[n - 1]
    <3>1. CASE n = 0
      BY <2>4, <3>1 DEF Rises
    <3>2. CASE n # 0
      <4>1. n \in 1..N /\ n - 1 \in 0..N
        BY <1>1, <3>2
      <4>2. q[n - 1] \in Seq(S)
        BY <4>1
      <4>3. q[n] = G[n][q[n - 1]]
        BY <2>4, <3>2, Zenon DEF Rises
      <4> QED
        BY <2>3, <3>2, <4>1, <4>2, <4>3
    <3> QED
      BY <3>1, <3>2
  <2>6. Is(q)
    BY <2>5
  <2> QED
    BY <2>6
<1> DEFINE p == CHOOSE u : Is(u)
<1>3. Is(p)
  BY <1>2
<1>4. Chosen(s, keep) = p[N]
  BY DEF Chosen, Stream!Chosen
<1> HIDE DEF p
<1>5. \A n \in 0..N : p[n] = IF n = 0 THEN << >>
                             ELSE IF n \in keep THEN Append(p[n - 1], s[n]) ELSE p[n - 1]
  BY <1>3, Zenon
<1>6. /\ p[0] = << >>
      /\ \A m \in 1..N : p[m] = IF m \in keep THEN Append(p[m - 1], s[m]) ELSE p[m - 1]
  <2>1. 0 \in 0..N /\ \A m \in 1..N : m \in 0..N /\ m # 0
    BY <1>1
  <2> QED
    BY <1>5, <2>1
<1> DEFINE T == {m \in 0..N : p[m] \in Seq(S)}
<1>7. 0 \in T
  <2>1. p[0] \in Seq(S)
    BY <1>6
  <2>2. 0 \in 0..N
    BY <1>1
  <2> QED
    BY <2>1, <2>2
<1>8. ASSUME NEW m \in 1..N, m - 1 \in T PROVE m \in T
  <2>1. p[m - 1] \in Seq(S) /\ s[m] \in S /\ m \in 0..N
    BY <1>1, <1>8
  <2>2. p[m] = IF m \in keep THEN Append(p[m - 1], s[m]) ELSE p[m - 1]
    BY <1>6
  <2>3. p[m] \in Seq(S)
    BY <2>1, <2>2, AppendProperties
  <2> QED
    BY <2>1, <2>3
<1>9. \A m \in 0..N : m \in T
  <2> HIDE DEF T, N
  <2> QED
    BY <1>1, <1>7, <1>8, Climb
<1>10. p \in [0..N -> Seq(S)]
  <2>1. p = [n \in 0..N |-> p[n]]
    BY <1>3
  <2> QED
    BY <1>9, <2>1
<1>11. Runs(s, keep, S, p)
  BY <1>6, <1>10 DEF Runs
<1> QED
  BY <1>4, <1>11

LEMMA ChosenType ==
  ASSUME NEW S, NEW s \in Seq(S), NEW keep
  PROVE  Chosen(s, keep) \in Seq(S)
<1>1. PICK c : Runs(s, keep, S, c) /\ Chosen(s, keep) = c[Len(s)]
  BY ChosenRuns
<1>2. Len(s) \in 0..Len(s) /\ c \in [0..Len(s) -> Seq(S)]
  BY <1>1 DEF Runs
<1> QED
  BY <1>1, <1>2

\* What comes after, when it is not chosen, changes nothing.
LEMMA ChosenAgree ==
  ASSUME NEW S, NEW s \in Seq(S), NEW keep, NEW r \in Seq(S), NEW also,
         Len(s) <= Len(r),
         \A i \in 1..Len(s) : s[i] = r[i] /\ (i \in keep <=> i \in also),
         \A i \in Len(s) + 1..Len(r) : i \notin also
  PROVE  Chosen(s, keep) = Chosen(r, also)
<1>1. PICK c : Runs(s, keep, S, c) /\ Chosen(s, keep) = c[Len(s)]
  BY ChosenRuns
<1>2. PICK d : Runs(r, also, S, d) /\ Chosen(r, also) = d[Len(r)]
  BY ChosenRuns
<1> DEFINE M == Len(s)
           N == Len(r)
<1>3. M \in Nat /\ N \in Nat /\ M <= N
  OBVIOUS
<1>4. \A m \in 1..M : c[m] = IF m \in keep THEN Append(c[m - 1], s[m]) ELSE c[m - 1]
  BY <1>1 DEF Runs
<1>5. \A m \in 1..N : d[m] = IF m \in also THEN Append(d[m - 1], r[m]) ELSE d[m - 1]
  BY <1>2 DEF Runs
<1>6. c[0] = << >> /\ d[0] = << >>
  BY <1>1, <1>2 DEF Runs
<1>7. \A i \in 1..M : s[i] = r[i] /\ (i \in keep <=> i \in also)
  OBVIOUS
<1>8. \A i \in M + 1..N : i \notin also
  OBVIOUS
<1> HIDE DEF M, N
<1> DEFINE T == {m \in 0..N : d[m] = c[IF m <= M THEN m ELSE M]}
<1>9. 0 \in T
  BY <1>3, <1>6
<1>10. ASSUME NEW m \in 1..N, m - 1 \in T PROVE m \in T
  <2>1. m \in Nat /\ m \in 0..N /\ d[m - 1] = c[IF m - 1 <= M THEN m - 1 ELSE M]
    BY <1>3, <1>10
  <2>2. CASE m <= M
    <3>1. m \in 1..M /\ m - 1 <= M
      BY <1>3, <2>1, <2>2
    <3>2. d[m] = c[m]
      BY <1>4, <1>5, <1>7, <2>1, <3>1
    <3> QED
      BY <2>1, <2>2, <3>2
  <2>3. CASE ~(m <= M)
    <3>1. m \in M + 1..N /\ (m - 1 <= M => m - 1 = M)
      <4>1. m \in Nat /\ m <= N /\ M < m
        BY <1>3, <2>3
      <4> QED
        BY <1>3, <4>1
    <3>2. d[m] = d[m - 1]
      BY <1>5, <1>8, <3>1
    <3> QED
      BY <2>1, <2>3, <3>1, <3>2
  <2> QED
    BY <2>2, <2>3
<1>11. \A m \in 0..N : m \in T
  <2> HIDE DEF T
  <2> QED
    BY <1>3, <1>9, <1>10, Climb
<1>12. N \in 0..N /\ (IF N <= M THEN N ELSE M) = M
  BY <1>3
<1>13. d[N] = c[M]
  BY <1>11, <1>12
<1> QED
  BY <1>1, <1>2, <1>13 DEF M, N

LEMMA ChosenNone ==
  ASSUME NEW S, NEW s \in Seq(S), NEW keep, \A i \in 1..Len(s) : i \notin keep
  PROVE  Chosen(s, keep) = << >>
<1>1. PICK c : Runs(<< >>, {}, S, c) /\ Chosen(<< >>, {}) = c[Len(<< >>)]
  <2>1. << >> \in Seq(S)
    OBVIOUS
  <2> QED
    BY <2>1, ChosenRuns
<1>2. Chosen(<< >>, {}) = << >>
  BY <1>1 DEF Runs
<1>3. << >> \in Seq(S) /\ Len(<< >>) = 0 /\ Len(s) \in Nat
  OBVIOUS
<1>4. Chosen(<< >>, {}) = Chosen(s, keep)
  <2> DEFINE e == << >>
  <2>1. /\ e \in Seq(S) /\ Len(e) <= Len(s)
        /\ \A i \in 1..Len(e) : e[i] = s[i] /\ (i \in {} <=> i \in keep)
        /\ \A i \in Len(e) + 1..Len(s) : i \notin keep
    BY <1>3
  <2> HIDE DEF e
  <2>2. Chosen(e, {}) = Chosen(s, keep)
    BY <2>1, ChosenAgree
  <2> QED
    BY <2>2 DEF e
<1> QED
  BY <1>2, <1>4

\* One more element at the end.
LEMMA ChosenMore ==
  ASSUME NEW S, NEW s \in Seq(S), NEW keep, NEW r \in Seq(S), NEW also,
         Len(r) = Len(s) + 1,
         \A i \in 1..Len(s) : s[i] = r[i] /\ (i \in keep <=> i \in also)
  PROVE  Chosen(r, also) = IF Len(r) \in also THEN Append(Chosen(s, keep), r[Len(r)])
                           ELSE Chosen(s, keep)
<1>1. PICK d : Runs(r, also, S, d) /\ Chosen(r, also) = d[Len(r)]
  BY ChosenRuns
<1> DEFINE less == also \ {Len(r)}
<1>2. PICK e : Runs(r, less, S, e) /\ Chosen(r, less) = e[Len(r)]
  BY ChosenRuns
<1>3. Chosen(s, keep) = Chosen(r, less)
  <2>1. /\ Len(s) <= Len(r) /\ \A i \in 1..Len(s) : s[i] = r[i] /\ (i \in keep <=> i \in less)
        /\ \A i \in Len(s) + 1..Len(r) : i \notin less
    OBVIOUS
  <2> HIDE DEF less
  <2> QED
    BY <2>1, ChosenAgree
<1> DEFINE N == Len(r)
<1>4. N \in Nat /\ N >= 1
  OBVIOUS
<1>5. /\ e[0] = << >> /\ d[0] = << >>
      /\ \A m \in 1..N : d[m] = IF m \in also THEN Append(d[m - 1], r[m]) ELSE d[m - 1]
      /\ \A m \in 1..N : e[m] = IF m \in less THEN Append(e[m - 1], r[m]) ELSE e[m - 1]
  BY <1>1, <1>2 DEF Runs
<1>6. \A m \in 1..N : m \in less <=> (m \in also /\ m # N)
  OBVIOUS
<1> HIDE DEF N, less
<1> DEFINE T == {m \in 0..N - 1 : d[m] = e[m]}
<1>7. 0 \in T
  BY <1>4, <1>5
<1>8. ASSUME NEW m \in 1..N - 1, m - 1 \in T PROVE m \in T
  <2>1. m \in 1..N /\ m # N /\ m \in 0..N - 1
    BY <1>4
  <2> QED
    BY <1>5, <1>6, <1>8, <2>1
<1>9. \A m \in 0..N - 1 : m \in T
  <2>1. N - 1 \in Nat
    BY <1>4
  <2> HIDE DEF T
  <2> QED
    BY <1>7, <1>8, <2>1, Climb
<1>10. d[N - 1] = e[N - 1] /\ N \in 1..N
  BY <1>4, <1>9
<1>11. e[N] = e[N - 1]
  BY <1>5, <1>6, <1>10
<1>12. d[N] = IF N \in also THEN Append(e[N], r[N]) ELSE e[N]
  BY <1>5, <1>10, <1>11
<1> QED
  BY <1>1, <1>2, <1>3, <1>12 DEF N

\* The first element, then those of the rest.
LEMMA ChosenFirst ==
  ASSUME NEW S, NEW s \in Seq(S), s # << >>, NEW keep, NEW rest,
         \A i \in 1..Len(s) - 1 : i \in rest <=> i + 1 \in keep
  PROVE  Chosen(s, keep) = (IF 1 \in keep THEN <<s[1]>> ELSE << >>) \o Chosen(Tail(s), rest)
<1> DEFINE u == Tail(s)
           N == Len(u)
           f == IF 1 \in keep THEN <<s[1]>> ELSE << >>
<1>1. u \in Seq(S) /\ Len(s) = N + 1 /\ N \in Nat /\ \A i \in 1..N : u[i] = s[i + 1]
  BY HeadTailProperties
<1>2. PICK c : Runs(s, keep, S, c) /\ Chosen(s, keep) = c[Len(s)]
  BY ChosenRuns
<1>3. PICK d : Runs(u, rest, S, d) /\ Chosen(u, rest) = d[N]
  BY <1>1, ChosenRuns
<1>4. /\ c[0] = << >> /\ d[0] = << >> /\ d \in [0..N -> Seq(S)]
      /\ \A m \in 1..N + 1 : c[m] = IF m \in keep THEN Append(c[m - 1], s[m]) ELSE c[m - 1]
      /\ \A m \in 1..N : d[m] = IF m \in rest THEN Append(d[m - 1], u[m]) ELSE d[m - 1]
  BY <1>1, <1>2, <1>3 DEF Runs
<1>5. f \in Seq(S) /\ s[1] \in S /\ \A m \in 1..N + 1 : s[m] \in S
  BY <1>1
<1>6. \A i \in 1..N : i \in rest <=> i + 1 \in keep
  <2>1. Len(s) - 1 = N
    BY <1>1
  <2> QED
    BY <2>1
<1>7. c[1] = f
  <2>1. 1 \in 1..N + 1 /\ 1 - 1 = 0
    BY <1>1
  <2>2. c[1] = IF 1 \in keep THEN Append(<< >>, s[1]) ELSE << >>
    BY <1>4, <2>1
  <2>3. Append(<< >>, s[1]) = <<s[1]>>
    OBVIOUS
  <2> QED
    BY <2>2, <2>3
<1> HIDE DEF u, N, f
<1> DEFINE T == {m \in 0..N : c[m + 1] = f \o d[m]}
<1>8. 0 \in T
  <2>1. f \o << >> = f
    BY <1>5, ConcatEmptySeq
  <2>2. c[0 + 1] = f \o d[0]
    BY <1>4, <1>7, <2>1
  <2>3. 0 \in 0..N
    BY <1>1
  <2> QED
    BY <2>2, <2>3
<1>9. ASSUME NEW m \in 1..N, m - 1 \in T PROVE m \in T
  <2>1. /\ m + 1 \in 1..N + 1 /\ (m + 1) - 1 = m /\ (m - 1) + 1 = m /\ m \in 0..N /\ m - 1 \in 0..N
        /\ u[m] = s[m + 1]
    BY <1>1
  <2>2. c[m] = f \o d[m - 1] /\ d[m - 1] \in Seq(S) /\ u[m] \in S
    BY <1>4, <1>5, <1>9, <2>1
  <2>3. c[m + 1] = IF m + 1 \in keep THEN Append(c[m], u[m]) ELSE c[m]
    BY <1>4, <2>1
  <2>4. d[m] = IF m + 1 \in keep THEN Append(d[m - 1], u[m]) ELSE d[m - 1]
    BY <1>4, <1>6
  <2>5. Append(f \o d[m - 1], u[m]) = f \o Append(d[m - 1], u[m])
    <3> DEFINE w == d[m - 1]
               x == u[m]
    <3>1. w \in Seq(S) /\ x \in S
      BY <2>2
    <3> HIDE DEF w, x
    <3>2. Append(w, x) = w \o <<x>> /\ <<x>> \in Seq(S)
      BY <3>1, AppendIsConcat
    <3>3. f \o w \in Seq(S)
      BY <1>5, <3>1, ConcatProperties
    <3>4. Append(f \o w, x) = (f \o w) \o <<x>>
      BY <3>1, <3>3, AppendIsConcat
    <3>5. (f \o w) \o <<x>> = f \o (w \o <<x>>)
      BY <1>5, <3>1, <3>2, ConcatAssociative
    <3>6. Append(f \o w, x) = f \o Append(w, x)
      BY <3>2, <3>4, <3>5, Zenon
    <3> QED
      BY <3>6 DEF w, x
  <2>6. c[m + 1] = f \o d[m]
    BY <2>2, <2>3, <2>4, <2>5
  <2> QED
    BY <2>1, <2>6
<1>10. \A m \in 0..N : m \in T
  <2> HIDE DEF T
  <2> QED
    BY <1>1, <1>8, <1>9, Climb
<1>11. c[N + 1] = f \o d[N] /\ Len(s) = N + 1
  BY <1>1, <1>10
<1> QED
  BY <1>2, <1>3, <1>11 DEF u, f, N

-----------------------------------------------------------------------------
(* A response and what is kept of it.                                      *)

Token == Nat \X Nat
ChunkType == [kind : {"content", "reasoning", "call"}, index : Nat, named : BOOLEAN, args : BOOLEAN]
SlotType == [announced : BOOLEAN, args : Seq(Token)]
Texts == Stream!Texts

\* Stream!SentText and Stream!SentCalls of a response w.
OfKind(w, t) == {n \in DOMAIN w : w[n].kind = t}
OfCall(w, i) == {n \in DOMAIN w : w[n].kind = "call" /\ w[n].index + 1 = i}
TextIn(g, w, t) == Chosen(Stream!Pieces(g, w), OfKind(w, t))
ArgsIn(g, w, i) == Chosen(Stream!Pieces(g, w), {n \in OfCall(w, i) : w[n].args})
NamedIn(w, i) == \E n \in OfCall(w, i) : w[n].named
CallsIn(g, w) == Chosen([i \in 1..MaxCalls |-> ArgsIn(g, w, i)], {i \in 1..MaxCalls : NamedIn(w, i)})

LEMMA SentIs ==
  ASSUME NEW g
  PROVE  /\ \A t : Stream!SentText(g, t) = TextIn(g, streams[g].wire, t)
         /\ Stream!SentCalls(g) = CallsIn(g, streams[g].wire)
  BY DEF Stream!SentText, Stream!SentCalls, TextIn, CallsIn, ArgsIn, NamedIn, OfKind, OfCall, Chosen

LEMMA ChunksTyped == MCChunks \subseteq ChunkType
  BY DEF MCChunks, Chunk, ChunkType

LEMMA PiecesAre ==
  ASSUME NEW g \in Nat, NEW w \in Seq(ChunkType)
  PROVE  /\ Stream!Pieces(g, w) \in Seq(Token) /\ Len(Stream!Pieces(g, w)) = Len(w) /\ Len(w) \in Nat
         /\ \A n \in 1..Len(w) : Stream!Pieces(g, w)[n] = <<g, n>>
<1>1. Len(w) \in Nat /\ DOMAIN w = 1..Len(w)
  OBVIOUS
<1>2. Stream!Pieces(g, w) = [n \in 1..Len(w) |-> <<g, n>>]
  BY <1>1 DEF Stream!Pieces
<1>3. \A n \in 1..Len(w) : <<g, n>> \in Token
  BY <1>1 DEF Token
<1> DEFINE p == [n \in 1..Len(w) |-> <<g, n>>]
<1>4. p \in [1..Len(w) -> Token]
  BY <1>3
<1>5. p \in Seq(Token) /\ Len(p) = Len(w) /\ \A n \in 1..Len(w) : p[n] = <<g, n>>
  BY <1>1, <1>4
<1> QED
  BY <1>1, <1>2, <1>5

\* One chunk more.
LEMMA OneMore ==
  ASSUME NEW g \in Nat, NEW w \in Seq(ChunkType), NEW c \in ChunkType, NEW keep, NEW also,
         \A n \in 1..Len(w) : n \in keep <=> n \in also
  PROVE  Chosen(Stream!Pieces(g, Append(w, c)), also) =
           IF Len(w) + 1 \in also THEN Append(Chosen(Stream!Pieces(g, w), keep), <<g, Len(w) + 1>>)
           ELSE Chosen(Stream!Pieces(g, w), keep)
<1> DEFINE p == Stream!Pieces(g, w)
           v == Append(w, c)
           q == Stream!Pieces(g, v)
<1>1. v \in Seq(ChunkType) /\ Len(v) = Len(w) + 1 /\ Len(w) \in Nat
  OBVIOUS
<1>2. p \in Seq(Token) /\ Len(p) = Len(w) /\ \A n \in 1..Len(w) : p[n] = <<g, n>>
  BY PiecesAre
<1> HIDE DEF v
<1>3. q \in Seq(Token) /\ Len(q) = Len(v) /\ \A n \in 1..Len(v) : q[n] = <<g, n>>
  BY <1>1, PiecesAre
<1> HIDE DEF p, q
<1>4. \A i \in 1..Len(p) : p[i] = q[i] /\ (i \in keep <=> i \in also)
  <2>1. \A i \in 1..Len(w) : i \in 1..Len(v)
    BY <1>1
  <2>2. \A i \in 1..Len(w) : p[i] = q[i]
    BY <1>2, <1>3, <2>1
  <2> QED
    BY <1>2, <2>2
<1>5. Chosen(q, also) = IF Len(q) \in also THEN Append(Chosen(p, keep), q[Len(q)]) ELSE Chosen(p, keep)
  <2>1. Len(q) = Len(p) + 1
    BY <1>1, <1>2, <1>3
  <2> QED
    BY <1>2, <1>3, <1>4, <2>1, ChosenMore
<1>6. Len(q) = Len(w) + 1 /\ q[Len(q)] = <<g, Len(w) + 1>>
  BY <1>1, <1>3
<1> QED
  BY <1>5, <1>6 DEF p, q, v

LEMMA WireMore ==
  ASSUME NEW g \in Nat, NEW w \in Seq(ChunkType), NEW c \in ChunkType
  PROVE  LET v == Append(w, c)
             piece == <<g, Len(w) + 1>>
         IN  /\ v \in Seq(ChunkType)
             /\ \A t : TextIn(g, v, t) = IF c.kind = t THEN Append(TextIn(g, w, t), piece)
                                         ELSE TextIn(g, w, t)
             /\ \A i \in Nat :
                  LET here == c.kind = "call" /\ c.index + 1 = i IN
                  /\ OfCall(v, i) = OfCall(w, i) \cup (IF here THEN {Len(w) + 1} ELSE {})
                  /\ NamedIn(v, i) <=> NamedIn(w, i) \/ (here /\ c.named)
                  /\ ArgsIn(g, v, i) = IF here /\ c.args THEN Append(ArgsIn(g, w, i), piece)
                                       ELSE ArgsIn(g, w, i)
<1> DEFINE v == Append(w, c)
           N == Len(w) + 1
           piece == <<g, N>>
<1>1. /\ v \in Seq(ChunkType) /\ Len(w) \in Nat /\ DOMAIN v = 1..N /\ DOMAIN w = 1..Len(w)
      /\ v[N] = c /\ \A n \in 1..Len(w) : v[n] = w[n]
  OBVIOUS
<1>2. N \in 1..N /\ N \notin 1..Len(w) /\ \A n : n \in 1..N <=> n \in 1..Len(w) \/ n = N
  BY <1>1
<1> HIDE DEF v
<1>3. ASSUME NEW t
      PROVE  TextIn(g, v, t) = IF c.kind = t THEN Append(TextIn(g, w, t), piece) ELSE TextIn(g, w, t)
  <2> DEFINE keep == OfKind(w, t)
             also == OfKind(v, t)
  <2>1. (\A n \in 1..Len(w) : n \in keep <=> n \in also) /\ (N \in also <=> c.kind = t)
    BY <1>1, <1>2 DEF OfKind
  <2> HIDE DEF keep, also
  <2>2. Chosen(Stream!Pieces(g, v), also) =
          IF N \in also THEN Append(Chosen(Stream!Pieces(g, w), keep), piece)
          ELSE Chosen(Stream!Pieces(g, w), keep)
    BY <2>1, OneMore DEF v
  <2> QED
    BY <2>1, <2>2 DEF TextIn, keep, also
<1>4. ASSUME NEW i \in Nat
      PROVE  LET here == c.kind = "call" /\ c.index + 1 = i IN
             /\ OfCall(v, i) = OfCall(w, i) \cup (IF here THEN {N} ELSE {})
             /\ NamedIn(v, i) <=> NamedIn(w, i) \/ (here /\ c.named)
             /\ ArgsIn(g, v, i) = IF here /\ c.args THEN Append(ArgsIn(g, w, i), piece)
                                  ELSE ArgsIn(g, w, i)
  <2> DEFINE here == c.kind = "call" /\ c.index + 1 = i
             keep == {n \in OfCall(w, i) : w[n].args}
             also == {n \in OfCall(v, i) : v[n].args}
  <2>1. \A n : n \in OfCall(v, i) <=> n \in OfCall(w, i) \/ (n = N /\ here)
    BY <1>1, <1>2 DEF OfCall
  <2>2. \A n \in OfCall(w, i) : n \in 1..Len(w) /\ v[n] = w[n]
    BY <1>1 DEF OfCall
  <2>3. OfCall(v, i) = OfCall(w, i) \cup (IF here THEN {N} ELSE {})
    BY <2>1
  <2>4. NamedIn(v, i) <=> NamedIn(w, i) \/ (here /\ c.named)
    BY <1>1, <2>1, <2>2 DEF NamedIn
  <2>5. (\A n \in 1..Len(w) : n \in keep <=> n \in also) /\ (N \in also <=> here /\ c.args)
    BY <1>1, <1>2, <2>1, <2>2
  <2> HIDE DEF keep, also, here
  <2>6. Chosen(Stream!Pieces(g, v), also) =
          IF N \in also THEN Append(Chosen(Stream!Pieces(g, w), keep), piece)
          ELSE Chosen(Stream!Pieces(g, w), keep)
    BY <2>5, OneMore DEF v
  <2>7. ArgsIn(g, v, i) = IF here /\ c.args THEN Append(ArgsIn(g, w, i), piece) ELSE ArgsIn(g, w, i)
    BY <2>5, <2>6 DEF ArgsIn, keep, also
  <2> QED
    BY <2>3, <2>4, <2>7 DEF here
<1> QED
  BY <1>1, <1>3, <1>4 DEF v

LEMMA WireTyped ==
  ASSUME NEW g \in Nat, NEW w \in Seq(ChunkType)
  PROVE  /\ \A t : TextIn(g, w, t) \in Seq(Token)
         /\ \A i : ArgsIn(g, w, i) \in Seq(Token)
         /\ \A i : OfCall(w, i) = {} => ArgsIn(g, w, i) = << >> /\ ~NamedIn(w, i)
<1>1. Stream!Pieces(g, w) \in Seq(Token)
  BY PiecesAre
<1> DEFINE p == Stream!Pieces(g, w)
<1> HIDE DEF p
<1>2. p \in Seq(Token)
  BY <1>1 DEF p
<1>3. ASSUME NEW i, OfCall(w, i) = {} PROVE ArgsIn(g, w, i) = << >> /\ ~NamedIn(w, i)
  <2> DEFINE keep == {n \in OfCall(w, i) : w[n].args}
  <2>1. keep = {}
    BY <1>3
  <2>2. Chosen(p, {}) = << >>
    BY <1>2, ChosenNone
  <2> QED
    BY <1>3, <2>1, <2>2 DEF ArgsIn, NamedIn, p
<1> QED
  BY <1>2, <1>3, ChosenType DEF TextIn, ArgsIn, p

\* What the accumulator keeps of a response: all its text, and every call by its index.
Kept(g, w, acc) ==
  /\ acc \in [text : [Texts -> Seq(Token)], slots : Seq(SlotType)]
  /\ \A t \in Texts : acc.text[t] = TextIn(g, w, t)
  /\ Len(acc.slots) <= MaxCalls
  /\ \A i \in 1..Len(acc.slots) :
       acc.slots[i].announced = NamedIn(w, i) /\ acc.slots[i].args = ArgsIn(g, w, i)
  /\ \A i \in 1..MaxCalls : i > Len(acc.slots) => OfCall(w, i) = {}

LEMMA FinishedIs ==
  ASSUME NEW g \in Nat, NEW w \in Seq(ChunkType), NEW acc, Kept(g, w, acc)
  PROVE  /\ Stream!Finished(acc).text \in [Texts -> Seq(Token)]
         /\ \A t \in Texts : Stream!Finished(acc).text[t] = TextIn(g, w, t)
         /\ Stream!Finished(acc).calls = CallsIn(g, w)
         /\ Stream!Finished(acc).kind = "ok"
<1> DEFINE slots == acc.slots
           N == Len(slots)
           s == [i \in DOMAIN slots |-> slots[i].args]
           keep == {i \in DOMAIN slots : slots[i].announced}
           r == [i \in 1..MaxCalls |-> ArgsIn(g, w, i)]
           also == {i \in 1..MaxCalls : NamedIn(w, i)}
<1>1. slots \in Seq(SlotType) /\ N \in Nat /\ DOMAIN slots = 1..N /\ MaxCalls \in Nat /\ N <= MaxCalls
  <2>1. slots \in Seq(SlotType)
    BY DEF Kept
  <2>2. MaxCalls \in Nat
    BY MCAssumption DEF Stream!AiStreamAssumption
  <2> QED
    BY <2>1, <2>2 DEF Kept
<1>2. \A i \in 1..N : slots[i].announced = NamedIn(w, i) /\ slots[i].args = ArgsIn(g, w, i)
  BY DEF Kept
<1>3. \A i \in 1..MaxCalls : i > N => OfCall(w, i) = {}
  BY DEF Kept
<1> HIDE DEF slots, N
<1>4. s \in Seq(Seq(Token)) /\ Len(s) = N
  <2>1. s = [i \in 1..N |-> slots[i].args]
    BY <1>1
  <2>2. \A i \in 1..N : slots[i].args \in Seq(Token)
    BY <1>2, WireTyped
  <2> QED
    BY <1>1, <2>1, <2>2
<1>5. r \in Seq(Seq(Token)) /\ Len(r) = MaxCalls
  <2>1. \A i \in 1..MaxCalls : ArgsIn(g, w, i) \in Seq(Token)
    BY WireTyped
  <2> QED
    BY <1>1, <2>1
<1>6. \A i \in 1..N : s[i] = r[i] /\ (i \in keep <=> i \in also)
  BY <1>1, <1>2
<1>7. \A i \in N + 1..MaxCalls : i \notin also
  <2> SUFFICES ASSUME NEW i \in N + 1..MaxCalls PROVE ~NamedIn(w, i)
    OBVIOUS
  <2>1. OfCall(w, i) = {}
    BY <1>1, <1>3
  <2> QED
    BY <2>1, WireTyped
<1>8. Chosen(s, keep) = Chosen(r, also)
  <2> HIDE DEF s, keep, r, also
  <2>1. /\ Len(s) <= Len(r) /\ \A i \in 1..Len(s) : s[i] = r[i] /\ (i \in keep <=> i \in also)
        /\ \A i \in Len(s) + 1..Len(r) : i \notin also
    BY <1>1, <1>4, <1>5, <1>6, <1>7
  <2> DEFINE A == Seq(Token)
  <2>2. s \in Seq(A) /\ r \in Seq(A)
    BY <1>4, <1>5
  <2> HIDE DEF A
  <2> QED
    BY <2>1, <2>2, ChosenAgree
<1>9. Stream!Finished(acc) = [kind |-> "ok", text |-> acc.text, calls |-> Chosen(s, keep)]
  BY DEF Stream!Finished, Chosen, slots
<1> QED
  BY <1>8, <1>9 DEF Kept, CallsIn

LEMMA PaddedIs ==
  ASSUME NEW slots \in Seq(SlotType), NEW n \in Nat
  PROVE  LET p == Stream!Padded(slots, n) IN
         /\ p \in Seq(SlotType) /\ Len(p) = IF n > Len(slots) THEN n ELSE Len(slots)
         /\ \A i \in 1..Len(slots) : p[i] = slots[i]
         /\ \A i \in 1..Len(p) : i > Len(slots) => p[i] = Stream!Slot
<1> DEFINE k == IF n > Len(slots) THEN n - Len(slots) ELSE 0
           more == [i \in 1..k |-> Stream!Slot]
           p == slots \o more
<1>1. Len(slots) \in Nat /\ k \in Nat /\ Len(slots) + k = IF n > Len(slots) THEN n ELSE Len(slots)
  OBVIOUS
<1>2. Stream!Slot \in SlotType
  BY DEF Stream!Slot, SlotType
<1>3. more \in Seq(SlotType) /\ Len(more) = k /\ \A i \in 1..k : more[i] = Stream!Slot
  <2> HIDE DEF k
  <2> QED
    BY <1>1, <1>2
<1>4. Stream!Padded(slots, n) = p
  BY DEF Stream!Padded
<1> HIDE DEF more, k
<1>5. p \in Seq(SlotType) /\ Len(p) = Len(slots) + Len(more)
  BY <1>3, ConcatProperties, Zenon
<1>6. \A i \in 1..Len(slots) + Len(more) :
        p[i] = IF i <= Len(slots) THEN slots[i] ELSE more[i - Len(slots)]
  BY <1>3, ConcatProperties
<1> HIDE DEF p
<1>7. \A i \in 1..Len(slots) : p[i] = slots[i]
  BY <1>1, <1>3, <1>6
<1>8. ASSUME NEW i \in 1..Len(p), i > Len(slots) PROVE p[i] = Stream!Slot
  <2>1. i - Len(slots) \in 1..k /\ i \in 1..Len(slots) + Len(more) /\ ~(i <= Len(slots))
    BY <1>1, <1>3, <1>5, <1>8
  <2> QED
    BY <1>3, <1>6, <2>1
<1> QED
  BY <1>1, <1>3, <1>4, <1>5, <1>7, <1>8

LEMMA TakenKeeps ==
  ASSUME NEW g \in Nat, NEW w \in Seq(ChunkType), NEW c \in ChunkType, NEW acc, Kept(g, w, acc),
         c.kind = "call" => c.index < MaxCalls
  PROVE  Kept(g, Append(w, c), Stream!Taken(acc, c, <<g, Len(w) + 1>>))
<1> DEFINE v == Append(w, c)
           piece == <<g, Len(w) + 1>>
           next == Stream!Taken(acc, c, piece)
<1>1. /\ v \in Seq(ChunkType)
      /\ \A t : TextIn(g, v, t) = IF c.kind = t THEN Append(TextIn(g, w, t), piece)
                                  ELSE TextIn(g, w, t)
  BY WireMore
<1>2. \A i \in Nat :
        LET here == c.kind = "call" /\ c.index + 1 = i IN
        /\ OfCall(v, i) = OfCall(w, i) \cup (IF here THEN {Len(w) + 1} ELSE {})
        /\ NamedIn(v, i) <=> NamedIn(w, i) \/ (here /\ c.named)
        /\ ArgsIn(g, v, i) = IF here /\ c.args THEN Append(ArgsIn(g, w, i), piece)
                             ELSE ArgsIn(g, w, i)
  BY WireMore
<1>3. piece \in Token
  BY DEF Token
<1>4. MaxCalls \in Nat
  BY MCAssumption DEF Stream!AiStreamAssumption
<1>5. /\ acc \in [text : [Texts -> Seq(Token)], slots : Seq(SlotType)]
      /\ \A t \in Texts : acc.text[t] = TextIn(g, w, t)
      /\ Len(acc.slots) <= MaxCalls
      /\ \A i \in 1..Len(acc.slots) :
           acc.slots[i].announced = NamedIn(w, i) /\ acc.slots[i].args = ArgsIn(g, w, i)
      /\ \A i \in 1..MaxCalls : i > Len(acc.slots) => OfCall(w, i) = {}
  BY DEF Kept
<1>6. acc.slots \in Seq(SlotType) /\ acc.text \in [Texts -> Seq(Token)] /\ Len(acc.slots) \in Nat
  <2>1. acc.slots \in Seq(SlotType) /\ acc.text \in [Texts -> Seq(Token)]
    BY <1>5
  <2> QED
    BY <2>1
<1> HIDE DEF v, piece
<1>7. CASE c.kind \in Texts
  <2>1. next = [acc EXCEPT !.text[c.kind] = Append(@, piece)]
    BY <1>7 DEF Stream!Taken, Texts
  <2>2. next.slots = acc.slots /\ next.text = [acc.text EXCEPT ![c.kind] = Append(@, piece)]
        /\ next = [text |-> next.text, slots |-> acc.slots]
    BY <1>5, <2>1
  <2>3. next.text \in [Texts -> Seq(Token)]
        /\ \A t \in Texts : next.text[t] = IF t = c.kind THEN Append(acc.text[t], piece) ELSE acc.text[t]
    BY <1>3, <1>6, <1>7, <2>2
  <2>4. c.kind # "call"
    BY <1>7 DEF Texts, Stream!Texts
  <2>5. \A i \in Nat : OfCall(v, i) = OfCall(w, i) /\ (NamedIn(v, i) <=> NamedIn(w, i))
                       /\ ArgsIn(g, v, i) = ArgsIn(g, w, i)
    BY <1>2, <2>4
  <2>6. \A i \in 1..Len(acc.slots) : NamedIn(v, i) = NamedIn(w, i) /\ ArgsIn(g, v, i) = ArgsIn(g, w, i)
    <3> SUFFICES ASSUME NEW i \in Nat
                 PROVE  NamedIn(v, i) = NamedIn(w, i) /\ ArgsIn(g, v, i) = ArgsIn(g, w, i)
      BY <1>6
    <3>1. NamedIn(v, i) <=> NamedIn(w, i)
      BY <2>5
    <3>2. NamedIn(v, i) \in BOOLEAN /\ NamedIn(w, i) \in BOOLEAN
      BY DEF NamedIn
    <3> QED
      BY <2>5, <3>1, <3>2
  <2>7. \A i \in 1..MaxCalls : OfCall(v, i) = OfCall(w, i)
    BY <1>4, <2>5
  <2>8. \A t \in Texts : next.text[t] = TextIn(g, v, t)
    BY <1>1, <1>5, <2>3
  <2>9. next \in [text : [Texts -> Seq(Token)], slots : Seq(SlotType)]
    BY <1>6, <2>2, <2>3
  <2> HIDE DEF next
  <2> QED
    BY <1>5, <2>2, <2>6, <2>7, <2>8, <2>9 DEF Kept, v, piece, next
<1>8. CASE c.kind \notin Texts
  <2> DEFINE at0 == c.index + 1
             padded == Stream!Padded(acc.slots, at0)
             M == Len(acc.slots)
             old == padded[at0]
             new == [announced |-> old.announced \/ c.named,
                     args |-> IF c.args THEN Append(old.args, piece) ELSE old.args]
             slots == [padded EXCEPT ![at0] = new]
  <2>1. c.kind = "call" /\ c.index \in Nat /\ c.index < MaxCalls
    BY <1>8 DEF ChunkType, Texts, Stream!Texts
  <2>2. at0 \in Nat /\ at0 \in 1..MaxCalls
    BY <1>4, <2>1
  <2>3. next = [text |-> acc.text, slots |-> slots]
    <3>1. [padded EXCEPT ![at0] = [announced |-> @.announced \/ c.named,
                                   args |-> IF c.args THEN Append(@.args, piece) ELSE @.args]]
            = slots
      <4> HIDE DEF padded, at0
      <4> QED
        OBVIOUS
    <3>2. next = [acc EXCEPT !.slots =
                    [padded EXCEPT ![at0] = [announced |-> @.announced \/ c.named,
                                   args |-> IF c.args THEN Append(@.args, piece) ELSE @.args]]]
      BY <1>8 DEF Stream!Taken, Texts
    <3> HIDE DEF slots, next, padded, at0
    <3>3. next = [acc EXCEPT !.slots = slots]
      BY <3>1, <3>2
    <3> QED
      BY <1>5, <3>3
  <2> HIDE DEF at0
  <2>4. /\ padded \in Seq(SlotType) /\ Len(padded) = IF at0 > M THEN at0 ELSE M
        /\ \A i \in 1..M : padded[i] = acc.slots[i]
        /\ \A i \in 1..Len(padded) : i > M => padded[i] = Stream!Slot
    BY <1>6, <2>2, PaddedIs
  <2> HIDE DEF padded
  <2>5. Len(padded) \in Nat /\ Len(padded) <= MaxCalls /\ M <= Len(padded) /\ at0 \in 1..Len(padded)
    BY <1>4, <1>5, <1>6, <2>2, <2>4
  <2>6. old \in SlotType
    BY <2>4, <2>5
  <2>7. new \in SlotType /\ new.announced = (old.announced \/ c.named)
        /\ new.args = IF c.args THEN Append(old.args, piece) ELSE old.args
    <3> HIDE DEF old
    <3>1. old.announced \in BOOLEAN /\ old.args \in Seq(Token) /\ c.named \in BOOLEAN
      BY <2>6 DEF SlotType, ChunkType
    <3>2. Append(old.args, piece) \in Seq(Token)
      BY <1>3, <3>1
    <3>3. (old.announced \/ c.named) \in BOOLEAN
      OBVIOUS
    <3> QED
      BY <3>1, <3>2, <3>3 DEF SlotType
  <2> HIDE DEF new
  <2>8. slots \in Seq(SlotType) /\ Len(slots) = Len(padded)
        /\ \A i \in 1..Len(padded) : slots[i] = IF i = at0 THEN new ELSE padded[i]
    BY <2>4, <2>5, <2>7
  <2> HIDE DEF slots
  <2>9. \A i \in 1..Len(padded) : padded[i].announced = NamedIn(w, i) /\ padded[i].args = ArgsIn(g, w, i)
    <3> SUFFICES ASSUME NEW i \in 1..Len(padded)
                 PROVE  padded[i].announced = NamedIn(w, i) /\ padded[i].args = ArgsIn(g, w, i)
      OBVIOUS
    <3>1. CASE i \in 1..M
      BY <1>5, <2>4, <3>1
    <3>2. CASE i \notin 1..M
      <4>1. i > M /\ i \in 1..MaxCalls
        BY <1>4, <1>6, <2>5, <3>2
      <4>2. OfCall(w, i) = {}
        BY <1>5, <4>1
      <4>3. ArgsIn(g, w, i) = << >> /\ ~NamedIn(w, i)
        BY <4>2, WireTyped
      <4>4. padded[i].announced = FALSE /\ padded[i].args = << >>
        BY <2>4, <4>1 DEF Stream!Slot
      <4>5. NamedIn(w, i) \in BOOLEAN
        BY DEF NamedIn
      <4> QED
        BY <4>3, <4>4, <4>5
    <3> QED
      BY <3>1, <3>2
  <2>10. \A i \in 1..Len(slots) : slots[i].announced = NamedIn(v, i) /\ slots[i].args = ArgsIn(g, v, i)
    <3> SUFFICES ASSUME NEW i \in 1..Len(padded)
                 PROVE  slots[i].announced = NamedIn(v, i) /\ slots[i].args = ArgsIn(g, v, i)
      BY <2>8
    <3>1. i \in Nat
      BY <2>5
    <3>2. NamedIn(v, i) = (NamedIn(w, i) \/ (c.index + 1 = i /\ c.named))
      BY <1>2, <2>1, <3>1 DEF NamedIn
    <3>3. ArgsIn(g, v, i) = IF c.index + 1 = i /\ c.args THEN Append(ArgsIn(g, w, i), piece)
                            ELSE ArgsIn(g, w, i)
      BY <1>2, <2>1, <3>1
    <3>4. CASE i = at0
      <4>1. c.index + 1 = i /\ slots[i] = new /\ old = padded[i]
        BY <2>8, <3>4 DEF at0
      <4>2. new.announced = (NamedIn(w, i) \/ c.named)
        BY <2>7, <2>9, <4>1
      <4>3. new.args = IF c.args THEN Append(ArgsIn(g, w, i), piece) ELSE ArgsIn(g, w, i)
        BY <2>7, <2>9, <4>1
      <4> QED
        BY <3>2, <3>3, <4>1, <4>2, <4>3
    <3>5. CASE i # at0
      <4>1. c.index + 1 # i /\ slots[i] = padded[i]
        BY <2>8, <3>5 DEF at0
      <4>2. NamedIn(v, i) = NamedIn(w, i)
        BY <3>2, <4>1 DEF NamedIn
      <4> QED
        BY <2>9, <3>3, <4>1, <4>2
    <3> QED
      BY <3>4, <3>5
  <2>11. ASSUME NEW i \in 1..MaxCalls, i > Len(slots) PROVE OfCall(v, i) = {}
    <3>1. i > M /\ i # c.index + 1 /\ i \in Nat
      BY <1>4, <1>6, <2>4, <2>5, <2>8, <2>11 DEF at0
    <3>2. OfCall(w, i) = {}
      BY <1>5, <3>1
    <3> QED
      BY <1>2, <3>1, <3>2
  <2>12. next.slots = slots /\ next.text = acc.text
         /\ next \in [text : [Texts -> Seq(Token)], slots : Seq(SlotType)]
    BY <1>6, <2>3, <2>8
  <2>13. \A t \in Texts : TextIn(g, v, t) = TextIn(g, w, t)
    BY <1>1, <1>8
  <2> HIDE DEF next
  <2> QED
    BY <1>5, <2>5, <2>8, <2>10, <2>11, <2>12, <2>13 DEF Kept, v, piece, next
<1> QED
  BY <1>7, <1>8

-----------------------------------------------------------------------------
(* The events on their way, and their pieces of one kind.                  *)

EventType == [kind : Texts \cup {"started", "arguments"}, piece : Token]
EventPieces(s) == [i \in DOMAIN s |-> s[i].piece]
Ev(s, t) == Chosen(EventPieces(s), {i \in DOMAIN s : s[i].kind = t})

LEMMA EventPiecesAre ==
  ASSUME NEW s \in Seq(EventType)
  PROVE  /\ EventPieces(s) \in Seq(Token) /\ Len(EventPieces(s)) = Len(s) /\ Len(s) \in Nat
         /\ DOMAIN s = 1..Len(s) /\ \A i \in 1..Len(s) : EventPieces(s)[i] = s[i].piece
<1>1. Len(s) \in Nat /\ DOMAIN s = 1..Len(s) /\ \A i \in 1..Len(s) : s[i] \in EventType
  OBVIOUS
<1>2. EventPieces(s) = [i \in 1..Len(s) |-> s[i].piece]
  BY <1>1 DEF EventPieces
<1>3. \A i \in 1..Len(s) : s[i].piece \in Token
  BY <1>1 DEF EventType
<1>4. EventPieces(s) \in [1..Len(s) -> Token]
  BY <1>2, <1>3
<1>5. EventPieces(s) \in Seq(Token) /\ Len(EventPieces(s)) = Len(s)
  BY <1>1, <1>4
<1> QED
  BY <1>1, <1>2, <1>5

LEMMA EvType == ASSUME NEW s \in Seq(EventType), NEW t PROVE Ev(s, t) \in Seq(Token)
  BY EventPiecesAre, ChosenType DEF Ev

LEMMA EvEmpty == ASSUME NEW t PROVE Ev(<< >>, t) = << >>
<1> DEFINE s == << >>
<1>1. s \in Seq(EventType) /\ Len(s) = 0
  OBVIOUS
<1> HIDE DEF s
<1>2. EventPieces(s) \in Seq(Token) /\ Len(EventPieces(s)) = 0
  BY <1>1, EventPiecesAre
<1>3. Chosen(EventPieces(s), {i \in DOMAIN s : s[i].kind = t}) = << >>
  <2> DEFINE p == EventPieces(s)
             keep == {i \in DOMAIN s : s[i].kind = t}
  <2>1. p \in Seq(Token) /\ \A i \in 1..Len(p) : i \notin keep
    BY <1>2
  <2> HIDE DEF p, keep
  <2>2. Chosen(p, keep) = << >>
    BY <2>1, ChosenNone
  <2> QED
    BY <2>2 DEF p, keep
<1> QED
  BY <1>3 DEF Ev, s

LEMMA EvMore ==
  ASSUME NEW s \in Seq(EventType), NEW e \in EventType, NEW t
  PROVE  Ev(Append(s, e), t) = IF e.kind = t THEN Append(Ev(s, t), e.piece) ELSE Ev(s, t)
<1> DEFINE r == Append(s, e)
           N == Len(s) + 1
           p == EventPieces(s)
           q == EventPieces(r)
           keep == {i \in DOMAIN s : s[i].kind = t}
           also == {i \in DOMAIN r : r[i].kind = t}
<1>1. /\ r \in Seq(EventType) /\ Len(r) = N /\ Len(s) \in Nat /\ r[N] = e
      /\ \A i \in 1..Len(s) : r[i] = s[i]
      /\ DOMAIN s = 1..Len(s) /\ DOMAIN r = 1..N /\ N \in 1..N
      /\ \A i \in 1..Len(s) : i \in 1..N
  OBVIOUS
<1>2. (\A i \in 1..Len(s) : i \in keep <=> i \in also) /\ (N \in also <=> e.kind = t)
  BY <1>1
<1>3. p \in Seq(Token) /\ Len(p) = Len(s) /\ \A i \in 1..Len(s) : p[i] = s[i].piece
  BY EventPiecesAre
<1> HIDE DEF r, keep, also, p
<1>4. q \in Seq(Token) /\ Len(q) = N /\ \A i \in 1..N : q[i] = r[i].piece
  BY <1>1, EventPiecesAre
<1> HIDE DEF q
<1>5. Len(q) = Len(p) + 1 /\ \A i \in 1..Len(p) : p[i] = q[i] /\ (i \in keep <=> i \in also)
  BY <1>1, <1>2, <1>3, <1>4
<1>6. Chosen(q, also) = IF Len(q) \in also THEN Append(Chosen(p, keep), q[Len(q)]) ELSE Chosen(p, keep)
  BY <1>3, <1>4, <1>5, ChosenMore
<1>7. Len(q) = N /\ q[N] = e.piece
  BY <1>1, <1>4
<1> QED
  BY <1>2, <1>6, <1>7 DEF Ev, p, q, keep, also, r

LEMMA EvFirst ==
  ASSUME NEW s \in Seq(EventType), s # << >>, NEW t
  PROVE  Ev(s, t) = (IF Head(s).kind = t THEN <<Head(s).piece>> ELSE << >>) \o Ev(Tail(s), t)
<1> DEFINE u == Tail(s)
           p == EventPieces(s)
           q == EventPieces(u)
           keep == {i \in DOMAIN s : s[i].kind = t}
           rest == {i \in DOMAIN u : u[i].kind = t}
<1>1. u \in Seq(EventType) /\ Len(s) = Len(u) + 1 /\ Len(u) \in Nat /\ \A i \in 1..Len(u) : u[i] = s[i + 1]
  BY HeadTailProperties
<1>2. Head(s) = s[1] /\ 1 \in 1..Len(s)
  BY <1>1
<1>3. p \in Seq(Token) /\ Len(p) = Len(s) /\ (\A i \in 1..Len(s) : p[i] = s[i].piece) /\ DOMAIN s = 1..Len(s)
  BY EventPiecesAre
<1> HIDE DEF u
<1>4. q \in Seq(Token) /\ Len(q) = Len(u) /\ (\A i \in 1..Len(u) : q[i] = u[i].piece) /\ DOMAIN u = 1..Len(u)
  BY <1>1, EventPiecesAre
<1>5. \A i \in 1..Len(p) - 1 : i \in rest <=> i + 1 \in keep
  BY <1>1, <1>3, <1>4
<1>6. (1 \in keep <=> Head(s).kind = t) /\ p[1] = Head(s).piece /\ p # << >>
  BY <1>1, <1>2, <1>3
<1>7. q = Tail(p)
  <2> HIDE DEF p, q
  <2>1. /\ Tail(p) \in Seq(Token) /\ Len(Tail(p)) = Len(p) - 1
        /\ \A i \in 1..Len(Tail(p)) : Tail(p)[i] = p[i + 1]
    BY <1>3, <1>6, HeadTailProperties
  <2>2. Len(q) = Len(Tail(p))
    BY <1>1, <1>3, <1>4, <2>1
  <2>3. \A i \in 1..Len(q) : q[i] = Tail(p)[i]
    <3> SUFFICES ASSUME NEW i \in 1..Len(q) PROVE q[i] = Tail(p)[i]
      OBVIOUS
    <3>1. i \in 1..Len(u) /\ i + 1 \in 1..Len(s)
      BY <1>1, <1>4
    <3>2. q[i] = u[i].piece /\ u[i] = s[i + 1]
      BY <1>1, <1>4, <3>1
    <3>3. p[i + 1] = s[i + 1].piece
      BY <1>3, <3>1
    <3> QED
      BY <2>1, <2>2, <3>2, <3>3
  <2> QED
    BY <1>4, <2>1, <2>2, <2>3, SeqEqual
<1> HIDE DEF p, q, keep, rest
<1>8. Chosen(p, keep) = (IF 1 \in keep THEN <<p[1]>> ELSE << >>) \o Chosen(Tail(p), rest)
  BY <1>3, <1>5, <1>6, ChosenFirst
<1> QED
  BY <1>6, <1>7, <1>8 DEF Ev, p, q, keep, rest, u

\* What the worker tells of a chunk: its text.
LEMMA ToldIs ==
  ASSUME NEW acc, NEW c \in ChunkType, NEW piece \in Token
  PROVE  /\ Stream!Told(acc, c, piece) \in Seq(EventType)
         /\ \A t \in Texts : Ev(Stream!Told(acc, c, piece), t) = IF c.kind = t THEN <<piece>> ELSE << >>
<1> DEFINE told == Stream!Told(acc, c, piece)
<1>1. << >> \in Seq(EventType) /\ \A k \in Texts \cup {"started", "arguments"} :
        [kind |-> k, piece |-> piece] \in EventType
  BY DEF EventType
<1>2. \A e \in EventType : \A t : Ev(<<e>>, t) = IF e.kind = t THEN <<e.piece>> ELSE << >>
  <2> SUFFICES ASSUME NEW e \in EventType, NEW t
               PROVE  Ev(<<e>>, t) = IF e.kind = t THEN <<e.piece>> ELSE << >>
    OBVIOUS
  <2>1. Ev(Append(<< >>, e), t) = IF e.kind = t THEN Append(Ev(<< >>, t), e.piece) ELSE Ev(<< >>, t)
    BY <1>1, EvMore
  <2>2. Append(<< >>, e) = <<e>> /\ Append(<< >>, e.piece) = <<e.piece>>
    OBVIOUS
  <2> QED
    BY <2>1, <2>2, EvEmpty
<1>3. CASE c.kind \in Texts
  <2> DEFINE e == [kind |-> c.kind, piece |-> piece]
  <2>1. told = <<e>>
    BY <1>3 DEF Stream!Told, Texts
  <2>2. e \in EventType /\ e.kind = c.kind /\ e.piece = piece
    BY <1>1, <1>3
  <2> HIDE DEF e, told
  <2>3. told \in Seq(EventType)
    BY <2>1, <2>2
  <2>4. \A t : Ev(told, t) = IF c.kind = t THEN <<piece>> ELSE << >>
    BY <1>2, <2>1, <2>2
  <2> QED
    BY <2>3, <2>4 DEF told
<1>4. CASE c.kind \notin Texts
  <2> DEFINE a == IF c.named /\ ~Stream!Padded(acc.slots, c.index + 1)[c.index + 1].announced
                  THEN <<[kind |-> "started", piece |-> piece]>> ELSE << >>
             b == IF c.args THEN <<[kind |-> "arguments", piece |-> piece]>> ELSE << >>
  <2>1. told = a \o b
    BY <1>4 DEF Stream!Told, Texts
  <2>2. \A t \in Texts : t # "started" /\ t # "arguments" /\ t # c.kind
    BY <1>4 DEF Texts, Stream!Texts
  <2> DEFINE x == [kind |-> "started", piece |-> piece]
             y == [kind |-> "arguments", piece |-> piece]
  <2>3. x \in EventType /\ x.kind = "started" /\ y \in EventType /\ y.kind = "arguments"
    BY <1>1
  <2>4. a \in {<< >>, <<x>>} /\ b \in {<< >>, <<y>>}
    OBVIOUS
  <2> HIDE DEF a, b, told, x, y
  <2>5. /\ told \in {<< >>, <<x>>, <<y>>, Append(<<x>>, y)}
        /\ <<x>> \in Seq(EventType) /\ <<y>> \in Seq(EventType) /\ Append(<<x>>, y) \in Seq(EventType)
    <3>1. <<x>> \in Seq(EventType) /\ <<y>> \in Seq(EventType)
      BY <2>3
    <3>2. << >> \o << >> = << >> /\ << >> \o <<y>> = <<y>> /\ <<x>> \o << >> = <<x>>
      BY <1>1, <3>1, ConcatEmptySeq
    <3>3. <<x>> \o <<y>> = Append(<<x>>, y) /\ Append(<<x>>, y) \in Seq(EventType)
      BY <2>3, <3>1, AppendIsConcat
    <3> QED
      BY <2>1, <2>4, <3>1, <3>2, <3>3
  <2>6. \A t \in Texts : Ev(<<x>>, t) = << >> /\ Ev(<<y>>, t) = << >>
    BY <1>2, <2>2, <2>3
  <2>7. \A t \in Texts : Ev(Append(<<x>>, y), t) = << >>
    BY <2>2, <2>3, <2>5, <2>6, EvMore
  <2>8. \A t \in Texts : Ev(told, t) = << >>
    BY <2>5, <2>6, <2>7, EvEmpty
  <2> QED
    BY <1>1, <2>2, <2>5, <2>8 DEF told
<1> QED
  BY <1>3, <1>4

-----------------------------------------------------------------------------
(* The invariant of the stream.                                            *)

None == Stream!None
Bits == Seq(Token)
OkType == [kind : {"ok"}, text : [Texts -> Seq(Token)], calls : Seq(Seq(Token))]
StreamType ==
  [worker : {"on", "ended"}, wire : Seq(ChunkType),
   acc : [text : [Texts -> Seq(Token)], slots : Seq(SlotType)],
   outbox : Seq(EventType), events : Seq(EventType), closed : BOOLEAN,
   done : {None, Stream!Failed} \cup OkType, doneClosed : BOOLEAN, pump : {"events", "result", "over"}]
MessageType ==
  [gen : Nat, how : {"ok", "error", "cancelled"}, text : [Texts -> Seq(Token)], calls : Seq(Seq(Token))]

\* A stream by itself: what the accumulator has kept, what the ends of the channels know.
Carried(g, s) ==
  /\ Kept(g, s.wire, s.acc)
  /\ s.done \in {None, Stream!Failed, Stream!Finished(s.acc)}
  /\ s.worker = "on" => s.done = None /\ (s.closed => s.doneClosed)
  /\ s.worker = "ended" => s.closed /\ s.outbox = << >>
  /\ s.pump # "events" => s.closed /\ s.events = << >>

\* The text that came is what the panel has of it, then the events on their way, then
\* what a cancelled worker threw away.
Flow(g, s, t, before) ==
  \E r \in Bits :
    /\ s.worker = "on" \/ s.done # None => r = << >>
    /\ TextIn(g, s.wire, t) = before \o (Ev(s.events, t) \o (Ev(s.outbox, t) \o r))

\* The panel and the stream of its turn.
Reply(g, s, live0, pend, show, wait) ==
  IF live0 THEN /\ \A t \in Texts : Flow(g, s, t, show[t] \o pend[t])
                /\ IF s.pump = "over" THEN s.done # None /\ wait = [gen |-> g, outcome |-> s.done]
                   ELSE wait = None
  ELSE pend = Stream!Empty /\ show = Stream!Empty /\ wait = None /\ s.pump = "over"

\* A message and the stream it came from.
SaidOf(m, s) ==
  /\ m.how # "cancelled" => /\ s.worker = "ended"
                            /\ \A t \in Texts : m.text[t] = TextIn(m.gen, s.wire, t)
  /\ m.how = "ok" => m.calls = CallsIn(m.gen, s.wire)
  /\ m.how = "cancelled" =>
       /\ m.calls = << >>
       /\ \A t \in Texts : \E r \in Bits : TextIn(m.gen, s.wire, t) = m.text[t] \o r

StreamsTyped ==
  /\ streams \in Seq(StreamType) /\ turn = Len(streams)
  /\ streaming \in BOOLEAN /\ gone \in BOOLEAN
  /\ pending \in [Texts -> Bits] /\ shown \in [Texts -> Bits]
  /\ said \in Seq(MessageType)
AllCarried == \A g \in 1..turn : Carried(g, streams[g])
TurnFlows ==
  ~gone => IF turn = 0
           THEN ~streaming /\ pending = Stream!Empty /\ shown = Stream!Empty /\ waiting = None
           ELSE Reply(turn, streams[turn], streaming, pending, shown, waiting)
AllSaid == \A k \in DOMAIN said : said[k].gen \in 1..turn /\ SaidOf(said[k], streams[said[k].gen])

StreamInv == StreamsTyped /\ AllCarried /\ TurnFlows /\ AllSaid

-----------------------------------------------------------------------------
(* How text moves along.                                                   *)

LEMMA Joined ==
  /\ << >> \in Bits
  /\ \A a \in Bits : a \o << >> = a /\ << >> \o a = a
  /\ \A a, b \in Bits : a \o b \in Bits
  /\ \A a, b, c \in Bits : (a \o b) \o c = a \o (b \o c)
  /\ \A a \in Bits : \A p \in Token : Append(a, p) = a \o <<p>> /\ <<p>> \in Bits
<1>1. << >> \in Bits
  BY DEF Bits
<1>2. ASSUME NEW a \in Bits PROVE a \o << >> = a /\ << >> \o a = a
  BY ConcatEmptySeq DEF Bits
<1>3. ASSUME NEW a \in Bits, NEW b \in Bits PROVE a \o b \in Bits
  BY ConcatProperties DEF Bits
<1>4. ASSUME NEW a \in Bits, NEW b \in Bits, NEW c \in Bits PROVE (a \o b) \o c = a \o (b \o c)
  BY ConcatAssociative DEF Bits
<1>5. ASSUME NEW a \in Bits, NEW p \in Token PROVE Append(a, p) = a \o <<p>> /\ <<p>> \in Bits
  BY AppendIsConcat DEF Bits
<1> QED
  BY <1>1, <1>2, <1>3, <1>4, <1>5, Zenon

\* A text with one piece more, or not.
One(yes, p) == IF yes THEN <<p>> ELSE << >>
LEMMA OneIs ==
  ASSUME NEW yes \in BOOLEAN, NEW p \in Token
  PROVE  /\ One(yes, p) \in Bits
         /\ \A a \in Bits : (IF yes THEN Append(a, p) ELSE a) = a \o One(yes, p)
<1>1. CASE yes
  BY <1>1, Joined, Zenon DEF One
<1>2. CASE ~yes
  BY <1>2, Joined, Zenon DEF One
<1> QED
  BY <1>1, <1>2

LEMMA EvBits == ASSUME NEW s \in Seq(EventType), NEW t PROVE Ev(s, t) \in Bits
  BY EvType DEF Bits

LEMMA FlowArrives ==
  ASSUME NEW g \in Nat, NEW s \in StreamType, NEW z \in StreamType, NEW c \in ChunkType, NEW t \in Texts,
         NEW before \in Bits, NEW acc,
         s.worker = "on", s.outbox = << >>, z.worker = "on", z.events = s.events,
         z.wire = Append(s.wire, c), z.outbox = Stream!Told(acc, c, <<g, Len(s.wire) + 1>>),
         Flow(g, s, t, before)
  PROVE  Flow(g, z, t, before)
<1> DEFINE E == Ev(s.events, t)
           piece == <<g, Len(s.wire) + 1>>
           T == TextIn(g, s.wire, t)
           yes == c.kind = t
           h == One(yes, piece)
<1>1. s.wire \in Seq(ChunkType) /\ s.events \in Seq(EventType)
  BY DEF StreamType
<1>2. piece \in Token
  <2>1. Len(s.wire) \in Nat
    BY <1>1
  <2> QED
    BY <2>1 DEF Token
<1>3. E \in Bits /\ T \in Bits
  BY <1>1, EvBits, WireTyped DEF Bits
<1>4. Ev(s.outbox, t) = << >>
  BY EvEmpty
<1>5. PICK r \in Bits : r = << >> /\ T = before \o (E \o (Ev(s.outbox, t) \o r))
  BY DEF Flow
<1>6. TextIn(g, z.wire, t) = IF yes THEN Append(T, piece) ELSE T
  <2> DEFINE w == s.wire
             v == Append(w, c)
  <2>1. w \in Seq(ChunkType)
    BY <1>1
  <2> HIDE DEF w
  <2>2. TextIn(g, v, t) = IF c.kind = t THEN Append(TextIn(g, w, t), <<g, Len(w) + 1>>)
                          ELSE TextIn(g, w, t)
    BY <2>1, WireMore
  <2> QED
    BY <2>2 DEF w
<1>7. Ev(z.outbox, t) = h
  <2>1. Ev(z.outbox, t) = IF c.kind = t THEN <<piece>> ELSE << >>
    BY <1>2, ToldIs
  <2> QED
    BY <2>1 DEF One
<1>8. yes \in BOOLEAN
  OBVIOUS
<1> HIDE DEF E, piece, T, yes
<1>9. h \in Bits /\ (IF yes THEN Append(T, piece) ELSE T) = T \o h
  BY <1>2, <1>3, <1>8, OneIs
<1> HIDE DEF h
<1>10. << >> \in Bits /\ << >> \o << >> = << >> /\ E \o << >> = E /\ h \o << >> = h
  BY <1>3, <1>9, Joined, Zenon
<1>11. T = before \o E
  BY <1>4, <1>5, <1>10, Zenon
<1>12. (before \o E) \o h = before \o (E \o h)
  BY <1>3, <1>9, Joined, Zenon
<1>13. TextIn(g, z.wire, t) = before \o (Ev(z.events, t) \o (Ev(z.outbox, t) \o << >>))
  <2>1. TextIn(g, z.wire, t) = T \o h
    BY <1>6, <1>9
  <2>2. Ev(z.events, t) = E
    BY DEF E
  <2> QED
    BY <1>7, <1>10, <1>11, <1>12, <2>1, <2>2, Zenon
<1> QED
  BY <1>10, <1>13, Zenon DEF Flow

LEMMA FlowSends ==
  ASSUME NEW g \in Nat, NEW s \in StreamType, NEW z \in StreamType, NEW t \in Texts,
         NEW before \in Bits,
         s.worker = "on", s.outbox # << >>, z.worker = "on", z.done = s.done, z.wire = s.wire,
         z.events = Append(s.events, Head(s.outbox)), z.outbox = Tail(s.outbox),
         Flow(g, s, t, before)
  PROVE  Flow(g, z, t, before)
<1> DEFINE E == Ev(s.events, t)
           O == Ev(Tail(s.outbox), t)
           e == Head(s.outbox)
           h == One(e.kind = t, e.piece)
<1>1. s.events \in Seq(EventType) /\ s.outbox \in Seq(EventType)
  BY DEF StreamType
<1>2. e \in EventType /\ Tail(s.outbox) \in Seq(EventType)
  BY <1>1, HeadTailProperties
<1>3. e.piece \in Token
  BY <1>2 DEF EventType
<1>4. E \in Bits /\ O \in Bits
  BY <1>1, <1>2, EvBits
<1>5. Ev(s.outbox, t) = h \o O
  BY <1>1, EvFirst DEF One
<1>6. Ev(z.events, t) = IF e.kind = t THEN Append(E, e.piece) ELSE E
  <2> HIDE DEF e
  <2>1. \A a \in Seq(EventType) : \A x \in EventType :
          Ev(Append(a, x), t) = IF x.kind = t THEN Append(Ev(a, t), x.piece) ELSE Ev(a, t)
    BY EvMore
  <2>2. z.events = Append(s.events, e)
    BY DEF e
  <2> QED
    BY <1>1, <1>2, <2>1, <2>2
<1>7. Ev(z.outbox, t) = O
  OBVIOUS
<1>8. (e.kind = t) \in BOOLEAN
  OBVIOUS
<1> HIDE DEF E, O, e
<1>9. h \in Bits
  BY <1>3, <1>8, OneIs
<1>13. Ev(z.events, t) = E \o h
  <2> DEFINE x == Ev(z.events, t)
  <2>1. x = IF e.kind = t THEN Append(E, e.piece) ELSE E
    BY <1>6
  <2> HIDE DEF x
  <2>2. (IF e.kind = t THEN Append(E, e.piece) ELSE E) = E \o h
    BY <1>3, <1>4, <1>8, OneIs
  <2>3. x = E \o h
    BY <2>1, <2>2
  <2> QED
    BY <2>3 DEF x
<1> HIDE DEF h
<1>10. PICK r \in Bits : r = << >> /\ TextIn(g, s.wire, t) = before \o (E \o (Ev(s.outbox, t) \o r))
  BY DEF Flow, E
<1>11. E \o ((h \o O) \o r) = (E \o h) \o (O \o r)
  <2> DEFINE u == O \o r
  <2>1. (h \o O) \o r = h \o u
    BY <1>4, <1>9, Joined, Zenon
  <2>2. u \in Bits
    BY <1>4, Joined, Zenon
  <2> HIDE DEF u
  <2>3. (E \o h) \o u = E \o (h \o u)
    BY <1>4, <1>9, <2>2, Joined, Zenon
  <2>4. E \o ((h \o O) \o r) = (E \o h) \o u
    BY <2>1, <2>3, Zenon
  <2> QED
    BY <2>4 DEF u
<1>12. TextIn(g, z.wire, t) = before \o (Ev(z.events, t) \o (Ev(z.outbox, t) \o r))
  BY <1>5, <1>7, <1>10, <1>11, <1>13, Zenon
<1> QED
  BY <1>10, <1>12, Zenon DEF Flow

\* The end of the worker: what it had not sent is lost.
LEMMA FlowEnds ==
  ASSUME NEW g \in Nat, NEW s \in StreamType, NEW z \in StreamType, NEW t \in Texts,
         NEW before \in Bits,
         s.worker = "on", z.worker = "ended", z.wire = s.wire, z.events = s.events, z.outbox = << >>,
         s.outbox = << >> \/ z.done = None,
         Flow(g, s, t, before)
  PROVE  Flow(g, z, t, before)
<1> DEFINE E == Ev(s.events, t)
           O == Ev(s.outbox, t)
<1>1. s.outbox \in Seq(EventType)
  BY DEF StreamType
<1>2. O \in Bits /\ (s.outbox = << >> => O = << >>) /\ Ev(z.outbox, t) = << >>
  BY <1>1, EvBits, EvEmpty
<1> HIDE DEF O
<1>3. PICK r \in Bits : r = << >> /\ TextIn(g, s.wire, t) = before \o (E \o (O \o r))
  BY DEF Flow, O
<1>4. O \o << >> = O /\ << >> \o O = O
  BY <1>2, Joined, Zenon
<1>5. TextIn(g, z.wire, t) = before \o (Ev(z.events, t) \o (Ev(z.outbox, t) \o O))
  BY <1>2, <1>3, <1>4, Zenon
<1>6. z.worker = "on" \/ z.done # None => O = << >>
  BY <1>2
<1> QED
  BY <1>2, <1>5, <1>6, Zenon DEF Flow

\* What is pending of one kind with one event more.
With(pend, e, t) == IF e.kind = t THEN Append(pend, e.piece) ELSE pend

\* An event that the panel takes in.
LEMMA FlowTaken ==
  ASSUME NEW g \in Nat, NEW s \in StreamType, NEW z \in StreamType, NEW t \in Texts,
         NEW show \in Bits, NEW pend \in Bits,
         z.worker = s.worker, z.done = s.done, z.wire = s.wire, z.outbox = s.outbox,
         s.events # << >>, z.events = Tail(s.events), Flow(g, s, t, show \o pend)
  PROVE  LET next == With(pend, Head(s.events), t) IN next \in Bits /\ Flow(g, z, t, show \o next)
<1> DEFINE e == Head(s.events)
           E == Ev(Tail(s.events), t)
           O == Ev(s.outbox, t)
           h == One(e.kind = t, e.piece)
           next == With(pend, e, t)
<1>0. next = IF e.kind = t THEN Append(pend, e.piece) ELSE pend
  BY DEF With
<1>1. s.events \in Seq(EventType) /\ s.outbox \in Seq(EventType)
  BY DEF StreamType
<1>2. e \in EventType /\ Tail(s.events) \in Seq(EventType)
  BY <1>1, HeadTailProperties
<1>3. e.piece \in Token
  BY <1>2 DEF EventType
<1>4. E \in Bits /\ O \in Bits
  BY <1>1, <1>2, EvBits
<1>5. Ev(s.events, t) = h \o E
  BY <1>1, EvFirst DEF One
<1>6. (e.kind = t) \in BOOLEAN
  OBVIOUS
<1>7. PICK r \in Bits :
        /\ s.worker = "on" \/ s.done # None => r = << >>
        /\ TextIn(g, s.wire, t) = (show \o pend) \o (Ev(s.events, t) \o (O \o r))
  BY DEF Flow
<1>8. Ev(z.events, t) = E /\ Ev(z.outbox, t) = O
  OBVIOUS
<1> HIDE DEF E, O, e, next
<1>9. h \in Bits
  BY <1>3, <1>6, OneIs
<1>15. (IF e.kind = t THEN Append(pend, e.piece) ELSE pend) = pend \o h
  BY <1>3, <1>6, OneIs
<1> HIDE DEF h
<1>10. next = pend \o h /\ next \in Bits
  <2>1. next = pend \o h
    BY <1>0, <1>15
  <2>2. h \in Bits
    BY <1>9
  <2>3. pend \o h \in Bits
    BY <2>2, Joined, Zenon
  <2> QED
    BY <2>1, <2>3
<1> DEFINE b == show \o pend
           y == O \o r
<1>11. b \in Bits /\ y \in Bits
  BY <1>4, Joined, Zenon
<1>12. b \o h = show \o next
  <2>1. h \in Bits
    BY <1>9
  <2>2. b \o h = show \o (pend \o h)
    BY <2>1, Joined, Zenon
  <2> QED
    BY <1>10, <2>2, Zenon
<1> HIDE DEF y, b
<1>13. b \o ((h \o E) \o y) = (b \o h) \o (E \o y)
  <2> DEFINE u == E \o y
  <2>5. E \in Bits /\ y \in Bits
    BY <1>4, <1>11
  <2>1. (h \o E) \o y = h \o u
    <3>1. \A p, q, w \in Bits : (p \o q) \o w = p \o (q \o w)
      BY Joined
    <3> QED
      BY <1>9, <2>5, <3>1, ZenonT(30)
  <2>2. u \in Bits
    BY <1>4, <1>11, Joined, Zenon
  <2> HIDE DEF u
  <2>3. (b \o h) \o u = b \o (h \o u)
    BY <1>9, <1>11, <2>2, Joined, Zenon
  <2>4. b \o ((h \o E) \o y) = (b \o h) \o u
    BY <2>1, <2>3, Zenon
  <2> QED
    BY <2>4 DEF u
<1>14. TextIn(g, z.wire, t) = (show \o next) \o (Ev(z.events, t) \o (Ev(z.outbox, t) \o r))
  <2>1. TextIn(g, s.wire, t) = b \o ((h \o E) \o y)
    BY <1>5, <1>7, Zenon DEF b, y
  <2> QED
    BY <1>8, <1>12, <1>13, <2>1, Zenon DEF y
<1> QED
  BY <1>7, <1>10, <1>14, Zenon DEF Flow, next, e

\* Nothing on its way any more: the panel has all of it.
LEMMA FlowEnd ==
  ASSUME NEW g \in Nat, NEW s \in StreamType, NEW t \in Texts, NEW before \in Bits,
         s.events = << >>, s.outbox = << >>, s.done # None, Flow(g, s, t, before)
  PROVE  TextIn(g, s.wire, t) = before
<1>1. << >> \o << >> = << >> /\ before \o << >> = before
  BY Joined, Zenon
<1>2. TextIn(g, s.wire, t) = before \o (<< >> \o (<< >> \o << >>))
  BY EvEmpty DEF Flow
<1> QED
  BY <1>1, <1>2, Zenon

\* What it shows is a beginning.
LEMMA FlowStops ==
  ASSUME NEW g \in Nat, NEW s \in StreamType, NEW t \in Texts,
         NEW show \in Bits, NEW pend \in Bits, Flow(g, s, t, show \o pend)
  PROVE  \E r \in Bits : TextIn(g, s.wire, t) = show \o r
<1>1. PICK r \in Bits :
        TextIn(g, s.wire, t) = (show \o pend) \o (Ev(s.events, t) \o (Ev(s.outbox, t) \o r))
  BY DEF Flow
<1> DEFINE E == Ev(s.events, t)
           O == Ev(s.outbox, t)
           x == E \o (O \o r)
<1>2. E \in Bits /\ O \in Bits
  BY EvBits DEF StreamType
<1> HIDE DEF E, O
<1>3. x \in Bits
  BY <1>2, Joined, Zenon
<1> HIDE DEF x
<1>4. (show \o pend) \o x = show \o (pend \o x) /\ pend \o x \in Bits
  BY <1>3, Joined, Zenon
<1>5. TextIn(g, s.wire, t) = (show \o pend) \o x
  BY <1>1 DEF x, E, O
<1> QED
  BY <1>4, <1>5, Zenon

LEMMA FlowSame ==
  ASSUME NEW g, NEW s, NEW z, NEW t, NEW before,
         z.wire = s.wire, z.events = s.events, z.outbox = s.outbox,
         z.worker = s.worker, z.done = s.done, Flow(g, s, t, before)
  PROVE  Flow(g, z, t, before)
  BY DEF Flow

\* The reveal: some of what was pending is shown.
LEMMA Split ==
  ASSUME NEW show \in Bits, NEW p \in Bits, NEW n \in 0..Len(p)
  PROVE  /\ show \o SubSeq(p, 1, n) \in Bits /\ SubSeq(p, n + 1, Len(p)) \in Bits
         /\ (show \o SubSeq(p, 1, n)) \o SubSeq(p, n + 1, Len(p)) = show \o p
<1> DEFINE a == SubSeq(p, 1, n)
           b == SubSeq(p, n + 1, Len(p))
<1>1. p \in Seq(Token) /\ Len(p) \in Nat /\ n \in Nat
  BY DEF Bits
<1>2. a \in Bits /\ b \in Bits
  <2>1. n \in Int /\ 1 \in Int /\ n + 1 \in Int /\ Len(p) \in Int
    BY <1>1
  <2>2. (\A i \in 1..n : p[i] \in Token) /\ (\A i \in n + 1..Len(p) : p[i] \in Token)
    BY <1>1
  <2> QED
    BY <2>1, <2>2, SubSeqProperties DEF Bits
<1>3. a \o b = p
  <2>1. 1 \in 1..Len(p) + 1 /\ n \in 1 - 1..Len(p) /\ Len(p) \in n..Len(p)
    BY <1>1
  <2>2. a \o b = SubSeq(p, 1, Len(p))
    BY <1>1, <2>1, ConcatAdjacentSubSeq
  <2> QED
    BY <1>1, <2>2, SubSeqFull
<1> HIDE DEF a, b
<1>4. (show \o a) \o b = show \o (a \o b) /\ show \o a \in Bits
  BY <1>2, Joined, Zenon
<1> QED
  BY <1>2, <1>3, <1>4 DEF a, b

-----------------------------------------------------------------------------
(* The steps of one stream.                                                *)

\* What was received stays, and no more comes once the worker has ended.
Grows(g, s, z) ==
  /\ z \in StreamType /\ Carried(g, z)
  /\ s.worker = "ended" => z.worker = "ended" /\ z.wire = s.wire
  /\ \A t \in Texts : \E r \in Bits : TextIn(g, z.wire, t) = TextIn(g, s.wire, t) \o r

\* The panel need not know.
Unseen(g, s, z) ==
  /\ \A t \in Texts : \A before \in Bits : Flow(g, s, t, before) => Flow(g, z, t, before)
  /\ z.pump = "over" <=> s.pump = "over"
  /\ s.done # None => z.done = s.done

LEMMA SameWire ==
  ASSUME NEW g \in Nat, NEW s \in StreamType, NEW z, z.wire = s.wire
  PROVE  \A t \in Texts : \E r \in Bits : TextIn(g, z.wire, t) = TextIn(g, s.wire, t) \o r
<1> SUFFICES ASSUME NEW t \in Texts
             PROVE  \E r \in Bits : TextIn(g, s.wire, t) = TextIn(g, s.wire, t) \o r
  OBVIOUS
<1> DEFINE T == TextIn(g, s.wire, t)
<1>1. T \in Bits
  BY WireTyped DEF StreamType, Bits
<1> HIDE DEF T
<1>2. << >> \in Bits /\ T \o << >> = T
  BY <1>1, Joined, Zenon
<1> QED
  BY <1>2, Zenon DEF T

LEMMA SaidMoves ==
  ASSUME NEW m \in MessageType, NEW s, NEW z, SaidOf(m, s), Grows(m.gen, s, z)
  PROVE  SaidOf(m, z)
<1>1. CASE m.how # "cancelled"
  BY <1>1 DEF SaidOf, Grows
<1>2. CASE m.how = "cancelled"
  <2>1. ASSUME NEW t \in Texts PROVE \E r \in Bits : TextIn(m.gen, z.wire, t) = m.text[t] \o r
    <3>1. PICK a \in Bits : TextIn(m.gen, s.wire, t) = m.text[t] \o a
      BY <1>2 DEF SaidOf
    <3>2. PICK b \in Bits : TextIn(m.gen, z.wire, t) = TextIn(m.gen, s.wire, t) \o b
      BY DEF Grows
    <3>3. m.text[t] \in Bits
      BY DEF MessageType, Bits
    <3> DEFINE x == m.text[t]
    <3> HIDE DEF x
    <3>4. x \in Bits
      BY <3>3 DEF x
    <3>5. (x \o a) \o b = x \o (a \o b) /\ a \o b \in Bits
      BY <3>4, Joined, Zenon
    <3>6. TextIn(m.gen, z.wire, t) = x \o (a \o b)
      BY <3>1, <3>2, <3>5, Zenon DEF x
    <3> QED
      BY <3>5, <3>6, Zenon DEF x
  <2> QED
    BY <1>2, <2>1 DEF SaidOf
<1> QED
  BY <1>1, <1>2

LEMMA Fields ==
  ASSUME NEW s \in StreamType
  PROVE  /\ s.wire \in Seq(ChunkType) /\ s.acc \in [text : [Texts -> Seq(Token)], slots : Seq(SlotType)]
         /\ s.outbox \in Seq(EventType) /\ s.events \in Seq(EventType)
         /\ s.worker \in {"on", "ended"} /\ s.pump \in {"events", "result", "over"}
         /\ s.closed \in BOOLEAN /\ s.doneClosed \in BOOLEAN
         /\ s.done \in {None, Stream!Failed} \cup OkType
  BY DEF StreamType

LEMMA KindsDiffer ==
  /\ None # Stream!Failed /\ Stream!Failed.kind = "error" /\ None.kind = "none"
  /\ Stream!Cancelled.kind = "cancelled"
  /\ \A acc : Stream!Finished(acc).kind = "ok"
<1>1. None.kind = "none" /\ Stream!Failed.kind = "error" /\ Stream!Cancelled.kind = "cancelled"
  BY DEF None, Stream!None, Stream!Failed, Stream!Cancelled
<1>2. \A acc : Stream!Finished(acc).kind = "ok"
  BY DEF Stream!Finished
<1> QED
  BY <1>1, <1>2

LEMMA ArgsSeq ==
  ASSUME NEW g \in Nat, NEW w \in Seq(ChunkType)
  PROVE  CallsIn(g, w) \in Seq(Seq(Token))
<1> DEFINE s == [i \in 1..MaxCalls |-> ArgsIn(g, w, i)]
           S == Seq(Token)
           keep == {i \in 1..MaxCalls : NamedIn(w, i)}
<1>1. MaxCalls \in Nat
  BY MCAssumption DEF Stream!AiStreamAssumption
<1>2. \A i \in 1..MaxCalls : ArgsIn(g, w, i) \in S
  BY WireTyped
<1> HIDE DEF S
<1>3. s \in [1..MaxCalls -> S]
  BY <1>2
<1>4. s \in Seq(S)
  BY <1>1, <1>3
<1> HIDE DEF s, keep
<1>5. Chosen(s, keep) \in Seq(S)
  BY <1>4, ChosenType
<1> QED
  BY <1>5 DEF CallsIn, s, keep, S

\* The end of the worker.
LEMMA EndsStep ==
  ASSUME NEW g \in Nat, NEW s \in StreamType, Carried(g, s), s.worker = "on", NEW outcome,
         \/ s.outbox = << >> /\ outcome \in {Stream!Failed, Stream!Finished(s.acc)}
         \/ s.closed
  PROVE  Grows(g, s, Stream!Ended(s, outcome)) /\ Unseen(g, s, Stream!Ended(s, outcome))
<1> DEFINE x == IF s.doneClosed THEN None ELSE outcome
           z == Stream!Ended(s, outcome)
<1>1. z = [s EXCEPT !.worker = "ended", !.outbox = << >>, !.closed = TRUE, !.done = x]
  BY DEF Stream!Ended, None
<1>2. Kept(g, s.wire, s.acc) /\ s.done = None /\ (s.closed => s.doneClosed)
      /\ (s.pump # "events" => s.closed /\ s.events = << >>)
  BY DEF Carried
<1>3. x \in {None, Stream!Failed, Stream!Finished(s.acc)} /\ (s.outbox = << >> \/ x = None)
  BY <1>2
<1>4. Stream!Finished(s.acc) \in OkType
  <2>1. s.wire \in Seq(ChunkType)
    BY Fields
  <2> DEFINE F == Stream!Finished(s.acc)
  <2>2. F.text \in [Texts -> Seq(Token)] /\ F.calls = CallsIn(g, s.wire) /\ F.kind = "ok"
    BY <1>2, <2>1, FinishedIs
  <2>3. F.calls \in Seq(Seq(Token))
    BY <2>1, <2>2, ArgsSeq
  <2>4. F = [kind |-> F.kind, text |-> F.text, calls |-> F.calls]
    BY DEF Stream!Finished
  <2> HIDE DEF F
  <2> QED
    BY <2>2, <2>3, <2>4 DEF OkType, F
<1> HIDE DEF x, z
<1>5. z \in StreamType
  <2>1. x \in {None, Stream!Failed} \cup OkType
    BY <1>3, <1>4
  <2>2. << >> \in Seq(EventType)
    OBVIOUS
  <2> QED
    BY <1>1, <2>1, <2>2 DEF StreamType
<1>6. /\ z.worker = "ended" /\ z.wire = s.wire /\ z.acc = s.acc /\ z.outbox = << >>
      /\ z.events = s.events /\ z.closed = TRUE /\ z.done = x /\ z.pump = s.pump
  BY <1>1 DEF StreamType
<1>7. Carried(g, z)
  BY <1>2, <1>3, <1>6 DEF Carried
<1>8. Grows(g, s, z)
  BY <1>5, <1>6, <1>7, SameWire DEF Grows
<1>9. Unseen(g, s, z)
  <2>1. ASSUME NEW t \in Texts, NEW before \in Bits, Flow(g, s, t, before) PROVE Flow(g, z, t, before)
    BY <1>3, <1>5, <1>6, <2>1, FlowEnds
  <2> QED
    BY <1>2, <1>6, <2>1 DEF Unseen
<1> QED
  BY <1>8, <1>9 DEF z

LEMMA ArrivesStep ==
  ASSUME NEW g \in Nat, NEW s \in StreamType, Carried(g, s), NEW c \in MCChunks,
         s.worker = "on", s.outbox = << >>, ~(c.kind = "call" /\ c.index >= MaxCalls), NEW z,
         z = [s EXCEPT !.wire = Append(@, c), !.acc = Stream!Taken(s.acc, c, <<g, Len(s.wire) + 1>>),
                       !.outbox = Stream!Told(s.acc, c, <<g, Len(s.wire) + 1>>)]
  PROVE  Grows(g, s, z) /\ Unseen(g, s, z)
<1> DEFINE piece == <<g, Len(s.wire) + 1>>
           w == Append(s.wire, c)
           acc == Stream!Taken(s.acc, c, piece)
           told == Stream!Told(s.acc, c, piece)
<1>1. c \in ChunkType /\ s.wire \in Seq(ChunkType) /\ w \in Seq(ChunkType) /\ piece \in Token
  <2>1. c \in ChunkType /\ s.wire \in Seq(ChunkType)
    BY ChunksTyped, Fields
  <2>2. Len(s.wire) \in Nat /\ w \in Seq(ChunkType)
    BY <2>1
  <2> QED
    BY <2>1, <2>2 DEF Token
<1>2. z = [s EXCEPT !.wire = w, !.acc = acc, !.outbox = told]
  OBVIOUS
<1>3. /\ Kept(g, s.wire, s.acc) /\ s.done = None /\ (s.closed => s.doneClosed)
      /\ (s.pump # "events" => s.closed /\ s.events = << >>)
  BY DEF Carried
<1>4. Kept(g, w, acc)
  <2>1. c.kind = "call" => c.index < MaxCalls
    <3>1. c.index \in Nat /\ MaxCalls \in Nat
      BY <1>1, MCAssumption DEF ChunkType, Stream!AiStreamAssumption
    <3> QED
      BY <3>1
  <2> QED
    BY <1>1, <1>3, <2>1, TakenKeeps
<1>5. told \in Seq(EventType)
  BY <1>1, ToldIs
<1> HIDE DEF w, acc, told
<1>6. z \in StreamType
  <2>1. acc \in [text : [Texts -> Seq(Token)], slots : Seq(SlotType)]
    BY <1>4 DEF Kept
  <2> QED
    BY <1>1, <1>2, <1>5, <2>1 DEF StreamType
<1>7. /\ z.worker = s.worker /\ z.wire = w /\ z.acc = acc /\ z.outbox = told /\ z.events = s.events
      /\ z.closed = s.closed /\ z.done = s.done /\ z.doneClosed = s.doneClosed /\ z.pump = s.pump
  BY <1>2 DEF StreamType
<1>8. Carried(g, z)
  BY <1>3, <1>4, <1>7 DEF Carried
<1>9. ASSUME NEW t \in Texts
      PROVE  \E r \in Bits : TextIn(g, z.wire, t) = TextIn(g, s.wire, t) \o r
  <2> DEFINE T == TextIn(g, s.wire, t)
             yes == c.kind = t
             h == One(yes, piece)
  <2>1. TextIn(g, w, t) = IF yes THEN Append(T, piece) ELSE T
    <3>1. TextIn(g, Append(s.wire, c), t) = IF c.kind = t THEN Append(T, piece) ELSE T
      BY <1>1, WireMore
    <3> QED
      BY <3>1 DEF w
  <2>2. T \in Bits /\ yes \in BOOLEAN
    BY <1>1, WireTyped DEF Bits
  <2> HIDE DEF T, yes, piece
  <2>3. h \in Bits
    BY <1>1, <2>2, OneIs
  <2>4. (IF yes THEN Append(T, piece) ELSE T) = T \o h
    BY <1>1, <2>2, OneIs
  <2> HIDE DEF h
  <2>5. TextIn(g, w, t) = T \o h
    BY <2>1, <2>4
  <2> QED
    BY <1>7, <2>3, <2>5 DEF T
<1>10. Grows(g, s, z)
  BY <1>6, <1>7, <1>8, <1>9 DEF Grows
<1>11. ASSUME NEW t \in Texts, NEW before \in Bits, Flow(g, s, t, before) PROVE Flow(g, z, t, before)
  <2>1. z.wire = Append(s.wire, c) /\ z.outbox = Stream!Told(s.acc, c, <<g, Len(s.wire) + 1>>)
    BY <1>7 DEF w, told
  <2>2. z.worker = "on" /\ z.events = s.events
    BY <1>7
  <2>3. c \in ChunkType
    BY <1>1
  <2> DEFINE a == s.acc
  <2>4. z.outbox = Stream!Told(a, c, <<g, Len(s.wire) + 1>>)
    BY <2>1
  <2> HIDE DEF a
  <2> QED
    BY <1>6, <1>11, <2>1, <2>2, <2>3, <2>4, FlowArrives
<1>12. Unseen(g, s, z)
  BY <1>3, <1>7, <1>11 DEF Unseen
<1> QED
  BY <1>10, <1>12

LEMMA SendsStep ==
  ASSUME NEW g \in Nat, NEW s \in StreamType, Carried(g, s), s.worker = "on", s.outbox # << >>,
         ~s.closed, NEW z,
         z = [s EXCEPT !.events = Append(@, Head(s.outbox)), !.outbox = Tail(@)]
  PROVE  Grows(g, s, z) /\ Unseen(g, s, z)
<1> DEFINE out == Tail(s.outbox)
           ev == Append(s.events, Head(s.outbox))
<1>1. out \in Seq(EventType) /\ ev \in Seq(EventType)
  <2>1. s.outbox \in Seq(EventType) /\ s.events \in Seq(EventType)
    BY Fields
  <2>2. out \in Seq(EventType) /\ Head(s.outbox) \in EventType
    BY <2>1, HeadTailProperties
  <2> QED
    BY <2>1, <2>2
<1>2. z = [s EXCEPT !.events = ev, !.outbox = out]
  OBVIOUS
<1>3. z \in StreamType
  <2> HIDE DEF out, ev
  <2> QED
    BY <1>1, <1>2 DEF StreamType
<1>4. /\ z.worker = s.worker /\ z.wire = s.wire /\ z.acc = s.acc /\ z.outbox = out /\ z.events = ev
      /\ z.closed = s.closed /\ z.done = s.done /\ z.doneClosed = s.doneClosed /\ z.pump = s.pump
  BY <1>2 DEF StreamType
<1>5. Carried(g, z)
  BY <1>4 DEF Carried
<1>6. Grows(g, s, z)
  BY <1>3, <1>4, <1>5, SameWire DEF Grows
<1>7. ASSUME NEW t \in Texts, NEW before \in Bits, Flow(g, s, t, before) PROVE Flow(g, z, t, before)
  BY <1>3, <1>4, <1>7, FlowSends
<1>8. Unseen(g, s, z)
  BY <1>4, <1>7 DEF Unseen
<1> QED
  BY <1>6, <1>8

\* ChatStream::cancel, and the pump that has seen the end of the events.
LEMMA CancelStep ==
  ASSUME NEW g \in Nat, NEW s \in StreamType, Carried(g, s)
  PROVE  Grows(g, s, Stream!Cancel(s)) /\ Unseen(g, s, Stream!Cancel(s))
<1> DEFINE z == Stream!Cancel(s)
<1>1. z = [s EXCEPT !.closed = TRUE, !.doneClosed = TRUE]
  BY DEF Stream!Cancel
<1>2. z \in StreamType
  BY <1>1 DEF StreamType
<1>3. /\ z.worker = s.worker /\ z.wire = s.wire /\ z.acc = s.acc /\ z.outbox = s.outbox
      /\ z.events = s.events /\ z.closed = TRUE /\ z.done = s.done /\ z.doneClosed = TRUE
      /\ z.pump = s.pump
  BY <1>1 DEF StreamType
<1> HIDE DEF z
<1>4. Carried(g, z)
  BY <1>3 DEF Carried
<1>5. Grows(g, s, z)
  BY <1>2, <1>3, <1>4, SameWire DEF Grows
<1>6. Unseen(g, s, z)
  BY <1>3, FlowSame DEF Unseen
<1> QED
  BY <1>5, <1>6 DEF z

LEMMA PumpStep ==
  ASSUME NEW g \in Nat, NEW s \in StreamType, Carried(g, s), NEW p \in {"result", "over"},
         s.closed, s.events = << >>, NEW z, z = [s EXCEPT !.pump = p]
  PROVE  /\ Grows(g, s, z) /\ z.pump = p /\ z.done = s.done /\ z.worker = s.worker
         /\ z.outbox = s.outbox /\ z.events = s.events /\ z.wire = s.wire
         /\ s.pump # "over" /\ p = "result" => Unseen(g, s, z)
<1>2. z \in StreamType
  BY DEF StreamType
<1>3. /\ z.worker = s.worker /\ z.wire = s.wire /\ z.acc = s.acc /\ z.outbox = s.outbox
      /\ z.events = s.events /\ z.closed = s.closed /\ z.done = s.done
      /\ z.doneClosed = s.doneClosed /\ z.pump = p
  BY DEF StreamType
<1>4. Carried(g, z)
  BY <1>3 DEF Carried
<1>5. Grows(g, s, z)
  BY <1>2, <1>3, <1>4, SameWire DEF Grows
<1>6. s.pump # "over" /\ p = "result" => Unseen(g, s, z)
  BY <1>3, FlowSame DEF Unseen
<1> QED
  BY <1>3, <1>5, <1>6

LEMMA TakesStep ==
  ASSUME NEW g \in Nat, NEW s \in StreamType, Carried(g, s), s.pump = "events", s.events # << >>,
         NEW z, z = [s EXCEPT !.events = Tail(@)]
  PROVE  /\ Grows(g, s, z) /\ z.worker = s.worker /\ z.done = s.done /\ z.wire = s.wire
         /\ z.outbox = s.outbox /\ z.events = Tail(s.events) /\ z.pump = s.pump
<1> DEFINE ev == Tail(s.events)
<1>1. ev \in Seq(EventType)
  BY Fields, HeadTailProperties
<1>2. z = [s EXCEPT !.events = ev]
  OBVIOUS
<1>3. z \in StreamType
  <2> HIDE DEF ev
  <2> QED
    BY <1>1, <1>2 DEF StreamType
<1>4. /\ z.worker = s.worker /\ z.wire = s.wire /\ z.acc = s.acc /\ z.outbox = s.outbox
      /\ z.events = ev /\ z.closed = s.closed /\ z.done = s.done
      /\ z.doneClosed = s.doneClosed /\ z.pump = s.pump
  BY <1>2 DEF StreamType
<1>5. Carried(g, z)
  BY <1>4 DEF Carried
<1> QED
  BY <1>3, <1>4, <1>5, SameWire DEF Grows

-----------------------------------------------------------------------------
(* The steps of the panel.                                                 *)

LEMMA Basics ==
  ASSUME StreamsTyped
  PROVE  /\ turn \in Nat /\ DOMAIN streams = 1..turn
         /\ \A g \in 1..turn : streams[g] \in StreamType /\ g \in Nat
         /\ turn # 0 => turn \in 1..turn
<1>1. streams \in Seq(StreamType) /\ turn = Len(streams)
  BY DEF StreamsTyped
<1> QED
  BY <1>1

LEMMA EmptyIs ==
  /\ Stream!Empty \in [Texts -> Bits]
  /\ \A t \in Texts : Stream!Empty[t] = << >>
  /\ \A f \in [Texts -> Bits] : (\A t \in Texts : f[t] = << >>) => f = Stream!Empty
<1>1. Stream!Empty = [t \in Texts |-> << >>]
  BY DEF Stream!Empty, Texts
<1>2. << >> \in Bits
  BY Joined
<1> QED
  BY <1>1, <1>2

\* What one stream's own step leaves of the rest.
LEMMA OneMoves ==
  ASSUME StreamsTyped, AllCarried, NEW g \in 1..turn, NEW z, Grows(g, streams[g], z)
  PROVE  LET new == [streams EXCEPT ![g] = z] IN
         /\ new \in Seq(StreamType) /\ Len(new) = turn
         /\ \A x \in 1..turn : new[x] = (IF x = g THEN z ELSE streams[x]) /\ Carried(x, new[x])
         /\ \A m \in MessageType :
              m.gen \in 1..turn /\ SaidOf(m, streams[m.gen]) => SaidOf(m, new[m.gen])
<1> DEFINE new == [streams EXCEPT ![g] = z]
<1>1. streams \in Seq(StreamType) /\ turn = Len(streams)
  BY DEF StreamsTyped
<1>2. z \in StreamType /\ Carried(g, z)
  BY DEF Grows
<1>3. new \in Seq(StreamType) /\ Len(new) = turn
      /\ \A x \in 1..turn : new[x] = IF x = g THEN z ELSE streams[x]
  BY <1>1, <1>2
<1> HIDE DEF new
<1>4. \A x \in 1..turn : Carried(x, new[x])
  BY <1>2, <1>3 DEF AllCarried
<1>5. ASSUME NEW m \in MessageType, m.gen \in 1..turn, SaidOf(m, streams[m.gen])
      PROVE  SaidOf(m, new[m.gen])
  <2>1. CASE m.gen = g
    <3>1. SaidOf(m, z)
      BY <1>5, <2>1, SaidMoves
    <3> QED
      BY <1>3, <2>1, <3>1
  <2>2. CASE m.gen # g
    BY <1>3, <1>5, <2>2
  <2> QED
    BY <2>1, <2>2
<1> QED
  BY <1>3, <1>4, <1>5 DEF new

\* All that the next state must still be told.
LEMMA Together ==
  ASSUME StreamInv, turn' \in Nat, turn' >= turn,
         streams' \in Seq(StreamType), Len(streams') = turn',
         \A x \in 1..turn' : Carried(x, streams'[x]),
         \A m \in MessageType : m.gen \in 1..turn /\ SaidOf(m, streams[m.gen]) => SaidOf(m, streams'[m.gen]),
         streaming' \in BOOLEAN, gone' \in BOOLEAN,
         pending' \in [Texts -> Bits], shown' \in [Texts -> Bits],
         \/ said' = said
         \/ \E m \in MessageType : /\ m.gen \in 1..turn /\ SaidOf(m, streams'[m.gen])
                                   /\ said' = Append(said, m),
         TurnFlows'
  PROVE  StreamInv'
<1>1. said \in Seq(MessageType) /\ AllSaid /\ turn \in Nat
  BY Basics DEF StreamInv, StreamsTyped
<1>2. \A k \in DOMAIN said : said[k] \in MessageType /\ said[k].gen \in 1..turn' /\ SaidOf(said[k], streams'[said[k].gen])
  <2> SUFFICES ASSUME NEW k \in DOMAIN said
               PROVE  said[k] \in MessageType /\ said[k].gen \in 1..turn' /\ SaidOf(said[k], streams'[said[k].gen])
    OBVIOUS
  <2>1. said[k] \in MessageType /\ said[k].gen \in 1..turn /\ SaidOf(said[k], streams[said[k].gen])
    BY <1>1 DEF AllSaid
  <2>2. said[k].gen \in 1..turn'
    BY <1>1, <2>1
  <2> QED
    BY <2>1, <2>2
<1>3. said' \in Seq(MessageType) /\ AllSaid'
  <2>1. CASE said' = said
    BY <1>1, <1>2, <2>1 DEF AllSaid
  <2>2. CASE \E m \in MessageType : /\ m.gen \in 1..turn /\ SaidOf(m, streams'[m.gen])
                                    /\ said' = Append(said, m)
    <3>1. PICK m \in MessageType : m.gen \in 1..turn /\ SaidOf(m, streams'[m.gen]) /\ said' = Append(said, m)
      BY <2>2
    <3>2. m.gen \in 1..turn'
      BY <1>1, <3>1
    <3>3. /\ said' \in Seq(MessageType) /\ DOMAIN said' = 1..Len(said) + 1 /\ Len(said) \in Nat
          /\ said'[Len(said) + 1] = m /\ \A k \in 1..Len(said) : said'[k] = said[k]
          /\ DOMAIN said = 1..Len(said)
      BY <1>1, <3>1
    <3>4. \A k \in DOMAIN said' : k \in DOMAIN said \/ k = Len(said) + 1
      BY <3>3
    <3>5. AllSaid'
      <4> SUFFICES ASSUME NEW k \in DOMAIN said'
                   PROVE  said'[k].gen \in 1..turn' /\ SaidOf(said'[k], streams'[said'[k].gen])
        BY DEF AllSaid
      <4>1. CASE k \in DOMAIN said
        BY <1>2, <3>3, <4>1
      <4>2. CASE k = Len(said) + 1
        BY <3>1, <3>2, <3>3, <4>2
      <4> QED
        BY <3>4, <4>1, <4>2
    <3> QED
      BY <3>3, <3>5
  <2> QED
    BY <2>1, <2>2
<1>4. StreamsTyped'
  BY <1>3 DEF StreamsTyped
<1>5. AllCarried'
  BY DEF AllCarried
<1> QED
  BY <1>3, <1>4, <1>5 DEF StreamInv

\* A step that the panel does not see.
LEMMA UnseenStep ==
  ASSUME StreamInv, NEW g \in 1..turn, NEW z, Grows(g, streams[g], z), Unseen(g, streams[g], z),
         streams' = [streams EXCEPT ![g] = z], UNCHANGED Stream!panel
  PROVE  StreamInv'
<1>1. StreamsTyped /\ AllCarried /\ TurnFlows
  BY DEF StreamInv
<1>2. turn \in Nat
  BY <1>1, Basics
<1>3. /\ turn' = turn /\ streaming' = streaming /\ pending' = pending /\ shown' = shown
      /\ waiting' = waiting /\ said' = said /\ gone' = gone
  BY DEF Stream!panel
<1>4. /\ streams' \in Seq(StreamType) /\ Len(streams') = turn
      /\ \A x \in 1..turn : streams'[x] = (IF x = g THEN z ELSE streams[x]) /\ Carried(x, streams'[x])
      /\ \A m \in MessageType : m.gen \in 1..turn /\ SaidOf(m, streams[m.gen]) => SaidOf(m, streams'[m.gen])
  <2> DEFINE new == [streams EXCEPT ![g] = z]
  <2>1. /\ new \in Seq(StreamType) /\ Len(new) = turn
        /\ \A x \in 1..turn : new[x] = (IF x = g THEN z ELSE streams[x]) /\ Carried(x, new[x])
        /\ \A m \in MessageType : m.gen \in 1..turn /\ SaidOf(m, streams[m.gen]) => SaidOf(m, new[m.gen])
    BY <1>1, OneMoves
  <2>2. streams' = new
    OBVIOUS
  <2> HIDE DEF new
  <2> QED
    BY <2>1, <2>2
<1>5. TurnFlows'
  <2> SUFFICES ASSUME ~gone PROVE Reply(turn, streams'[turn], streaming, pending, shown, waiting)
    BY <1>2, <1>3 DEF TurnFlows
  <2>1. turn \in 1..turn /\ Reply(turn, streams[turn], streaming, pending, shown, waiting)
    BY <1>1, <1>2 DEF TurnFlows
  <2>2. CASE g # turn
    BY <1>4, <2>1, <2>2
  <2>3. CASE g = turn
    <3>1. streams'[turn] = z
      BY <1>4, <2>1, <2>3
    <3>2. ASSUME streaming, NEW t \in Texts PROVE Flow(turn, z, t, shown[t] \o pending[t])
      <4>1. Flow(turn, streams[turn], t, shown[t] \o pending[t])
        BY <2>1, <3>2 DEF Reply
      <4>2. shown[t] \o pending[t] \in Bits
        <5>1. shown[t] \in Bits /\ pending[t] \in Bits
          BY <1>1 DEF StreamsTyped
        <5> QED
          BY <5>1, Joined, Zenon
      <4> DEFINE before == shown[t] \o pending[t]
      <4> HIDE DEF before
      <4>3. Flow(turn, z, t, before)
        BY <2>3, <4>1, <4>2 DEF Unseen, before
      <4> QED
        BY <4>3 DEF before
    <3>3. Reply(turn, z, streaming, pending, shown, waiting)
      BY <2>1, <2>3, <3>2 DEF Reply, Unseen
    <3> QED
      BY <3>1, <3>3
  <2> QED
    BY <2>2, <2>3
<1>6. /\ streaming' \in BOOLEAN /\ gone' \in BOOLEAN
      /\ pending' \in [Texts -> Bits] /\ shown' \in [Texts -> Bits]
  BY <1>1, <1>3 DEF StreamsTyped
<1> QED
  BY <1>2, <1>3, <1>4, <1>5, <1>6, Together

LEMMA StartedIs ==
  ASSUME NEW g \in Nat
  PROVE  /\ Stream!Started \in StreamType /\ Carried(g, Stream!Started)
         /\ Stream!Started.pump = "events"
         /\ \A t \in Texts : Flow(g, Stream!Started, t, << >> \o << >>)
<1> DEFINE s == Stream!Started
<1>1. << >> \in Seq(ChunkType) /\ << >> \in Seq(EventType) /\ << >> \in Seq(SlotType) /\ << >> \in Bits
  BY Joined
<1>2. Stream!Empty \in [Texts -> Seq(Token)] /\ \A t \in Texts : Stream!Empty[t] = << >>
  BY EmptyIs DEF Bits
<1>3. /\ s.worker = "on" /\ s.wire = << >> /\ s.outbox = << >> /\ s.events = << >> /\ s.done = None
      /\ s.closed = FALSE /\ s.doneClosed = FALSE /\ s.pump = "events"
      /\ s.acc = [text |-> Stream!Empty, slots |-> << >>]
  BY DEF Stream!Started, None
<1>4. s \in StreamType
  BY <1>1, <1>2 DEF StreamType, Stream!Started, None
<1> HIDE DEF s
<1>5. \A t : TextIn(g, << >>, t) = << >>
  <2> SUFFICES ASSUME NEW t PROVE TextIn(g, << >>, t) = << >>
    OBVIOUS
  <2> DEFINE p == Stream!Pieces(g, << >>)
             keep == OfKind(<< >>, t)
  <2>1. p \in Seq(Token) /\ Len(p) = 0
    <3> DEFINE e == << >>
    <3>1. e \in Seq(ChunkType) /\ Len(e) = 0
      OBVIOUS
    <3> HIDE DEF e
    <3>2. Stream!Pieces(g, e) \in Seq(Token) /\ Len(Stream!Pieces(g, e)) = 0
      BY <3>1, PiecesAre
    <3> QED
      BY <3>2 DEF e
  <2> HIDE DEF p, keep
  <2>2. Chosen(p, keep) = << >>
    <3>1. \A i \in 1..Len(p) : i \notin keep
      BY <2>1
    <3> QED
      BY <2>1, <3>1, ChosenNone
  <2> QED
    BY <2>2 DEF TextIn, p, keep
<1>6. \A i : OfCall(<< >>, i) = {}
  BY DEF OfCall
<1>7. Kept(g, s.wire, s.acc)
  <2>1. s.acc.text = Stream!Empty /\ s.acc.slots = << >> /\ Len(<< >>) = 0
    BY <1>3
  <2>2. MaxCalls \in Nat
    BY MCAssumption DEF Stream!AiStreamAssumption
  <2>3. s.acc \in [text : [Texts -> Seq(Token)], slots : Seq(SlotType)]
    BY <1>1, <1>2, <1>3
  <2> QED
    BY <1>2, <1>3, <1>5, <1>6, <2>1, <2>2, <2>3 DEF Kept
<1>8. Carried(g, s)
  BY <1>3, <1>7 DEF Carried
<1>9. ASSUME NEW t \in Texts PROVE Flow(g, s, t, << >> \o << >>)
  <2>1. << >> \o << >> = << >> /\ << >> \in Bits
    BY Joined, Zenon
  <2>2. Ev(<< >>, t) = << >>
    BY EvEmpty
  <2>3. TextIn(g, s.wire, t) = (<< >> \o << >>) \o (Ev(s.events, t) \o (Ev(s.outbox, t) \o << >>))
    BY <1>3, <1>5, <2>1, <2>2, Zenon
  <2> QED
    BY <2>1, <2>3, Zenon DEF Flow
<1> QED
  BY <1>3, <1>4, <1>8, <1>9 DEF s

\* A new turn.
LEMMA NewTurn ==
  ASSUME StreamInv, NEW base \in Seq(StreamType), Len(base) = turn,
         \A x \in 1..turn : Carried(x, base[x]),
         \A m \in MessageType : m.gen \in 1..turn /\ SaidOf(m, streams[m.gen]) => SaidOf(m, base[m.gen]),
         streams' = Append(base, Stream!Started), Stream!Starts, said' = said, gone' = gone
  PROVE  StreamInv'
<1>1. StreamsTyped /\ turn \in Nat /\ gone \in BOOLEAN
  BY Basics DEF StreamInv, StreamsTyped
<1>2. /\ streaming' = TRUE /\ turn' = turn + 1 /\ waiting' = None
      /\ pending' = Stream!Empty /\ shown' = Stream!Empty
  BY DEF Stream!Starts, Stream!Reset, None
<1>3. turn' \in Nat /\ turn' >= turn /\ turn' # 0
  BY <1>1, <1>2
<1>4. /\ Stream!Started \in StreamType /\ Carried(turn', Stream!Started)
      /\ Stream!Started.pump = "events"
      /\ \A t \in Texts : Flow(turn', Stream!Started, t, << >> \o << >>)
  BY <1>3, StartedIs
<1> DEFINE new == Stream!Started
<1> HIDE DEF new
<1>5. /\ streams' \in Seq(StreamType) /\ Len(streams') = turn' /\ streams'[turn'] = new
      /\ \A x \in 1..turn : streams'[x] = base[x]
  <2>1. new \in StreamType /\ streams' = Append(base, new)
    BY <1>4 DEF new
  <2> QED
    BY <1>1, <1>2, <2>1
<1>6. \A x \in 1..turn' : Carried(x, streams'[x])
  <2>1. \A x \in 1..turn' : x \in 1..turn \/ x = turn'
    BY <1>1, <1>2
  <2>2. Carried(turn', streams'[turn'])
    BY <1>4, <1>5 DEF new
  <2> QED
    BY <1>5, <2>1, <2>2
<1>7. \A m \in MessageType : m.gen \in 1..turn /\ SaidOf(m, streams[m.gen]) => SaidOf(m, streams'[m.gen])
  BY <1>5
<1>8. TurnFlows'
  <2>1. \A t \in Texts : shown'[t] \o pending'[t] = << >> \o << >>
    BY <1>2, EmptyIs
  <2>2. \A t \in Texts : Flow(turn', new, t, shown'[t] \o pending'[t])
    BY <1>4, <2>1 DEF new
  <2>3. Reply(turn', new, streaming', pending', shown', waiting')
    BY <1>2, <1>4, <2>2 DEF Reply, new
  <2> QED
    BY <1>3, <1>5, <2>3 DEF TurnFlows
<1>9. streaming' \in BOOLEAN /\ gone' \in BOOLEAN /\ pending' \in [Texts -> Bits] /\ shown' \in [Texts -> Bits]
  BY <1>1, <1>2, EmptyIs
<1> QED
  BY <1>3, <1>5, <1>6, <1>7, <1>8, <1>9, Together

LEMMA SendStep == ASSUME StreamInv, Stream!Send PROVE StreamInv'
<1>1. StreamsTyped /\ AllCarried
  BY DEF StreamInv
<1>2. streams \in Seq(StreamType) /\ Len(streams) = turn
  BY <1>1 DEF StreamsTyped
<1>3. streams' = Append(streams, Stream!Started) /\ Stream!Starts /\ said' = said /\ gone' = gone
  BY DEF Stream!Send
<1> QED
  BY <1>1, <1>2, <1>3, NewTurn DEF AllCarried

LEMMA SendCancelsStep == ASSUME StreamInv, Stream!SendCancelsRun PROVE StreamInv'
<1>1. StreamsTyped /\ AllCarried /\ TurnFlows /\ ~gone /\ streaming
  BY DEF StreamInv, Stream!SendCancelsRun
<1>2. turn \in 1..turn
  BY <1>1, Basics DEF TurnFlows
<1> DEFINE z == Stream!Cancel(streams[turn])
           base == [streams EXCEPT ![turn] = z]
<1>3. streams' = Append(base, Stream!Started) /\ Stream!Starts /\ said' = said /\ gone' = gone
  BY DEF Stream!SendCancelsRun
<1>4. Grows(turn, streams[turn], z)
  BY <1>1, <1>2, Basics, CancelStep DEF AllCarried
<1> HIDE DEF z
<1>5. /\ base \in Seq(StreamType) /\ Len(base) = turn /\ \A x \in 1..turn : Carried(x, base[x])
      /\ \A m \in MessageType : m.gen \in 1..turn /\ SaidOf(m, streams[m.gen]) => SaidOf(m, base[m.gen])
  BY <1>1, <1>2, <1>4, OneMoves
<1> HIDE DEF base
<1> QED
  BY <1>3, <1>5, NewTurn

LEMMA StopStep == ASSUME StreamInv, Stream!Stop PROVE StreamInv'
<1>1. StreamsTyped /\ AllCarried /\ TurnFlows /\ ~gone /\ streaming
  BY DEF StreamInv, Stream!Stop
<1>2. turn \in 1..turn
  BY <1>1, Basics DEF TurnFlows
<1> DEFINE z == Stream!Cancel(streams[turn])
<1>3. streams' = [streams EXCEPT ![turn] = z] /\ UNCHANGED Stream!panel
  BY DEF Stream!Stop
<1>4. Grows(turn, streams[turn], z) /\ Unseen(turn, streams[turn], z)
  BY <1>1, <1>2, Basics, CancelStep DEF AllCarried
<1> HIDE DEF z
<1> QED
  BY <1>2, <1>3, <1>4, UnseenStep

LEMMA DropStep == ASSUME StreamInv, Stream!Drop PROVE StreamInv'
  BY DEF StreamInv, StreamsTyped, AllCarried, TurnFlows, AllSaid, Stream!Drop

LEMMA WorkerStep ==
  ASSUME StreamInv, NEW g \in DOMAIN streams,
         (\E c \in MCChunks : Stream!ChunkArrives(g, c)) \/ Stream!WorkerSends(g) \/ Stream!ResponseEnds(g)
  PROVE  StreamInv'
<1> DEFINE s == streams[g]
<1>1. StreamsTyped /\ g \in 1..turn /\ g \in Nat /\ s \in StreamType /\ Carried(g, s)
  BY Basics DEF StreamInv, AllCarried
<1>2. ASSUME NEW c \in MCChunks, Stream!ChunkArrives(g, c) PROVE StreamInv'
  <2>1. s.worker = "on" /\ s.outbox = << >> /\ UNCHANGED Stream!panel
    BY <1>2 DEF Stream!ChunkArrives
  <2>2. CASE c.kind = "call" /\ c.index >= MaxCalls
    <3> DEFINE z == Stream!Ended(s, Stream!Failed)
    <3>1. streams' = [streams EXCEPT ![g] = z]
      BY <1>2, <2>2 DEF Stream!ChunkArrives
    <3>2. Grows(g, s, z) /\ Unseen(g, s, z)
      BY <1>1, <2>1, EndsStep
    <3> HIDE DEF z
    <3> QED
      BY <1>1, <2>1, <3>1, <3>2, UnseenStep
  <2>3. CASE ~(c.kind = "call" /\ c.index >= MaxCalls)
    <3> DEFINE z == [s EXCEPT !.wire = Append(@, c), !.acc = Stream!Taken(s.acc, c, <<g, Len(s.wire) + 1>>),
                              !.outbox = Stream!Told(s.acc, c, <<g, Len(s.wire) + 1>>)]
    <3>1. streams' = [streams EXCEPT ![g] = z]
      BY <1>2, <2>3 DEF Stream!ChunkArrives, Stream!Piece
    <3>2. Grows(g, s, z) /\ Unseen(g, s, z)
      BY <1>1, <2>1, <2>3, ArrivesStep
    <3> HIDE DEF z
    <3> QED
      BY <1>1, <2>1, <3>1, <3>2, UnseenStep
  <2> QED
    BY <2>2, <2>3
<1>3. CASE Stream!WorkerSends(g)
  <2>1. s.worker = "on" /\ s.outbox # << >> /\ UNCHANGED Stream!panel
    BY <1>3 DEF Stream!WorkerSends
  <2>2. CASE s.closed
    <3> DEFINE z == Stream!Ended(s, Stream!Cancelled)
    <3>1. streams' = [streams EXCEPT ![g] = z]
      BY <1>3, <2>2 DEF Stream!WorkerSends
    <3>2. Grows(g, s, z) /\ Unseen(g, s, z)
      BY <1>1, <2>1, <2>2, EndsStep
    <3> HIDE DEF z
    <3> QED
      BY <1>1, <2>1, <3>1, <3>2, UnseenStep
  <2>3. CASE ~s.closed
    <3> DEFINE z == [s EXCEPT !.events = Append(@, Head(s.outbox)), !.outbox = Tail(@)]
    <3>1. streams' = [streams EXCEPT ![g] = z]
      BY <1>3, <2>3 DEF Stream!WorkerSends
    <3>2. Grows(g, s, z) /\ Unseen(g, s, z)
      BY <1>1, <2>1, <2>3, SendsStep
    <3> HIDE DEF z
    <3> QED
      BY <1>1, <2>1, <3>1, <3>2, UnseenStep
  <2> QED
    BY <2>2, <2>3
<1>4. CASE Stream!ResponseEnds(g)
  <2>1. s.worker = "on" /\ s.outbox = << >> /\ UNCHANGED Stream!panel
    BY <1>4 DEF Stream!ResponseEnds
  <2>2. PICK outcome \in {Stream!Finished(s.acc), Stream!Failed} :
          streams' = [streams EXCEPT ![g] = Stream!Ended(s, outcome)]
    BY <1>4 DEF Stream!ResponseEnds
  <2> DEFINE z == Stream!Ended(s, outcome)
  <2>3. Grows(g, s, z) /\ Unseen(g, s, z)
    BY <1>1, <2>1, EndsStep
  <2> HIDE DEF z
  <2>4. streams' = [streams EXCEPT ![g] = z]
    BY <2>2 DEF z
  <2> QED
    BY <1>1, <2>1, <2>3, <2>4, UnseenStep
<1> QED
  BY <1>2, <1>3, <1>4

-----------------------------------------------------------------------------
(* What the panel takes in, and what it commits.                           *)

\* A stream's step beside the panel's own: what is left to be shown of it.
LEMMA PanelStep ==
  ASSUME StreamInv, NEW g \in 1..turn, NEW z, Grows(g, streams[g], z),
         streams' = [streams EXCEPT ![g] = z], turn' = turn, gone' = gone,
         streaming' \in BOOLEAN, pending' \in [Texts -> Bits], shown' \in [Texts -> Bits],
         \/ said' = said
         \/ \E m \in MessageType : m.gen = g /\ SaidOf(m, z) /\ said' = Append(said, m),
         ~gone => IF g = turn THEN Reply(turn, z, streaming', pending', shown', waiting')
                  ELSE UNCHANGED <<streaming, pending, shown, waiting>>
  PROVE  StreamInv'
<1>1. StreamsTyped /\ AllCarried /\ TurnFlows /\ turn \in Nat /\ gone \in BOOLEAN
  BY Basics DEF StreamInv, StreamsTyped
<1>2. /\ streams' \in Seq(StreamType) /\ Len(streams') = turn
      /\ \A x \in 1..turn : streams'[x] = (IF x = g THEN z ELSE streams[x]) /\ Carried(x, streams'[x])
      /\ \A m \in MessageType : m.gen \in 1..turn /\ SaidOf(m, streams[m.gen]) => SaidOf(m, streams'[m.gen])
  <2> DEFINE new == [streams EXCEPT ![g] = z]
  <2>1. /\ new \in Seq(StreamType) /\ Len(new) = turn
        /\ \A x \in 1..turn : new[x] = (IF x = g THEN z ELSE streams[x]) /\ Carried(x, new[x])
        /\ \A m \in MessageType : m.gen \in 1..turn /\ SaidOf(m, streams[m.gen]) => SaidOf(m, new[m.gen])
    BY <1>1, OneMoves
  <2>2. streams' = new
    OBVIOUS
  <2> HIDE DEF new
  <2> QED
    BY <2>1, <2>2
<1>3. \/ said' = said
      \/ \E m \in MessageType : m.gen \in 1..turn /\ SaidOf(m, streams'[m.gen]) /\ said' = Append(said, m)
  BY <1>2
<1>4. TurnFlows'
  <2> SUFFICES ASSUME ~gone
               PROVE  Reply(turn, streams'[turn], streaming', pending', shown', waiting')
    BY <1>1 DEF TurnFlows
  <2>1. turn \in 1..turn /\ Reply(turn, streams[turn], streaming, pending, shown, waiting)
    BY <1>1 DEF TurnFlows
  <2>2. CASE g = turn
    BY <1>2, <2>1, <2>2
  <2>3. CASE g # turn
    BY <1>2, <2>1, <2>3
  <2> QED
    BY <2>2, <2>3
<1> QED
  BY <1>1, <1>2, <1>3, <1>4, Together

LEMMA PumpEventStep == ASSUME StreamInv, NEW g \in DOMAIN streams, Stream!PumpEvent(g) PROVE StreamInv'
<1> DEFINE s == streams[g]
           e == Head(s.events)
           z == [s EXCEPT !.events = Tail(@)]
<1>1. /\ StreamsTyped /\ TurnFlows /\ g \in 1..turn /\ g \in Nat /\ s \in StreamType /\ Carried(g, s)
      /\ turn \in Nat
  BY Basics DEF StreamInv, AllCarried
<1>2. /\ s.pump = "events" /\ s.events # << >>
      /\ turn' = turn /\ streaming' = streaming /\ shown' = shown /\ waiting' = waiting
      /\ said' = said /\ gone' = gone
  BY DEF Stream!PumpEvent
<1>3. streams' = [streams EXCEPT ![g] = z]
  BY DEF Stream!PumpEvent
<1>4. /\ Grows(g, s, z) /\ z.worker = s.worker /\ z.done = s.done /\ z.wire = s.wire
      /\ z.outbox = s.outbox /\ z.events = Tail(s.events) /\ z.pump = s.pump
  BY <1>1, <1>2, TakesStep
<1>5. z \in StreamType
  BY <1>4 DEF Grows
<1>6. e \in EventType /\ e.piece \in Token
  <2>1. s.events \in Seq(EventType)
    BY <1>1, Fields
  <2>2. e \in EventType
    BY <1>2, <2>1, HeadTailProperties
  <2> QED
    BY <2>2 DEF EventType
<1>7. pending' = IF ~gone /\ turn = g /\ e.kind \in Texts
                 THEN [pending EXCEPT ![e.kind] = Append(@, e.piece)] ELSE pending
  BY DEF Stream!PumpEvent, Stream!Current, Texts
<1>8. pending \in [Texts -> Bits] /\ shown \in [Texts -> Bits] /\ streaming \in BOOLEAN
  BY <1>1 DEF StreamsTyped
<1> HIDE DEF z, e
<1>9. CASE ~gone /\ turn = g
  <2>1. Reply(turn, s, streaming, pending, shown, waiting)
    BY <1>1, <1>9 DEF TurnFlows
  <2>2. streaming /\ waiting = None /\ \A t \in Texts : Flow(turn, s, t, shown[t] \o pending[t])
    BY <1>2, <2>1 DEF Reply
  <2>3. ASSUME NEW t \in Texts
        PROVE  pending'[t] = IF e.kind = t THEN Append(pending[t], e.piece) ELSE pending[t]
    BY <1>7, <1>8, <1>9
  <2>4. pending' = [t \in Texts |-> pending'[t]]
    BY <1>7, <1>8
  <2>5. ASSUME NEW t \in Texts
        PROVE  pending'[t] \in Bits /\ Flow(turn, z, t, shown[t] \o pending'[t])
    <3> DEFINE next == pending'[t]
               show == shown[t]
               pend == pending[t]
    <3>1. next = With(pend, Head(s.events), t)
      BY <2>3 DEF e, With
    <3>2. show \in Bits /\ pend \in Bits /\ Flow(g, s, t, show \o pend)
      BY <1>8, <1>9, <2>2
    <3> HIDE DEF next, show, pend, s
    <3>3. /\ z.worker = s.worker /\ z.done = s.done /\ z.wire = s.wire /\ z.outbox = s.outbox
          /\ s.events # << >> /\ z.events = Tail(s.events)
      BY <1>2, <1>4
    <3>4. With(pend, Head(s.events), t) \in Bits /\ Flow(g, z, t, show \o With(pend, Head(s.events), t))
      BY <1>1, <1>5, <3>2, <3>3, FlowTaken
    <3>5. next \in Bits /\ Flow(g, z, t, show \o next)
      BY <3>1, <3>4
    <3> QED
      BY <1>9, <3>5 DEF next, show
  <2>6. pending' \in [Texts -> Bits]
    BY <2>4, <2>5
  <2>7. Reply(turn, z, streaming', pending', shown', waiting')
    BY <1>2, <1>4, <2>2, <2>5 DEF Reply
  <2> QED
    BY <1>1, <1>2, <1>3, <1>4, <1>8, <1>9, <2>6, <2>7, PanelStep
<1>10. CASE ~(~gone /\ turn = g)
  <2>1. pending' = pending
    BY <1>7, <1>10
  <2> QED
    BY <1>1, <1>2, <1>3, <1>4, <1>8, <1>10, <2>1, PanelStep
<1> QED
  BY <1>9, <1>10

LEMMA PumpSeesEndStep ==
  ASSUME StreamInv, NEW g \in DOMAIN streams, Stream!PumpSeesEnd(g) PROVE StreamInv'
<1> DEFINE s == streams[g]
           z == [s EXCEPT !.pump = "result"]
<1>1. g \in 1..turn /\ g \in Nat /\ s \in StreamType /\ Carried(g, s)
  BY Basics DEF StreamInv, AllCarried
<1>2. s.pump = "events" /\ s.events = << >> /\ s.closed /\ UNCHANGED Stream!panel
  BY DEF Stream!PumpSeesEnd
<1>3. streams' = [streams EXCEPT ![g] = z]
  BY DEF Stream!PumpSeesEnd
<1>4. Grows(g, s, z) /\ Unseen(g, s, z)
  BY <1>1, <1>2, PumpStep
<1> HIDE DEF z
<1> QED
  BY <1>1, <1>2, <1>3, <1>4, UnseenStep

\* The message of a turn whose response came to an end, and of one that was stopped.
Message(g, outcome, partial) ==
  [gen |-> g, how |-> outcome.kind, text |-> Stream!Text(outcome, partial), calls |-> Stream!CallsOf(outcome)]

LEMMA MessageIs ==
  ASSUME NEW g \in Nat, NEW s \in StreamType, Carried(g, s), NEW outcome, NEW partial \in [Texts -> Bits],
         \/ /\ outcome = s.done /\ s.done # None
            /\ \A t \in Texts : TextIn(g, s.wire, t) = partial[t]
         \/ /\ outcome = Stream!Cancelled
            /\ \A t \in Texts : \E r \in Bits : TextIn(g, s.wire, t) = partial[t] \o r
  PROVE  Message(g, outcome, partial) \in MessageType /\ SaidOf(Message(g, outcome, partial), s)
<1> DEFINE m == Message(g, outcome, partial)
           text == Stream!Text(outcome, partial)
           calls == Stream!CallsOf(outcome)
<1>1. m.gen = g /\ m.how = outcome.kind /\ m.text = text /\ m.calls = calls
  BY DEF Message
<1>2. text = [t \in Texts |-> IF outcome.kind = "ok" /\ outcome.text[t] # << >>
                              THEN outcome.text[t] ELSE partial[t]]
      /\ calls = IF outcome.kind = "ok" THEN outcome.calls ELSE << >>
  BY DEF Stream!Text, Stream!CallsOf, Texts
<1>3. m = [gen |-> g, how |-> outcome.kind, text |-> text, calls |-> calls]
  BY DEF Message
<1>4. << >> \in Seq(Seq(Token))
  OBVIOUS
<1> HIDE DEF m, text, calls
<1>5. CASE outcome.kind # "ok" /\ outcome.kind \in {"error", "cancelled"}
  <2>1. text = partial /\ calls = << >>
    BY <1>2, <1>5
  <2>2. m \in MessageType
    BY <1>3, <1>4, <1>5, <2>1 DEF MessageType, Bits
  <2>3. CASE outcome = s.done /\ s.done # None /\ \A t \in Texts : TextIn(g, s.wire, t) = partial[t]
    <3>1. s.worker = "ended" /\ outcome.kind = "error"
      BY <2>3, <1>5, KindsDiffer, Fields DEF Carried
    <3> QED
      BY <1>1, <2>1, <2>2, <2>3, <3>1 DEF SaidOf, m
  <2>4. CASE /\ outcome = Stream!Cancelled
             /\ \A t \in Texts : \E r \in Bits : TextIn(g, s.wire, t) = partial[t] \o r
    <3>1. outcome.kind = "cancelled"
      BY <2>4, KindsDiffer
    <3> QED
      BY <1>1, <2>1, <2>2, <2>4, <3>1 DEF SaidOf, m
  <2> QED
    BY <2>3, <2>4
<1>6. CASE outcome.kind = "ok"
  <2>1. /\ outcome = s.done /\ s.done # None /\ \A t \in Texts : TextIn(g, s.wire, t) = partial[t]
    BY <1>6, KindsDiffer
  <2>2. s.worker = "ended" /\ outcome = Stream!Finished(s.acc) /\ Kept(g, s.wire, s.acc)
    BY <1>6, <2>1, KindsDiffer, Fields DEF Carried
  <2>3. s.wire \in Seq(ChunkType)
    BY Fields
  <2>4. /\ outcome.text \in [Texts -> Seq(Token)] /\ outcome.calls = CallsIn(g, s.wire)
        /\ \A t \in Texts : outcome.text[t] = TextIn(g, s.wire, t)
    BY <2>2, <2>3, FinishedIs
  <2>5. \A t \in Texts : text[t] = TextIn(g, s.wire, t)
    BY <1>2, <2>1, <2>4
  <2>6. text = partial /\ calls = CallsIn(g, s.wire)
    BY <1>2, <1>6, <2>1, <2>4, <2>5
  <2>7. calls \in Seq(Seq(Token))
    BY <2>3, <2>6, ArgsSeq
  <2>8. m \in MessageType
    BY <1>3, <1>6, <2>6, <2>7 DEF MessageType, Bits
  <2> QED
    BY <1>1, <1>6, <2>2, <2>5, <2>6, <2>8 DEF SaidOf, m
<1>7. outcome.kind \in {"ok", "error", "cancelled"}
  BY KindsDiffer DEF Carried
<1> QED
  BY <1>5, <1>6, <1>7

LEMMA FinalizeIs ==
  ASSUME NEW outcome, NEW partial, Stream!Finalize(outcome, partial)
  PROVE  /\ streaming' = FALSE /\ waiting' = None /\ pending' = Stream!Empty /\ shown' = Stream!Empty
         /\ said' = said \/ said' = Append(said, Message(turn, outcome, partial))
  BY DEF Stream!Finalize, Stream!Reset, Message, None

LEMMA PumpResultStep == ASSUME StreamInv, NEW g \in DOMAIN streams, Stream!PumpResult(g) PROVE StreamInv'
<1> DEFINE s == streams[g]
           z == [s EXCEPT !.pump = "over"]
           outcome == IF s.done # None THEN s.done ELSE Stream!Cancelled
<1>1. /\ StreamsTyped /\ TurnFlows /\ g \in 1..turn /\ g \in Nat /\ s \in StreamType /\ Carried(g, s)
      /\ turn \in Nat
  BY Basics DEF StreamInv, AllCarried
<1>2. s.pump = "result" /\ turn' = turn /\ gone' = gone
  BY DEF Stream!PumpResult
<1>3. streams' = [streams EXCEPT ![g] = z]
  BY DEF Stream!PumpResult
<1>4. s.closed /\ s.events = << >> /\ (s.done # None => s.worker = "ended") /\ (s.worker = "ended" => s.outbox = << >>)
  BY <1>1, <1>2, Fields DEF Carried
<1>5. /\ Grows(g, s, z) /\ z.pump = "over" /\ z.done = s.done /\ z.worker = s.worker
      /\ z.outbox = s.outbox /\ z.events = s.events /\ z.wire = s.wire
  BY <1>1, <1>4, PumpStep
<1>6. z \in StreamType /\ Carried(g, z)
  BY <1>5 DEF Grows
<1>7. pending \in [Texts -> Bits] /\ shown \in [Texts -> Bits] /\ streaming \in BOOLEAN
  BY <1>1 DEF StreamsTyped
<1>8. IF ~gone /\ turn = g THEN Stream!Finish(outcome)
      ELSE UNCHANGED <<streaming, pending, shown, waiting, ticking, said>>
  BY DEF Stream!PumpResult, Stream!Current, None
<1> HIDE DEF z
<1>9. CASE ~(~gone /\ turn = g)
  <2>1. UNCHANGED <<streaming, pending, shown, waiting, said>>
    BY <1>8, <1>9
  <2> QED
    BY <1>1, <1>2, <1>3, <1>5, <1>7, <1>9, <2>1, PanelStep
<1>10. CASE ~gone /\ turn = g
  <2>1. Reply(turn, s, streaming, pending, shown, waiting) /\ Stream!Finish(outcome)
    BY <1>1, <1>8, <1>10 DEF TurnFlows
  <2>2. streaming /\ waiting = None /\ \A t \in Texts : Flow(g, s, t, shown[t] \o pending[t])
    BY <1>2, <1>10, <2>1 DEF Reply
  <2>3. \A t \in Texts : shown[t] \in Bits /\ pending[t] \in Bits /\ shown[t] \o pending[t] \in Bits
    <3>1. \A t \in Texts : shown[t] \in Bits /\ pending[t] \in Bits
      BY <1>7
    <3> QED
      BY <3>1, Joined, Zenon
  <2>4. s.done # None => \A t \in Texts : TextIn(g, s.wire, t) = shown[t] \o pending[t]
    <3> SUFFICES ASSUME s.done # None, NEW t \in Texts
                 PROVE  TextIn(g, s.wire, t) = shown[t] \o pending[t]
      OBVIOUS
    <3> DEFINE before == shown[t] \o pending[t]
    <3>1. before \in Bits /\ Flow(g, s, t, before) /\ s.outbox = << >>
      BY <1>4, <2>2, <2>3
    <3> HIDE DEF before
    <3>2. TextIn(g, s.wire, t) = before
      BY <1>1, <1>4, <3>1, FlowEnd
    <3> QED
      BY <3>2 DEF before
  <2>5. CASE outcome.kind = "cancelled" \/ Stream!Drained
    <3>1. Stream!Finalize(outcome, shown)
      BY <2>1, <2>5 DEF Stream!Finish
    <3>2. Message(g, outcome, shown) \in MessageType /\ SaidOf(Message(g, outcome, shown), z)
      <4>1. CASE s.done # None
        <5>1. outcome = s.done /\ outcome.kind # "cancelled"
          BY <1>1, <4>1, KindsDiffer DEF Carried
        <5>2. \A t \in Texts : pending[t] = << >>
          BY <2>5, <5>1, EmptyIs DEF Stream!Drained
        <5>3. \A t \in Texts : shown[t] \o pending[t] = shown[t]
          BY <2>3, <5>2, Joined, Zenon
        <5>4. \A t \in Texts : TextIn(g, z.wire, t) = shown[t]
          BY <1>5, <2>4, <4>1, <5>3
        <5>5. outcome = z.done /\ z.done # None
          BY <1>5, <4>1, <5>1
        <5> HIDE DEF outcome
        <5> QED
          BY <1>1, <1>6, <1>7, <5>4, <5>5, MessageIs
      <4>2. CASE s.done = None
        <5>1. outcome = Stream!Cancelled
          BY <4>2
        <5>2. \A t \in Texts : \E r \in Bits : TextIn(g, z.wire, t) = shown[t] \o r
          <6> SUFFICES ASSUME NEW t \in Texts PROVE \E r \in Bits : TextIn(g, s.wire, t) = shown[t] \o r
            BY <1>5
          <6> DEFINE show == shown[t]
                     pend == pending[t]
          <6>1. show \in Bits /\ pend \in Bits /\ Flow(g, s, t, show \o pend)
            BY <2>2, <2>3
          <6> HIDE DEF show, pend, s
          <6>2. \E r \in Bits : TextIn(g, s.wire, t) = show \o r
            BY <1>1, <6>1, FlowStops
          <6> QED
            BY <6>2 DEF show, s
        <5> HIDE DEF outcome
        <5> QED
          BY <1>1, <1>6, <1>7, <5>1, <5>2, MessageIs
      <4> QED
        BY <4>1, <4>2
    <3> HIDE DEF outcome
    <3>3. /\ streaming' = FALSE /\ waiting' = None /\ pending' = Stream!Empty /\ shown' = Stream!Empty
          /\ said' = said \/ said' = Append(said, Message(g, outcome, shown))
      BY <1>10, <3>1, FinalizeIs
    <3>4. Reply(turn, z, streaming', pending', shown', waiting')
      BY <1>5, <3>3 DEF Reply
    <3>5. said' = said \/ \E m \in MessageType : m.gen = g /\ SaidOf(m, z) /\ said' = Append(said, m)
      <4>1. Message(g, outcome, shown).gen = g
        BY DEF Message
      <4> QED
        BY <3>2, <3>3, <4>1
    <3>6. streaming' \in BOOLEAN /\ pending' \in [Texts -> Bits] /\ shown' \in [Texts -> Bits]
      BY <3>3, EmptyIs
    <3> QED
      BY <1>1, <1>2, <1>3, <1>5, <1>10, <3>4, <3>5, <3>6, PanelStep
  <2>6. CASE ~(outcome.kind = "cancelled" \/ Stream!Drained)
    <3>1. /\ waiting' = [gen |-> turn, outcome |-> outcome]
          /\ UNCHANGED <<streaming, pending, shown, said>>
      BY <2>1, <2>6 DEF Stream!Finish
    <3>2. s.done # None /\ outcome = s.done
      BY <2>6, KindsDiffer
    <3>3. \A t \in Texts : Flow(g, z, t, shown[t] \o pending[t])
      BY <1>5, <2>2, FlowSame
    <3>4. Reply(turn, z, streaming', pending', shown', waiting')
      BY <1>5, <1>10, <2>2, <3>1, <3>2, <3>3 DEF Reply
    <3> QED
      BY <1>1, <1>2, <1>3, <1>5, <1>7, <1>10, <3>1, <3>4, PanelStep
  <2> QED
    BY <2>5, <2>6
<1> QED
  BY <1>9, <1>10

-----------------------------------------------------------------------------
(* The reveal, and the theorem.                                            *)

LEMMA NothingJoined ==
  ASSUME NEW a \in Bits, NEW b \in Bits, a \o b = << >> PROVE a = << >> /\ b = << >>
  BY ConcatEqualIffEmpty DEF Bits

LEMMA TickStep == ASSUME StreamInv, Stream!Tick PROVE StreamInv'
<1>1. /\ StreamsTyped /\ AllCarried /\ TurnFlows /\ turn \in Nat /\ ~gone
      /\ streams' = streams /\ turn' = turn /\ gone' = gone
  BY Basics DEF StreamInv, Stream!Tick
<1>2. /\ pending \in [Texts -> Bits] /\ shown \in [Texts -> Bits] /\ streaming \in BOOLEAN
      /\ gone \in BOOLEAN /\ streams \in Seq(StreamType) /\ turn = Len(streams)
  BY <1>1 DEF StreamsTyped
<1>3. PICK n \in [Texts -> 0..MaxChunks] :
        /\ \A t \in Texts : n[t] <= Len(pending[t])
        /\ LET now == [t \in Texts |-> shown[t] \o Stream!Revealed(n)[t]]
               left == [t \in Texts |-> SubSeq(pending[t], n[t] + 1, Len(pending[t]))]
           IN  IF left # Stream!Empty
               THEN pending' = left /\ shown' = now /\ UNCHANGED <<streaming, waiting, ticking, said>>
               ELSE /\ ticking' = FALSE
                    /\ IF waiting # None /\ waiting.gen = turn
                       THEN Stream!Finalize(waiting.outcome, now)
                       ELSE /\ pending' = Stream!Empty /\ shown' = now /\ waiting' = None
                            /\ UNCHANGED <<streaming, said>>
  BY DEF Stream!Tick, Texts, None
<1> DEFINE now == [t \in Texts |-> shown[t] \o SubSeq(pending[t], 1, n[t])]
           left == [t \in Texts |-> SubSeq(pending[t], n[t] + 1, Len(pending[t]))]
<1>4. \A t \in Texts : Stream!Revealed(n)[t] = SubSeq(pending[t], 1, n[t])
  BY DEF Stream!Revealed, Texts
<1>5. [t \in Texts |-> shown[t] \o Stream!Revealed(n)[t]] = now
  BY <1>4
<1>6. ASSUME NEW t \in Texts
      PROVE  now[t] \in Bits /\ left[t] \in Bits /\ now[t] \o left[t] = shown[t] \o pending[t]
  <2> DEFINE show == shown[t]
             p == pending[t]
             k == n[t]
  <2>1. show \in Bits /\ p \in Bits /\ k \in 0..MaxChunks /\ k <= Len(p)
    BY <1>2, <1>3
  <2>2. MaxChunks \in Nat /\ Len(p) \in Nat
    BY <2>1, MCAssumption DEF Stream!AiStreamAssumption, Bits
  <2>3. now[t] = show \o SubSeq(p, 1, k) /\ left[t] = SubSeq(p, k + 1, Len(p))
    OBVIOUS
  <2> HIDE DEF show, p, k, now, left
  <2>4. k \in 0..Len(p)
    BY <2>1, <2>2
  <2>5. /\ show \o SubSeq(p, 1, k) \in Bits /\ SubSeq(p, k + 1, Len(p)) \in Bits
        /\ (show \o SubSeq(p, 1, k)) \o SubSeq(p, k + 1, Len(p)) = show \o p
    BY <2>1, <2>4, Split
  <2>6. now[t] \o left[t] = show \o p
    BY <2>3, <2>5, Zenon
  <2> QED
    BY <2>3, <2>5, <2>6 DEF show, p
<1>7. now \in [Texts -> Bits] /\ left \in [Texts -> Bits]
  BY <1>6
<1>8. \/ left # Stream!Empty /\ pending' = left /\ shown' = now /\ UNCHANGED <<streaming, waiting, said>>
      \/ /\ left = Stream!Empty /\ waiting # None /\ waiting.gen = turn
         /\ Stream!Finalize(waiting.outcome, now)
      \/ /\ left = Stream!Empty /\ ~(waiting # None /\ waiting.gen = turn)
         /\ pending' = left /\ shown' = now /\ waiting' = None /\ UNCHANGED <<streaming, said>>
  <2> HIDE DEF now
  <2> QED
    BY <1>3, <1>5
<1> HIDE DEF now, left
\* What a step that keeps the streams must still show.
<1>9. ASSUME streaming' \in BOOLEAN, pending' \in [Texts -> Bits], shown' \in [Texts -> Bits],
             \/ said' = said
             \/ \E m \in MessageType : /\ m.gen \in 1..turn /\ SaidOf(m, streams[m.gen])
                                       /\ said' = Append(said, m),
             TurnFlows'
      PROVE  StreamInv'
  <2>1. \A x \in 1..turn' : Carried(x, streams'[x])
    BY <1>1 DEF AllCarried
  <2> QED
    BY <1>1, <1>2, <1>9, <2>1, Together
<1>10. CASE ~streaming
  <2>1. pending = Stream!Empty /\ shown = Stream!Empty /\ waiting = None
    BY <1>1, <1>10 DEF TurnFlows, Reply
  <2>2. \A t \in Texts : now[t] = << >> /\ left[t] = << >>
    <3> SUFFICES ASSUME NEW t \in Texts PROVE now[t] = << >> /\ left[t] = << >>
      OBVIOUS
    <3>1. shown[t] = << >> /\ pending[t] = << >> /\ << >> \o << >> = << >>
      BY <2>1, EmptyIs
    <3>2. now[t] \o left[t] = << >>
      BY <1>6, <3>1, Zenon
    <3> QED
      BY <1>6, <3>2, NothingJoined
  <2>3. now = Stream!Empty /\ left = Stream!Empty
    BY <1>7, <2>2, EmptyIs
  <2>4. pending' = Stream!Empty /\ shown' = Stream!Empty /\ waiting' = None /\ UNCHANGED <<streaming, said>>
    BY <1>8, <2>1, <2>3
  <2>5. TurnFlows'
    BY <1>1, <1>10, <2>1, <2>4 DEF TurnFlows, Reply
  <2> QED
    BY <1>2, <1>9, <2>4, <2>5, EmptyIs
<1>11. CASE streaming
  <2> DEFINE s == streams[turn]
  <2>1. turn \in 1..turn /\ turn # 0 /\ Reply(turn, s, streaming, pending, shown, waiting)
    <3>1. turn # 0
      BY <1>1, <1>11 DEF TurnFlows
    <3>2. Reply(turn, s, streaming, pending, shown, waiting)
      BY <1>1, <3>1 DEF TurnFlows
    <3> QED
      BY <1>1, <3>1, <3>2
  <2>2. s \in StreamType /\ Carried(turn, s)
    BY <1>1, <2>1, Basics DEF AllCarried
  <2>3. ASSUME NEW t \in Texts PROVE Flow(turn, s, t, now[t] \o left[t])
    BY <1>6, <1>11, <2>1 DEF Reply
  <2>4. IF s.pump = "over" THEN s.done # None /\ waiting = [gen |-> turn, outcome |-> s.done]
        ELSE waiting = None
    BY <1>11, <2>1 DEF Reply
  <2> HIDE DEF s
  <2>5. CASE pending' = left /\ shown' = now /\ waiting' = waiting /\ UNCHANGED <<streaming, said>>
    <3>1. \A t \in Texts : Flow(turn, s, t, shown'[t] \o pending'[t])
      BY <2>3, <2>5
    <3>2. Reply(turn, s, streaming', pending', shown', waiting')
      BY <1>11, <2>4, <2>5, <3>1 DEF Reply
    <3>3. TurnFlows'
      BY <1>1, <2>1, <3>2 DEF TurnFlows, s
    <3> QED
      BY <1>2, <1>7, <1>9, <2>5, <3>3
  <2>6. CASE /\ left = Stream!Empty /\ waiting # None /\ waiting.gen = turn
             /\ Stream!Finalize(waiting.outcome, now)
    <3> DEFINE outcome == s.done
               m == Message(turn, outcome, now)
    <3>1. s.pump = "over" /\ s.done # None /\ waiting.outcome = outcome
      BY <2>4, <2>6
    <3>2. s.worker = "ended" /\ s.events = << >> /\ s.outbox = << >>
      BY <2>2, <3>1, Fields DEF Carried
    <3>3. ASSUME NEW t \in Texts PROVE TextIn(turn, s.wire, t) = now[t]
      <4> DEFINE before == now[t] \o left[t]
      <4>1. before = now[t] /\ now[t] \in Bits
        <5>1. left[t] = << >> /\ now[t] \in Bits
          BY <1>6, <2>6, EmptyIs
        <5> QED
          BY <5>1, Joined, Zenon
      <4>2. Flow(turn, s, t, before)
        BY <2>3
      <4> HIDE DEF before
      <4>3. TextIn(turn, s.wire, t) = before
        BY <1>1, <2>2, <3>1, <3>2, <4>1, <4>2, FlowEnd
      <4> QED
        BY <4>1, <4>3
    <3>4. m \in MessageType /\ SaidOf(m, s)
      BY <1>1, <1>7, <2>2, <3>1, <3>3, MessageIs
    <3>5. /\ streaming' = FALSE /\ waiting' = None /\ pending' = Stream!Empty /\ shown' = Stream!Empty
          /\ said' = said \/ said' = Append(said, m)
      BY <2>6, <3>1, FinalizeIs
    <3>6. m.gen = turn
      BY DEF Message
    <3> HIDE DEF m, outcome
    <3>7. \/ said' = said
          \/ \E x \in MessageType : /\ x.gen \in 1..turn /\ SaidOf(x, streams[x.gen])
                                    /\ said' = Append(said, x)
      BY <2>1, <3>4, <3>5, <3>6 DEF s
    <3>8. TurnFlows'
      BY <1>1, <2>1, <3>1, <3>5 DEF TurnFlows, Reply, s
    <3> QED
      BY <1>9, <3>5, <3>7, <3>8, EmptyIs
  <2>7. waiting # None => waiting.gen = turn
    BY <2>4
  <2> QED
    BY <1>8, <2>5, <2>6, <2>7
<1> QED
  BY <1>2, <1>10, <1>11

LEMMA StreamBegins == ASSUME Stream!Init PROVE StreamInv
<1>1. /\ streams = << >> /\ turn = 0 /\ streaming = FALSE /\ pending = Stream!Empty
      /\ shown = Stream!Empty /\ waiting = None /\ said = << >> /\ gone = FALSE
  BY DEF Stream!Init, None
<1>2. StreamsTyped
  <2>1. << >> \in Seq(StreamType) /\ << >> \in Seq(MessageType) /\ Len(<< >>) = 0
    OBVIOUS
  <2> QED
    BY <1>1, <2>1, EmptyIs DEF StreamsTyped
<1> QED
  BY <1>1, <1>2 DEF StreamInv, AllCarried, TurnFlows, AllSaid

LEMMA StreamStep == ASSUME StreamInv, [Stream!Next]_streamVars PROVE StreamInv'
<1>1. CASE UNCHANGED streamVars
  BY <1>1 DEF streamVars, StreamInv, StreamsTyped, AllCarried, TurnFlows, AllSaid
<1>2. CASE Stream!Next
  <2>1. CASE Stream!Send \/ Stream!Stop \/ Stream!SendCancelsRun \/ Stream!Drop \/ Stream!Tick
    BY <2>1, SendStep, StopStep, SendCancelsStep, DropStep, TickStep
  <2>2. ASSUME NEW g \in DOMAIN streams,
               \/ \E c \in MCChunks : Stream!ChunkArrives(g, c)
               \/ Stream!WorkerSends(g) \/ Stream!ResponseEnds(g)
        PROVE  StreamInv'
    BY <2>2, WorkerStep
  <2>3. ASSUME NEW g \in DOMAIN streams,
               Stream!PumpEvent(g) \/ Stream!PumpSeesEnd(g) \/ Stream!PumpResult(g)
        PROVE  StreamInv'
    BY <2>3, PumpEventStep, PumpSeesEndStep, PumpResultStep
  <2> QED
    BY <1>2, <2>1, <2>2, <2>3 DEF Stream!Next
<1> QED
  BY <1>1, <1>2

LEMMA BeginningIs ==
  ASSUME NEW a \in Bits, NEW b \in Bits, NEW r \in Bits, b = a \o r
  PROVE  Stream!IsPrefix(a, b)
<1>1. a \in Seq(Token) /\ r \in Seq(Token) /\ Len(a) \in Nat /\ Len(r) \in Nat
  BY DEF Bits
<1>2. /\ b \in Seq(Token) /\ Len(b) = Len(a) + Len(r)
      /\ \A i \in 1..Len(a) + Len(r) : b[i] = IF i <= Len(a) THEN a[i] ELSE r[i - Len(a)]
  BY <1>1, ConcatProperties
<1>3. \A i \in 1..Len(a) : i \in 1..Len(b) /\ a[i] = b[i] /\ a[i] \in Token
  BY <1>1, <1>2
<1> DEFINE u == SubSeq(a, 1, Len(a))
           v == SubSeq(b, 1, Len(a))
<1>4. /\ u \in Seq(Token) /\ Len(u) = (IF 1 <= Len(a) THEN Len(a) - 1 + 1 ELSE 0)
      /\ \A i \in 1..Len(a) - 1 + 1 : u[i] = a[1 + i - 1]
  <2>1. 1 \in Int /\ Len(a) \in Int /\ \A i \in 1..Len(a) : a[i] \in Token
    BY <1>1, <1>3
  <2> QED
    BY <2>1, SubSeqProperties
<1>5. /\ v \in Seq(Token) /\ Len(v) = (IF 1 <= Len(a) THEN Len(a) - 1 + 1 ELSE 0)
      /\ \A i \in 1..Len(a) - 1 + 1 : v[i] = b[1 + i - 1]
  <2>1. 1 \in Int /\ Len(a) \in Int /\ \A i \in 1..Len(a) : b[i] \in Token
    BY <1>1, <1>3
  <2> QED
    BY <2>1, SubSeqProperties
<1> HIDE DEF u, v
<1>6. Len(u) = Len(a) /\ Len(v) = Len(a) /\ \A i \in 1..Len(a) : u[i] = v[i]
  <2>1. Len(u) = Len(a) /\ Len(v) = Len(a)
    BY <1>1, <1>4, <1>5
  <2>2. \A i \in 1..Len(a) : i \in 1..Len(a) - 1 + 1 /\ 1 + i - 1 = i
    BY <1>1
  <2> QED
    BY <1>3, <1>4, <1>5, <2>1, <2>2
<1>7. u = v
  BY <1>4, <1>5, <1>6, SeqEqual
<1> QED
  BY <1>1, <1>2, <1>7 DEF Stream!IsPrefix, u, v

LEMMA StreamTells == ASSUME StreamInv PROVE Stream!CommittedAsSent
<1>1. StreamsTyped /\ AllSaid
  BY DEF StreamInv
<1> SUFFICES ASSUME NEW k \in DOMAIN said, NEW t \in Texts
             PROVE  LET m == said[k] IN
                    CASE m.how = "ok"    -> m.text[t] = Stream!SentText(m.gen, t) /\ m.calls = Stream!SentCalls(m.gen)
                      [] m.how = "error" -> m.text[t] = Stream!SentText(m.gen, t)
                      [] OTHER -> Stream!IsPrefix(m.text[t], Stream!SentText(m.gen, t)) /\ m.calls = << >>
  BY DEF Stream!CommittedAsSent, Texts
<1> DEFINE m == said[k]
           s == streams[m.gen]
<1>2. m \in MessageType /\ m.gen \in 1..turn /\ SaidOf(m, s)
  BY <1>1 DEF StreamsTyped, AllSaid
<1>3. s \in StreamType /\ m.gen \in Nat
  BY <1>1, <1>2, Basics
<1>4. Stream!SentText(m.gen, t) = TextIn(m.gen, s.wire, t) /\ Stream!SentCalls(m.gen) = CallsIn(m.gen, s.wire)
  BY SentIs
<1>5. m.text[t] \in Bits /\ m.how \in {"ok", "error", "cancelled"}
  BY <1>2 DEF MessageType, Bits
<1>6. TextIn(m.gen, s.wire, t) \in Bits
  BY <1>3, Fields, WireTyped DEF Bits
<1> HIDE DEF m, s
<1>7. CASE m.how = "ok"
  BY <1>2, <1>4, <1>7 DEF SaidOf, m
<1>8. CASE m.how = "error"
  BY <1>2, <1>4, <1>8 DEF SaidOf, m
<1>9. CASE m.how = "cancelled"
  <2>1. m.calls = << >> /\ \E r \in Bits : TextIn(m.gen, s.wire, t) = m.text[t] \o r
    BY <1>2, <1>9 DEF SaidOf
  <2>2. Stream!IsPrefix(m.text[t], TextIn(m.gen, s.wire, t))
    <3> DEFINE a == m.text[t]
               b == TextIn(m.gen, s.wire, t)
    <3>1. PICK r \in Bits : b = a \o r
      BY <2>1
    <3>2. a \in Bits /\ b \in Bits
      BY <1>5, <1>6
    <3> HIDE DEF a, b
    <3>3. Stream!IsPrefix(a, b)
      BY <3>1, <3>2, BeginningIs
    <3> QED
      BY <3>3 DEF a, b
  <2> QED
    BY <1>4, <1>9, <2>1, <2>2 DEF m
<1> QED
  BY <1>5, <1>7, <1>8, <1>9

\* What a turn committed is what its own response said: all of it, every call with all
\* its arguments, when the response came to an end; all that came before an error; or,
\* when the user stopped it, a beginning (openai.rs accumulate_delta and finish, lib.rs
\* ChatStream::cancel, ai.rs finish_turn and finalize_turn) - for any number of turns
\* and chunks, whatever the capacity of the channel and however long superseded workers
\* and pumps go on.
THEOREM TurnsSaidAsSent == MCSpec => []TurnsSound
<1>1. MCInit => StreamInv
  BY StreamBegins DEF MCInit
<1>2. StreamInv /\ [MCNext]_<<kind, vars, waitsVars, streamVars>> => StreamInv'
  <2> SUFFICES ASSUME StreamInv, [MCNext]_<<kind, vars, waitsVars, streamVars>> PROVE StreamInv'
    OBVIOUS
  <2>1. [Stream!Next]_streamVars
    BY DEF MCNext
  <2> QED
    BY <2>1, StreamStep
<1>3. StreamInv => TurnsSound
  BY StreamTells DEF TurnsSound
<1> QED
  BY <1>1, <1>2, <1>3, PTL DEF MCSpec
=============================================================================
