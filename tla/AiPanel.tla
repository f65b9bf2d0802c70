------------------------------ MODULE AiPanel ------------------------------
(***************************************************************************)
(* The agent loop of one AI panel (src/crabport-ui/src/views/panel/ai.rs): *)
(* a conversation, at most one request to the model at a time, tool calls  *)
(* that wait for the user and then run off the UI thread, a queue of       *)
(* messages typed meanwhile, and automatic compaction of the history       *)
(* (src/crabport-agent/src/compaction.rs).                                 *)
(*                                                                         *)
(* The UI thread runs one handler at a time, but a handler runs a cascade  *)
(* (a settled call continues the loop, which starts a turn or a            *)
(* compaction; a finished turn sends the queue's head).  The panel is one  *)
(* record, and each method is an operator that returns the set of panels   *)
(* it may leave behind; an action takes the whole cascade.                 *)
(***************************************************************************)
EXTENDS Naturals, Sequences, FiniteSets

CONSTANTS
    MaxTyped,   \* bound: messages the user types
    MaxCalls,   \* bound: tool calls the model asks for, whatever the circumstances
    PerTurn,    \* bound: tool calls in one turn
    Fates,      \* what the settings and the session decide of a new call
    ToolKinds,  \* "exec": stops through its token; "wait": stopped by the card
    Circumstances  \* what a conversation may meet: see `around`

ASSUME PanelAssumption ==
    /\ MaxTyped \in Nat /\ MaxCalls \in Nat /\ PerTurn \in Nat \ {0}
    /\ Fates \subseteq {"confirm", "blocked", "deny", "refused", "done", "running"}
    /\ ToolKinds \subseteq {"exec", "wait"}
    /\ Circumstances \subseteq [compacts : BOOLEAN, configured : SUBSET BOOLEAN,
                                 calls : 0..MaxCalls]

VARIABLES
    panel,      \* the AiPanel struct
    pumps,      \* tasks pumping a chat or summary stream
    execs,      \* tool executions whose outcome has not been received
    typed,      \* messages typed so far; the last one's identity
    asked,      \* tool calls asked for so far
    approved,   \* calls that the user or the settings allowed to run
    provider,   \* resolve_provider_session finds one
    around      \* fixed at the start: may the history outgrow the window
                \* (compacts), which answers may the settings give to "is a
                \* provider configured", how many calls the model asks for

vars == <<panel, pumps, execs, typed, asked, approved, provider, around>>

Call == [id : 1..MaxCalls, kind : ToolKinds,
         decision : {"Pending", "Allowed", "Denied", "Unavailable"},
         result : {"none", "own", "foreign", "note"},
         running : BOOLEAN, cancelled : BOOLEAN]
NoFinish == [gen |-> 0]

TypeOK ==
    /\ panel.generation \in Nat
    /\ panel.stream \in 0..panel.generation         \* 0: None
    /\ panel.compaction \in 0..Len(panel.messages)  \* the cut; 0: None
    /\ panel.finish.gen \in 0..panel.generation
    /\ \A i \in DOMAIN panel.messages :
          LET m == panel.messages[i] IN
          /\ m.role \in {"User", "Assistant", "Summary"}
          /\ m.gen \in 0..panel.generation /\ m.text \in 0..typed
          /\ Len(m.calls) <= PerTurn
          /\ \A j \in DOMAIN m.calls : m.calls[j] \in Call
    /\ \A i \in DOMAIN panel.queue : panel.queue[i] \in 1..typed
    /\ pumps \subseteq [gen : 1..panel.generation, for : {"chat", "summary"},
                        cancelled : BOOLEAN]
    /\ \A x \in execs : x.call \in 1..asked /\ x.st \in {"live", "stopping", "late"}
    /\ typed \in 0..MaxTyped /\ asked \in 0..MaxCalls /\ approved \subseteq 1..asked
    /\ around \in Circumstances /\ provider \in around.configured

Init ==
    /\ panel = [messages |-> <<>>, stream |-> 0, generation |-> 0,
                compaction |-> 0, finish |-> NoFinish, queue |-> <<>>]
    /\ pumps = {} /\ execs = {} /\ typed = 0 /\ asked = 0 /\ approved = {}
    /\ around \in Circumstances /\ provider \in around.configured

-----------------------------------------------------------------------------
(* Reading the panel *)

Turn(role, gen, text, calls) == [role |-> role, gen |-> gen, text |-> text, calls |-> calls]

Cards(p) == {at \in (1..Len(p.messages)) \X (1..PerTurn) :
                at[2] \in DOMAIN p.messages[at[1]].calls}
Card(p, at) == p.messages[at[1]].calls[at[2]]
Unanswered(p) == {at \in Cards(p) : Card(p, at).result = "none"}

pending_tool_calls(p) ==
    {at \in Cards(p) : Card(p, at).decision = "Pending" \/ Card(p, at).running}

is_busy(p) ==
    \/ p.stream # 0 \/ p.finish # NoFinish \/ p.compaction # 0
    \/ pending_tool_calls(p) # {}

-----------------------------------------------------------------------------
(* The cascade: each operator is a set of panels *)

start_turn_unbumped(p) ==     \* slip: the generation stays
    {IF provider THEN [p EXCEPT !.stream = p.generation + 1, !.finish = NoFinish] ELSE p}

\* start_turn and start_stream; with no provider only the error line changes.
start_turn(p) ==
    {IF provider THEN [p EXCEPT !.generation = @ + 1, !.stream = p.generation + 1,
                                !.finish = NoFinish]
                 ELSE p}

\* compaction_cut, 0-based like the code: the last user turn among the first
\* ix ones, where the walk from the end stops at ix (0: never stops).
compaction_cut(msgs, ix) ==
    LET users == {i \in 1..ix : msgs[i].role = "User"} IN
    IF users = {} THEN 0 ELSE (CHOOSE i \in users : \A j \in users : j <= i) - 1

start_compaction(p) ==
    IF around.compacts /\ provider
      THEN LET cuts == {compaction_cut(p.messages, ix) : ix \in 0..Len(p.messages)} IN
           {[p EXCEPT !.generation = @ + 1, !.compaction = cut] : cut \in cuts \ {0}}
      ELSE {}

\* One turn at a time.
continue_after_tools(p) ==
    IF p.stream # 0 \/ p.compaction # 0 THEN {p}
    ELSE start_turn(p) \cup start_compaction(p)

continue_regardless(p) == continue_after_tools(p)     \* slip: no waiting

maybe_continue_after_tools(p) ==
    IF Unanswered(p) # {} THEN {p} ELSE continue_after_tools(p)

commit_and_send(p, text) ==
    continue_after_tools(
        [p EXCEPT !.messages = Append(@, Turn("User", p.generation, text, <<>>))])

send_nothing(p) == {p}        \* slip: the queue waits for the next submit

send_newest(p) ==             \* slip: the newest message first
    IF p.queue = <<>> \/ is_busy(p) THEN {p}
    ELSE LET n == Len(p.queue) IN
         commit_and_send([p EXCEPT !.queue = SubSeq(@, 1, n - 1)], p.queue[n])

send_queued(p) ==
    IF p.queue = <<>> \/ is_busy(p) THEN {p}
    ELSE commit_and_send([p EXCEPT !.queue = Tail(@)], Head(p.queue))

push_partial(p, gen, blank) ==
    IF blank THEN p
    ELSE [p EXCEPT !.messages = Append(@, Turn("Assistant", gen, 0, <<>>))]

\* Calls go on the assistant turn just committed, or on an empty one.
attach_calls(p, gen, calls) ==
    LET n == Len(p.messages) IN
    IF n > 0 /\ p.messages[n].role = "Assistant" /\ p.messages[n].calls = <<>>
      THEN [p EXCEPT !.messages[n].calls = calls]
      ELSE [p EXCEPT !.messages = Append(@, Turn("Assistant", gen, 0, calls))]

\* Blocked, denied and allowed calls resolve without a click, and the loop
\* goes on when that leaves none unanswered.
push_tool_calls(p, gen, calls) ==
    LET q == attach_calls(p, gen, calls) IN
    IF \A j \in DOMAIN calls : calls[j].decision = "Pending" THEN {q}
    ELSE maybe_continue_after_tools(q)

finalize_turn(p, gen, o) ==
    LET q == push_partial([p EXCEPT !.stream = 0], gen, o.blank) IN
    UNION {send_queued(r) :
             r \in IF o.calls = <<>> THEN {q} ELSE push_tool_calls(q, gen, o.calls)}

apply_summary_past(p) ==      \* slip: one turn too many is dropped
    [p EXCEPT !.messages = <<Turn("Summary", 0, 0, <<>>)>>
                           \o SubSeq(@, p.compaction + 2, Len(@))]

apply_summary(p) ==
    [p EXCEPT !.messages = <<Turn("Summary", 0, 0, <<>>)>>
                           \o SubSeq(@, p.compaction + 1, Len(@))]

\* A stop drops the held-up turn too; a failed round runs it on the old history.
finish_compaction(p, o) ==
    LET idle == [p EXCEPT !.compaction = 0] IN
    IF o = "cancelled" THEN {idle}
    ELSE start_turn(IF o = "summary" THEN [apply_summary(p) EXCEPT !.compaction = 0]
                                     ELSE idle)

\* The panel the cascade leaves behind, with the pump it may have started.
Leaves(panels, rest) ==
    \E p \in panels :
        /\ panel' = p
        /\ pumps' = rest \cup
             (IF p.stream # 0 /\ p.stream # panel.stream
                THEN {[gen |-> p.stream, for |-> "chat", cancelled |-> FALSE]} ELSE {})
             \cup
             (IF p.compaction # 0 /\ p.generation # panel.generation
                THEN {[gen |-> p.generation, for |-> "summary", cancelled |-> FALSE]} ELSE {})

-----------------------------------------------------------------------------
(* The user writes *)

\* Enter on a draft: queued while busy, else sent (the empty draft is kept
\* when no provider is configured).
Submit ==
    /\ typed < MaxTyped /\ typed' = typed + 1
    /\ IF is_busy(panel)
         THEN Leaves({[panel EXCEPT !.queue = Append(@, typed + 1)]}, pumps)
         ELSE provider /\ Leaves(commit_and_send(panel, typed + 1), pumps)
    /\ UNCHANGED <<execs, asked, approved, provider>>

\* The tail goes back to the input, or any entry is deleted.
RemoveQueued ==
    /\ \E i \in DOMAIN panel.queue :
          panel' = [panel EXCEPT !.queue =
                       SubSeq(@, 1, i - 1) \o SubSeq(@, i + 1, Len(@))]
    /\ UNCHANGED <<pumps, execs, typed, asked, approved, provider>>

\* A cancelled run: running calls are given up, unapproved ones refused.
Skipped(c) ==
    IF c.running
      THEN [c EXCEPT !.cancelled = TRUE, !.result = "note", !.running = FALSE]
    ELSE IF c.decision = "Pending" /\ c.result = "none"
      THEN [c EXCEPT !.decision = "Denied", !.result = "note"]
    ELSE c

\* cancel() on the handle of the stream, or of the compaction, in flight.
CancelLive == {IF t.gen = panel.generation THEN [t EXCEPT !.cancelled = TRUE] ELSE t
                  : t \in pumps}

\* Enter on an empty draft with messages waiting.
SendQueuedCancelRun ==
    /\ panel.queue # <<>>
    /\ LET skipped == [i \in DOMAIN panel.messages |->
                         [panel.messages[i] EXCEPT !.calls =
                            [j \in DOMAIN @ |-> Skipped(@[j])]]]
           p == [panel EXCEPT !.messages = skipped, !.stream = 0, !.compaction = 0,
                              !.finish = NoFinish, !.generation = @ + 1,
                              !.queue = Tail(@)]
       IN Leaves(commit_and_send(p, Head(panel.queue)),
                 CancelLive)
    /\ execs' = {[x EXCEPT !.st = "late"] : x \in execs}
    /\ UNCHANGED <<typed, asked, approved, provider>>

\* The composer's stop button.
Stop ==
    /\ panel.stream # 0 \/ panel.compaction # 0
    /\ pumps' = CancelLive
    /\ UNCHANGED <<panel, execs, typed, asked, approved, provider>>

-----------------------------------------------------------------------------
(* The model answers *)

NewCall(id, kind, fate) ==
    [id |-> id, kind |-> kind, cancelled |-> FALSE, running |-> fate = "running",
     decision |-> [confirm |-> "Pending", blocked |-> "Unavailable", deny |-> "Denied",
                   refused |-> "Denied", done |-> "Allowed", running |-> "Allowed"][fate],
     result   |-> [confirm |-> "none", blocked |-> "note", deny |-> "note",
                   refused |-> "note", done |-> "own", running |-> "none"][fate]]

Batches ==
    UNION {{[j \in 1..n |-> NewCall(asked + j, k[j], f[j])] :
              k \in [1..n -> ToolKinds], f \in [1..n -> Fates]} :
           n \in 0..(IF asked + PerTurn <= around.calls THEN PerTurn ELSE around.calls - asked)}

Replies == {[end |-> "ok", blank |-> b, calls |-> cs] : b \in BOOLEAN, cs \in Batches}
Broken(e) == {[end |-> e, blank |-> b, calls |-> <<>>] : b \in BOOLEAN}

\* The indices a run keeps of its card.
FirstPlace(p, id) == <<Len(p.messages), 1>>   \* slip: counted after filtering
Place(p, id) == CHOOSE at \in Cards(p) : Card(p, at).id = id

NeverSuperseded(t) == FALSE   \* slip: no generation guard
Superseded(t) == t.gen # panel.generation

\* Calls that run without a click start as the turn is committed.
Committed(o) ==
    /\ asked' = asked + Len(o.calls)
    /\ approved' = approved \cup
         {o.calls[j].id : j \in {j \in DOMAIN o.calls : o.calls[j].decision = "Allowed"}}
    /\ execs' = execs \cup
         {[call |-> o.calls[j].id, st |-> "live", at |-> Place(panel', o.calls[j].id)]
            : j \in {j \in DOMAIN o.calls : o.calls[j].running}}

\* The pump delivers the end of its stream; a superseded one finds another
\* generation and changes nothing.  What is still unrevealed holds the commit up.
ChatEnds(t) ==
    /\ t \in pumps /\ t.for = "chat"
    /\ IF Superseded(t)
         THEN pumps' = pumps \ {t} /\ UNCHANGED <<panel, execs, asked, approved>>
         ELSE \E o \in Replies \cup Broken("err")
                       \cup (IF t.cancelled THEN Broken("cancelled") ELSE {}) :
              \/ Leaves(finalize_turn(panel, t.gen, o), pumps \ {t}) /\ Committed(o)
              \/ /\ o.end # "cancelled" /\ ~o.blank
                 /\ panel' = [panel EXCEPT !.finish = [gen |-> t.gen, outcome |-> o]]
                 /\ pumps' = pumps \ {t} /\ UNCHANGED <<execs, asked, approved>>
    /\ UNCHANGED <<typed, provider>>

\* reveal_step: the buffers are drained, the waiting turn is committed.
RevealDrained ==
    /\ panel.finish # NoFinish
    /\ LET f == panel.finish
           p == [panel EXCEPT !.finish = NoFinish]
       IN IF f.gen # panel.generation
            THEN panel' = p /\ UNCHANGED <<pumps, execs, asked, approved>>
            ELSE Leaves(finalize_turn(p, f.gen, f.outcome), pumps) /\ Committed(f.outcome)
    /\ UNCHANGED <<typed, provider>>

SummaryEnds(t) ==
    /\ t \in pumps /\ t.for = "summary"
    /\ IF Superseded(t) \/ panel.compaction = 0
         THEN pumps' = pumps \ {t} /\ UNCHANGED panel
         ELSE \E o \in {"summary", "failed"}
                       \cup (IF t.cancelled THEN {"cancelled"} ELSE {}) :
              Leaves(finish_compaction(panel, o), pumps \ {t})
    /\ UNCHANGED <<execs, typed, asked, approved, provider>>

-----------------------------------------------------------------------------
(* Tool calls *)

Settle(at, card) ==
    Leaves(maybe_continue_after_tools([panel EXCEPT !.messages[at[1]].calls[at[2]] = card]),
           pumps)

DenyAllows(at) ==             \* slip: the click's answer is not looked at
    /\ Card(panel, at).decision = "Pending"
    /\ Settle(at, [Card(panel, at) EXCEPT !.decision = "Allowed", !.result = "own"])
    /\ UNCHANGED <<execs, typed, asked, approved, provider>>

Deny(at) ==
    /\ Card(panel, at).decision = "Pending"
    /\ Settle(at, [Card(panel, at) EXCEPT !.decision = "Denied", !.result = "note"])
    /\ UNCHANGED <<execs, typed, asked, approved, provider>>

\* run_tool: refused at the start, done at once, or running on a channel.
Allow(at) ==
    LET c == Card(panel, at) IN
    /\ c.decision = "Pending"
    /\ approved' = approved \cup {c.id}
    /\ \/ /\ \/ Settle(at, [c EXCEPT !.decision = "Denied", !.result = "note"])
             \/ \E r \in {"own", "note"} :  \* a note: the terminal is gone
                   Settle(at, [c EXCEPT !.decision = "Allowed", !.result = r])
          /\ UNCHANGED execs
       \/ /\ panel' = [panel EXCEPT !.messages[at[1]].calls[at[2]] =
                          [c EXCEPT !.decision = "Allowed", !.running = TRUE]]
          /\ execs' = execs \cup {[call |-> c.id, st |-> "live", at |-> at]}
          /\ UNCHANGED pumps
    /\ UNCHANGED <<typed, asked, provider>>

HeedsAll(c) == FALSE          \* slip: late arrivals are not told apart
GivenUp(c) == c.cancelled

\* finish_tool, addressed by the indices taken when the call started.
Outcome(x) ==
    /\ x \in execs /\ execs' = execs \ {x}
    /\ IF x.at \notin Cards(panel)
         THEN Leaves(maybe_continue_after_tools(panel), pumps)
         ELSE LET c == Card(panel, x.at) IN
              IF GivenUp(c) THEN UNCHANGED <<panel, pumps>>
              ELSE \E stopped \in {FALSE, x.st = "stopping"} :
                   Settle(x.at,
                     [c EXCEPT !.result = IF c.id = x.call THEN "own" ELSE "foreign",
                               !.cancelled = stopped, !.running = FALSE,
                               !.decision = IF @ = "Pending" THEN "Allowed" ELSE @])
    /\ UNCHANGED <<typed, asked, approved, provider>>

Giving(x, at, st) == IF x.at = at /\ x.call = Card(panel, at).id THEN [x EXCEPT !.st = st] ELSE x

\* The card's stop button: a command stops through its token and settles
\* itself, anything else is given up here.
StopToolCall(at) ==
    LET c == Card(panel, at) IN
    /\ c.running
    /\ \/ /\ c.kind = "exec"
          /\ execs' = {Giving(x, at, "stopping") : x \in execs}
          /\ UNCHANGED <<panel, pumps>>
       \/ /\ c.kind = "wait"
          /\ execs' = {Giving(x, at, "late") : x \in execs}
          /\ Settle(at, [c EXCEPT !.cancelled = TRUE, !.result = "note", !.running = FALSE])
    /\ UNCHANGED <<typed, asked, approved, provider>>

-----------------------------------------------------------------------------
\* The settings window, any time.
Reconfigure ==
    /\ provider' \in around.configured \ {provider}
    /\ UNCHANGED <<panel, pumps, execs, typed, asked, approved>>

User ==
    \/ Reconfigure \/ Submit \/ RemoveQueued \/ SendQueuedCancelRun \/ Stop
    \/ \E at \in Cards(panel) : Deny(at) \/ Allow(at) \/ StopToolCall(at)
ModelStep == (\E t \in pumps : ChatEnds(t) \/ SummaryEnds(t)) \/ RevealDrained
ToolStep  == \E x \in execs : Outcome(x)

Next == (User \/ ModelStep \/ ToolStep) /\ UNCHANGED around

Spec == Init /\ [][Next]_vars

\* Streams end, the reveal ticks, and the executors answer: each has its own
\* timeout.  Nobody is obliged to click.
Fairness == WF_vars(ModelStep /\ UNCHANGED around) /\ WF_vars(ToolStep /\ UNCHANGED around)

FairSpec == Spec /\ Fairness
-----------------------------------------------------------------------------
(* Properties *)

\* A request is in flight only with every call answered, and never two at a
\* time: the wire history can't carry an unanswered call, and settling a chain
\* of calls starts one turn, not one per call.
RequestsAnswered ==
    panel.stream # 0 \/ panel.compaction # 0 =>
        /\ Unanswered(panel) = {} /\ pending_tool_calls(panel) = {}
        /\ panel.stream = 0 \/ panel.compaction = 0
        /\ Cardinality({t \in pumps : t.gen = panel.generation}) <= 1

\* The generation guard: a turn superseded by "stop what is running, send the
\* queue" is never committed behind the message that replaced it.
TurnsInOrder ==
    \A i, j \in DOMAIN panel.messages : i < j =>
        panel.messages[i].gen <= panel.messages[j].gen

\* Messages typed while the panel is busy leave the queue oldest first, and a
\* later draft does not overtake them.
SentInOrder ==
    LET sent == {i \in DOMAIN panel.messages : panel.messages[i].role = "User"} IN
    /\ \A i, j \in sent : i < j => panel.messages[i].text < panel.messages[j].text
    /\ \A i \in sent, q \in DOMAIN panel.queue : panel.messages[i].text < panel.queue[q]

\* The panel with a provider throughout and a history that fits the window.
Steady == ~around.compacts /\ around.configured = {TRUE}

\* A queued draft "goes out on its own once the panel is idle again": an idle
\* panel has nothing queued.
IdleQueueEmpty == ~is_busy(panel) => panel.queue = <<>>

\* A decision is the user's or the settings': a call that waits for it is not
\* marked allowed by anything else.
AllowedByUser ==
    \A at \in Cards(panel) :
        Card(panel, at).decision = "Allowed" => Card(panel, at).id \in approved

\* A card shows its own call's outcome.
OwnResults == \A at \in Cards(panel) : Card(panel, at).result # "foreign"

\* The summary stands first and what it left verbatim opens with the user's
\* ask, so an assistant's calls and results travel together.
SummaryOpens ==
    \A i \in DOMAIN panel.messages : panel.messages[i].role = "Summary" =>
        /\ i = 1
        /\ Len(panel.messages) > 1 => panel.messages[2].role = "User"

LateIgnored(x) == x.st = "late" /\ Outcome(x) => panel' = panel

\* "A late arrival after the user already stopped waiting for the call is
\* ignored": it changes no card and starts no turn, as long as no compaction
\* renumbers the cards that it is addressed by.
LateOutcomeIgnored == [][\A x \in execs : ~around.compacts => LateIgnored(x)]_vars

\* The same, compaction or not.
LateAlwaysIgnored == [][\A x \in execs : LateIgnored(x)]_vars

\* "A failed or stopped round leaves the history as it was - the turn then
\* runs": a stopped compaction does not drop the turn it held up.
StoppedRoundRunsTurn ==
    [][\A t \in pumps : SummaryEnds(t) /\ panel.compaction # 0 /\ panel'.compaction = 0
          /\ provider => panel'.stream # 0]_vars

\* A queued message is eventually sent or taken back, unless the agent waits
\* for the user's decision on a call.
QueueDrains ==
    Steady /\ panel.queue # <<>> ~>
        \/ panel.queue = <<>>
        \/ \E at \in Cards(panel) : Card(panel, at).decision = "Pending"
=============================================================================
