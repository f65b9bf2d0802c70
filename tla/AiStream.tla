------------------------------- MODULE AiStream -------------------------------
(***************************************************************************)
(* One answer of the provider on its way to the AI panel.  Sources:        *)
(* crabport-ai/src/openai.rs (the chunks of a response assembled on a      *)
(* worker thread), crabport-ai/src/lib.rs (the two channels between the    *)
(* worker and the panel) and crabport-ui/src/views/panel/ai.rs (the pump   *)
(* that takes the events, the reveal ticker and the commit of a turn).     *)
(*                                                                         *)
(* Every turn has a stream of its own, named by the panel's generation.    *)
(* A cancelled stream's worker and pump go on beside those of the next     *)
(* turn until each notices.  AiPanel abstracts all of this into a turn     *)
(* that ends; here a turn is followed chunk by chunk.                      *)
(***************************************************************************)
EXTENDS Naturals, Sequences, SequencesExt

CONSTANTS Chunks,     \* what the server may send: records [kind, index, named, args]
          Cap,        \* capacity of the event channel
          MaxCalls,   \* MAX_TOOL_CALLS
          MaxChunks,  \* bound: chunks of all responses
          MaxTurns    \* bound: turns

AiStreamAssumption ==
  /\ \A c \in Chunks : c.kind \in {"content", "reasoning", "call"} /\ c.index \in Nat
  /\ Cap \in Nat \ {0} /\ {MaxCalls, MaxChunks, MaxTurns} \subseteq Nat

VARIABLES streams,   \* the streams started, by generation
          turn,      \* generation
          live,      \* AiPanel::stream is some
          pending,   \* received and not yet revealed, per kind of text
          shown,     \* stream_buf and stream_reasoning
          waiting,   \* finish_pending
          ticking,   \* reveal_ticking
          said,      \* the assistant's messages
          gone       \* the panel has been dropped

vars == <<streams, turn, live, pending, shown, waiting, ticking, said, gone>>

Texts == {"content", "reasoning"}
Empty == [t \in Texts |-> << >>]
None == [kind |-> "none"]
Drained == pending = Empty

Started == [worker |-> "on", wire |-> << >>, acc |-> [text |-> Empty, slots |-> << >>],
            outbox |-> << >>, events |-> << >>, closed |-> FALSE,
            done |-> None, doneClosed |-> FALSE, pump |-> "events"]

Init ==
  /\ streams = << >> /\ turn = 0 /\ live = FALSE
  /\ pending = Empty /\ shown = Empty /\ waiting = None /\ ticking = FALSE
  /\ said = << >> /\ gone = FALSE

panel == <<turn, live, pending, shown, waiting, ticking, said, gone>>

-----------------------------------------------------------------------------
(* The worker thread.                                                      *)

\* PartialToolCall
Slot == [announced |-> FALSE, args |-> << >>]
Padded(slots, n) == slots \o [i \in 1..(IF n > Len(slots) THEN n - Len(slots) ELSE 0) |-> Slot]

\* accumulate_delta: what is kept, and the events that are sent.
Piece(g) == <<g, Len(streams[g].wire) + 1>>
Taken(acc, c, piece) ==
  IF c.kind \in Texts THEN [acc EXCEPT !.text[c.kind] = Append(@, piece)]
  ELSE LET slots == [Padded(acc.slots, c.index + 1) EXCEPT
                       ![c.index + 1] = [announced |-> @.announced \/ c.named,
                                         args |-> IF c.args THEN Append(@.args, piece) ELSE @.args]]
       IN  [acc EXCEPT !.slots = slots]
Told(acc, c, piece) ==
  IF c.kind \in Texts THEN <<[kind |-> c.kind, piece |-> piece]>>
  ELSE LET old == Padded(acc.slots, c.index + 1)[c.index + 1].announced IN
       (IF c.named /\ ~old THEN <<[kind |-> "started", piece |-> piece]>> ELSE << >>)
         \o (IF c.args THEN <<[kind |-> "arguments", piece |-> piece]>> ELSE << >>)

\* The end of complete_stream: the events are closed, the outcome left to be read.
Ended(s, outcome) ==
  [s EXCEPT !.worker = "ended", !.outbox = << >>, !.closed = TRUE,
            !.done = IF s.doneClosed THEN None ELSE outcome]

\* filter: the elements at these places, in their order.
Chosen(s, keep) ==
  LET chosen[n \in 0..Len(s)] ==
        IF n = 0 THEN << >>
        ELSE IF n \in keep THEN Append(chosen[n - 1], s[n]) ELSE chosen[n - 1]
  IN  chosen[Len(s)]

\* TurnAccumulator::finish
Finished(acc) ==
  [kind |-> "ok", text |-> acc.text,
   calls |-> Chosen([i \in DOMAIN acc.slots |-> acc.slots[i].args],
                    {i \in DOMAIN acc.slots : acc.slots[i].announced})]
Failed == [kind |-> "error"]
Cancelled == [kind |-> "cancelled"]

\* Chunks that have come, of all streams.
Arrived == FoldLeft(LAMBDA n, s : n + Len(s.wire), 0, streams)

\* handle_chunk; a call past MAX_TOOL_CALLS is an error of the protocol.
ChunkArrives(g, c) ==
  LET s == streams[g] IN
  /\ s.worker = "on" /\ s.outbox = << >> /\ Arrived < MaxChunks
  /\ streams' = [streams EXCEPT ![g] =
       IF c.kind = "call" /\ c.index >= MaxCalls THEN Ended(s, Failed)
       ELSE [s EXCEPT !.wire = Append(@, c), !.acc = Taken(s.acc, c, Piece(g)),
                      !.outbox = Told(s.acc, c, Piece(g))]]
  /\ UNCHANGED panel

\* send: it blocks on a full channel and fails on a closed one.
WorkerSends(g) ==
  LET s == streams[g] IN
  /\ s.worker = "on" /\ s.outbox # << >>
  /\ s.closed \/ Len(s.events) < Cap
  /\ streams' = [streams EXCEPT ![g] =
       IF s.closed THEN Ended(s, Cancelled)
       ELSE [s EXCEPT !.events = Append(@, Head(s.outbox)), !.outbox = Tail(@)]]
  /\ UNCHANGED panel

ResponseEnds(g) ==
  LET s == streams[g] IN
  /\ s.worker = "on" /\ s.outbox = << >>
  /\ \E outcome \in {Finished(s.acc), Failed} : streams' = [streams EXCEPT ![g] = Ended(s, outcome)]
  /\ UNCHANGED panel

-----------------------------------------------------------------------------
(* The panel.                                                              *)

\* Mutant of Current: any stream may write.
AnyStream(g) == ~gone

\* The guard of every update the pump makes.
Current(g) == ~gone /\ turn = g

\* Mutant of Cancel: the channel of events stays open.
CancelOutcome(s) == [s EXCEPT !.doneClosed = TRUE]

\* ChatStream::cancel
Cancel(s) == [s EXCEPT !.closed = TRUE, !.doneClosed = TRUE]

Reset == pending' = Empty /\ shown' = Empty /\ waiting' = None

\* start_stream
Starts == live' = TRUE /\ turn' = turn + 1 /\ Reset

\* commit_and_send, send_queued or continue_after_tools when nothing is in flight
Send ==
  /\ ~gone /\ ~live /\ turn < MaxTurns
  /\ Starts
  /\ streams' = Append(streams, Started)
  /\ UNCHANGED <<ticking, said, gone>>

Stop ==
  /\ ~gone /\ live
  /\ streams' = [streams EXCEPT ![turn] = Cancel(@)]
  /\ UNCHANGED panel

\* send_queued_cancel_run: what was shown of the reply goes too.
SendCancelsRun ==
  /\ ~gone /\ live /\ turn < MaxTurns
  /\ Starts
  /\ streams' = Append([streams EXCEPT ![turn] = Cancel(@)], Started)
  /\ UNCHANGED <<ticking, said, gone>>

\* The panel's terminal is closed; the pump keeps its clone of the stream.
Drop ==
  /\ ~gone /\ gone' = TRUE
  /\ UNCHANGED <<streams, turn, live, pending, shown, waiting, ticking, said>>

\* finalize_turn: the response's own text, or what was shown; blank turns leave nothing.
Text(outcome, partial) ==
  [t \in Texts |-> IF outcome.kind = "ok" /\ outcome.text[t] # << >>
                   THEN outcome.text[t] ELSE partial[t]]
CallsOf(outcome) == IF outcome.kind = "ok" THEN outcome.calls ELSE << >>
Finalize(outcome, partial) ==
  /\ live' = FALSE
  /\ Reset
  /\ said' = IF Text(outcome, partial) = Empty /\ CallsOf(outcome) = << >> THEN said
             ELSE Append(said, [gen |-> turn, how |-> outcome.kind,
                                text |-> Text(outcome, partial), calls |-> CallsOf(outcome)])

\* finish_turn
Finish(outcome) ==
  IF outcome.kind = "cancelled" \/ Drained
  THEN Finalize(outcome, shown) /\ UNCHANGED ticking
  ELSE /\ waiting' = [gen |-> turn, outcome |-> outcome]
       /\ ticking' = TRUE
       /\ UNCHANGED <<live, pending, shown, said>>

\* The pump: events first, even those left in a closed channel.
PumpEvent(g) ==
  LET s == streams[g]
      e == Head(s.events) IN
  /\ s.pump = "events" /\ s.events # << >>
  /\ streams' = [streams EXCEPT ![g].events = Tail(@)]
  /\ IF Current(g) /\ e.kind \in Texts
     THEN pending' = [pending EXCEPT ![e.kind] = Append(@, e.piece)] /\ ticking' = TRUE
     ELSE UNCHANGED <<pending, ticking>>
  /\ UNCHANGED <<turn, live, shown, waiting, said, gone>>

PumpSeesEnd(g) ==
  LET s == streams[g] IN
  /\ s.pump = "events" /\ s.events = << >> /\ s.closed
  /\ streams' = [streams EXCEPT ![g].pump = "result"]
  /\ UNCHANGED panel

PumpResult(g) ==
  LET s == streams[g] IN
  /\ s.pump = "result" /\ (s.done # None \/ s.doneClosed)
  /\ streams' = [streams EXCEPT ![g].pump = "over"]
  /\ IF Current(g) THEN Finish(IF s.done # None THEN s.done ELSE Cancelled)
     ELSE UNCHANGED <<live, pending, shown, waiting, ticking, said>>
  /\ UNCHANGED <<turn, gone>>

\* reveal_step: some of each buffer is typed out; once both are drained the turn that
\* waits for it is committed and the ticker stops.
Revealed(n) == [t \in Texts |-> SubSeq(pending[t], 1, n[t])]
Tick ==
  /\ ticking /\ ~gone
  /\ \E n \in [Texts -> 0..MaxChunks] :
       /\ \A t \in Texts : n[t] <= Len(pending[t]) /\ (pending[t] # << >> => n[t] > 0)
       /\ LET now == [t \in Texts |-> shown[t] \o Revealed(n)[t]]
              left == [t \in Texts |-> SubSeq(pending[t], n[t] + 1, Len(pending[t]))]
          IN  IF left # Empty
              THEN pending' = left /\ shown' = now /\ UNCHANGED <<live, waiting, ticking, said>>
              ELSE /\ ticking' = FALSE
                   /\ IF waiting # None /\ waiting.gen = turn
                      THEN Finalize(waiting.outcome, now)
                      ELSE pending' = Empty /\ shown' = now /\ waiting' = None
                           /\ UNCHANGED <<live, said>>
  /\ UNCHANGED <<streams, turn, gone>>

Next ==
  \/ Send \/ Stop \/ SendCancelsRun \/ Drop \/ Tick
  \/ \E g \in DOMAIN streams :
        \/ \E c \in Chunks : ChunkArrives(g, c)
        \/ WorkerSends(g) \/ ResponseEnds(g)
        \/ PumpEvent(g) \/ PumpSeesEnd(g) \/ PumpResult(g)

\* The worker, the pump and the ticker run; the server may fall silent for ever.
Fairness ==
  /\ WF_vars(Tick)
  /\ \A g \in 1..MaxTurns :
        WF_vars(g \in DOMAIN streams
                /\ (WorkerSends(g) \/ PumpEvent(g) \/ PumpSeesEnd(g) \/ PumpResult(g)))

Spec == Init /\ [][Next]_vars /\ Fairness

-----------------------------------------------------------------------------
\* Every variable stays in its type.
TypeOK ==
  /\ turn = Len(streams) /\ turn <= MaxTurns
  /\ {live, ticking, gone} \subseteq BOOLEAN
  /\ \A g \in DOMAIN streams : /\ Len(streams[g].events) <= Cap
                               /\ streams[g].pump \in {"events", "result", "over"}
                               /\ streams[g].worker \in {"on", "ended"}
  /\ DOMAIN pending = Texts /\ DOMAIN shown = Texts

\* What the server sent of one kind of text, and the calls it announced with all their
\* arguments, read off the response itself.
Pieces(g, w) == [n \in DOMAIN w |-> <<g, n>>]
SentText(g, t) ==
  LET w == streams[g].wire IN Chosen(Pieces(g, w), {n \in DOMAIN w : w[n].kind = t})
SentCalls(g) ==
  LET w == streams[g].wire
      of(i) == {n \in DOMAIN w : w[n].kind = "call" /\ w[n].index + 1 = i}
      argsOf == [i \in 1..MaxCalls |-> Chosen(Pieces(g, w), {n \in of(i) : w[n].args})]
  IN  Chosen(argsOf, {i \in 1..MaxCalls : \E n \in of(i) : w[n].named})

\* A committed message says what its own turn's response said: all of it, with every
\* call and its arguments, when the response came to an end; all that came before the
\* error; or, when the user stopped it, a beginning of it (openai.rs accumulate_delta
\* and finish, ai.rs finish_turn and finalize_turn).  Nothing of a superseded stream
\* gets in, however long its worker and pump go on.
CommittedAsSent ==
  \A k \in DOMAIN said :
    LET m == said[k] IN
    \A t \in Texts :
      CASE m.how = "ok"    -> m.text[t] = SentText(m.gen, t) /\ m.calls = SentCalls(m.gen)
        [] m.how = "error" -> m.text[t] = SentText(m.gen, t)
        [] OTHER           -> IsPrefix(m.text[t], SentText(m.gen, t)) /\ m.calls = << >>

\* A turn that was stopped, and one whose response has ended, leaves the panel free for
\* the next, even if the server never sends another byte (lib.rs ChatStream::cancel).
TurnsEnd ==
  \A g \in 1..MaxTurns :
    (g \in DOMAIN streams /\ (streams[g].doneClosed \/ streams[g].worker = "ended"))
      ~> (gone \/ ~(live /\ turn = g))
=============================================================================
