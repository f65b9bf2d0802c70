------------------------------ MODULE MCAgent ------------------------------
(* An agent whose calls are about tunnels, one whose calls wait for the     *)
(* terminal's session, or the stream of the model's answers that asks for   *)
(* them: one of the three in each behaviour.                                *)
EXTENDS AgentTunnels

CONSTANTS WaitCalls, UserJobs, Quiet, Deadline, NoJob,     \* of AgentWaits
          Buffer, MaxCalls, MaxChunks, MaxTurns            \* of AiStream
VARIABLES
    kind,   \* "tunnels", "waits" or "stream"
    does, at, polls, quiet, dirty, printed, seen, stopped, answer, job, events, arcs,
    streams, turn, streaming, pending, shown, waiting, ticking, said, gone

\* Text of both sorts and fragments of three calls, out of order: the arguments
\* of one before its name, one past the limit.
Chunk(k, i, named, args) == [kind |-> k, index |-> i, named |-> named, args |-> args]
MCChunks ==
    {Chunk("content", 0, FALSE, FALSE), Chunk("reasoning", 0, FALSE, FALSE),
     Chunk("call", 1, TRUE, TRUE), Chunk("call", 0, FALSE, TRUE), Chunk("call", 2, TRUE, TRUE)}

Waits == INSTANCE AgentWaits WITH Calls <- WaitCalls
Stream == INSTANCE AiStream WITH live <- streaming, Chunks <- MCChunks, Cap <- Buffer
ASSUME MCAssumption == AgentAssumption /\ Waits!WaitsAssumption /\ Stream!AiStreamAssumption

waitsVars == <<does, at, polls, quiet, dirty, printed, seen, stopped, answer, job, events, arcs>>
streamVars == <<streams, turn, streaming, pending, shown, waiting, ticking, said, gone>>

Unused == [j \in Waits!Jobs |-> IF j \in WaitCalls THEN "worker" ELSE "list"]

MCInit ==
    /\ kind \in {"tunnels", "waits", "stream"} /\ Init /\ Waits!Init /\ Stream!Init
    /\ kind # "tunnels" => overlap
    /\ kind # "waits" => does = Unused

MCNext ==
    \/ kind = "tunnels" /\ Next /\ UNCHANGED <<kind, waitsVars, streamVars>>
    \/ kind = "waits" /\ Waits!Next /\ UNCHANGED <<kind, vars, streamVars>>
    \/ kind = "stream" /\ Stream!Next /\ UNCHANGED <<kind, vars, waitsVars>>

\* Each module's own fairness.
MCSpec ==
    /\ MCInit /\ [][MCNext]_<<kind, vars, waitsVars, streamVars>>
    /\ \A c \in Calls : WF_vars(kind = "tunnels" /\ Task(c))
    /\ WF_vars(kind = "tunnels" /\ DropStops) /\ WF_vars(kind = "tunnels" /\ Drain)
    /\ \A c \in WaitCalls : WF_waitsVars(kind = "waits" /\ Waits!Task(c))
    /\ WF_streamVars(kind = "stream" /\ Stream!Tick)
    /\ \A g \in 1..MaxTurns :
          WF_streamVars(/\ kind = "stream" /\ g \in DOMAIN streams
                        /\ \/ Stream!WorkerSends(g) \/ Stream!PumpEvent(g)
                           \/ Stream!PumpSeesEnd(g) \/ Stream!PumpResult(g))

\* Whatever a call waits for, it is answered, and truly; and a turn ends: the loop goes on.
EveryCallAnswered == CallsAnswered /\ Waits!WaitsEnd /\ Waits!TimeoutIsTrue /\ Stream!TurnsEnd

\* What a turn committed is what its own response said, all of it or, stopped, a beginning.
TurnsSound == Stream!CommittedAsSent
MCTypeOK == TypeOK /\ Waits!TypeOK /\ Stream!TypeOK
=============================================================================
