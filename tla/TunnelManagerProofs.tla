------------------------ MODULE TunnelManagerProofs ------------------------
(* Proofs about TunnelManager, for any calls, clients, managers and ports. *)
EXTENDS TunnelManager, TLAPS

\* What a start call's phase tells of its arguments.
CallShape ==
    \A s \in Starts :
        /\ calls[s].phase \in {"spawned", "keyed", "ok"} => calls[s].port \in Ports
        /\ calls[s].phase = "granted" => BoundPort(calls[s].port, calls[s].reply) \in Ports
        /\ calls[s].phase = "spawned" => IsListener(s)
        /\ calls[s].phase \in {"registered", "granted", "refused", "keyed"}
              => calls[s].kind = "Remote"

TunnelShape == \A s \in tunnels : calls[s].phase = "ok"

\* A stop has a tunnel in hand exactly while it tears it down.
StopShape ==
    \A x \in Stops :
        /\ stops[x].cur # None =>
              stops[x].pc \in {"teardown", "cancel"} /\ calls[stops[x].cur].phase = "ok"
        /\ stops[x].pc \in {"teardown", "cancel"} => stops[x].cur # None
        /\ stops[x].pc = "cancel" => ~IsListener(stops[x].cur)

\* The connection an accept loop has in hand is its own, and nobody else's yet.
LoopShape ==
    \A s \in Starts :
        /\ Listening(s) => IsListener(s) /\ calls[s].phase \in {"spawned", "ok"}
        /\ loops[s].at \in {"got", "spawned"} =>
              loops[s].conn \in Conns /\ conns[loops[s].conn].of = s
        /\ loops[s].at = "got" => conns[loops[s].conn].st = "accepted"
        /\ loops[s].at = "spawned" => conns[loops[s].conn].st \notin {"idle", "accepted"}

\* Abort handles are those of connection tasks that run or have run.
TaskShape ==
    \A s \in Starts : \A c \in connTasks[s] :
        /\ IsListener(s) /\ calls[s].phase \in {"spawned", "ok"}
        /\ conns[c].st \notin {"idle", "accepted"}

\* The server listens on the port its tunnel will be, or is, known by.
ServerShape ==
    \A p \in Ports : server[p] # None =>
        LET s == server[p] IN
        /\ calls[s].kind = "Remote" /\ calls[s].phase \in {"granted", "keyed", "ok"}
        /\ p = IF calls[s].phase = "granted" THEN BoundPort(calls[s].port, calls[s].reply)
               ELSE calls[s].port

\* The inductive invariant.
IInv ==
    /\ TypeOK /\ CallShape /\ TunnelShape /\ StopShape /\ LoopShape /\ TaskShape /\ ServerShape
    /\ ListenersAccounted /\ ForwardsAccounted /\ RegisteredConnsDieWithTunnel

LEMMA InitInv == Init => IInv
  <1> SUFFICES ASSUME Init PROVE IInv
      OBVIOUS
  <1> USE ConstantsAssumption DEF Init
  <1>1. TypeOK
        BY DEF TypeOK, Call, Phases, Loop, Conn, Stop
  <1>2. CallShape /\ TunnelShape /\ ServerShape
        BY DEF CallShape, TunnelShape, ServerShape
  <1>3. StopShape
        BY DEF StopShape
  <1>4. LoopShape /\ TaskShape
        BY DEF LoopShape, TaskShape, Listening
  <1>5. ListenersAccounted /\ ForwardsAccounted /\ RegisteredConnsDieWithTunnel
        BY DEF ListenersAccounted, ForwardsAccounted, RegisteredConnsDieWithTunnel, Listening
  <1> QED BY <1>1, <1>2, <1>3, <1>4, <1>5 DEF IInv

-----------------------------------------------------------------------------
(* Starts *)

\* The steps of a start that leave it without a listener, an entry or a
\* forward.
Started(s) ==
    \/ \E m \in Managers, k \in Kinds : BindFails(s, k, m)
    \/ "Remote" \in Kinds /\ \E m \in Managers : RemoteNoSession(s, m)
    \/ "Remote" \in Kinds /\ \E m \in Managers, want \in Ports \cup {0} :
                                   PreRegister(s, m, want)
    \/ ForwardRefused(s) \/ Rollback(s)

LEMMA StartedKeepsInv ==
    ASSUME IInv, NEW s \in Starts, Started(s)
    PROVE  IInv'
  <1> USE ConstantsAssumption DEF IInv, local, remote, source
  <1>1. /\ calls' \in [Starts -> Call] /\ calls'[s].phase \in {"failed", "registered", "refused"}
        /\ calls'[s].phase # "failed" => calls'[s].kind = "Remote"
    <2> USE DEF TypeOK, Call, Phases
    <2>1. CASE \E m \in Managers, k \in Kinds : BindFails(s, k, m)
          BY <2>1 DEF BindFails
    <2>2. CASE "Remote" \in Kinds /\ \E m \in Managers : RemoteNoSession(s, m)
          BY <2>2 DEF RemoteNoSession
    <2>3. CASE "Remote" \in Kinds /\ \E m \in Managers, want \in Ports \cup {0} :
                                         PreRegister(s, m, want)
          BY <2>3 DEF PreRegister
    <2>4. CASE ForwardRefused(s)
      <3>1. calls[s].kind = "Remote"
            BY <2>4 DEF ForwardRefused, CallShape
      <3>2. [calls[s] EXCEPT !.phase = "refused"] \in Call
            BY SMTT(30)
      <3> QED BY <2>4, <3>1, <3>2 DEF ForwardRefused
    <2>5. CASE Rollback(s)
      <3>1. [calls[s] EXCEPT !.phase = "failed"] \in Call
            BY SMTT(30)
      <3> QED BY <2>5, <3>1 DEF Rollback
    <2> QED BY <2>1, <2>2, <2>3, <2>4, <2>5 DEF Started
  <1>2. /\ calls[s].phase \in {"idle", "registered", "refused"}
        /\ \A t \in Starts \ {s} : calls'[t] = calls[t]
        /\ tunnels' = tunnels /\ connTasks' = connTasks /\ loops' = loops
        /\ aborted' = aborted /\ conns' = conns /\ server' = server /\ bridges' = bridges
        /\ stops' = stops /\ UNCHANGED <<slot, parked, link>>
        /\ registry' \in [Ports \cup {0} -> Starts \cup {None}]
        /\ hlock' \in Starts \cup Stops \cup Conns \cup {None}
        BY DEF Started, TypeOK, BindFails, RemoteNoSession, PreRegister, ForwardRefused, Rollback
  <1>3. TypeOK'
    <2>1. \A t \in tunnels : calls'[t] = calls[t]
          BY <1>2 DEF TypeOK, TunnelShape
    <2>2. tunnels' \in SUBSET {t \in Starts : calls'[t].port \in Ports}
          BY <1>2, <2>1 DEF TypeOK
    <2> QED BY <1>1, <1>2, <2>2 DEF TypeOK
  <1>4. (CallShape /\ TunnelShape)'
        BY <1>1, <1>2 DEF TypeOK, CallShape, TunnelShape, IsListener
  <1>5. StopShape'
        BY <1>1, <1>2 DEF StopShape, IsListener, TypeOK, Stop
  <1>6. (LoopShape /\ TaskShape)'
        BY <1>1, <1>2 DEF LoopShape, TaskShape, Listening, IsListener
  <1>7. ServerShape'
        BY <1>1, <1>2 DEF ServerShape, TypeOK
  <1>8. (ListenersAccounted /\ RegisteredConnsDieWithTunnel)'
        BY <1>1, <1>2 DEF ListenersAccounted, RegisteredConnsDieWithTunnel, Listening, TearingDown
  <1>9. ForwardsAccounted'
        BY <1>1, <1>2 DEF ForwardsAccounted, TearingDown, TypeOK
  <1> QED BY <1>3, <1>4, <1>5, <1>6, <1>7, <1>8, <1>9

\* The listener goes to the start, and the start's hand to the entry.
LEMMA BindKeepsInv ==
    ASSUME IInv, NEW s \in Starts, NEW k \in Kinds, NEW m \in Managers,
           NEW want \in Ports \cup {0}, Bind(s, k, m, want)
    PROVE  IInv'
  <1> USE ConstantsAssumption DEF IInv, Bind, local, remote, source
  <1>1. TypeOK'
    <2>1. calls' \in [Starts -> Call]
          BY DEF TypeOK, Call, Phases
    <2>2. tunnels' \in SUBSET {t \in Starts : calls'[t].port \in Ports}
          BY <2>1 DEF TypeOK, Call, TunnelShape
    <2>3. loops' \in [Starts -> Loop]
          BY SMTT(30) DEF TypeOK, Loop
    <2> QED BY <2>1, <2>2, <2>3 DEF TypeOK
  <1>2. (CallShape /\ TunnelShape)'
        BY DEF TypeOK, Call, CallShape, TunnelShape, IsListener, BoundPort
  <1>3. StopShape'
        BY DEF TypeOK, Call, Stop, StopShape, IsListener
  <1>4. LoopShape' /\ TaskShape'
        BY DEF TypeOK, Call, Loop, Conn, LoopShape, TaskShape, Listening, IsListener
  <1>5. ServerShape'
        BY DEF TypeOK, Call, ServerShape, BoundPort
  <1>6. ListenersAccounted'
        BY DEF TypeOK, Call, Loop, Stop, Listening, TearingDown, ListenersAccounted
  <1>7. ForwardsAccounted'
        BY DEF TypeOK, Call, Stop, ServerShape, TearingDown, ForwardsAccounted
  <1>8. RegisteredConnsDieWithTunnel'
        BY DEF TearingDown, RegisteredConnsDieWithTunnel
  <1> QED BY <1>1, <1>2, <1>3, <1>4, <1>5, <1>6, <1>7, <1>8

LEMMA InsertEntryKeepsInv ==
    ASSUME IInv, NEW s \in Starts, InsertEntry(s)
    PROVE  IInv'
  <1> USE ConstantsAssumption DEF IInv, InsertEntry, local, remote, source
  <1>1. TypeOK'
    <2>1. calls' \in [Starts -> Call]
          BY SMTT(30) DEF TypeOK, Call, Phases
    <2>2. tunnels' \in SUBSET {t \in Starts : calls'[t].port \in Ports}
          BY <2>1 DEF TypeOK, Call, TunnelShape, CallShape
    <2> QED BY <2>1, <2>2 DEF TypeOK
  <1>2. (CallShape /\ TunnelShape)'
        BY DEF TypeOK, Call, CallShape, TunnelShape, IsListener, BoundPort
  <1>3. StopShape'
        BY DEF TypeOK, Call, Stop, StopShape, IsListener
  <1>4. (LoopShape /\ TaskShape)'
        BY DEF TypeOK, Call, Loop, Conn, LoopShape, TaskShape, Listening, IsListener
  <1>5. ServerShape'
        BY DEF TypeOK, Call, CallShape, ServerShape, BoundPort
  <1>6. ListenersAccounted'
        BY DEF TypeOK, Call, Loop, Stop, Listening, TearingDown, ListenersAccounted
  <1>7. ForwardsAccounted'
        BY DEF TypeOK, Call, Stop, TearingDown, ForwardsAccounted
  <1>8. RegisteredConnsDieWithTunnel'
        BY DEF TypeOK, Conn, Stop, TearingDown, RegisteredConnsDieWithTunnel
  <1> QED BY <1>1, <1>2, <1>3, <1>4, <1>5, <1>6, <1>7, <1>8

\* A granted forward is the start's until its entry is in.
LEMMA GrantKeepsInv ==
    ASSUME IInv, NEW s \in Starts, ForwardGranted(s) \/ Rekey(s)
    PROVE  IInv'
  <1> USE ConstantsAssumption DEF IInv, local, remote, source
  <1>1. /\ calls'[s] \in Call /\ calls'[s].phase \in {"granted", "keyed"}
        /\ calls[s].kind = "Remote" /\ calls'[s].kind = "Remote"
        /\ calls'[s].phase = "granted" =>
              /\ calls[s].phase = "registered"
              /\ BoundPort(calls'[s].port, calls'[s].reply) \in Ports
              /\ server' = [server EXCEPT ![BoundPort(calls'[s].port, calls'[s].reply)] = s]
        /\ calls'[s].phase = "keyed" =>
              /\ calls'[s].port \in Ports /\ calls[s].phase = "granted" /\ server' = server
              /\ calls'[s].port = BoundPort(calls[s].port, calls[s].reply)
    <2>1. calls[s] \in Call /\ calls[s].kind = "Remote"
          BY DEF TypeOK, CallShape, ForwardGranted, Rekey
    <2>2. CASE ForwardGranted(s)
      <3>1. PICK p \in IF calls[s].port = 0 THEN Ephemeral ELSE {calls[s].port} :
               /\ server' = [server EXCEPT ![p] = s]
               /\ calls' = [calls EXCEPT ![s].phase = "granted",
                                         ![s].reply = IF calls[s].port = 0 THEN p ELSE 0]
            BY <2>2, Zenon DEF ForwardGranted
      <3>2. p \in Ports /\ (calls[s].port = 0 \/ p = calls[s].port)
            BY <2>1 DEF Call
      <3>3. calls'[s] = [calls[s] EXCEPT !.phase = "granted",
                                         !.reply = IF calls[s].port = 0 THEN p ELSE 0]
            BY <3>1 DEF TypeOK
      <3>4. /\ calls'[s].phase = "granted" /\ calls'[s].kind = "Remote" /\ calls'[s] \in Call
            /\ calls'[s].port = calls[s].port
            /\ calls'[s].reply = IF calls[s].port = 0 THEN p ELSE 0
            BY <2>1, <3>2, <3>3 DEF Call, Phases
      <3>5. BoundPort(calls'[s].port, calls'[s].reply) = p
            BY <3>2, <3>4 DEF BoundPort
      <3> QED BY <2>1, <2>2, <3>1, <3>2, <3>4, <3>5 DEF ForwardGranted
    <2>3. CASE Rekey(s)
      <3>1. BoundPort(calls[s].port, calls[s].reply) \in Ports /\ calls[s].phase = "granted"
            BY <2>3 DEF Rekey, CallShape
      <3>2. calls'[s] = [calls[s] EXCEPT !.phase = "keyed",
                                         !.port = BoundPort(calls[s].port, calls[s].reply)]
            BY <2>3 DEF Rekey, TypeOK
      <3>3. /\ calls'[s].phase = "keyed" /\ calls'[s].kind = "Remote" /\ calls'[s] \in Call
            /\ calls'[s].port = BoundPort(calls[s].port, calls[s].reply)
            BY <2>1, <3>1, <3>2 DEF Call, Phases
      <3> QED BY <2>1, <2>3, <3>1, <3>3 DEF Rekey
    <2> QED BY <2>2, <2>3
  <1>2. /\ calls[s].phase \in {"registered", "granted"}
        /\ \A t \in Starts \ {s} : calls'[t] = calls[t]
        /\ calls' = [calls EXCEPT ![s] = calls'[s]]
        /\ tunnels' = tunnels /\ connTasks' = connTasks /\ loops' = loops
        /\ aborted' = aborted /\ conns' = conns /\ bridges' = bridges
        /\ stops' = stops /\ UNCHANGED <<slot, parked, link>>
        /\ hlock' \in Starts \cup Stops \cup Conns \cup {None}
    <2>1. CASE ForwardGranted(s)
          BY ZenonT(60), <2>1 DEF ForwardGranted, TypeOK
    <2>2. CASE Rekey(s)
          BY <2>2 DEF Rekey, TypeOK
    <2> QED BY <2>1, <2>2
  <1>3. \A p \in Ports : server'[p] # None =>
            \/ server'[p] = server[p]
            \/ /\ server'[p] = s /\ calls'[s].phase = "granted"
               /\ p = BoundPort(calls'[s].port, calls'[s].reply)
        BY <1>1 DEF TypeOK
  <1>4. TypeOK'
    <2>1. calls' \in [Starts -> Call]
          BY <1>1, <1>2 DEF TypeOK
    <2>2. tunnels' \in SUBSET {t \in Starts : calls'[t].port \in Ports}
          BY <1>2 DEF TypeOK, TunnelShape
    <2>3. /\ server' \in [Ports -> Starts \cup {None}]
          /\ registry' \in [Ports \cup {0} -> Starts \cup {None}]
          BY DEF TypeOK, ForwardGranted, Rekey
    <2> QED BY <1>2, <2>1, <2>2, <2>3 DEF TypeOK
  <1>5. CallShape'
        BY <1>1, <1>2 DEF CallShape, IsListener
  <1>6. TunnelShape'
        BY <1>1, <1>2 DEF TypeOK, TunnelShape
  <1>7. StopShape'
        BY <1>1, <1>2 DEF TypeOK, Stop, StopShape, IsListener
  <1>8. (LoopShape /\ TaskShape)'
        BY <1>1, <1>2 DEF LoopShape, TaskShape, Listening, IsListener
  <1>9. ServerShape'
        BY <1>1, <1>2, <1>3 DEF TypeOK, ServerShape
  <1>10. (ListenersAccounted /\ RegisteredConnsDieWithTunnel)'
        BY <1>1, <1>2 DEF ListenersAccounted, RegisteredConnsDieWithTunnel, Listening, TearingDown
  <1>11. ForwardsAccounted'
        BY <1>1, <1>2, <1>3 DEF TypeOK, ForwardsAccounted, TearingDown
  <1> QED BY <1>4, <1>5, <1>6, <1>7, <1>8, <1>9, <1>10, <1>11

-----------------------------------------------------------------------------
(* Accept loops and connection tasks *)

LEMMA AcceptKeepsInv ==
    ASSUME IInv, NEW s \in Starts, NEW c \in Conns, Accept(s, c)
    PROVE  IInv'
  <1> USE ConstantsAssumption DEF IInv, Accept, local, remote, source
  <1>1. TypeOK'
    <2>1. loops' \in [Starts -> Loop]
          BY DEF TypeOK, Loop
    <2>2. conns' \in [Conns -> Conn]
          BY DEF TypeOK, Conn
    <2> QED BY <2>1, <2>2 DEF TypeOK
  <1>2. LoopShape'
        BY DEF TypeOK, Loop, Conn, LoopShape, Listening, IsListener
  <1>3. TaskShape'
        BY DEF TypeOK, Conn, TaskShape, IsListener
  <1>4. ListenersAccounted'
        BY DEF TypeOK, Loop, Listening, TearingDown, ListenersAccounted
  <1>5. RegisteredConnsDieWithTunnel'
        BY DEF TypeOK, Conn, TaskShape, TearingDown, RegisteredConnsDieWithTunnel
  <1>6. (CallShape /\ TunnelShape /\ StopShape /\ ServerShape /\ ForwardsAccounted)'
        BY DEF CallShape, TunnelShape, StopShape, ServerShape, ForwardsAccounted,
               TearingDown, IsListener, BoundPort
  <1> QED BY <1>1, <1>2, <1>3, <1>4, <1>5, <1>6

\* What a loop does next with the connection it has in hand, if any.
LEMMA LoopKeepsInv ==
    ASSUME IInv, NEW s \in Starts, LoopStep(s)
    PROVE  IInv'
  <1> USE ConstantsAssumption DEF IInv, local, remote, source
  <1> DEFINE c == loops[s].conn
  <1>1. /\ \A t \in Starts \ {s} : loops'[t] = loops[t]
        /\ \A d \in Conns \ {c} : conns'[d] = conns[d]
        /\ UNCHANGED <<calls, tunnels, aborted, registry, server, bridges, stops,
                       slot, parked, link, hlock>>
        BY DEF TypeOK, LoopStep, SpawnConn, RegisterConn, LoopDies
  <1>2. loops[s].at = "got" => c \in Conns /\ conns[c].st = "accepted" /\ conns[c].of = s
        BY DEF LoopShape
  <1>3. /\ loops'[s] \in Loop /\ loops'[s].at \in {"listen", "spawned", "dead"}
        /\ Listening(s)' => Listening(s)
        /\ loops'[s].at = "spawned" =>
              /\ loops[s].at = "got" /\ loops'[s].conn = c
              /\ conns'[c].of = s /\ conns'[c].st \in {"handshake", "waiting"}
    <2>1. loops[s] \in Loop
          BY DEF TypeOK
    <2>2. CASE SpawnConn(s)
          BY <2>1, <2>2, <1>2 DEF SpawnConn, TypeOK, Loop, Conn, Listening
    <2>3. CASE RegisterConn(s) \/ LoopDies(s)
          BY <2>1, <2>3 DEF RegisterConn, LoopDies, TypeOK, Loop, Listening
    <2> QED BY <2>2, <2>3 DEF LoopStep
  <1>4. /\ conns' \in [Conns -> Conn]
        /\ c \in Conns => conns'[c].of = conns[c].of
        /\ c \in Conns /\ conns'[c] # conns[c] =>
              loops[s].at = "got" /\ conns'[c].st \in {"handshake", "waiting", "closed"}
    <2>1. CASE SpawnConn(s)
          BY <2>1, <1>2 DEF SpawnConn, TypeOK, Conn
    <2>2. CASE RegisterConn(s)
          BY <2>2 DEF RegisterConn, TypeOK
    <2>3. CASE LoopDies(s)
          BY <2>3, <1>2 DEF LoopDies, TypeOK, Conn
    <2> QED BY <2>1, <2>2, <2>3 DEF LoopStep
  <1>5. \/ connTasks' = connTasks
        \/ /\ loops[s].at = "spawned" /\ s \in tunnels /\ c \in Conns /\ conns' = conns
           /\ connTasks' = [connTasks EXCEPT ![s] = @ \cup {c}]
        BY DEF LoopStep, SpawnConn, RegisterConn, LoopDies, LoopShape
  <1>6. TypeOK'
    <2>1. loops' \in [Starts -> Loop]
          BY <1>3 DEF TypeOK, LoopStep, SpawnConn, RegisterConn, LoopDies
    <2>2. connTasks' \in [Starts -> SUBSET Conns]
          BY <1>5 DEF TypeOK
    <2> QED BY <2>1, <2>2, <1>1, <1>4 DEF TypeOK
  <1>7. LoopShape'
    <2> SUFFICES ASSUME NEW t \in Starts
                 PROVE  /\ Listening(t)' => IsListener(t)' /\ calls'[t].phase \in {"spawned", "ok"}
                        /\ loops'[t].at \in {"got", "spawned"} =>
                              loops'[t].conn \in Conns /\ conns'[loops'[t].conn].of = t
                        /\ loops'[t].at = "got" => conns'[loops'[t].conn].st = "accepted"
                        /\ loops'[t].at = "spawned" =>
                              conns'[loops'[t].conn].st \notin {"idle", "accepted"}
        BY DEF LoopShape
    <2>1. CASE t = s
          BY <2>1, <1>1, <1>2, <1>3 DEF LoopShape, IsListener
    <2>2. CASE t # s
      <3>1. loops[t].at \in {"got", "spawned"} => loops[t].conn # c \/ loops[s].at # "got"
            BY <2>2, <1>2 DEF LoopShape
      <3> QED BY <2>2, <3>1, <1>1, <1>4 DEF LoopShape, Listening, IsListener
    <2> QED BY <2>1, <2>2
  <1>8. TaskShape'
    <2>1. \A d \in Conns : conns[d].st \notin {"idle", "accepted"} =>
              conns'[d].st \notin {"idle", "accepted"}
          BY <1>1, <1>4
    <2>2. loops[s].at = "spawned" =>
              /\ IsListener(s) /\ calls[s].phase \in {"spawned", "ok"}
              /\ conns[c].st \notin {"idle", "accepted"}
          BY DEF LoopShape, Listening
    <2>3. \A t \in Starts : connTasks'[t] \subseteq connTasks[t]
                 \cup (IF t = s /\ loops[s].at = "spawned" THEN {c} ELSE {})
          BY <1>5 DEF TypeOK
    <2> QED BY <2>1, <2>2, <2>3, <1>1, <1>6 DEF TypeOK, TaskShape, IsListener
  <1>9. ListenersAccounted'
        BY <1>1, <1>3 DEF ListenersAccounted, Listening, TearingDown
  <1>10. RegisteredConnsDieWithTunnel'
    <2>1. \A t \in Starts : \A d \in connTasks[t] : conns'[d] = conns[d]
          BY <1>1, <1>2, <1>4 DEF TypeOK, TaskShape
    <2>2. \A t \in Starts : \A d \in connTasks'[t] : d \in connTasks[t] \/ t \in tunnels
          BY <1>5 DEF TypeOK
    <2> QED BY <2>1, <2>2, <1>1 DEF RegisteredConnsDieWithTunnel, TearingDown
  <1>11. (CallShape /\ TunnelShape /\ StopShape /\ ServerShape /\ ForwardsAccounted)'
        BY <1>1 DEF CallShape, TunnelShape, StopShape, ServerShape, ForwardsAccounted,
               TearingDown, IsListener, BoundPort
  <1> QED BY <1>6, <1>7, <1>8, <1>9, <1>10, <1>11

LEMMA ConnKeepsInv ==
    ASSUME IInv, NEW c \in Conns, ConnStep(c) \/ BridgeEof(c)
    PROVE  IInv'
  <1> USE ConstantsAssumption DEF IInv, local, remote, source
  <1>1. /\ conns' \in [Conns -> Conn]
        /\ conns[c].st \notin {"idle", "accepted", "closed"}
        /\ conns'[c].of = conns[c].of /\ conns'[c].st \notin {"idle", "accepted"}
        /\ \A d \in Conns \ {c} : conns'[d] = conns[d]
        /\ hlock' \in Starts \cup Stops \cup Conns \cup {None}
        /\ UNCHANGED <<calls, tunnels, connTasks, loops, aborted, registry, server, bridges,
                       stops, slot, parked, link>>
    <2> USE DEF TypeOK, Conn
    <2>1. CASE Socks5Handshake(c)
          BY <2>1 DEF Socks5Handshake
    <2>2. CASE OpenDirect(c)
          BY <2>2 DEF OpenDirect
    <2>3. CASE OpenDirectReply(c)
          BY <2>3 DEF OpenDirectReply
    <2>4. CASE BridgeEof(c)
          BY <2>4 DEF BridgeEof
    <2> QED BY <2>1, <2>2, <2>3, <2>4 DEF ConnStep
  <1>2. TypeOK'
        BY <1>1 DEF TypeOK
  <1>3. (LoopShape /\ TaskShape)'
        BY <1>1 DEF TypeOK, LoopShape, TaskShape, Listening, IsListener
  <1>4. RegisteredConnsDieWithTunnel'
        BY <1>1 DEF TypeOK, RegisteredConnsDieWithTunnel, TearingDown
  <1>5. (CallShape /\ TunnelShape /\ StopShape /\ ServerShape)'
        BY <1>1 DEF CallShape, TunnelShape, StopShape, ServerShape, IsListener, BoundPort
  <1>6. (ListenersAccounted /\ ForwardsAccounted)'
        BY <1>1 DEF ListenersAccounted, ForwardsAccounted, Listening, TearingDown
  <1> QED BY <1>2, <1>3, <1>4, <1>5, <1>6

-----------------------------------------------------------------------------
(* Stops *)

\* The steps of a stop between two tunnels.
BetweenTunnels(x) ==
    \/ \E s \in Starts : StopOne(x, s)
    \/ \E m \in Managers : StopAll(x, m)
    \/ FinishStop(x) \/ Shutdown(x)

LEMMA PlainStopKeepsInv ==
    ASSUME IInv, NEW x \in Stops, BetweenTunnels(x)
    PROVE  IInv'
  <1> USE ConstantsAssumption DEF IInv, local, remote, source
  <1>1. /\ stops'[x] \in Stop /\ stops'[x].pc \notin {"teardown", "cancel"}
        /\ stops[x].pc \notin {"teardown", "cancel"}
        /\ stops'[x].cur = stops[x].cur /\ stops'[x].uncancelled = stops[x].uncancelled
    <2>1. stops[x] \in Stop
          BY DEF TypeOK
    <2>2. CASE \E s \in Starts : StopOne(x, s)
      <3> PICK s \in Starts : StopOne(x, s)
          BY <2>2
      <3>1. stops'[x] = [stops[x] EXCEPT !.pc = "next", !.todo = {s}]
            BY DEF StopOne, TypeOK
      <3>2. stops[x].pc = "idle"
            BY DEF StopOne
      <3>3. {s} \in SUBSET Starts
            OBVIOUS
      <3> QED BY <2>1, <3>1, <3>2, <3>3 DEF Stop
    <2>3. CASE \E m \in Managers : StopAll(x, m)
      <3> PICK m \in Managers : StopAll(x, m)
          BY <2>3
      <3> DEFINE ids == {t \in tunnels : calls[t].mgr = m}
      <3>1. stops'[x] = [stops[x] EXCEPT !.pc = "next", !.mgr = m, !.todo = ids]
            BY DEF StopAll, TypeOK
      <3>2. ids \in SUBSET Starts
            BY DEF TypeOK
      <3> HIDE DEF ids
      <3>3. stops[x].pc = "idle"
            BY DEF StopAll
      <3> QED BY <2>1, <3>1, <3>2, <3>3 DEF Stop
    <2>4. CASE FinishStop(x)
          BY <2>1, <2>4 DEF Stop, FinishStop, TypeOK
    <2>5. CASE Shutdown(x)
          BY <2>1, <2>5 DEF Stop, Shutdown, TypeOK
    <2> QED BY <2>2, <2>3, <2>4, <2>5 DEF BetweenTunnels
  <1>2. /\ stops' = [stops EXCEPT ![x] = stops'[x]]
        /\ \A y \in Stops \ {x} : stops'[y] = stops[y]
        /\ UNCHANGED <<calls, tunnels, connTasks, loops, aborted, conns, registry, server,
                       bridges, link, hlock>>
        BY DEF BetweenTunnels, TypeOK, StopOne, StopAll, FinishStop, Shutdown
  <1>3. TypeOK'
    <2>1. stops' \in [Stops -> Stop]
          BY <1>1, <1>2 DEF TypeOK
    <2>2. slot' \in BOOLEAN /\ parked' \in BOOLEAN
          BY DEF BetweenTunnels, TypeOK, StopOne, StopAll, FinishStop, Shutdown
    <2> QED BY <1>2, <2>1, <2>2 DEF TypeOK
  <1>4. StopShape'
        BY <1>1, <1>2 DEF StopShape, IsListener
  <1>5. \A t \in Starts : TearingDown(t) <=> TearingDown(t)'
        BY <1>1, <1>2 DEF TearingDown
  <1>6. (ListenersAccounted /\ RegisteredConnsDieWithTunnel)'
        BY <1>2, <1>5 DEF ListenersAccounted, RegisteredConnsDieWithTunnel, Listening
  <1>7. ForwardsAccounted'
        BY <1>1, <1>2, <1>5 DEF TypeOK, ForwardsAccounted
  <1>8. (CallShape /\ TunnelShape /\ LoopShape /\ TaskShape /\ ServerShape)'
        BY <1>2 DEF CallShape, TunnelShape, LoopShape, TaskShape, ServerShape,
                    Listening, IsListener, BoundPort
  <1> QED BY <1>3, <1>4, <1>6, <1>7, <1>8

\* The entry goes, into the hands of the stop that took it.
LEMMA TakeEntryKeepsInv ==
    ASSUME IInv, NEW x \in Stops, NEW s \in Starts, TakeEntry(x, s)
    PROVE  IInv'
  <1> USE ConstantsAssumption DEF IInv, local, remote, source
  <1>1. stops[x] \in Stop /\ stops[x].pc = "next" /\ stops[x].cur = None
        BY DEF TypeOK, TakeEntry, StopShape
  <1>2. stops'[x] = [stops[x] EXCEPT !.todo = @ \ {s},
                                     !.pc  = IF s \in tunnels THEN "teardown" ELSE @,
                                     !.cur = IF s \in tunnels THEN s ELSE None]
        BY DEF TypeOK, TakeEntry
  <1>3. /\ stops'[x] \in Stop /\ stops'[x].uncancelled = stops[x].uncancelled
        /\ s \in tunnels => stops'[x].cur = s /\ stops'[x].pc = "teardown"
        /\ s \notin tunnels => stops'[x].cur = None /\ stops'[x].pc = "next"
    <2>0. stops[x].todo \ {s} \in SUBSET Starts
          BY <1>1 DEF Stop
    <2>1. CASE s \in tunnels
      <3>1. stops'[x] = [stops[x] EXCEPT !.todo = @ \ {s}, !.pc = "teardown", !.cur = s]
            BY <1>2, <2>1
      <3> QED BY <1>1, <2>0, <2>1, <3>1 DEF Stop
    <2>2. CASE s \notin tunnels
      <3>1. stops'[x] = [stops[x] EXCEPT !.todo = @ \ {s}, !.pc = @, !.cur = None]
            BY <1>2, <2>2
      <3> QED BY <1>1, <2>0, <2>2, <3>1 DEF Stop
    <2> QED BY <2>1, <2>2
  <1>4. /\ stops' = [stops EXCEPT ![x] = stops'[x]]
        /\ \A y \in Stops \ {x} : stops'[y] = stops[y]
        /\ tunnels' = tunnels \ {s}
        /\ UNCHANGED <<calls, connTasks, loops, aborted, conns, registry, server,
                       bridges, slot, parked, link, hlock>>
        BY DEF TypeOK, TakeEntry
  <1>5. TypeOK'
    <2>1. stops' \in [Stops -> Stop]
          BY <1>3, <1>4 DEF TypeOK
    <2> QED BY <1>4, <2>1 DEF TypeOK
  <1>6. StopShape'
        BY <1>3, <1>4 DEF StopShape, TunnelShape, IsListener
  <1>7. /\ \A t \in Starts : TearingDown(t) => TearingDown(t)'
        /\ s \in tunnels => TearingDown(s)'
        BY <1>1, <1>3, <1>4 DEF TearingDown
  <1>8. (ListenersAccounted /\ RegisteredConnsDieWithTunnel)'
        BY <1>4, <1>7 DEF ListenersAccounted, RegisteredConnsDieWithTunnel, Listening
  <1>9. ForwardsAccounted'
    <2>1. \A y \in Stops : stops'[y].uncancelled = stops[y].uncancelled
          BY <1>3, <1>4
    <2> QED BY <1>4, <1>7, <2>1 DEF TypeOK, ForwardsAccounted
  <1>10. (CallShape /\ TunnelShape /\ LoopShape /\ TaskShape /\ ServerShape)'
        BY <1>4 DEF CallShape, TunnelShape, LoopShape, TaskShape, ServerShape,
                    Listening, IsListener, BoundPort
  <1> QED BY <1>5, <1>6, <1>8, <1>9, <1>10

\* Once its tasks are aborted a stop lets a listening tunnel go.
LEMMA AbortKeepsInv ==
    ASSUME IInv, NEW x \in Stops, AbortTasks(x)
    PROVE  IInv'
  <1> USE ConstantsAssumption DEF IInv, local, remote, source
  <1> PICK s \in Starts : s = stops[x].cur
      BY DEF TypeOK, Stop, AbortTasks, StopShape
  <1>1. stops[x] \in Stop /\ s \in Starts /\ IsListener(s)
        BY DEF TypeOK, Stop, AbortTasks, StopShape
  <1>2. /\ stops'[x] = [stops[x] EXCEPT !.pc = "next", !.cur = None]
        /\ \A y \in Stops \ {x} : stops'[y] = stops[y]
        /\ stops' = [stops EXCEPT ![x] = stops'[x]]
        BY DEF TypeOK, AbortTasks
  <1>3. /\ stops'[x] \in Stop /\ stops'[x].pc = "next" /\ stops'[x].cur = None
        /\ stops'[x].uncancelled = stops[x].uncancelled
        BY <1>1, <1>2 DEF Stop
  <1>4. \A d \in Conns :
            /\ conns'[d] \in Conn /\ conns'[d].of = conns[d].of
            /\ IF d \in connTasks[s] THEN conns'[d].st = "closed" ELSE conns'[d] = conns[d]
        BY DEF TypeOK, AbortTasks, Conn
  <1>5. /\ aborted' = aborted \cup {s}
        /\ conns' \in [Conns -> Conn]
        /\ hlock' \in {hlock, None}
        /\ UNCHANGED <<calls, tunnels, connTasks, loops, registry, server, bridges,
                       slot, parked, link>>
        BY <1>4 DEF AbortTasks
  <1>6. TypeOK'
    <2>1. stops' \in [Stops -> Stop]
          BY <1>2, <1>3 DEF TypeOK
    <2> QED BY <1>1, <1>5, <2>1 DEF TypeOK
  <1>7. StopShape'
    <2>1. \A y \in Stops : y = x \/ stops'[y] = stops[y]
          BY <1>2
    <2> QED BY <2>1, <1>3, <1>5 DEF StopShape, IsListener
  <1>8. LoopShape'
    <2>1. \A t \in Starts : loops[t].at = "got" => loops[t].conn \notin connTasks[s]
          BY <1>1 DEF LoopShape, TaskShape
    <2> QED BY <1>4, <1>5, <2>1 DEF LoopShape, Listening, IsListener
  <1>9. TaskShape'
        BY <1>4, <1>5 DEF TypeOK, TaskShape, IsListener
  <1>10. \A t \in Starts : t # s /\ TearingDown(t) => TearingDown(t)'
        BY <1>2 DEF TearingDown
  <1>11. ListenersAccounted'
        BY <1>5, <1>10 DEF ListenersAccounted, Listening
  <1>12. RegisteredConnsDieWithTunnel'
        BY <1>1, <1>4, <1>5, <1>10 DEF TypeOK, RegisteredConnsDieWithTunnel
  <1>13. ForwardsAccounted'
    <2>1. \A p \in Ports : server[p] # None => server[p] # s
          BY <1>1 DEF ServerShape, IsListener
    <2>2. \A y \in Stops : stops'[y].uncancelled = stops[y].uncancelled
          BY <1>2, <1>3
    <2> QED BY <1>5, <1>10, <2>1, <2>2 DEF TypeOK, ForwardsAccounted
  <1>14. (CallShape /\ TunnelShape /\ ServerShape)'
        BY <1>5 DEF CallShape, TunnelShape, ServerShape, IsListener, BoundPort
  <1> QED BY <1>6, <1>7, <1>8, <1>9, <1>11, <1>12, <1>13, <1>14

\* A Remote tunnel stays in the stop's hand until its forward is cancelled, or
\* noted as one that could not be.
LEMMA CancelKeepsInv ==
    ASSUME IInv, NEW x \in Stops, Unregister(x) \/ CancelForward(x)
    PROVE  IInv'
  <1> USE ConstantsAssumption DEF IInv, local, remote, source
  <1> PICK s \in Starts : s = stops[x].cur
      BY DEF TypeOK, Stop, Unregister, CancelForward, StopShape
  <1>1. /\ stops[x] \in Stop /\ s \in Starts /\ ~IsListener(s)
        /\ calls[s].phase = "ok" /\ calls[s].port \in Ports
        BY DEF TypeOK, Stop, Unregister, CancelForward, StopShape, CallShape
  <1>2. /\ stops' = [stops EXCEPT ![x] = stops'[x]]
        /\ \A y \in Stops \ {x} : stops'[y] = stops[y]
        /\ registry' \in [Ports \cup {0} -> Starts \cup {None}]
        /\ UNCHANGED <<calls, tunnels, connTasks, loops, aborted, conns,
                       bridges, slot, parked, link, hlock>>
        BY DEF TypeOK, Unregister, CancelForward
  <1>3. /\ stops'[x] \in Stop
        /\ \/ server' = server /\ stops'[x].cur = s /\ stops'[x].pc = "cancel"
           \/ stops'[x].cur = None /\ stops'[x].pc = "next"
        /\ stops[x].uncancelled \subseteq stops'[x].uncancelled
        /\ \/ server' = server /\ (stops'[x].cur = s \/ s \in stops'[x].uncancelled)
           \/ server' = [server EXCEPT ![calls[s].port] = None]
    <2>1. CASE Unregister(x)
          BY <1>1, <2>1 DEF Stop, Unregister, TypeOK
    <2>2. CASE /\ server' = [server EXCEPT ![calls[s].port] = None]
               /\ stops' = [stops EXCEPT ![x].pc = "next", ![x].cur = None]
      <3>1. stops'[x] = [stops[x] EXCEPT !.pc = "next", !.cur = None]
            BY <2>2 DEF TypeOK
      <3>2. /\ stops'[x] \in Stop /\ stops'[x].pc = "next" /\ stops'[x].cur = None
            /\ stops'[x].uncancelled = stops[x].uncancelled
            BY <1>1, <3>1 DEF Stop
      <3> QED BY <2>2, <3>2
    <2>3. CASE /\ server' = server
               /\ stops' = [stops EXCEPT ![x].pc = "next", ![x].cur = None,
                                         ![x].uncancelled = @ \cup {s}]
      <3>1. stops'[x] = [stops[x] EXCEPT !.pc = "next", !.cur = None,
                                         !.uncancelled = @ \cup {s}]
            BY <2>3 DEF TypeOK
      <3>2. /\ stops'[x] \in Stop /\ stops'[x].pc = "next" /\ stops'[x].cur = None
            /\ stops'[x].uncancelled = stops[x].uncancelled \cup {s}
        <4>1. stops[x].uncancelled \cup {s} \in SUBSET Starts
              BY <1>1 DEF Stop
        <4> QED BY <1>1, <3>1, <4>1 DEF Stop
      <3> QED BY <2>3, <3>2
    <2> QED BY <2>1, <2>2, <2>3, Zenon DEF CancelForward
  <1>4. TypeOK'
    <2>1. stops' \in [Stops -> Stop]
          BY <1>2, <1>3 DEF TypeOK
    <2>2. server' \in [Ports -> Starts \cup {None}]
          BY <1>3 DEF TypeOK
    <2> QED BY <1>2, <2>1, <2>2 DEF TypeOK
  <1>5. StopShape'
        BY <1>1, <1>2, <1>3 DEF StopShape, IsListener
  <1>6. \A p \in Ports : server'[p] # None =>
            server'[p] = server[p] /\ (server[p] = s => TearingDown(s)' \/ s \in stops'[x].uncancelled)
        BY <1>1, <1>3 DEF TypeOK, ServerShape, TearingDown
  <1>7. ServerShape'
        BY <1>2, <1>6 DEF TypeOK, ServerShape, BoundPort
  <1>8. \A t \in Starts : t # s /\ TearingDown(t) => TearingDown(t)'
        BY <1>2 DEF TearingDown
  <1>9. ~Listening(s) /\ connTasks[s] = {}
        BY <1>1 DEF LoopShape, TaskShape
  <1>10. ListenersAccounted'
        BY <1>2, <1>8, <1>9 DEF ListenersAccounted, Listening
  <1>11. RegisteredConnsDieWithTunnel'
        BY <1>2, <1>8, <1>9 DEF RegisteredConnsDieWithTunnel
  <1>12. ForwardsAccounted'
    <2>1. \A y \in Stops : stops[y].uncancelled \subseteq stops'[y].uncancelled
          BY <1>2, <1>3
    <2>2. calls' = calls /\ tunnels' = tunnels
          BY <1>2
    <2> SUFFICES ASSUME NEW p \in Ports, NEW t \in Starts, server'[p] = t, server[p] = t
                 PROVE  \/ calls[t].phase \in {"granted", "keyed"} \/ t \in tunnels
                        \/ TearingDown(t)' \/ \E y \in Stops : t \in stops'[y].uncancelled
        BY <1>6, <2>2 DEF TypeOK, ForwardsAccounted, TearingDown
    <2>3. CASE t = s
          BY <2>3, <1>6
    <2>4. CASE t # s
      <3>1. \/ calls[t].phase \in {"granted", "keyed"} \/ t \in tunnels
            \/ TearingDown(t) \/ \E y \in Stops : t \in stops[y].uncancelled
            BY DEF ForwardsAccounted
      <3> QED BY <2>4, <3>1, <1>8, <2>1
    <2> QED BY <2>3, <2>4
  <1>13. (CallShape /\ TunnelShape /\ LoopShape /\ TaskShape)'
        BY <1>2 DEF CallShape, TunnelShape, LoopShape, TaskShape,
                    Listening, IsListener, BoundPort
  <1> QED BY <1>4, <1>5, <1>7, <1>10, <1>11, <1>12, <1>13

-----------------------------------------------------------------------------
(* The transport *)

\* When the transport goes, so do the server's listeners.
LEMMA LinkDownKeepsInv ==
    ASSUME IInv, (\E x \in Stops : Disconnect(x)) \/ HandleDropped \/ LinkDies
    PROVE  IInv'
  <1> USE ConstantsAssumption DEF IInv, local, remote, source
  <1>1. /\ UNCHANGED <<calls, tunnels, connTasks, loops, aborted, conns, registry, bridges,
                       slot, hlock>>
        /\ server' = server \/ server' = [p \in Ports |-> None]
        /\ parked' \in BOOLEAN /\ link' \in BOOLEAN
        BY DEF TypeOK, Disconnect, HandleDropped, LinkDies
  <1>2. /\ stops' \in [Stops -> Stop]
        /\ \A y \in Stops :
              /\ stops'[y].cur = stops[y].cur /\ stops'[y].uncancelled = stops[y].uncancelled
              /\ stops'[y].pc = stops[y].pc \/ (stops[y].pc = "closing" /\ stops'[y].pc = "done")
    <2>1. ASSUME NEW x \in Stops, Disconnect(x)
          PROVE  /\ stops[x].pc = "closing" /\ stops' = [stops EXCEPT ![x].pc = "done"]
                 /\ [stops[x] EXCEPT !.pc = "done"] \in Stop
      <3>1. stops[x].pc = "closing" /\ stops' = [stops EXCEPT ![x].pc = "done"]
            BY <2>1 DEF Disconnect
      <3>2. stops[x] \in Stop
            BY DEF TypeOK
      <3>3. [stops[x] EXCEPT !.pc = "done"] \in Stop
            BY <3>2 DEF Stop
      <3> QED BY <3>1, <3>3
    <2>2. CASE \E x \in Stops : Disconnect(x)
      <3> PICK x \in Stops : Disconnect(x)
          BY <2>2
      <3>1. /\ stops[x].pc = "closing" /\ stops'[x] = [stops[x] EXCEPT !.pc = "done"]
            /\ stops' \in [Stops -> Stop]
            /\ \A y \in Stops \ {x} : stops'[y] = stops[y]
            BY <2>1 DEF TypeOK
      <3>2. /\ stops'[x].cur = stops[x].cur /\ stops'[x].uncancelled = stops[x].uncancelled
            /\ stops'[x].pc = "done"
            BY <3>1 DEF TypeOK, Stop
      <3> QED BY <3>1, <3>2
    <2>3. CASE stops' = stops
          BY <2>3 DEF TypeOK
    <2> QED BY <2>2, <2>3 DEF HandleDropped, LinkDies
  <1>3. TypeOK'
        BY <1>1, <1>2 DEF TypeOK
  <1>4. StopShape'
        BY <1>1, <1>2 DEF StopShape, IsListener
  <1>5. \A t \in Starts : TearingDown(t) <=> TearingDown(t)'
        BY <1>2 DEF TearingDown
  <1>6. \A p \in Ports : server'[p] # None => server'[p] = server[p]
        BY <1>1
  <1>7. ServerShape'
        BY <1>1, <1>6 DEF ServerShape, BoundPort
  <1>8. (ListenersAccounted /\ RegisteredConnsDieWithTunnel)'
        BY <1>1, <1>5 DEF ListenersAccounted, RegisteredConnsDieWithTunnel, Listening
  <1>9. ForwardsAccounted'
        BY <1>1, <1>2, <1>5, <1>6 DEF TypeOK, ForwardsAccounted
  <1>10. (CallShape /\ TunnelShape /\ LoopShape /\ TaskShape)'
        BY <1>1 DEF CallShape, TunnelShape, LoopShape, TaskShape,
                    Listening, IsListener, BoundPort
  <1> QED BY <1>3, <1>4, <1>7, <1>8, <1>9, <1>10

\* What the invariant does not look at.
LEMMA FrameKeepsInv ==
    ASSUME IInv, \/ UNCHANGED vars
                 \/ \E s \in Starts : DropGuard(s)
                 \/ \E p \in Ports : ForwardedTcpip(p)
    PROVE  IInv'
  <1> USE ConstantsAssumption DEF IInv, local, remote, source
  <1>1. /\ UNCHANGED <<calls, tunnels, connTasks, loops, aborted, conns, registry, server,
                       stops, slot, parked, link>>
        /\ hlock' \in {hlock, None}
        /\ bridges' \in SUBSET [owner : Starts, target : Starts]
        BY DEF vars, TypeOK, DropGuard, ForwardedTcpip
  <1>2. TypeOK'
        BY <1>1 DEF TypeOK
  <1>3. (CallShape /\ TunnelShape /\ StopShape /\ LoopShape /\ TaskShape /\ ServerShape)'
        BY <1>1 DEF CallShape, TunnelShape, StopShape, LoopShape, TaskShape, ServerShape,
                    Listening, IsListener, BoundPort
  <1>4. (ListenersAccounted /\ ForwardsAccounted /\ RegisteredConnsDieWithTunnel)'
        BY <1>1 DEF ListenersAccounted, ForwardsAccounted, RegisteredConnsDieWithTunnel,
                    Listening, TearingDown
  <1> QED BY <1>2, <1>3, <1>4

-----------------------------------------------------------------------------
(* The theorems *)

LEMMA NextKeepsInv == IInv /\ [Next]_vars => IInv'
  <1> SUFFICES ASSUME IInv, [Next]_vars PROVE IInv'
      OBVIOUS
  <1>1. CASE \E s \in Starts : Started(s)
        BY <1>1, StartedKeepsInv
  <1>2. CASE \E s \in Starts, m \in Managers, k \in Kinds, want \in Ports \cup {0} :
                Bind(s, k, m, want)
        BY <1>2, BindKeepsInv
  <1>3. CASE \E s \in Starts : InsertEntry(s) \/ ForwardGranted(s) \/ Rekey(s)
        BY <1>3, InsertEntryKeepsInv, GrantKeepsInv
  <1>4. CASE \E s \in Starts : LoopStep(s) \/ \E c \in Conns : Accept(s, c)
        BY <1>4, LoopKeepsInv, AcceptKeepsInv
  <1>5. CASE \E c \in Conns : ConnStep(c) \/ BridgeEof(c)
        BY <1>5, ConnKeepsInv
  <1>6. CASE \E x \in Stops : BetweenTunnels(x)
        BY <1>6, PlainStopKeepsInv
  <1>7. CASE \E x \in Stops : \/ \E s \in Starts : TakeEntry(x, s)
                              \/ AbortTasks(x) \/ Unregister(x) \/ CancelForward(x)
        BY <1>7, TakeEntryKeepsInv, AbortKeepsInv, CancelKeepsInv
  <1>8. CASE (\E x \in Stops : Disconnect(x)) \/ HandleDropped \/ LinkDies
        BY <1>8, LinkDownKeepsInv
  <1>9. CASE \/ UNCHANGED vars
             \/ \E s \in Starts : DropGuard(s)
             \/ \E p \in Ports : ForwardedTcpip(p)
        BY <1>9, FrameKeepsInv
  <1> QED BY <1>1, <1>2, <1>3, <1>4, <1>5, <1>6, <1>7, <1>8, <1>9, Zenon
          DEF Next, StartStep, StopStep, Started, BetweenTunnels

LEMMA InvHolds == Spec => []IInv
  <1> QED BY InitInv, NextKeepsInv, PTL DEF Spec

\* The manager's state keeps its type: no entry without a port among it.
THEOREM TypeCorrect == Spec => []TypeOK
  <1>1. IInv => TypeOK
        BY DEF IInv
  <1> QED BY <1>1, InvHolds, PTL

\* However starts, stops and accept loops interleave, no bound port is orphaned.
THEOREM NoListenerOrphaned == Spec => []ListenersAccounted
  <1>1. IInv => ListenersAccounted
        BY DEF IInv
  <1> QED BY <1>1, InvHolds, PTL

\* However starts and stops interleave, on however many managers, and shared
\* ports or not, no forward the server holds is forgotten.
THEOREM NoForwardForgotten == Spec => []ForwardsAccounted
  <1>1. IInv => ForwardsAccounted
        BY DEF IInv
  <1> QED BY <1>1, InvHolds, PTL

\* A connection whose abort handle was kept never outlives its tunnel.
THEOREM RegisteredConnsDie == Spec => []RegisteredConnsDieWithTunnel
  <1>1. IInv => RegisteredConnsDieWithTunnel
        BY DEF IInv
  <1> QED BY <1>1, InvHolds, PTL

-----------------------------------------------------------------------------
(***************************************************************************)
(* Where the inbound connections of TunnelManager's remote tunnels go, when*)
(* callers never ask for a remote port that is in use (SharedPorts is      *)
(* FALSE): the port the server listens on and the registry's key for it    *)
(* are kept together through grants, re-keyings, stops and failed cancels. *)
(* The proofs are for any calls, managers and ports.                       *)
(***************************************************************************)

\* The port the server was asked for s, once it has been granted.
Bound(s) == IF calls[s].phase = "granted" THEN BoundPort(calls[s].port, calls[s].reply)
            ELSE calls[s].port

\* s has been granted a forward that nothing has cancelled yet.
Holding(s) ==
    /\ calls[s].kind = "Remote"
    /\ calls[s].phase \in {"granted", "keyed"} \/ s \in tunnels \/ TearingDown(s)

\* The registry is meant to hold s's target, under the port of the call.
InRegistry(s) ==
    /\ calls[s].kind = "Remote"
    /\ \/ calls[s].phase \in {"registered", "granted", "refused"} /\ calls[s].port # 0
       \/ calls[s].phase = "keyed" \/ s \in tunnels
       \/ \E x \in Stops : stops[x].cur = s /\ stops[x].pc = "teardown"

\* A tunnel is taken out of the map once, by one stop.
OneTaker ==
    \A x \in Stops : stops[x].cur # None =>
        /\ stops[x].cur \notin tunnels
        /\ \A y \in Stops : stops[y].cur = stops[x].cur => x = y

\* A port that was asked for by number is asked for once at a time.
FixedApart ==
    \A s, t \in Starts :
        /\ RemoteInUse(s) /\ RemoteInUse(t) /\ calls[s].port = calls[t].port
        /\ calls[s].port \in Ports \ Ephemeral
        => s = t

\* The server's choice of a port comes only with a request for port 0.
AskedFixed ==
    \A s \in Starts : calls[s].phase \in {"registered", "granted", "refused"} =>
        /\ calls[s].port \notin Ephemeral
        /\ calls[s].phase = "granted" =>
              IF calls[s].port = 0 THEN calls[s].reply \in Ephemeral ELSE calls[s].reply = 0

\* A call that has been handed no reply has none, and one that is done is known.
CallFacts ==
    \A s \in Starts :
        /\ calls[s].phase = "registered" => calls[s].reply = 0
        /\ calls[s].phase = "ok" => IsListener(s) \/ calls[s].kind = "Remote"

\* As long as the transport is up the server listens for all it has granted.
Served == link => \A s \in Starts : Holding(s) => server[Bound(s)] = s

\* What the registry holds was put there by a call that is still its own.
RegistryOwn ==
    \A p \in Ports, t \in Starts : registry[p] = t => InRegistry(t) /\ calls[t].port = p

\* And nobody has taken it away from under such a call.
RegistryKept == link => \A s \in Starts : InRegistry(s) => registry[calls[s].port] = s

RInv ==
    /\ IInv
    /\ OneTaker /\ FixedApart /\ AskedFixed /\ CallFacts
    /\ Served /\ RegistryOwn /\ RegistryKept /\ InboundToOwner

LEMMA RemoteInit == Init => RInv
  <1> SUFFICES ASSUME Init PROVE RInv
      OBVIOUS
  <1> USE ConstantsAssumption DEF Init
  <1>1. OneTaker /\ AskedFixed /\ CallFacts /\ RegistryOwn /\ InboundToOwner
        BY DEF OneTaker, AskedFixed, CallFacts, RegistryOwn, InboundToOwner, IsListener
  <1>2. \A s \in Starts : ~RemoteInUse(s) /\ ~Holding(s) /\ ~InRegistry(s)
    <2>1. /\ \A s \in Starts : calls[s].phase = "idle" /\ s \notin tunnels
          /\ \A x \in Stops : stops[x].cur \notin Starts
          OBVIOUS
    <2> QED BY <2>1 DEF RemoteInUse, Holding, InRegistry, TearingDown
  <1>3. FixedApart /\ Served /\ RegistryKept
        BY <1>2 DEF FixedApart, Served, RegistryKept
  <1> QED BY <1>1, <1>3, InitInv DEF RInv

\* Whatever holds a forward or a registration is in use, and has its port.
LEMMA HeldIsInUse ==
    ASSUME IInv, NEW s \in Starts
    PROVE  /\ Holding(s) => RemoteInUse(s) /\ Bound(s) \in Ports
           /\ InRegistry(s) => RemoteInUse(s) /\ calls[s].port \in Ports
           /\ calls[s].phase \in {"idle", "spawned", "failed"} => ~RemoteInUse(s)
  <1> USE ConstantsAssumption DEF IInv
  <1>1. Holding(s) => RemoteInUse(s)
        BY DEF Holding, RemoteInUse, TearingDown
  <1>2. InRegistry(s) => RemoteInUse(s)
        BY DEF InRegistry, RemoteInUse
  <1>3. Holding(s) => Bound(s) \in Ports
        BY DEF Holding, Bound, TearingDown, CallShape, TunnelShape, StopShape
  <1>4. InRegistry(s) => calls[s].port \in Ports
        BY DEF InRegistry, CallShape, TunnelShape, StopShape, TypeOK, Call
  <1>5. calls[s].phase \in {"idle", "spawned", "failed"} => ~RemoteInUse(s)
        BY DEF RemoteInUse, TunnelShape, StopShape
  <1> QED BY <1>1, <1>2, <1>3, <1>4, <1>5

-----------------------------------------------------------------------------
(* Steps that have nothing to do with remote forwards *)

\* A start that fails, or is a listener's, leaves every remote tunnel as it is.
LEMMA ElsewhereKeepsRemote ==
    ASSUME RInv, NEW s \in Starts,
           calls' = calls \/
              (/\ calls[s].phase = "idle" /\ calls' = [calls EXCEPT ![s] = calls'[s]]
               /\ calls'[s].phase \in {"spawned", "failed"}
               /\ calls'[s].phase = "spawned" => calls'[s].kind # "Remote"),
           UNCHANGED <<tunnels, registry, server, bridges, stops, link>>
    PROVE  (OneTaker /\ FixedApart /\ AskedFixed /\ CallFacts
            /\ Served /\ RegistryOwn /\ RegistryKept /\ InboundToOwner)'
  <1> USE ConstantsAssumption DEF RInv
  <1>1. ~RemoteInUse(s) \/ calls' = calls
        BY HeldIsInUse
  <1>2. /\ s \notin tunnels /\ ~TearingDown(s)
        \/ calls' = calls
        BY DEF IInv, TunnelShape, StopShape, TearingDown
  <1>3. \A t \in Starts : t # s => calls'[t] = calls[t]
        BY DEF IInv, TypeOK
  <1>4. \A t \in Starts :
           /\ RemoteInUse(t)' => RemoteInUse(t) /\ calls'[t] = calls[t]
           /\ Holding(t)' => Holding(t) /\ calls'[t] = calls[t]
           /\ InRegistry(t)' => InRegistry(t) /\ calls'[t] = calls[t]
           /\ InRegistry(t) => InRegistry(t)' /\ calls'[t] = calls[t]
        BY <1>1, <1>2, <1>3, HeldIsInUse DEF RemoteInUse, Holding, InRegistry, TearingDown
  <1>5. (OneTaker /\ InboundToOwner)'
        BY DEF OneTaker, InboundToOwner
  <1>6. (FixedApart /\ Served)'
        BY <1>4 DEF FixedApart, Served, Bound
  <1>7. (AskedFixed /\ CallFacts)'
        BY <1>3 DEF AskedFixed, CallFacts, IsListener
  <1>8. RegistryOwn'
        BY <1>4 DEF RegistryOwn, IInv, TypeOK
  <1>9. RegistryKept'
        BY <1>4 DEF RegistryKept
  <1> QED BY <1>5, <1>6, <1>7, <1>8, <1>9

\* A stop between two tunnels or tearing a listener down, and a transport that
\* goes down, leave every remote tunnel as it is.
LEMMA BetweenKeepsRemote ==
    ASSUME RInv,
           UNCHANGED <<calls, tunnels, registry, bridges>>,
           (UNCHANGED <<server, link>>) \/ ~link',
           \A x \in Stops :
              /\ \/ stops'[x].cur = stops[x].cur
                    /\ (stops[x].cur # None => stops'[x].pc = stops[x].pc)
                 \/ stops'[x].cur = None /\ IsListener(stops[x].cur)
              /\ stops[x].uncancelled \subseteq stops'[x].uncancelled
    PROVE  (OneTaker /\ FixedApart /\ AskedFixed /\ CallFacts
            /\ Served /\ RegistryOwn /\ RegistryKept /\ InboundToOwner)'
  <1> USE ConstantsAssumption DEF RInv
  <1>1. \A t \in Starts :
           /\ RemoteInUse(t)' <=> RemoteInUse(t)
           /\ Holding(t)' <=> Holding(t)
           /\ InRegistry(t)' <=> InRegistry(t)
    <2> SUFFICES ASSUME NEW t \in Starts, calls[t].kind = "Remote"
                 PROVE  \A x \in Stops :
                          /\ stops'[x].cur = t <=> stops[x].cur = t
                          /\ stops[x].cur = t => stops'[x].pc = stops[x].pc
        BY DEF RemoteInUse, Holding, InRegistry, TearingDown
    <2> QED BY DEF IsListener
  <1>2. OneTaker'
        BY DEF OneTaker
  <1>3. (FixedApart /\ Served)'
        BY <1>1 DEF FixedApart, Served, Bound
  <1>4. (AskedFixed /\ CallFacts)'
        BY DEF AskedFixed, CallFacts, IsListener
  <1>5. (RegistryOwn /\ RegistryKept)'
        BY <1>1 DEF RegistryOwn, RegistryKept, IInv, TypeOK
  <1>6. InboundToOwner'
        BY DEF InboundToOwner
  <1> QED BY <1>2, <1>3, <1>4, <1>5, <1>6

-----------------------------------------------------------------------------
(* An inbound connection *)

\* The one step that could go wrong: the server's tunnel on the port and the
\* registry's are the same, unless a cancel of the server's has failed.
LEMMA InboundKeepsRemote ==
    ASSUME RInv, SharedPorts = FALSE, NEW p \in Ports, ForwardedTcpip(p)
    PROVE  (OneTaker /\ FixedApart /\ AskedFixed /\ CallFacts
            /\ Served /\ RegistryOwn /\ RegistryKept /\ InboundToOwner)'
  <1> USE ConstantsAssumption DEF RInv
  <1>1. /\ UNCHANGED <<calls, tunnels, registry, server, stops, link>> /\ link
        /\ bridges' = bridges \cup {[owner |-> server[p], target |-> registry[p]]}
        /\ server[p] # None /\ registry[p] # None
        BY DEF ForwardedTcpip, local, source
  <1> PICK s \in Starts, t \in Starts : s = server[p] /\ t = registry[p]
      BY <1>1 DEF IInv, TypeOK
  <1>2. ASSUME s # t
        PROVE  \E x \in Stops : s \in stops[x].uncancelled
    <2> SUFFICES ASSUME ~\E x \in Stops : s \in stops[x].uncancelled
                 PROVE  FALSE
        OBVIOUS
    <2>1. Holding(s) /\ Bound(s) = p
          BY <1>1 DEF IInv, ForwardsAccounted, ServerShape, Holding, Bound
    <2>2. InRegistry(t) /\ calls[t].port = p
          BY <1>1 DEF RegistryOwn
    <2>3. ~Holding(t)
      <3>1. Holding(t) /\ Bound(t) = p => server[p] = t
            BY <1>1 DEF Served
      <3>2. Holding(t) => Bound(t) = p
            BY <2>2 DEF Bound, BoundPort, AskedFixed
      <3> QED BY <1>2, <3>1, <3>2
    <2>4. p \notin Ephemeral
          BY <2>2, <2>3 DEF AskedFixed, InRegistry, Holding, TearingDown
    <2>5. calls[s].port = p
          BY <2>1, <2>4 DEF Bound, BoundPort, AskedFixed
    <2>6. RemoteInUse(s) /\ RemoteInUse(t)
          BY <2>1, <2>2, HeldIsInUse
    <2> QED BY <1>2, <2>2, <2>4, <2>5, <2>6 DEF FixedApart
  <1>3. InboundToOwner'
        BY <1>1, <1>2 DEF InboundToOwner
  <1>4. (OneTaker /\ FixedApart /\ AskedFixed /\ CallFacts
         /\ Served /\ RegistryOwn /\ RegistryKept)'
        BY <1>1 DEF OneTaker, FixedApart, AskedFixed, CallFacts, Served, RegistryOwn,
           RegistryKept, RemoteInUse, Holding, InRegistry, TearingDown, Bound, BoundPort, IsListener
  <1> QED BY <1>3, <1>4

-----------------------------------------------------------------------------
(* Starts of remote tunnels *)

LEMMA PreRegisterKeepsRemote ==
    ASSUME RInv, SharedPorts = FALSE, NEW s \in Starts, NEW m \in Managers,
           NEW want \in Ports \cup {0}, PreRegister(s, m, want)
    PROVE  (OneTaker /\ FixedApart /\ AskedFixed /\ CallFacts
            /\ Served /\ RegistryOwn /\ RegistryKept /\ InboundToOwner)'
  <1> USE ConstantsAssumption DEF RInv
  <1>1. /\ calls[s].phase = "idle" /\ registry' = [registry EXCEPT ![want] = s]
        /\ calls'[s].phase = "registered" /\ calls'[s].kind = "Remote"
        /\ calls'[s].port = want /\ calls'[s].reply = 0
        /\ \A t \in Starts \ {s} : calls'[t] = calls[t]
        /\ UNCHANGED <<tunnels, server, bridges, stops, link>>
        BY DEF PreRegister, IInv, TypeOK, local, source
  <1>2. \/ want = 0
        \/ want \notin Ephemeral /\ \A t \in Starts : RemoteInUse(t) => calls[t].port # want
        BY DEF PreRegister, MayRequest
  <1>3. ~RemoteInUse(s) /\ s \notin tunnels /\ ~TearingDown(s)
        BY <1>1, HeldIsInUse DEF IInv, TunnelShape, StopShape, TearingDown
  <1>4. \A t \in Starts \ {s} :
           /\ RemoteInUse(t)' <=> RemoteInUse(t)
           /\ Holding(t)' <=> Holding(t)
           /\ InRegistry(t)' <=> InRegistry(t)
        BY <1>1 DEF RemoteInUse, Holding, InRegistry, TearingDown
  <1>5. ~Holding(s)' /\ (InRegistry(s)' <=> want # 0)
        BY <1>1, <1>3 DEF Holding, InRegistry, TearingDown
  <1>6. (OneTaker /\ InboundToOwner)'
        BY <1>1 DEF OneTaker, InboundToOwner
  <1>7. FixedApart'
        BY <1>1, <1>2, <1>4 DEF FixedApart
  <1>8. (AskedFixed /\ CallFacts)'
        BY <1>1, <1>2 DEF AskedFixed, CallFacts, IsListener
  <1>9. Served'
        BY <1>1, <1>4, <1>5 DEF Served, Bound
  <1>10. RegistryOwn'
    <2> SUFFICES ASSUME NEW p \in Ports, NEW t \in Starts, registry'[p] = t
                 PROVE  InRegistry(t)' /\ calls'[t].port = p
        BY DEF RegistryOwn
    <2>1. CASE p = want
          BY <2>1, <1>1, <1>5 DEF IInv, TypeOK
    <2>2. CASE p # want
      <3>1. InRegistry(t) /\ calls[t].port = p
            BY <2>2, <1>1 DEF RegistryOwn, IInv, TypeOK
      <3>2. t # s
            BY <3>1, <1>3, HeldIsInUse
      <3> QED BY <3>1, <3>2, <1>1, <1>4
    <2> QED BY <2>1, <2>2
  <1>11. RegistryKept'
    <2> SUFFICES ASSUME link, NEW t \in Starts, InRegistry(t)'
                 PROVE  registry'[calls'[t].port] = t
        BY <1>1 DEF RegistryKept
    <2>1. CASE t = s
          BY <2>1, <1>1 DEF IInv, TypeOK
    <2>2. CASE t # s
      <3>1. InRegistry(t) /\ calls'[t] = calls[t]
            BY <2>2, <1>1, <1>4
      <3>2. calls[t].port \in Ports /\ RemoteInUse(t)
            BY <3>1, HeldIsInUse
      <3>3. calls[t].port # want
            BY <3>2, <1>2
      <3> QED BY <3>1, <3>2, <3>3, <1>1 DEF RegistryKept, IInv, TypeOK
    <2> QED BY <2>1, <2>2
  <1> QED BY <1>6, <1>7, <1>8, <1>9, <1>10, <1>11

\* An entry that goes in and a request that is refused: the call stays what it
\* is, as the server and the registry see it.
LEMMA PhaseKeepsRemote ==
    ASSUME RInv, NEW s \in Starts, InsertEntry(s) \/ ForwardRefused(s)
    PROVE  (OneTaker /\ FixedApart /\ AskedFixed /\ CallFacts
            /\ Served /\ RegistryOwn /\ RegistryKept /\ InboundToOwner)'
  <1> USE ConstantsAssumption DEF RInv
  <1>1. /\ UNCHANGED <<registry, server, bridges, stops, link>>
        /\ \A t \in Starts \ {s} : calls'[t] = calls[t]
        /\ calls[s].phase # "ok" /\ s \notin tunnels
        BY DEF InsertEntry, ForwardRefused, local, remote, source, IInv, TypeOK, TunnelShape
  <1>2. ~TearingDown(s)
        BY <1>1 DEF TearingDown, IInv, StopShape
  <1>3. /\ calls'[s].port = calls[s].port /\ calls'[s].reply = calls[s].reply
        /\ calls'[s].kind = calls[s].kind
        BY DEF InsertEntry, ForwardRefused, IInv, TypeOK, Call
  <1>4. \/ /\ calls[s].phase = "spawned" /\ calls'[s].phase = "ok" /\ IsListener(s)
           /\ tunnels' = tunnels \cup {s}
        \/ /\ calls[s].phase = "keyed" /\ calls'[s].phase = "ok" /\ calls[s].kind = "Remote"
           /\ tunnels' = tunnels \cup {s}
        \/ /\ calls[s].phase = "registered" /\ calls'[s].phase = "refused"
           /\ calls[s].kind = "Remote" /\ tunnels' = tunnels
    <2>1. CASE InsertEntry(s)
          BY <2>1 DEF InsertEntry, IInv, TypeOK, CallShape, Call
    <2>2. CASE ForwardRefused(s)
          BY <2>2 DEF ForwardRefused, IInv, TypeOK, CallShape, Call
    <2> QED BY <2>1, <2>2
  <1>5. \A t \in Starts :
           /\ RemoteInUse(t)' <=> RemoteInUse(t)
           /\ Holding(t)' <=> Holding(t)
           /\ InRegistry(t)' <=> InRegistry(t)
    <2> TAKE t \in Starts
    <2>1. CASE t # s
          BY <2>1, <1>1, <1>4 DEF RemoteInUse, Holding, InRegistry, TearingDown
    <2>2. CASE t = s
      <3>1. CASE IsListener(s)
            BY <2>2, <3>1, <1>3 DEF RemoteInUse, Holding, InRegistry, IsListener
      <3>2. CASE ~IsListener(s)
            BY <2>2, <3>2, <1>1, <1>2, <1>3, <1>4 DEF RemoteInUse, Holding, InRegistry, TearingDown
      <3> QED BY <3>1, <3>2
    <2> QED BY <2>1, <2>2
  <1>6. \A t \in Starts : calls'[t].port = calls[t].port /\ Bound(t)' = Bound(t)
        BY <1>1, <1>3, <1>4 DEF Bound
  <1>7. OneTaker'
        BY <1>1, <1>2, <1>4 DEF OneTaker, TearingDown
  <1>8. (FixedApart /\ Served /\ RegistryOwn /\ RegistryKept /\ InboundToOwner)'
        BY <1>1, <1>5, <1>6 DEF FixedApart, Served, RegistryOwn, RegistryKept, InboundToOwner
  <1>9. (AskedFixed /\ CallFacts)'
        BY <1>1, <1>3, <1>4 DEF AskedFixed, CallFacts, IsListener
  <1> QED BY <1>7, <1>8, <1>9

LEMMA GrantedKeepsRemote ==
    ASSUME RInv, NEW s \in Starts, ForwardGranted(s)
    PROVE  (OneTaker /\ FixedApart /\ AskedFixed /\ CallFacts
            /\ Served /\ RegistryOwn /\ RegistryKept /\ InboundToOwner)'
  <1> USE ConstantsAssumption DEF RInv
  <1>1. PICK p \in IF calls[s].port = 0 THEN Ephemeral ELSE {calls[s].port} :
           /\ server[p] = None
           /\ server' = [server EXCEPT ![p] = s]
           /\ calls' = [calls EXCEPT ![s].phase = "granted",
                                     ![s].reply = IF calls[s].port = 0 THEN p ELSE 0]
        BY Zenon DEF ForwardGranted
  <1>2. /\ calls[s].phase = "registered" /\ calls[s].kind = "Remote"
        /\ p \in Ports /\ (calls[s].port = 0 \/ p = calls[s].port)
        /\ UNCHANGED <<tunnels, registry, bridges, stops, link>>
        BY DEF ForwardGranted, local, source, IInv, CallShape, TypeOK, Call
  <1>3. calls'[s] = [calls[s] EXCEPT !.phase = "granted",
                                     !.reply = IF calls[s].port = 0 THEN p ELSE 0]
        BY <1>1 DEF IInv, TypeOK
  <1>4. /\ calls'[s].phase = "granted" /\ calls'[s].kind = "Remote"
        /\ calls'[s].port = calls[s].port
        /\ calls'[s].reply = IF calls[s].port = 0 THEN p ELSE 0
        /\ \A t \in Starts \ {s} : calls'[t] = calls[t]
        BY <1>1, <1>2, <1>3 DEF IInv, TypeOK, Call
  <1>5. Holding(s)' /\ Bound(s)' = p /\ s \notin tunnels /\ ~TearingDown(s)
        BY <1>2, <1>4 DEF Holding, Bound, BoundPort, IInv, TunnelShape, StopShape, TearingDown
  <1>6. \A t \in Starts :
           /\ RemoteInUse(t)' <=> RemoteInUse(t)
           /\ InRegistry(t)' <=> InRegistry(t)
           /\ t # s => (Holding(t)' <=> Holding(t)) /\ Bound(t)' = Bound(t)
           /\ calls'[t].port = calls[t].port
    <2> TAKE t \in Starts
    <2>1. CASE t # s
          BY <2>1, <1>2, <1>4 DEF RemoteInUse, Holding, InRegistry, TearingDown, Bound
    <2>2. CASE t = s
          BY <2>2, <1>2, <1>4, <1>5 DEF RemoteInUse, InRegistry
    <2> QED BY <2>1, <2>2
  <1>7. (OneTaker /\ InboundToOwner)'
        BY <1>2 DEF OneTaker, InboundToOwner
  <1>8. (FixedApart /\ RegistryOwn /\ RegistryKept)'
        BY <1>2, <1>6 DEF FixedApart, RegistryOwn, RegistryKept
  <1>9. (AskedFixed /\ CallFacts)'
    <2>1. calls[s].port = 0 => p \in Ephemeral
          OBVIOUS
    <2>2. AskedFixed'
          BY <1>2, <1>4, <2>1 DEF AskedFixed
    <2>3. CallFacts'
          BY <1>4 DEF CallFacts, IsListener
    <2> QED BY <2>2, <2>3
  <1>10. Served'
    <2> SUFFICES ASSUME link, NEW t \in Starts, Holding(t)'
                 PROVE  server'[Bound(t)'] = t
        BY <1>2 DEF Served
    <2>1. CASE t = s
          BY <2>1, <1>1, <1>2, <1>5 DEF IInv, TypeOK
    <2>2. CASE t # s
      <3>1. Holding(t) /\ Bound(t)' = Bound(t) /\ Bound(t) \in Ports
            BY <2>2, <1>6, HeldIsInUse
      <3>2. server[Bound(t)] = t
            BY <3>1 DEF Served
      <3> QED BY <3>1, <3>2, <1>1, <1>2 DEF IInv, TypeOK
    <2> QED BY <2>1, <2>2
  <1> QED BY <1>7, <1>8, <1>9, <1>10

\* The registry's key follows the port that was bound.
LEMMA RekeyKeepsRemote ==
    ASSUME RInv, NEW s \in Starts, Rekey(s)
    PROVE  (OneTaker /\ FixedApart /\ AskedFixed /\ CallFacts
            /\ Served /\ RegistryOwn /\ RegistryKept /\ InboundToOwner)'
  <1> USE ConstantsAssumption DEF RInv
  <1> DEFINE want == calls[s].port
             bound == BoundPort(calls[s].port, calls[s].reply)
  <1>1. /\ calls[s].phase = "granted" /\ calls[s].kind = "Remote" /\ bound \in Ports
        /\ registry' = IF bound = want THEN registry
                       ELSE [registry EXCEPT ![want] = None, ![bound] = s]
        /\ UNCHANGED <<tunnels, server, bridges, stops, link>>
        BY DEF Rekey, local, source, IInv, CallShape
  <1>2. calls'[s] = [calls[s] EXCEPT !.phase = "keyed", !.port = bound]
        BY DEF Rekey, IInv, TypeOK
  <1>3. /\ calls'[s].phase = "keyed" /\ calls'[s].kind = "Remote" /\ calls'[s].port = bound
        BY <1>1, <1>2 DEF IInv, TypeOK, Call
  <1>4. \A t \in Starts \ {s} : calls'[t] = calls[t]
        BY DEF Rekey, IInv, TypeOK
  <1>5. /\ want # bound => want = 0 /\ bound \in Ephemeral
        /\ 0 \notin Ports
        BY <1>1 DEF AskedFixed, BoundPort
  <1>6. \A t \in Starts \ {s} :
           /\ RemoteInUse(t)' <=> RemoteInUse(t)
           /\ InRegistry(t)' <=> InRegistry(t)
           /\ Holding(t)' <=> Holding(t)
           /\ Bound(t)' = Bound(t)
        BY <1>1, <1>4 DEF RemoteInUse, Holding, InRegistry, TearingDown, Bound
  <1>7. /\ RemoteInUse(s) /\ Holding(s) /\ Bound(s) = bound /\ Bound(s)' = bound
        /\ InRegistry(s)' /\ (InRegistry(s) <=> want # 0)
    <2>1. s \notin tunnels /\ ~TearingDown(s)
          BY <1>1 DEF IInv, TunnelShape, StopShape, TearingDown
    <2> QED BY <1>1, <1>3, <2>1 DEF RemoteInUse, Holding, InRegistry, TearingDown, Bound
  <1>8. (OneTaker /\ InboundToOwner)'
        BY <1>1 DEF OneTaker, InboundToOwner
  <1>9. FixedApart'
    <2> SUFFICES ASSUME NEW t \in Starts, NEW u \in Starts, RemoteInUse(t)', RemoteInUse(u)',
                        calls'[t].port = calls'[u].port, calls'[t].port \in Ports \ Ephemeral
                 PROVE  t = u
        BY DEF FixedApart
    <2>1. RemoteInUse(t) /\ RemoteInUse(u)
          BY <1>6, <1>7
    <2>2. calls'[t].port = calls[t].port /\ calls'[u].port = calls[u].port
          BY <1>3, <1>4, <1>5
    <2> QED BY <2>1, <2>2 DEF FixedApart
  <1>10. (AskedFixed /\ CallFacts)'
        BY <1>3, <1>4 DEF AskedFixed, CallFacts, IsListener
  <1>11. Served'
        BY <1>1, <1>6, <1>7 DEF Served
  <1>12. RegistryOwn'
    <2> SUFFICES ASSUME NEW p \in Ports, NEW t \in Starts, registry'[p] = t
                 PROVE  InRegistry(t)' /\ calls'[t].port = p
        BY DEF RegistryOwn
    <2>1. CASE bound = want
      <3>1. InRegistry(t) /\ calls[t].port = p
            BY <2>1, <1>1 DEF RegistryOwn
      <3> QED BY <3>1, <2>1, <1>3, <1>4, <1>6, <1>7
    <2>2. CASE bound # want /\ p = bound
          BY <2>2, <1>1, <1>3, <1>7 DEF IInv, TypeOK
    <2>3. CASE bound # want /\ p # bound
      <3>1. registry[p] = t
            BY <2>3, <1>1, <1>5 DEF IInv, TypeOK
      <3>2. InRegistry(t) /\ calls[t].port = p
            BY <3>1 DEF RegistryOwn
      <3>3. t # s
            BY <2>3, <3>2, <1>5
      <3> QED BY <3>2, <3>3, <1>4, <1>6
    <2> QED BY <2>1, <2>2, <2>3
  <1>13. RegistryKept'
    <2> SUFFICES ASSUME link, NEW t \in Starts, InRegistry(t)'
                 PROVE  registry'[calls'[t].port] = t
        BY <1>1 DEF RegistryKept
    <2>1. CASE t = s
      <3>1. CASE bound = want
            BY <2>1, <3>1, <1>1, <1>3, <1>5, <1>7 DEF RegistryKept
      <3>2. CASE bound # want
            BY <2>1, <3>2, <1>1, <1>3 DEF IInv, TypeOK
      <3> QED BY <3>1, <3>2
    <2>2. CASE t # s
      <3>1. InRegistry(t) /\ calls'[t] = calls[t] /\ calls[t].port \in Ports
            BY <2>2, <1>4, <1>6, HeldIsInUse
      <3>2. registry[calls[t].port] = t
            BY <3>1 DEF RegistryKept
      <3>3. bound # want => calls[t].port # bound
        <4> SUFFICES ASSUME bound \in Ephemeral, calls[t].port = bound
                     PROVE  FALSE
            BY <1>5
        <4>1. Holding(t) /\ Bound(t) = bound
              BY <3>1 DEF InRegistry, Holding, Bound, AskedFixed, TearingDown
        <4> QED BY <2>2, <4>1, <1>7 DEF Served
      <3> QED BY <3>1, <3>2, <3>3, <1>1, <1>5 DEF IInv, TypeOK
    <2> QED BY <2>1, <2>2
  <1> QED BY <1>8, <1>9, <1>10, <1>11, <1>12, <1>13

LEMMA RollbackKeepsRemote ==
    ASSUME RInv, NEW s \in Starts, Rollback(s)
    PROVE  (OneTaker /\ FixedApart /\ AskedFixed /\ CallFacts
            /\ Served /\ RegistryOwn /\ RegistryKept /\ InboundToOwner)'
  <1> USE ConstantsAssumption DEF RInv
  <1>1. /\ calls[s].phase = "refused" /\ calls[s].kind = "Remote"
        /\ registry' = [registry EXCEPT ![calls[s].port] = None]
        /\ calls' = [calls EXCEPT ![s].phase = "failed"]
        /\ UNCHANGED <<tunnels, server, bridges, stops, link>>
        BY DEF Rollback, local, source, IInv, CallShape
  <1>2. calls'[s].phase = "failed" /\ \A t \in Starts \ {s} : calls'[t] = calls[t]
        BY <1>1 DEF IInv, TypeOK, Call
  <1>3. s \notin tunnels /\ ~TearingDown(s)
        BY <1>1 DEF IInv, TunnelShape, StopShape, TearingDown
  <1>4. ~RemoteInUse(s)' /\ ~Holding(s)' /\ ~InRegistry(s)'
        BY <1>1, <1>2, <1>3 DEF RemoteInUse, Holding, InRegistry, TearingDown
  <1>5. \A t \in Starts \ {s} :
           /\ RemoteInUse(t)' <=> RemoteInUse(t)
           /\ InRegistry(t)' <=> InRegistry(t)
           /\ Holding(t)' <=> Holding(t)
           /\ Bound(t)' = Bound(t)
        BY <1>1, <1>2 DEF RemoteInUse, Holding, InRegistry, TearingDown, Bound
  <1>6. (OneTaker /\ InboundToOwner)'
        BY <1>1 DEF OneTaker, InboundToOwner
  <1>7. FixedApart'
        BY <1>2, <1>4, <1>5 DEF FixedApart
  <1>8. (AskedFixed /\ CallFacts)'
        BY <1>2 DEF AskedFixed, CallFacts, IsListener
  <1>9. Served'
        BY <1>1, <1>4, <1>5 DEF Served
  <1>10. RegistryOwn'
    <2> SUFFICES ASSUME NEW p \in Ports, NEW t \in Starts, registry'[p] = t
                 PROVE  InRegistry(t)' /\ calls'[t].port = p
        BY DEF RegistryOwn
    <2>1. p # calls[s].port /\ registry[p] = t
          BY <1>1 DEF IInv, TypeOK
    <2>2. InRegistry(t) /\ calls[t].port = p
          BY <2>1 DEF RegistryOwn
    <2> QED BY <2>1, <2>2, <1>2, <1>5
  <1>11. RegistryKept'
    <2> SUFFICES ASSUME link, NEW t \in Starts \ {s}, InRegistry(t)'
                 PROVE  registry'[calls'[t].port] = t
        BY <1>1, <1>4 DEF RegistryKept
    <2>1. InRegistry(t) /\ calls'[t] = calls[t] /\ calls[t].port \in Ports
          BY <1>2, <1>5, HeldIsInUse
    <2>2. registry[calls[t].port] = t
          BY <2>1 DEF RegistryKept
    <2>3. calls[t].port # calls[s].port
      <3>1. calls[s].port \in Ports => registry[calls[s].port] = s
            BY <1>1 DEF RegistryKept, InRegistry
      <3> QED BY <2>1, <2>2, <3>1
    <2> QED BY <2>1, <2>2, <2>3, <1>1 DEF IInv, TypeOK
  <1> QED BY <1>6, <1>7, <1>8, <1>9, <1>10, <1>11

-----------------------------------------------------------------------------
(* Stops of remote tunnels *)

\* The entry goes, and the tunnel is in the hand of the one stop that took it.
LEMMA TakeKeepsRemote ==
    ASSUME RInv, NEW x \in Stops, NEW s \in Starts, TakeEntry(x, s)
    PROVE  (OneTaker /\ FixedApart /\ AskedFixed /\ CallFacts
            /\ Served /\ RegistryOwn /\ RegistryKept /\ InboundToOwner)'
  <1> USE ConstantsAssumption DEF RInv
  <1>1. /\ UNCHANGED <<calls, registry, server, bridges, link>>
        /\ tunnels' = tunnels \ {s}
        /\ \A y \in Stops \ {x} : stops'[y] = stops[y]
        BY DEF TakeEntry, local, remote, source, IInv, TypeOK
  <1>2. stops[x].cur = None
        BY DEF TakeEntry, IInv, StopShape
  <1>3. stops'[x] = [stops[x] EXCEPT !.todo = @ \ {s},
                                     !.pc  = IF s \in tunnels THEN "teardown" ELSE @,
                                     !.cur = IF s \in tunnels THEN s ELSE None]
        BY DEF TakeEntry, IInv, TypeOK
  <1>4. /\ stops'[x].uncancelled = stops[x].uncancelled
        /\ s \in tunnels => stops'[x].cur = s /\ stops'[x].pc = "teardown"
        /\ s \notin tunnels => stops'[x].cur = None
        BY <1>3 DEF IInv, TypeOK, Stop
  <1>5. CASE s \notin tunnels
        BY <1>1, <1>2, <1>4, <1>5, BetweenKeepsRemote
  <1>6. CASE s \in tunnels
    <2>1. ~TearingDown(s)
          BY <1>6 DEF OneTaker, TearingDown
    <2>2. \A t \in Starts :
             /\ RemoteInUse(t)' <=> RemoteInUse(t)
             /\ Holding(t)' <=> Holding(t)
             /\ InRegistry(t)' <=> InRegistry(t)
      <3> TAKE t \in Starts
      <3>1. CASE t = s
            BY <3>1, <1>1, <1>4, <1>6 DEF RemoteInUse, Holding, InRegistry, TearingDown
      <3>2. CASE t # s
        <4>1. \A y \in Stops : stops'[y].cur = t <=> stops[y].cur = t
              BY <3>2, <1>1, <1>2, <1>4, <1>6
        <4>2. \A y \in Stops : stops[y].cur = t => stops'[y] = stops[y]
              BY <3>2, <1>1, <1>2
        <4> QED BY <3>2, <4>1, <4>2, <1>1 DEF RemoteInUse, Holding, InRegistry, TearingDown
      <3> QED BY <3>1, <3>2
    <2>3. OneTaker'
          BY <1>1, <1>4, <1>6, <2>1 DEF OneTaker, TearingDown
    <2>4. (FixedApart /\ AskedFixed /\ CallFacts /\ Served /\ RegistryOwn /\ RegistryKept)'
          BY <1>1, <2>2 DEF FixedApart, AskedFixed, CallFacts, Served, RegistryOwn,
             RegistryKept, Bound, BoundPort, IsListener
    <2>5. InboundToOwner'
      <3>1. \A y \in Stops : stops'[y].uncancelled = stops[y].uncancelled
            BY <1>1, <1>4
      <3> QED BY <1>1, <3>1 DEF InboundToOwner
    <2> QED BY <2>3, <2>4, <2>5
  <1> QED BY <1>5, <1>6

LEMMA UnregisterKeepsRemote ==
    ASSUME RInv, NEW x \in Stops, Unregister(x)
    PROVE  (OneTaker /\ FixedApart /\ AskedFixed /\ CallFacts
            /\ Served /\ RegistryOwn /\ RegistryKept /\ InboundToOwner)'
  <1> USE ConstantsAssumption DEF RInv
  <1> PICK s \in Starts : s = stops[x].cur
      BY DEF IInv, TypeOK, Stop, Unregister, StopShape
  <1>1. /\ calls[s].phase = "ok" /\ calls[s].kind = "Remote" /\ stops[x].pc = "teardown"
        /\ registry' = [registry EXCEPT ![calls[s].port] = None]
        /\ UNCHANGED <<calls, tunnels, server, bridges, link>>
        BY DEF Unregister, local, source, IInv, StopShape, CallFacts
  <1>2. /\ stops'[x].pc = "cancel" /\ stops'[x].cur = s
        /\ stops'[x].uncancelled = stops[x].uncancelled
        /\ \A y \in Stops \ {x} : stops'[y] = stops[y]
    <2>1. stops'[x] = [stops[x] EXCEPT !.pc = "cancel"]
          BY DEF Unregister, IInv, TypeOK
    <2> QED BY <2>1 DEF Unregister, IInv, TypeOK, Stop
  <1>3. \A t \in Starts :
           /\ RemoteInUse(t)' <=> RemoteInUse(t)
           /\ Holding(t)' <=> Holding(t)
           /\ t # s => (InRegistry(t)' <=> InRegistry(t))
    <2>1. \A y \in Stops : stops'[y].cur = stops[y].cur
          BY <1>2
    <2>2. \A y \in Stops : y # x => stops'[y].pc = stops[y].pc
          BY <1>2
    <2> QED BY <2>1, <2>2, <1>1 DEF RemoteInUse, Holding, InRegistry, TearingDown
  <1>4. InRegistry(s) /\ ~InRegistry(s)'
    <2>1. InRegistry(s)
          BY <1>1 DEF InRegistry
    <2>2. s \notin tunnels /\ \A y \in Stops : stops[y].cur = s => x = y
          BY DEF OneTaker
    <2> QED BY <1>1, <1>2, <2>1, <2>2 DEF InRegistry
  <1>5. \A y \in Stops : /\ stops'[y].uncancelled = stops[y].uncancelled
                         /\ stops'[y].cur = stops[y].cur
        BY <1>2
  <1>6. (OneTaker /\ InboundToOwner)'
        BY <1>1, <1>5 DEF OneTaker, InboundToOwner
  <1>7. (FixedApart /\ AskedFixed /\ CallFacts /\ Served)'
        BY <1>1, <1>3 DEF FixedApart, AskedFixed, CallFacts, Served, Bound, BoundPort, IsListener
  <1>8. RegistryOwn'
    <2> SUFFICES ASSUME NEW p \in Ports, NEW t \in Starts, registry'[p] = t
                 PROVE  InRegistry(t)' /\ calls'[t].port = p
        BY DEF RegistryOwn
    <2>1. p # calls[s].port /\ registry[p] = t
          BY <1>1 DEF IInv, TypeOK
    <2>2. InRegistry(t) /\ calls[t].port = p
          BY <2>1 DEF RegistryOwn
    <2> QED BY <2>1, <2>2, <1>1, <1>3
  <1>9. RegistryKept'
    <2> SUFFICES ASSUME link, NEW t \in Starts \ {s}, InRegistry(t)'
                 PROVE  registry'[calls[t].port] = t
        BY <1>1, <1>4 DEF RegistryKept
    <2>1. InRegistry(t) /\ calls[t].port \in Ports
          BY <1>3, HeldIsInUse
    <2>2. registry[calls[t].port] = t /\ registry[calls[s].port] = s
          BY <2>1, <1>4 DEF RegistryKept
    <2> QED BY <2>1, <2>2, <1>1 DEF IInv, TypeOK
  <1> QED BY <1>6, <1>7, <1>8, <1>9

\* A cancel takes the forward of the tunnel in hand and no other's; one that
\* fails is remembered.
LEMMA CancelKeepsRemote ==
    ASSUME RInv, NEW x \in Stops, CancelForward(x)
    PROVE  (OneTaker /\ FixedApart /\ AskedFixed /\ CallFacts
            /\ Served /\ RegistryOwn /\ RegistryKept /\ InboundToOwner)'
  <1> USE ConstantsAssumption DEF RInv
  <1> PICK s \in Starts : s = stops[x].cur
      BY DEF IInv, TypeOK, Stop, CancelForward, StopShape
  <1>1. /\ calls[s].phase = "ok" /\ stops[x].pc = "cancel"
        /\ UNCHANGED <<calls, tunnels, registry, bridges, link>>
        /\ \A y \in Stops \ {x} : stops'[y] = stops[y]
        BY DEF CancelForward, local, source, IInv, StopShape, TypeOK
  <1>2. /\ server' = server \/ server' = [server EXCEPT ![calls[s].port] = None]
        /\ stops'[x].cur = None /\ stops[x].uncancelled \subseteq stops'[x].uncancelled
    <2>1. \/ stops'[x] = [stops[x] EXCEPT !.pc = "next", !.cur = None]
          \/ stops'[x] = [stops[x] EXCEPT !.pc = "next", !.cur = None,
                                          !.uncancelled = @ \cup {s}]
          BY DEF CancelForward, IInv, TypeOK
    <2>2. stops'[x].cur = None /\ stops[x].uncancelled \subseteq stops'[x].uncancelled
      <3>1. stops[x] \in Stop
            BY DEF IInv, TypeOK
      <3>2. CASE stops'[x] = [stops[x] EXCEPT !.pc = "next", !.cur = None]
            BY <3>1, <3>2 DEF Stop
      <3>3. CASE stops'[x] = [stops[x] EXCEPT !.pc = "next", !.cur = None,
                                              !.uncancelled = @ \cup {s}]
        <4>1. /\ stops'[x].cur = None
              /\ stops'[x].uncancelled = stops[x].uncancelled \cup {s}
              BY <3>1, <3>3 DEF Stop
        <4> QED BY <4>1
      <3> QED BY <2>1, <3>2, <3>3
    <2> QED BY <2>2 DEF CancelForward
  <1>3. s \notin tunnels /\ \A y \in Stops : stops[y].cur = s => x = y
        BY DEF OneTaker
  <1>4. ~RemoteInUse(s)' /\ ~Holding(s)' /\ ~InRegistry(s)' /\ ~InRegistry(s)
        BY <1>1, <1>2, <1>3 DEF RemoteInUse, Holding, InRegistry, TearingDown
  <1>5. \A t \in Starts \ {s} :
           /\ RemoteInUse(t)' <=> RemoteInUse(t)
           /\ Holding(t)' <=> Holding(t)
           /\ InRegistry(t)' <=> InRegistry(t)
    <2> TAKE t \in Starts \ {s}
    <2>1. \A y \in Stops : stops'[y].cur = t <=> stops[y].cur = t
          BY <1>1, <1>2
    <2>2. \A y \in Stops : stops[y].cur = t => stops'[y] = stops[y]
          BY <1>1
    <2> QED BY <2>1, <2>2, <1>1 DEF RemoteInUse, Holding, InRegistry, TearingDown
  <1>6. OneTaker'
        BY <1>1, <1>2 DEF OneTaker
  <1>7. InboundToOwner'
    <2>1. \A y \in Stops : stops[y].uncancelled \subseteq stops'[y].uncancelled
          BY <1>1, <1>2
    <2> QED BY <1>1, <2>1 DEF InboundToOwner
  <1>8. FixedApart'
        BY <1>1, <1>4, <1>5 DEF FixedApart
  <1>9. (AskedFixed /\ CallFacts /\ RegistryOwn /\ RegistryKept)'
        BY <1>1, <1>4, <1>5 DEF AskedFixed, CallFacts, RegistryOwn, RegistryKept, IsListener
  <1>10. Served'
    <2> SUFFICES ASSUME link, NEW t \in Starts \ {s}, Holding(t)
                 PROVE  server'[Bound(t)] = t
        BY <1>1, <1>4, <1>5 DEF Served, Bound, BoundPort
    <2>1. server[Bound(t)] = t /\ Bound(t) \in Ports
          BY HeldIsInUse DEF Served
    <2>2. CASE server' = server
          BY <2>1, <2>2
    <2>3. CASE server' = [server EXCEPT ![calls[s].port] = None]
      <3>1. Bound(t) # calls[s].port
        <4>1. calls[s].kind = "Remote"
              BY <1>1 DEF CallFacts, IInv, StopShape
        <4>2. Holding(s) /\ Bound(s) = calls[s].port
              BY <4>1, <1>1 DEF Holding, TearingDown, Bound
        <4> QED BY <4>2, <2>1 DEF Served
      <3> QED BY <2>1, <2>3, <3>1 DEF IInv, TypeOK
    <2> QED BY <2>2, <2>3, <1>2
  <1> QED BY <1>6, <1>7, <1>8, <1>9, <1>10

-----------------------------------------------------------------------------
(* The theorems *)

LEMMA RemoteHolds ==
    ASSUME SharedPorts = FALSE
    PROVE  Spec => []RInv
  <1>1. RInv /\ [Next]_vars => RInv'
    <2> SUFFICES ASSUME RInv, [Next]_vars
                 PROVE  (OneTaker /\ FixedApart /\ AskedFixed /\ CallFacts
                         /\ Served /\ RegistryOwn /\ RegistryKept /\ InboundToOwner)'
        BY NextKeepsInv DEF RInv
    <2> USE DEF local, remote, source
    <2>1. ASSUME NEW s \in Starts, NEW m \in Managers, NEW k \in Kinds,
                 (\E want \in Ports \cup {0} : Bind(s, k, m, want))
                 \/ BindFails(s, k, m) \/ RemoteNoSession(s, m)
          PROVE  /\ calls[s].phase = "idle" /\ calls' = [calls EXCEPT ![s] = calls'[s]]
                 /\ calls'[s].phase \in {"spawned", "failed"}
                 /\ calls'[s].phase = "spawned" => calls'[s].kind # "Remote"
                 /\ UNCHANGED <<tunnels, registry, server, bridges, stops, link>>
          BY <2>1 DEF Bind, BindFails, RemoteNoSession, RInv, IInv, TypeOK
    <2>2. CASE \E s \in Starts, m \in Managers, k \in Kinds :
                  (\E want \in Ports \cup {0} : Bind(s, k, m, want)) \/ BindFails(s, k, m)
          BY <2>1, <2>2, ElsewhereKeepsRemote
    <2>3. CASE \E s \in Starts, m \in Managers : RemoteNoSession(s, m)
      <3> PICK s \in Starts, m \in Managers : RemoteNoSession(s, m)
          BY <2>3
      <3>1. /\ calls[s].phase = "idle" /\ calls' = [calls EXCEPT ![s] = calls'[s]]
            /\ calls'[s].phase = "failed"
            /\ UNCHANGED <<tunnels, registry, server, bridges, stops, link>>
            BY DEF RemoteNoSession, RInv, IInv, TypeOK
      <3> QED BY <3>1, ElsewhereKeepsRemote
    <2>4. CASE \E s \in Starts : LoopStep(s) \/ DropGuard(s) \/ \E c \in Conns : Accept(s, c)
      <3> PICK s \in Starts : LoopStep(s) \/ DropGuard(s) \/ \E c \in Conns : Accept(s, c)
          BY <2>4
      <3>1. UNCHANGED <<calls, tunnels, registry, server, bridges, stops, link>>
            BY DEF LoopStep, SpawnConn, RegisterConn, LoopDies, Accept, DropGuard
      <3> QED BY <3>1, ElsewhereKeepsRemote
    <2>5. CASE (\E c \in Conns : ConnStep(c) \/ BridgeEof(c)) \/ UNCHANGED vars
      <3>1. UNCHANGED <<calls, tunnels, registry, server, bridges, stops, link>>
            BY <2>5 DEF ConnStep, Socks5Handshake, OpenDirect, OpenDirectReply, BridgeEof, vars
      <3> QED BY <3>1, BetweenKeepsRemote
    <2>6. CASE \E p \in Ports : ForwardedTcpip(p)
          BY <2>6, InboundKeepsRemote
    <2>7. CASE \E s \in Starts, m \in Managers, want \in Ports \cup {0} : PreRegister(s, m, want)
          BY <2>7, PreRegisterKeepsRemote
    <2>8. CASE \E s \in Starts : InsertEntry(s) \/ ForwardGranted(s) \/ ForwardRefused(s)
                                 \/ Rollback(s) \/ Rekey(s)
          BY <2>8, PhaseKeepsRemote, GrantedKeepsRemote, RollbackKeepsRemote, RekeyKeepsRemote
    <2>9. CASE \E x \in Stops : (\E s \in Starts : TakeEntry(x, s))
                                \/ Unregister(x) \/ CancelForward(x)
          BY <2>9, TakeKeepsRemote, UnregisterKeepsRemote, CancelKeepsRemote
    <2>10. CASE \E x \in Stops : BetweenTunnels(x) \/ AbortTasks(x) \/ Disconnect(x)
      <3> PICK x \in Stops : BetweenTunnels(x) \/ AbortTasks(x) \/ Disconnect(x)
          BY <2>10
      <3>1. /\ UNCHANGED <<calls, tunnels, registry, bridges>>
            /\ (UNCHANGED <<server, link>>) \/ ~link'
            /\ \A y \in Stops \ {x} : stops'[y] = stops[y]
            BY DEF BetweenTunnels, StopOne, StopAll, FinishStop, Shutdown, AbortTasks,
               Disconnect, RInv, IInv, TypeOK
      <3>2. /\ stops'[x].uncancelled = stops[x].uncancelled
            /\ \/ stops[x].cur = None /\ stops'[x].cur = None
               \/ stops'[x].cur = None /\ IsListener(stops[x].cur)
        <4>1. CASE BetweenTunnels(x) \/ Disconnect(x)
          <5>1. stops[x].cur = None
                BY <4>1 DEF BetweenTunnels, StopOne, StopAll, FinishStop, Shutdown, Disconnect,
                   RInv, IInv, StopShape
          <5>2. stops[x] \in Stop
                BY DEF RInv, IInv, TypeOK
          <5>3. ASSUME NEW s \in Starts, StopOne(x, s)
                PROVE  stops'[x].cur = stops[x].cur /\ stops'[x].uncancelled = stops[x].uncancelled
                BY <5>2, <5>3 DEF StopOne, RInv, IInv, TypeOK, Stop
          <5>4. ASSUME NEW m \in Managers, StopAll(x, m)
                PROVE  stops'[x].cur = stops[x].cur /\ stops'[x].uncancelled = stops[x].uncancelled
            <6>1. stops'[x] = [stops[x] EXCEPT !.pc = "next", !.mgr = m,
                                               !.todo = {s \in tunnels : calls[s].mgr = m}]
                  BY <5>4 DEF StopAll, RInv, IInv, TypeOK
            <6> QED BY <5>2, <6>1 DEF Stop
          <5>5. ASSUME FinishStop(x) \/ Shutdown(x) \/ Disconnect(x)
                PROVE  stops'[x].cur = stops[x].cur /\ stops'[x].uncancelled = stops[x].uncancelled
            <6>1. \/ stops' = [stops EXCEPT ![x].pc = "done"]
                  \/ stops' = [stops EXCEPT ![x].pc = "shutdown"]
                  \/ stops' = [stops EXCEPT ![x].pc = "closing"]
                  BY <5>5 DEF FinishStop, Shutdown, Disconnect
            <6>2. \/ stops'[x] = [stops[x] EXCEPT !.pc = "done"]
                  \/ stops'[x] = [stops[x] EXCEPT !.pc = "shutdown"]
                  \/ stops'[x] = [stops[x] EXCEPT !.pc = "closing"]
                  BY <6>1 DEF RInv, IInv, TypeOK
            <6> QED BY <5>2, <6>2 DEF Stop
          <5>6. stops'[x].cur = stops[x].cur /\ stops'[x].uncancelled = stops[x].uncancelled
                BY <4>1, <5>3, <5>4, <5>5 DEF BetweenTunnels
          <5> QED BY <5>1, <5>6
        <4>2. CASE AbortTasks(x)
              BY <4>2 DEF AbortTasks, RInv, IInv, TypeOK, Stop
        <4> QED BY <4>1, <4>2
      <3>3. \A y \in Stops :
              /\ \/ stops'[y].cur = stops[y].cur
                    /\ (stops[y].cur # None => stops'[y].pc = stops[y].pc)
                 \/ stops'[y].cur = None /\ IsListener(stops[y].cur)
              /\ stops[y].uncancelled \subseteq stops'[y].uncancelled
            BY <3>1, <3>2
      <3> QED BY <3>1, <3>3, BetweenKeepsRemote
    <2>11. CASE HandleDropped \/ LinkDies
      <3>1. UNCHANGED <<calls, tunnels, registry, bridges, stops>> /\ ~link'
            BY <2>11 DEF HandleDropped, LinkDies
      <3> QED BY <3>1, BetweenKeepsRemote
    <2> QED BY <2>2, <2>3, <2>4, <2>5, <2>6, <2>7, <2>8, <2>9, <2>10, <2>11, Zenon
            DEF Next, StartStep, StopStep, BetweenTunnels
  <1> QED BY <1>1, RemoteInit, PTL DEF Spec

\* For any calls, managers and ports: an inbound connection goes to the tunnel
\* whose port it came in on, unless a cancel of that tunnel's forward failed.
THEOREM InboundReachesOwner ==
    ASSUME SharedPorts = FALSE
    PROVE  Spec => []InboundToOwner
  <1>1. RInv => InboundToOwner
        BY DEF RInv
  <1> QED BY <1>1, RemoteHolds, PTL

\* And an Active remote tunnel on a live transport forwards: the server listens
\* for it, and its own target is in the registry.
THEOREM ActiveTunnelsForward ==
    ASSUME SharedPorts = FALSE
    PROVE  Spec => []ActiveForwards
  <1>1. RInv => ActiveForwards
    <2> SUFFICES ASSUME RInv, NEW s \in tunnels, calls[s].kind = "Remote", link
                 PROVE  \E p \in Ports : p = calls[s].port /\ server[p] = s /\ registry[p] = s
        BY DEF ActiveForwards
    <2> USE DEF RInv
    <2>1. s \in Starts /\ calls[s].phase = "ok" /\ calls[s].port \in Ports
          BY DEF IInv, TypeOK, TunnelShape, CallShape
    <2>2. Holding(s) /\ Bound(s) = calls[s].port /\ InRegistry(s)
          BY <2>1 DEF Holding, Bound, InRegistry
    <2> QED BY <2>1, <2>2 DEF Served, RegistryKept
  <1> QED BY <1>1, RemoteHolds, PTL
=============================================================================
