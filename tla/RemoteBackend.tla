--------------------------- MODULE RemoteBackend ----------------------------
(***************************************************************************)
(* What a remote terminal's view relies on: a backend connects at most     *)
(* once, is down for good once it is down, says so in its status before it *)
(* says anything on its event channel, and says it once                    *)
(* (RemoteStatus and BackendEvent in src/crabport-terminal/src/terminal.rs). *)
(***************************************************************************)
VARIABLES
    status, \* monitor().status()
    said    \* the event that ended the backend

Init == status = "Connecting" /\ said = "none"

Establish == status = "Connecting" /\ status' = "Connected" /\ UNCHANGED said

GoDown == status # "Disconnected" /\ status' = "Disconnected" /\ UNCHANGED said

Report ==
    /\ status = "Disconnected" /\ said = "none"
    /\ said' \in {"Error", "Closed"} /\ UNCHANGED status

Next == Establish \/ GoDown \/ Report

Spec == Init /\ [][Next]_<<status, said>> /\ WF_<<status, said>>(Report)
=============================================================================
