---------------------------- MODULE TerminalView ----------------------------
(***************************************************************************)
(* The view of a remote terminal over its connection attempts: each        *)
(* attempt's backend (as RemoteBackend promises), the listeners the view   *)
(* spawns for it, the connection overlay they all write, the row each      *)
(* attempt leaves in the connection history, and the reconnects            *)
(* (src/crabport-ui/src/views/terminal.rs, views/terminal/connection_overlay.rs). *)
(***************************************************************************)
EXTENDS Naturals, Sequences

CONSTANTS
    MaxAttempts,   \* bound: connection attempts of the view
    Wired,         \* on_backend_closed is set: a tab or a split pane, not an SFTP page
    AutoReconnect, \* the auto_reconnect setting
    ManualReconnect \* bound: the user clicks Reconnect at all

ASSUME ViewAssumption ==
    MaxAttempts \in Nat \ {0} /\ {Wired, AutoReconnect, ManualReconnect} \subseteq BOOLEAN

Attempts == 1..MaxAttempts

VARIABLES
    cur,      \* the attempt view.session belongs to
    status,   \* an attempt's monitor
    said,     \* the event that ended its backend
    closing,  \* session.close() was called
    events,   \* backend events its event listener has not handled
    wake,     \* a wakeup its status listener has not handled
    fader,    \* its fade watcher: "watch", "timing" (600 ms), "off"
    recorded, \* the attempt's history row: "none", "ok", "failed"
    oStatus, fading, hidden, \* the overlay: status, fade_out_started, hidden
    timers,   \* attempts whose auto-reconnect is counting down (any time:
              \* the backoff's length, reconnect_attempts, is left out)
    view      \* "open"; "ended": closed by the backend's end; "left": by the user

backVars == <<status, said, closing>>
overlayVars == <<oStatus, fading, hidden>>
listenVars == <<events, wake, fader, recorded>>
vars == <<cur, backVars, overlayVars, listenVars, timers, view>>

Started == 1..cur
Open == view = "open"

TypeOK ==
    /\ cur \in Attempts /\ status \in [Attempts -> {"Connecting", "Connected", "Disconnected"}]
    /\ said \in [Attempts -> {"none", "Error", "Closed"}]
    /\ {closing, wake} \subseteq [Attempts -> BOOLEAN]
    /\ events \in [Attempts -> Seq({"Error", "Closed"})]
    /\ fader \in [Attempts -> {"watch", "timing", "off"}]
    /\ recorded \in [Attempts -> {"none", "ok", "failed"}]
    /\ oStatus \in {"Connecting", "Connected", "Disconnected"}
    /\ {fading, hidden} \subseteq BOOLEAN
    /\ timers \subseteq Attempts
    /\ view \in {"open", "ended", "left"}

Init ==
    /\ cur = 1 /\ status = [a \in Attempts |-> "Connecting"]
    /\ said = [a \in Attempts |-> "none"] /\ closing = [a \in Attempts |-> FALSE]
    /\ events = [a \in Attempts |-> <<>>] /\ wake = [a \in Attempts |-> FALSE]
    /\ fader = [a \in Attempts |-> IF a = 1 THEN "watch" ELSE "off"]
    /\ recorded = [a \in Attempts |-> "none"]
    /\ oStatus = "Connecting" /\ fading = FALSE /\ hidden = FALSE
    /\ timers = {} /\ view = "open"

-----------------------------------------------------------------------------
(* An attempt's backend, and the session's pump, which wakes the listeners *)
(* for every event that needs it                                           *)

WakeUp(a) == wake' = [wake EXCEPT ![a] = TRUE]

SetStatus(a, s) ==
    /\ status' = [status EXCEPT ![a] = s]
    /\ UNCHANGED <<cur, said, closing, overlayVars, listenVars, timers, view>>

\* The status alone wakes nobody ...
Establish(a) == status[a] = "Connecting" /\ SetStatus(a, "Connected")
GoDown(a) == status[a] # "Disconnected" /\ SetStatus(a, "Disconnected")

\* ... output does, and so does the event that ends the backend. (Wakeups
\* from an attempt that is no longer on show change nothing.)
Output(a) ==
    /\ a = cur /\ status[a] = "Connected" /\ WakeUp(a)
    /\ UNCHANGED <<cur, backVars, overlayVars, events, fader, recorded, timers, view>>

\* Slip: the pump stops at Closed without a wakeup.
QuietEnd(a) == UNCHANGED wake
EndWakes(a) == WakeUp(a)

Report(a) ==
    /\ status[a] = "Disconnected" /\ said[a] = "none"
    /\ \E e \in {"Error", "Closed"} :
          /\ said' = [said EXCEPT ![a] = e]
          /\ events' = [events EXCEPT ![a] = Append(@, e)]
    /\ EndWakes(a)
    /\ UNCHANGED <<cur, status, closing, overlayVars, fader, recorded, timers, view>>

-----------------------------------------------------------------------------
(* fire_connection_result, update_status *)

\* Slip: the flag that makes it once per attempt is not consulted.
RecordAgain(a, r) == recorded' = [recorded EXCEPT ![a] = r]
Record(a, r) == recorded' = [recorded EXCEPT ![a] = IF @ = "none" THEN r ELSE @]

UpdateStatus(s) ==
    /\ oStatus' = s
    /\ fading' = (s = "Connected" \/ (fading /\ (s = "Disconnected" \/ s = oStatus)))
    /\ hidden' = (hidden /\ (s # "Connecting" \/ s = oStatus))

-----------------------------------------------------------------------------
(* The listeners of an attempt *)

\* The wakeup listener mirrors the status while its attempt is the view's.
StatusListener(a) ==
    /\ wake[a] /\ wake' = [wake EXCEPT ![a] = FALSE]
    /\ IF a = cur /\ status[a] # oStatus
       THEN /\ UpdateStatus(status[a])
            /\ IF status[a] = "Connected"
               THEN Record(a, "ok")
               ELSE UNCHANGED recorded
       ELSE UNCHANGED <<overlayVars, recorded>>
    /\ UNCHANGED <<cur, backVars, events, fader, timers, view>>

Handle(a, e) == events[a] # <<>> /\ Head(events[a]) = e
                /\ events' = [events EXCEPT ![a] = Tail(@)]

ErrorEvent(a) ==
    /\ Handle(a, "Error")
    /\ Record(a, "failed")
    /\ UNCHANGED <<cur, backVars, overlayVars, wake, fader, timers, view>>

\* Slip: a close before the first Connected leaves no row.
SilentClose(a) == UNCHANGED recorded
CloseRow(a) == Record(a, "failed")

\* Closed: a row if none yet; the tab or pane closes if it asked for that; a
\* countdown if the overlay still says Connected.
ClosedEvent(a) ==
    /\ Handle(a, "Closed")
    /\ CloseRow(a)
    /\ view' = IF Wired THEN "ended" ELSE view
    /\ closing' = IF Wired THEN [closing EXCEPT ![cur] = TRUE] ELSE closing
    /\ timers' = IF AutoReconnect /\ oStatus = "Connected" THEN timers \cup {a} ELSE timers
    /\ UNCHANGED <<cur, status, said, overlayVars, wake, fader>>

\* The watcher reads the flag at the wakeup that follows.
FadeStarts(a) ==
    /\ a = cur /\ fader[a] = "watch" /\ fading
    /\ fader' = [fader EXCEPT ![a] = "timing"]
    /\ UNCHANGED <<cur, backVars, overlayVars, events, wake, recorded, timers, view>>

FadeEnds(a) ==
    /\ fader[a] = "timing" /\ fader' = [fader EXCEPT ![a] = "off"]
    /\ hidden' = TRUE
    /\ UNCHANGED <<cur, backVars, oStatus, fading, events, wake, recorded, timers, view>>

-----------------------------------------------------------------------------
(* Reconnecting and closing *)

\* A watcher of the old session that still waits is woken no more.
Reconnect ==
    /\ cur < MaxAttempts /\ cur' = cur + 1
    /\ closing' = [closing EXCEPT ![cur] = TRUE]
    /\ UpdateStatus("Connecting")
    /\ fader' = [fader EXCEPT ![cur] = IF @ = "watch" THEN "off" ELSE @, ![cur + 1] = "watch"]
    /\ UNCHANGED <<status, said, events, wake, recorded, view>>

\* The button is drawn while the overlay shows and says Disconnected.
ReconnectClicked ==
    /\ ManualReconnect /\ oStatus = "Disconnected" /\ ~hidden
    /\ Reconnect /\ UNCHANGED timers

\* Slip: the countdown reconnects whatever the view shows by now.
AnySession(a) == TRUE
SameSession(a) == a = cur

TimerFires(a) ==
    /\ a \in timers /\ timers' = timers \ {a}
    /\ IF SameSession(a)
       THEN Reconnect
       ELSE UNCHANGED <<cur, backVars, overlayVars, listenVars, view>>

CloseView ==
    /\ view' = "left" /\ closing' = [closing EXCEPT ![cur] = TRUE]
    /\ UNCHANGED <<cur, status, said, overlayVars, listenVars, timers>>

-----------------------------------------------------------------------------
Backend(a) == Establish(a) \/ GoDown(a) \/ Output(a) \/ Report(a)
Listeners(a) ==
    \/ StatusListener(a) \/ ErrorEvent(a) \/ ClosedEvent(a)
    \/ FadeStarts(a) \/ FadeEnds(a)

\* Once the view is gone every update of it is refused.
Next ==
    /\ Open
    /\ \/ \E a \in Started : Backend(a) \/ Listeners(a) \/ TimerFires(a)
       \/ ReconnectClicked \/ CloseView

\* A backend told to close goes down and says so; listeners run.
Fairness ==
    \A a \in Attempts :
        /\ WF_vars(Open /\ closing[a] /\ GoDown(a)) /\ WF_vars(Open /\ Report(a))
        /\ WF_vars(Open /\ StatusListener(a))
        /\ WF_vars(Open /\ (ErrorEvent(a) \/ ClosedEvent(a)))

Spec == Init /\ [][Next]_vars /\ Fairness

-----------------------------------------------------------------------------
(* Properties *)

\* An attempt leaves one row: it is written when the backend ends if not
\* before, whichever attempt the view shows by then, and never rewritten.
EveryAttemptRecorded ==
    /\ [][\A a \in Attempts : recorded[a] # "none" => recorded'[a] = recorded[a]]_vars
    /\ \A a \in Attempts : (said[a] # "none") ~> (recorded[a] # "none" \/ ~Open)

\* A reconnect, asked for or automatic, only ever replaces an attempt that is
\* down: a countdown that was overtaken does not cut a connection.
ReconnectsOnlyWhenDown == [][cur' # cur => status[cur] = "Disconnected"]_vars

\* The overlay learns that the view's attempt ended.
EndReachesOverlay ==
    \A a \in Attempts :
        (a = cur /\ said[a] # "none") ~> (oStatus = "Disconnected" \/ a # cur \/ ~Open)

\* The view follows its attempt: only one that is down is replaced, by hand or
\* by a countdown, its end reaches the overlay, and the connection history
\* records what became of it.
ViewFollowsAttempt == ReconnectsOnlyWhenDown /\ EndReachesOverlay /\ EveryAttemptRecorded

\* Only the end of the attempt on show closes the tab.
ClosedByOwnEnd == view = "ended" => said[cur] = "Closed"

\* spawn_backend_listeners: "First `Connected` resolves the attempt as a
\* success". The status is read at the next wakeup, which may find it gone.
ConnectedIsSuccess ==
    \A a \in Attempts : [](status[a] = "Connected" => [](recorded[a] # "failed"))

\* A drop shows: panel.rs renders "Connection overlay (loading spinner,
\* host-key prompt, reconnect)" for a page, but hidden is not reset.
ReconnectOffered == (Open /\ oStatus = "Disconnected") => ~hidden

\* terminal.rs on auto-reconnect: "Auto-reconnect on an unexpected mid-session
\* drop". The status listener may mirror the drop before Closed is handled.
DropReconnects ==
    AutoReconnect => \A a \in Attempts :
        (a = cur /\ recorded[a] = "ok" /\ oStatus = "Connected" /\ said[a] = "Closed"
           /\ events[a] # <<>>)
            ~> (a \in timers \/ a # cur \/ ~Open)

\* What still holds an attempt's session, and with it its event channels: the
\* view that shows it, its event listener (session_for_reconnect) and its
\* wakeup listener (session_for_refresh), both parked on those channels.
HoldsSession(a) == (IF Open /\ a = cur THEN {"view"} ELSE {}) \cup {"events", "wakeups"}

\* terminal.rs on spawn_backend_listeners: "the previous attempt's loops exit
\* once their session's channels close". Nothing closes them.
OldLoopsExit == \A a \in Attempts : (a < cur /\ said[a] # "none") ~> HoldsSession(a) = {}
=============================================================================
