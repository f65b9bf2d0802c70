---------------------------- MODULE Notifications ----------------------------
(***************************************************************************)
(* Toasts: at most MAX_NOTIFICATIONS on screen, each of them dismissed by  *)
(* a timer of its own, by its close button or to make room, and dropped    *)
(* 300 ms after it was dismissed.  The pointer on a toast gives all of     *)
(* them their full time again.  Source: crabport-ui's                      *)
(* components/notification.rs.                                             *)
(*                                                                         *)
(* Timers cannot be cancelled: an old one finds the toast's generation     *)
(* changed and leaves it alone.  A toast is found by its slot, the         *)
(* counter's value when it was shown, so that slots grow from the oldest.  *)
(***************************************************************************)
EXTENDS Integers, FiniteSets, Functions

CONSTANTS MAX_NOTIFICATIONS,
          MaxGeneration,  \* bound: values of the counter (shows and hovers)
          MaxCloses       \* bound: clicks on close buttons

NotificationsAssumption ==
  MAX_NOTIFICATIONS \in Nat \ {0} /\ MaxGeneration \in Nat /\ MaxCloses \in Nat

VARIABLES entries,     \* NotificationController::entries by slot, which is their order
          generation,
          timers,      \* auto-dismiss tasks asleep: slot and generation captured
          cleanups,    \* clean-up tasks asleep, by slot
          closes

vars == <<entries, generation, timers, cleanups, closes>>

Slots == 1..MaxGeneration
\* (expired is history: it was time that dismissed it.)
Entry == [generation : Slots, open : BOOLEAN, timed : BOOLEAN, expired : BOOLEAN]
Shown == DOMAIN entries

TypeOK ==
  /\ Shown \subseteq Slots /\ Cardinality(Shown) <= MAX_NOTIFICATIONS
  /\ \A s \in Shown : entries[s] \in Entry
  /\ generation \in 0..MaxGeneration
  /\ timers \subseteq [slot : Slots, generation : Slots]
  /\ cleanups \in [Slots -> Nat]
  /\ closes \in 0..MaxCloses

Init ==
  /\ entries = << >> /\ generation = 0 /\ timers = {}
  /\ cleanups = [s \in Slots |-> 0] /\ closes = 0

\* The toast that makes room for another is the oldest.
Evicted ==
  IF Cardinality(Shown) < MAX_NOTIFICATIONS THEN {}
  ELSE {s \in Shown : \A r \in Shown : s <= r}

\* A toast of duration zero stays until it is closed.
Show(timed) ==
  /\ generation < MaxGeneration
  /\ generation' = generation + 1
  /\ entries' = [s \in (Shown \ Evicted) \cup {generation'} |->
                   IF s # generation' THEN entries[s]
                   ELSE [generation |-> s, open |-> TRUE, timed |-> timed, expired |-> FALSE]]
  /\ timers' = IF timed THEN timers \cup {[slot |-> generation', generation |-> generation']}
                         ELSE timers
  /\ UNCHANGED <<cleanups, closes>>

\* begin_dismiss_slot, once it has found the toast: dismissing it again only
\* schedules another clean-up.
Dismiss(s, expired) ==
  /\ entries' = IF entries[s].open
                THEN [entries EXCEPT ![s] = [@ EXCEPT !.open = FALSE, !.expired = expired]]
                ELSE entries
  /\ cleanups' = [cleanups EXCEPT ![s] = @ + 1]

\* Mutant of Meant: whatever its generation.
MeantAny(t) == t.slot \in Shown

\* The toast a timer was set for, if it is there and has not been given more time.
Meant(t) == t.slot \in Shown /\ entries[t.slot].generation = t.generation

TimerFires(t) ==
  /\ t \in timers
  /\ timers' = timers \ {t}
  /\ IF Meant(t) THEN Dismiss(t.slot, TRUE) ELSE UNCHANGED <<entries, cleanups>>
  /\ UNCHANGED <<generation, closes>>

CloseButton(s) ==
  /\ closes < MaxCloses
  /\ s \in Shown
  /\ Dismiss(s, FALSE)
  /\ closes' = closes + 1
  /\ UNCHANGED <<generation, timers>>

CleanupFires(s) ==
  /\ cleanups[s] > 0
  /\ cleanups' = [cleanups EXCEPT ![s] = @ - 1]
  /\ entries' = Restrict(entries, Shown \ {s})
  /\ UNCHANGED <<generation, timers, closes>>

\* reset_auto_dismiss: the pointer enters a toast that is open.  Every open one
\* with a duration gets the next generation, in order, and a timer for it.
Waiting == {s \in Shown : entries[s].open /\ entries[s].timed}
Later(s) == generation + Cardinality({r \in Waiting : r <= s})

Hover ==
  /\ \E s \in Shown : entries[s].open
  /\ Waiting # {}
  /\ generation' = generation + Cardinality(Waiting)
  /\ generation' <= MaxGeneration
  /\ entries' = [s \in Shown |-> IF s \in Waiting THEN [entries[s] EXCEPT !.generation = Later(s)]
                                                 ELSE entries[s]]
  /\ timers' = timers \cup {[slot |-> s, generation |-> Later(s)] : s \in Waiting}
  /\ UNCHANGED <<cleanups, closes>>

Next ==
  \/ \E b \in BOOLEAN : Show(b)
  \/ \E t \in timers : TimerFires(t)
  \/ \E s \in Slots : CloseButton(s) \/ CleanupFires(s)
  \/ Hover

Spec == Init /\ [][Next]_vars

-----------------------------------------------------------------------------
(* No toast with a duration is forgotten on the screen: an open one has    *)
(* the timer of its present generation still to come, a dismissed one its  *)
(* clean-up, however hovers, closes and evictions fall between them.       *)
NoneForgotten ==
  \A s \in Shown :
    IF entries[s].open
    THEN entries[s].timed => [slot |-> s, generation |-> entries[s].generation] \in timers
    ELSE cleanups[s] > 0

(* Each has its full time, counted from the last hover: the timer that      *)
(* dismissed it was the last one set for it.                               *)
FullTime ==
  \A s \in Shown :
    entries[s].expired => [slot |-> s, generation |-> entries[s].generation] \notin timers

ToastsSound == NoneForgotten /\ FullTime
=============================================================================
