--------------------------- MODULE SettingsProofs ---------------------------
(***************************************************************************)
(* What the settings' pages and the libraries keep, for any number of      *)
(* shortcuts, providers, themes, items, groups, failed saves and restarts, *)
(* and of toasts over them: no clash of shortcuts goes unseen, no key      *)
(* outlives its provider, no preview of a theme outlives its editor, saved *)
(* hosts keep their secrets to themselves and their jumps without circles, *)
(* the pages lose no item and the registry of tunnels repeats the store,   *)
(* and no toast stays for ever or goes early.                              *)
(*                                                                         *)
(* The toasts: a slot is never given twice because every slot on the       *)
(* screen and every generation a timer was set for lies below the counter  *)
(* (Below).  The pages: what is said of the configuration in memory has to *)
(* be said of the file too, since a restart takes the file for the memory. *)
(* The hosts: what is said of the rows has to be said of the list and of   *)
(* the open form too, and a chain of jumps is a walk along the links.      *)
(***************************************************************************)
EXTENDS MCSettings, FiniteSetTheorems, WellFoundedInduction, TLAPS

\* Slots and generations are values the counter has had.
Below ==
  /\ \A s \in Shown : s <= generation /\ entries[s].generation <= generation
  /\ \A t \in timers : t.slot <= generation /\ t.generation <= generation

\* Only what was dismissed was dismissed by time.
ExpiredIsClosed == \A s \in Shown : entries[s].expired => ~entries[s].open

IInv == TypeOK /\ Below /\ ExpiredIsClosed /\ NoneForgotten /\ FullTime

-----------------------------------------------------------------------------
(* Toasts: sets of slots are finite, and so are their cardinalities.       *)

LEMMA SlotsFinite ==
  ASSUME NotificationsAssumption, NEW S \in SUBSET Slots
  PROVE  IsFiniteSet(S) /\ Cardinality(S) \in Nat
<1>1. IsFiniteSet(Slots)
  BY FS_Interval DEF NotificationsAssumption, Slots
<1>2. IsFiniteSet(S)
  BY <1>1, FS_Subset
<1> QED
  BY <1>2, FS_CardinalityType

\* The toasts that wait are given generations above the counter and up to its
\* next value.
LEMMA LaterBounds ==
  ASSUME NotificationsAssumption, TypeOK, NEW s \in Waiting
  PROVE  /\ Cardinality(Waiting) \in Nat
         /\ Later(s) \in Nat
         /\ generation < Later(s) /\ Later(s) <= generation + Cardinality(Waiting)
<1> DEFINE Upto == {r \in Waiting : r <= s}
<1>1. Waiting \subseteq Slots /\ Upto \subseteq Waiting /\ generation \in Nat
  BY DEF TypeOK, Waiting
<1>2. s \in Upto
  BY <1>1 DEF Slots
<1>3. IsFiniteSet(Waiting) /\ Cardinality(Waiting) \in Nat
  BY <1>1, SlotsFinite
<1>4. Cardinality(Upto) <= Cardinality(Waiting) /\ IsFiniteSet(Upto)
  BY <1>1, <1>3, FS_Subset
<1>5. Cardinality(Upto) \in Nat /\ Cardinality(Upto) # 0
  BY <1>2, <1>4, FS_CardinalityType, FS_EmptySet
<1> HIDE DEF Upto
<1>6. Later(s) = generation + Cardinality(Upto)
  BY DEF Later, Upto
<1> QED
  BY <1>1, <1>3, <1>4, <1>5, <1>6

\* The oldest toast exists.
LEMMA OldestExists ==
  ASSUME NEW S \in SUBSET Nat, S # {}
  PROVE  \E r \in S : \A q \in S : r <= q
<1> DEFINE R == OpToRel(<, Nat)
<1>1. IsWellFoundedOn(R, Nat)
  BY NatLessThanWellFounded
<1>2. \A p, q \in Nat : q < p => <<q, p>> \in R
  BY DEF OpToRel
<1> HIDE DEF R
<1>3. PICK r \in S : \A q \in S : ~(<<q, r>> \in R)
  BY <1>1, WFMin, Zenon
<1>4. ASSUME NEW q \in S PROVE r <= q
  <2>1. q \in Nat /\ r \in Nat
    OBVIOUS
  <2>2. ~(q < r)
    BY <1>2, <1>3, <2>1, Zenon
  <2> QED
    BY <2>1, <2>2
<1> QED
  BY <1>4

\* With one evicted when it is full there is room for one more.
LEMMA RoomForOne ==
  ASSUME NotificationsAssumption, TypeOK, NEW s \in Slots, s \notin Shown
  PROVE  Cardinality((Shown \ Evicted) \cup {s}) <= MAX_NOTIFICATIONS
<1>1. IsFiniteSet(Shown) /\ Cardinality(Shown) \in Nat
  BY SlotsFinite DEF TypeOK
<1>2. MAX_NOTIFICATIONS \in Nat /\ MAX_NOTIFICATIONS # 0 /\ Cardinality(Shown) <= MAX_NOTIFICATIONS
  BY DEF TypeOK, NotificationsAssumption
<1>3. CASE Cardinality(Shown) < MAX_NOTIFICATIONS
  <2>1. Shown \ Evicted = Shown
    BY <1>3 DEF Evicted
  <2>2. Cardinality(Shown \cup {s}) = Cardinality(Shown) + 1
    BY <1>1, FS_AddElement
  <2> QED
    BY <1>1, <1>2, <1>3, <2>1, <2>2
<1>4. CASE ~(Cardinality(Shown) < MAX_NOTIFICATIONS)
  <2>1. Shown # {}
    BY <1>2, <1>4, FS_EmptySet
  <2>2. PICK r \in Shown : \A q \in Shown : r <= q
    <3>1. Shown \in SUBSET Nat
      BY DEF TypeOK, Slots
    <3> QED
      BY <2>1, <3>1, OldestExists
  <2>3. r \in Evicted
    BY <1>4, <2>2 DEF Evicted
  <2>4. (Shown \ Evicted) \cup {s} \subseteq (Shown \ {r}) \cup {s}
    BY <2>3
  <2>5. IsFiniteSet(Shown \ {r}) /\ Cardinality(Shown \ {r}) = Cardinality(Shown) - 1
    BY <1>1, FS_RemoveElement
  <2>6. /\ IsFiniteSet((Shown \ {r}) \cup {s})
        /\ Cardinality((Shown \ {r}) \cup {s}) = Cardinality(Shown \ {r}) + 1
    BY <2>5, FS_AddElement
  <2>7. Cardinality((Shown \ Evicted) \cup {s}) <= Cardinality((Shown \ {r}) \cup {s})
    BY <2>4, <2>6, FS_Subset
  <2>8. (Shown \ Evicted) \cup {s} \in SUBSET Slots
    BY DEF TypeOK
  <2>9. Cardinality((Shown \ Evicted) \cup {s}) \in Nat
    BY <2>8, SlotsFinite
  <2> QED
    BY <1>1, <1>2, <2>5, <2>6, <2>7, <2>9
<1> QED
  BY <1>3, <1>4

-----------------------------------------------------------------------------
(* Toasts: the type.                                                       *)

LEMMA TypeInit == ASSUME NotificationsAssumption, Init PROVE TypeOK
<1>1. Shown = {}
  BY DEF Init, Shown
<1> QED
  BY <1>1, FS_EmptySet DEF Init, TypeOK, NotificationsAssumption

LEMMA TypeShow ==
  ASSUME NotificationsAssumption, TypeOK, Below, NEW timed \in BOOLEAN, Show(timed)
  PROVE  TypeOK'
<1>1. generation' \in Slots /\ generation' \notin Shown /\ generation' = generation + 1
  BY DEF Show, TypeOK, Below, Slots, NotificationsAssumption
<1>2. Shown' = (Shown \ Evicted) \cup {generation'}
  BY DEF Show, Shown
<1>3. Cardinality(Shown') <= MAX_NOTIFICATIONS
  BY <1>1, <1>2, RoomForOne
<1>4. \A s \in Shown' : entries'[s] \in Entry
  BY <1>1, <1>2 DEF Show, TypeOK, Entry, Shown
<1>5. timers' \subseteq [slot : Slots, generation : Slots]
  BY <1>1 DEF Show, TypeOK
<1>6. generation' \in 0..MaxGeneration
  BY <1>1 DEF Slots, NotificationsAssumption
<1> QED
  BY <1>1, <1>2, <1>3, <1>4, <1>5, <1>6 DEF Show, TypeOK

LEMMA TypeDismiss ==
  ASSUME TypeOK, NEW s \in Shown, NEW expired \in BOOLEAN, Dismiss(s, expired)
  PROVE  /\ Shown' = Shown /\ \A r \in Shown : entries'[r] \in Entry
         /\ cleanups' \in [Slots -> Nat]
<1>1. Shown' = Shown /\ \A r \in Shown \ {s} : entries'[r] = entries[r]
  BY DEF Dismiss, Shown
<1>2. \A e \in Entry : [e EXCEPT !.open = FALSE, !.expired = expired] \in Entry
  BY DEF Entry
<1>3. entries'[s] = entries[s]
      \/ entries'[s] = [entries[s] EXCEPT !.open = FALSE, !.expired = expired]
  BY DEF Dismiss, Shown
<1>4. \A r \in Shown : entries'[r] \in Entry
  BY <1>1, <1>2, <1>3 DEF TypeOK
<1>5. cleanups' \in [Slots -> Nat]
  BY DEF Dismiss, TypeOK
<1> QED
  BY <1>1, <1>4, <1>5

LEMMA TypeStep ==
  ASSUME NotificationsAssumption, TypeOK, Below, [Next]_vars
  PROVE  TypeOK'
<1>1. ASSUME NEW b \in BOOLEAN, Show(b) PROVE TypeOK'
  BY <1>1, TypeShow
<1>2. ASSUME NEW t \in timers, TimerFires(t) PROVE TypeOK'
  <2>1. CASE Meant(t)
    <3>1. t.slot \in Shown /\ Dismiss(t.slot, TRUE)
      BY <1>2, <2>1 DEF TimerFires, Meant
    <3>2. Shown' = Shown /\ (\A r \in Shown : entries'[r] \in Entry) /\ cleanups' \in [Slots -> Nat]
      BY <3>1, TypeDismiss
    <3> QED
      BY <1>2, <3>2 DEF TimerFires, TypeOK
  <2>2. CASE ~Meant(t)
    BY <1>2, <2>2 DEF TimerFires, TypeOK, Shown
  <2> QED
    BY <2>1, <2>2
<1>3. ASSUME NEW s \in Slots, CloseButton(s) PROVE TypeOK'
  <2>1. Shown' = Shown /\ (\A r \in Shown : entries'[r] \in Entry) /\ cleanups' \in [Slots -> Nat]
    BY <1>3, TypeDismiss DEF CloseButton
  <2> QED
    BY <1>3, <2>1 DEF CloseButton, TypeOK, NotificationsAssumption
<1>4. ASSUME NEW s \in Slots, CleanupFires(s) PROVE TypeOK'
  <2>1. Shown' = Shown \ {s} /\ \A r \in Shown' : entries'[r] = entries[r]
    BY <1>4 DEF CleanupFires, Shown, Restrict
  <2>2. IsFiniteSet(Shown) /\ Cardinality(Shown) \in Nat
    BY SlotsFinite DEF TypeOK
  <2>3. Cardinality(Shown') <= Cardinality(Shown) /\ Cardinality(Shown') \in Nat
    BY <2>1, <2>2, FS_Subset, FS_CardinalityType
  <2>4. cleanups' \in [Slots -> Nat]
    BY <1>4 DEF CleanupFires, TypeOK
  <2>5. Cardinality(Shown') <= MAX_NOTIFICATIONS
    BY <2>2, <2>3 DEF TypeOK, NotificationsAssumption
  <2>6. Shown' \subseteq Slots /\ \A r \in Shown' : entries'[r] \in Entry
    BY <2>1 DEF TypeOK
  <2> QED
    BY <1>4, <2>4, <2>5, <2>6 DEF CleanupFires, TypeOK
<1>5. CASE Hover
  <2>1. Shown' = Shown
    BY <1>5 DEF Hover, Shown
  <2>2. \A s \in Waiting : Later(s) \in Slots
    BY SMTT(30), <1>5, LaterBounds DEF Hover, Slots, TypeOK, NotificationsAssumption
  <2>3. \A s \in Shown : entries'[s] \in Entry
    BY <1>5, <2>2 DEF Hover, TypeOK, Entry
  <2>4. timers' \subseteq [slot : Slots, generation : Slots]
    BY <1>5, <2>2 DEF Hover, TypeOK, Waiting
  <2>5. generation' \in 0..MaxGeneration
    <3>1. Waiting \in SUBSET Slots
      BY DEF Waiting, TypeOK
    <3>2. Cardinality(Waiting) \in Nat
      BY <3>1, SlotsFinite
    <3> QED
      BY <1>5, <3>2 DEF Hover, TypeOK, NotificationsAssumption
  <2> QED
    BY <1>5, <2>1, <2>3, <2>4, <2>5 DEF Hover, TypeOK
<1>6. CASE UNCHANGED vars
  BY <1>6 DEF vars, TypeOK, Shown
<1> QED
  BY <1>1, <1>2, <1>3, <1>4, <1>5, <1>6 DEF Next

-----------------------------------------------------------------------------
(* Toasts: the invariant.                                                  *)

LEMMA InvInit == ASSUME NotificationsAssumption, Init PROVE IInv
<1>1. Shown = {}
  BY DEF Init, Shown
<1> QED
  BY <1>1, TypeInit DEF Init, IInv, Below, ExpiredIsClosed, NoneForgotten, FullTime

\* What dismissing a toast does to it, and that it leaves the others alone.
LEMMA DismissStep ==
  ASSUME TypeOK, ExpiredIsClosed, NEW s \in Shown, NEW expired \in BOOLEAN, Dismiss(s, expired)
  PROVE  /\ Shown' = Shown
         /\ \A r \in Shown \ {s} : entries'[r] = entries[r] /\ cleanups'[r] = cleanups[r]
         /\ ~entries'[s].open /\ entries'[s].generation = entries[s].generation
         /\ cleanups'[s] > 0
         /\ entries'[s].expired => expired \/ entries[s].expired
  BY DEF Dismiss, TypeOK, Shown, Entry

LEMMA ShowKeeps ==
  ASSUME NotificationsAssumption, IInv, NEW timed \in BOOLEAN, Show(timed)
  PROVE  Below' /\ ExpiredIsClosed' /\ NoneForgotten' /\ FullTime'
<1> USE DEF IInv
<1>1. generation \in Nat /\ generation' = generation + 1 /\ generation' \notin Shown
  BY DEF Show, TypeOK, Below
<1>2. Shown' = (Shown \ Evicted) \cup {generation'}
  BY DEF Show, Shown
<1>3. /\ \A s \in Shown' \ {generation'} : s \in Shown /\ entries'[s] = entries[s]
      /\ entries'[generation'] = [generation |-> generation', open |-> TRUE, timed |-> timed,
                                  expired |-> FALSE]
  BY <1>2 DEF Show, Shown
<1>4. /\ timers \subseteq timers'
      /\ timers' \subseteq timers \cup {[slot |-> generation', generation |-> generation']}
      /\ timed => [slot |-> generation', generation |-> generation'] \in timers'
  BY DEF Show
<1>5. Below'
  BY <1>1, <1>2, <1>3, <1>4 DEF Below, TypeOK, Slots, Entry
<1>6. ExpiredIsClosed'
  BY <1>2, <1>3 DEF ExpiredIsClosed
<1>7. NoneForgotten'
  BY <1>2, <1>3, <1>4 DEF NoneForgotten, Show
<1>8. FullTime'
  BY <1>2, <1>3, <1>4 DEF FullTime
<1> QED
  BY <1>5, <1>6, <1>7, <1>8

LEMMA TimerKeeps ==
  ASSUME IInv, NEW t \in timers, TimerFires(t)
  PROVE  Below' /\ ExpiredIsClosed' /\ NoneForgotten' /\ FullTime'
<1> USE DEF IInv
<1>1. t = [slot |-> t.slot, generation |-> t.generation] /\ timers' = timers \ {t}
  BY DEF TimerFires, TypeOK
<1>2. CASE Meant(t)
  <2>1. t.slot \in Shown /\ entries[t.slot].generation = t.generation /\ Dismiss(t.slot, TRUE)
    BY <1>2 DEF TimerFires, Meant
  <2>2. /\ Shown' = Shown
        /\ \A r \in Shown \ {t.slot} : entries'[r] = entries[r] /\ cleanups'[r] = cleanups[r]
        /\ ~entries'[t.slot].open /\ entries'[t.slot].generation = t.generation
        /\ cleanups'[t.slot] > 0
    BY <2>1, DismissStep
  <2>3. Below'
    BY <1>1, <2>1, <2>2 DEF Below, TimerFires
  <2>4. ExpiredIsClosed' /\ NoneForgotten' /\ FullTime'
    BY <1>1, <2>1, <2>2 DEF ExpiredIsClosed, NoneForgotten, FullTime
  <2> QED
    BY <2>3, <2>4
<1>3. CASE ~Meant(t)
  <2>1. UNCHANGED <<entries, cleanups, generation>> /\ Shown' = Shown
    BY <1>3 DEF TimerFires, Shown
  <2>2. \A s \in Shown : [slot |-> s, generation |-> entries[s].generation] # t
    BY <1>3 DEF Meant
  <2> QED
    BY <1>1, <2>1, <2>2 DEF Below, ExpiredIsClosed, NoneForgotten, FullTime
<1> QED
  BY <1>2, <1>3

LEMMA CloseKeeps ==
  ASSUME IInv, NEW s \in Slots, CloseButton(s)
  PROVE  Below' /\ ExpiredIsClosed' /\ NoneForgotten' /\ FullTime'
<1> USE DEF IInv
<1>1. s \in Shown /\ Dismiss(s, FALSE) /\ UNCHANGED <<generation, timers>>
  BY DEF CloseButton
<1>2. /\ Shown' = Shown
      /\ \A r \in Shown \ {s} : entries'[r] = entries[r] /\ cleanups'[r] = cleanups[r]
      /\ ~entries'[s].open /\ entries'[s].generation = entries[s].generation
      /\ cleanups'[s] > 0 /\ (entries'[s].expired => entries[s].expired)
  BY <1>1, DismissStep
<1> QED
  BY <1>1, <1>2 DEF Below, ExpiredIsClosed, NoneForgotten, FullTime

LEMMA CleanupKeeps ==
  ASSUME IInv, NEW s \in Slots, CleanupFires(s)
  PROVE  Below' /\ ExpiredIsClosed' /\ NoneForgotten' /\ FullTime'
<1> USE DEF IInv
<1>1. Shown' = Shown \ {s} /\ \A r \in Shown' : entries'[r] = entries[r]
  BY DEF CleanupFires, Shown, Restrict
<1>2. \A r \in Shown' : cleanups'[r] = cleanups[r]
  BY <1>1 DEF CleanupFires, TypeOK
<1> QED
  BY <1>1, <1>2 DEF CleanupFires, Below, ExpiredIsClosed, NoneForgotten, FullTime

LEMMA HoverKeeps ==
  ASSUME NotificationsAssumption, IInv, Hover
  PROVE  Below' /\ ExpiredIsClosed' /\ NoneForgotten' /\ FullTime'
<1> USE DEF IInv
<1>1. Shown' = Shown /\ cleanups' = cleanups
  BY DEF Hover, Shown
<1>2. \A s \in Waiting : entries'[s] = [entries[s] EXCEPT !.generation = Later(s)]
  BY DEF Hover, Waiting
<1>3. \A s \in Shown \ Waiting : entries'[s] = entries[s]
  BY DEF Hover
<1>4. \A s \in Waiting : /\ entries'[s].generation = Later(s)
                        /\ entries'[s].open /\ ~entries'[s].expired
  BY ZenonT(60), <1>2 DEF Waiting, TypeOK, Entry, ExpiredIsClosed
<1>5. /\ timers \subseteq timers'
      /\ \A s \in Waiting : [slot |-> s, generation |-> Later(s)] \in timers'
      /\ \A t \in timers' \ timers : \E s \in Waiting : t = [slot |-> s, generation |-> Later(s)]
  BY DEF Hover
<1>6. \A s \in Waiting : Later(s) <= generation' /\ Later(s) \in Nat
  BY LaterBounds DEF Hover
<1>7. generation <= generation' /\ generation' \in Nat /\ generation \in Nat
  <2>1. Waiting \in SUBSET Slots
    BY DEF Waiting, TypeOK
  <2>2. Cardinality(Waiting) \in Nat
    BY <2>1, SlotsFinite
  <2> QED
    BY <2>2 DEF Hover, TypeOK
<1>8. Below'
  <2>1. \A s \in Shown' : s <= generation' /\ entries'[s].generation <= generation'
    BY <1>1, <1>3, <1>4, <1>6, <1>7 DEF Below, TypeOK, Slots, Entry
  <2>2. \A t \in timers' : t.slot <= generation' /\ t.generation <= generation'
    <3>1. ASSUME NEW t \in timers PROVE t.slot <= generation' /\ t.generation <= generation'
      <4>1. t.slot \in Nat /\ t.generation \in Nat
        BY <3>1 DEF TypeOK, Slots
      <4> QED
        BY <1>7, <3>1, <4>1 DEF Below
    <3>2. ASSUME NEW t \in timers' \ timers
          PROVE  t.slot <= generation' /\ t.generation <= generation'
      <4>1. PICK s \in Waiting : t = [slot |-> s, generation |-> Later(s)]
        BY <1>5
      <4>2. s \in Shown
        BY DEF Waiting
      <4>3. s \in Slots /\ s <= generation
        BY <4>2 DEF TypeOK, Below
      <4>4. s \in Nat
        BY <4>3 DEF Slots
      <4> QED
        BY <1>6, <1>7, <4>1, <4>3, <4>4
    <3> QED
      BY <3>1, <3>2
  <2> QED
    BY <2>1, <2>2 DEF Below
<1>9. ExpiredIsClosed'
  BY <1>1, <1>3, <1>4 DEF ExpiredIsClosed
<1>10. NoneForgotten'
  <2>1. ASSUME NEW s \in Shown \ Waiting
        PROVE  IF entries'[s].open
               THEN entries'[s].timed => [slot |-> s, generation |-> entries'[s].generation] \in timers'
               ELSE cleanups'[s] > 0
    BY <1>1, <1>3, <1>5, <2>1 DEF NoneForgotten
  <2>2. ASSUME NEW s \in Waiting
        PROVE  entries'[s].open /\ [slot |-> s, generation |-> entries'[s].generation] \in timers'
    BY <1>4, <1>5, <2>2
  <2> QED
    BY <1>1, <2>1, <2>2 DEF NoneForgotten
<1>11. FullTime'
  BY <1>1, <1>3, <1>4, <1>5 DEF FullTime
<1> QED
  BY <1>8, <1>9, <1>10, <1>11

LEMMA NextKeepsInv ==
  ASSUME NotificationsAssumption, IInv, [Next]_vars
  PROVE  IInv'
<1>1. TypeOK'
  BY TypeStep DEF IInv
<1>2. Below' /\ ExpiredIsClosed' /\ NoneForgotten' /\ FullTime'
  <2>1. CASE UNCHANGED vars
    BY <2>1 DEF vars, IInv, Below, ExpiredIsClosed, NoneForgotten, FullTime, Shown
  <2> QED
    BY <2>1, ShowKeeps, TimerKeeps, CloseKeeps, CleanupKeeps, HoverKeeps DEF Next
<1> QED
  BY <1>1, <1>2 DEF IInv

-----------------------------------------------------------------------------
(* The shortcuts (Keybinds).                                               *)

\* What a set of overrides must be like for no clash to be seen.
Overrides(over) ==
  /\ DOMAIN over \subseteq Configurable
  /\ \A a \in DOMAIN over : over[a] \in Strokes \cup {Unbound}

\* Two actions with one shortcut: one of them was cleared, and shows its fixed one.
Apart(over) ==
  \A a, b \in Actions :
    a # b /\ Shortcuts!Resolve(over, a) = Shortcuts!Resolve(over, b) /\ Shortcuts!Resolve(over, a) # Unbound
      => \E c \in {a, b} : c \in DOMAIN over /\ over[c] = Unbound

\* The page records for an action that can be configured.
PageType ==
  page \in {Shortcuts!Closed, Shortcuts!NotRecording} \cup {Shortcuts!Recording(a) : a \in Configurable}

\* The file is as good as the memory, and what is registered is what is in memory.
KeysInv ==
  /\ Overrides(bindings) /\ Overrides(savedKeys)
  /\ Apart(bindings) /\ Apart(savedKeys)
  /\ registered = Shortcuts!Apply(bindings)
  /\ PageType

\* The defaults do not clash.
LEMMA EmptyApart ==
  ASSUME Shortcuts!KeybindsAssumption
  PROVE  Overrides(<< >>) /\ Apart(<< >>)
<1>1. DOMAIN << >> = {}
  OBVIOUS
<1>2. \A a : Shortcuts!Resolve(<< >>, a) = Default[a]
  BY <1>1 DEF Shortcuts!Resolve
<1> QED
  BY <1>1, <1>2 DEF Overrides, Apart, Shortcuts!KeybindsAssumption

\* Clearing can clash only with what was cleared.
LEMMA ClearApart ==
  ASSUME Overrides(bindings), Apart(bindings), NEW a \in Configurable
  PROVE  Overrides(Shortcuts!With(a, Unbound)) /\ Apart(Shortcuts!With(a, Unbound))
<1> DEFINE w == Shortcuts!With(a, Unbound)
<1>1. Overrides(w)
  BY DEF Overrides, Shortcuts!With
<1>2. \A b \in Actions \ {a} : Shortcuts!Resolve(w, b) = Shortcuts!Resolve(bindings, b)
  BY DEF Shortcuts!Resolve, Shortcuts!With
<1>3. \A b \in DOMAIN bindings : bindings[b] = Unbound => w[b] = Unbound /\ b \in DOMAIN w
  BY DEF Shortcuts!With
<1>4. a \in DOMAIN w /\ w[a] = Unbound
  BY DEF Shortcuts!With
<1>5. ASSUME NEW x \in Actions, NEW y \in Actions, x # y,
             Shortcuts!Resolve(w, x) = Shortcuts!Resolve(w, y), Shortcuts!Resolve(w, x) # Unbound
      PROVE  \E c \in {x, y} : c \in DOMAIN w /\ w[c] = Unbound
  <2>1. CASE a \in {x, y}
    BY <2>1, <1>4
  <2>2. CASE a \notin {x, y}
    BY <2>2, <1>2, <1>3, <1>5 DEF Apart
  <2> QED
    BY <2>1, <2>2
<1> QED
  BY <1>1, <1>5 DEF Apart

\* A shortcut that conflicts with nothing clashes with nothing.
LEMMA RecordApart ==
  ASSUME Shortcuts!KeybindsAssumption, Overrides(bindings), Apart(bindings),
         NEW a \in Configurable, NEW k \in Strokes, ~Shortcuts!Conflict(bindings, a, k)
  PROVE  Overrides(Shortcuts!With(a, k)) /\ Apart(Shortcuts!With(a, k))
<1> DEFINE w == Shortcuts!With(a, k)
<1>1. Overrides(w)
  BY DEF Overrides, Shortcuts!With
<1>2. \A b \in Actions \ {a} : Shortcuts!Resolve(w, b) = Shortcuts!Resolve(bindings, b)
  BY DEF Shortcuts!Resolve, Shortcuts!With
<1>3. k # Unbound /\ a \in Actions
  BY DEF Shortcuts!KeybindsAssumption
<1>4. Shortcuts!Resolve(w, a) = k
  BY <1>3 DEF Shortcuts!Resolve, Shortcuts!With
<1>5. \A b \in Actions \ {a} : Shortcuts!Resolve(w, b) # k
  BY <1>2 DEF Shortcuts!Conflict
<1>6. \A b \in DOMAIN bindings \ {a} : w[b] = bindings[b] /\ b \in DOMAIN w
  BY DEF Shortcuts!With
<1>7. ASSUME NEW x \in Actions, NEW y \in Actions, x # y,
             Shortcuts!Resolve(w, x) = Shortcuts!Resolve(w, y), Shortcuts!Resolve(w, x) # Unbound
      PROVE  \E c \in {x, y} : c \in DOMAIN w /\ w[c] = Unbound
  <2>1. x # a /\ y # a
    BY <1>4, <1>5, <1>7
  <2> QED
    BY <2>1, <1>2, <1>6, <1>7 DEF Apart
<1> QED
  BY <1>1, <1>7 DEF Apart

\* The shortcuts' invariant is inductive.
LEMMA KeysInit == ASSUME Shortcuts!KeybindsAssumption, Shortcuts!Init PROVE KeysInv
  BY EmptyApart DEF Shortcuts!Init, KeysInv, PageType

LEMMA KeysStep ==
  ASSUME Shortcuts!KeybindsAssumption, KeysInv, [Shortcuts!Next]_(Shortcuts!vars)
  PROVE  KeysInv'
<1> USE DEF KeysInv
<1>1. ASSUME NEW over, Shortcuts!Update(over), Overrides(over), Apart(over), PageType'
      PROVE  KeysInv'
  <2>1. bindings' = over /\ (savedKeys' = over \/ savedKeys' = savedKeys)
    BY <1>1 DEF Shortcuts!Update
  <2>2. registered' = Shortcuts!Apply(bindings)'
    BY <1>1 DEF Shortcuts!Update, Shortcuts!Apply, Shortcuts!Resolve
  <2> QED
    BY <1>1, <2>1, <2>2 DEF Overrides, Apart, Shortcuts!Resolve
<1>2. ASSUME UNCHANGED <<bindings, savedKeys, registered>>, PageType'
      PROVE  KeysInv'
  BY <1>2 DEF Overrides, Apart, Shortcuts!Resolve, Shortcuts!Apply
<1>3. CASE Shortcuts!OpenPage \/ Shortcuts!ClosePage \/ Shortcuts!Escape
  BY <1>2, <1>3 DEF Shortcuts!OpenPage, Shortcuts!ClosePage, Shortcuts!Escape, PageType
<1>4. ASSUME NEW a \in Configurable, Shortcuts!ToggleRecording(a) PROVE KeysInv'
  BY <1>2, <1>4 DEF Shortcuts!ToggleRecording, PageType
<1>5. ASSUME NEW a \in Configurable, Shortcuts!ClearBinding(a) PROVE KeysInv'
  BY <1>1, <1>5, ClearApart DEF Shortcuts!ClearBinding, PageType
<1>6. CASE Shortcuts!ResetAll
  BY <1>1, <1>6, EmptyApart DEF Shortcuts!ResetAll, PageType
<1>7. ASSUME NEW k \in Strokes, Shortcuts!Record(k) PROVE KeysInv'
  <2>1. page.action \in Configurable
    BY <1>7 DEF Shortcuts!Record, PageType, Shortcuts!Closed, Shortcuts!NotRecording,
           Shortcuts!Recording
  <2> QED
    BY <2>1, <1>1, <1>7, RecordApart DEF Shortcuts!Record, PageType
<1>8. CASE Shortcuts!Restart
  BY <1>8 DEF Shortcuts!Restart, PageType, Overrides, Apart, Shortcuts!Resolve, Shortcuts!Apply
<1>9. CASE UNCHANGED Shortcuts!vars
  BY <1>2, <1>9 DEF Shortcuts!vars, PageType
<1> QED
  BY <1>3, <1>4, <1>5, <1>6, <1>7, <1>8, <1>9 DEF Shortcuts!Next

-----------------------------------------------------------------------------
(* The providers and their keys (AiProviders).                             *)

\* What the seeds are needed for: an entry that lends its key is never removed.
AiInv ==
  /\ "urls" \in DOMAIN ai \cap DOMAIN savedAi
  /\ Builtin \subseteq Providers!Ids
  /\ Providers!KeysOwned

\* Nothing is lost while entries and keys stay.
LEMMA OwnedKept ==
  ASSUME AiInv, "urls" \in DOMAIN ai' \cap DOMAIN savedAi', Providers!Ids \subseteq Providers!Ids',
         DOMAIN secrets' \subseteq DOMAIN secrets, lost \subseteq lost'
  PROVE  AiInv'
  BY DEF AiInv, Providers!KeysOwned, Providers!KeyOf

\* The providers' invariant is inductive.
LEMMA AiInit == ASSUME Providers!AiProvidersAssumption, Providers!Init PROVE AiInv
<1>1. Providers!Ids = Builtin /\ DOMAIN secrets = {}
  BY DEF Providers!Init, Providers!Fresh, Providers!Ids, Providers!AiProvidersAssumption
<1> QED
  BY <1>1 DEF AiInv, Providers!KeysOwned, Providers!Init, Providers!Fresh

LEMMA AiStep ==
  ASSUME Providers!AiProvidersAssumption, AiInv, [Providers!Next]_(Providers!vars) PROVE AiInv'
<1>1. ASSUME ai'.urls = ai.urls, secrets' = secrets, lost' = lost,
             "urls" \in DOMAIN ai' \cap DOMAIN savedAi'
      PROVE  AiInv'
  BY <1>1, OwnedKept DEF Providers!Ids
<1>2. CASE Providers!OpenWindow \/ Providers!CloseWindow \/ Providers!Frame
           \/ Providers!OpenPanel \/ UNCHANGED Providers!vars
  BY <1>1, <1>2 DEF AiInv, Providers!OpenWindow, Providers!CloseWindow, Providers!Frame,
         Providers!OpenPanel, Providers!vars
<1>3. ASSUME NEW b, Providers!SetEnabled(b) PROVE AiInv'
  BY <1>1, <1>3 DEF AiInv, Providers!SetEnabled, Providers!Update
<1>4. ASSUME NEW f, Providers!FetchLands(f) PROVE AiInv'
  BY <1>1, <1>4 DEF AiInv, Providers!FetchLands
<1>5. ASSUME NEW item, Providers!Pick(item) PROVE AiInv'
  BY <1>1, <1>5 DEF AiInv, Providers!Pick, Providers!Update
<1>6. CASE Providers!Add
  BY <1>6, OwnedKept DEF Providers!Add, Providers!Update, Providers!Ids, Providers!Put, AiInv
<1>7. ASSUME NEW id, NEW u, Providers!EditUrl(id, u) PROVE AiInv'
  BY <1>7, OwnedKept DEF Providers!EditUrl, Providers!Update, Providers!Ids, AiInv
<1>8. ASSUME NEW id, NEW more, Providers!EditKey(id, more) PROVE AiInv'
  <2>1. DOMAIN secrets' \subseteq DOMAIN secrets \cup {id} /\ Providers!Ids' = Providers!Ids
    BY <1>8 DEF Providers!EditKey, Providers!Ids, Providers!Put
  <2>2. id \in Providers!Ids /\ Providers!KeyOf(id) = id /\ lost' = lost
    BY <1>8 DEF Providers!EditKey, Providers!Shown
  <2> QED
    BY <1>8, <2>1, <2>2 DEF Providers!EditKey, AiInv, Providers!KeysOwned, Providers!KeyOf
<1>9. ASSUME NEW id, Providers!Remove(id) PROVE AiInv'
  <2>1. id \notin Builtin /\ Providers!Ids' = Providers!Ids \ {id}
    BY <1>9 DEF AiInv, Providers!Remove, Providers!Ids, Providers!Without, Providers!Restrict
  <2>2. \/ DOMAIN secrets' = DOMAIN secrets \ {id} /\ lost' = lost
        \/ secrets' = secrets /\ lost' = lost \cup {id}
    BY <1>9 DEF Providers!Remove, Providers!Removed, Providers!Without, Providers!Restrict
  <2>3. Providers!KeyOf(id) = id
    BY <2>1 DEF Providers!KeyOf
  <2>4. "urls" \in DOMAIN ai' \cap DOMAIN savedAi'
    BY <1>9 DEF AiInv, Providers!Remove
  <2> QED
    BY <2>1, <2>2, <2>3, <2>4 DEF AiInv, Providers!KeysOwned, Providers!KeyOf
<1>10. CASE Providers!Restart
  <2>1. Providers!Ids' = Builtin \cup DOMAIN savedAi.urls
    BY <1>10 DEF AiInv, Providers!Restart, Providers!Normalized, Providers!Ids,
           Providers!AiProvidersAssumption
  <2>2. secrets' = secrets /\ lost' = lost \cup (Providers!Ids \ DOMAIN savedAi.urls)
    BY <1>10 DEF Providers!Restart
  <2>3. "urls" \in DOMAIN ai' \cap DOMAIN savedAi'
    BY <1>10 DEF AiInv, Providers!Restart, Providers!Normalized
  <2> QED
    BY <2>1, <2>2, <2>3 DEF AiInv, Providers!KeysOwned, Providers!KeyOf
<1> QED
  BY <1>2, <1>3, <1>4, <1>5, <1>6, <1>7, <1>8, <1>9, <1>10 DEF Providers!Next

-----------------------------------------------------------------------------
(* Themes, their editor and what is drawn (Appearance).                    *)

\* With the fields of the records the steps look at.
LookInv ==
  /\ "theme" \in DOMAIN look \cap DOMAIN savedLook
  /\ "open" \in DOMAIN editor
  /\ Look!PreviewEnds

\* The invariant of themes and editor is inductive.
LEMMA LookInit == ASSUME Look!Init PROVE LookInv
  BY DEF Look!Init, Look!Defaults, Look!NoEditor, LookInv, Look!PreviewEnds

LEMMA LookStep == ASSUME LookInv, [Look!Next]_(Look!vars) PROVE LookInv'
<1> USE DEF LookInv, Look!PreviewEnds
<1>1. ASSUME look' = look, savedLook' = savedLook, editor' = editor, shown' = shown
      PROVE  LookInv'
  BY <1>1
<1>2. ASSUME NEW new, Look!Update(new), "theme" \in DOMAIN new, editor' = editor,
             \/ shown' = new.theme.palette
             \/ new.theme = look.theme /\ shown' = shown
      PROVE  LookInv'
  BY <1>2 DEF Look!Update
<1>3. CASE Look!OpenSettings \/ Look!CloseSettings \/ UNCHANGED Look!vars
  BY <1>1, <1>3 DEF Look!OpenSettings, Look!CloseSettings, Look!vars
<1>4. ASSUME NEW id, Look!ChooseTheme(id) PROVE LookInv'
  <2>1. look' = [look EXCEPT !.theme = Look!Resolved(catalog, id)]
    BY <1>4 DEF Look!ChooseTheme, Look!Update
  <2> QED
    BY <1>4, <1>2, <2>1 DEF Look!ChooseTheme
<1>5. ASSUME NEW l, Look!ChooseLocale(l) PROVE LookInv'
  BY <1>2, <1>5 DEF Look!ChooseLocale
<1>6. ASSUME NEW p, Look!ChoosePage(p) PROVE LookInv'
  BY <1>2, <1>6 DEF Look!ChoosePage
<1>7. CASE Look!ResetConfig
  <2>1. look' = Look!Defaults /\ "theme" \in DOMAIN Look!Defaults
    BY <1>7 DEF Look!ResetConfig, Look!Update, Look!Defaults
  <2> QED
    BY <1>7, <1>2, <2>1 DEF Look!ResetConfig
<1>8. ASSUME NEW raw, Look!Cleaned(raw) PROVE LookInv'
  BY <1>2, <1>8 DEF Look!Cleaned
<1>9. CASE \/ Look!Backspace \/ Look!PasteTooLong \/ Look!FocusField
           \/ \E d \in Digits : Look!TypeDigit(d)
  BY <1>8, <1>9 DEF Look!Backspace, Look!PasteTooLong, Look!FocusField, Look!TypeDigit
<1>10. CASE Look!OpenEditor
  BY <1>10 DEF Look!OpenEditor, Look!Editing
<1>11. ASSUME NEW p, Look!EditColor(p) PROVE LookInv'
  BY <1>11 DEF Look!EditColor
<1>12. ASSUME NEW id, Look!EditName(id) PROVE LookInv'
  BY <1>12 DEF Look!EditName
<1>13. CASE Look!SaveTheme
  <2>1. CASE /\ Look!Update([look EXCEPT !.theme = Look!Resolved(catalog', editor.name)])
             /\ shown' = look'.theme.palette /\ editor' = editor
    BY <2>1, <1>2 DEF Look!Update
  <2> QED
    BY <1>1, <1>13, <2>1 DEF Look!SaveTheme
<1>14. CASE Look!ResetTheme \/ Look!CloseEditor
  BY <1>14 DEF Look!ResetTheme, Look!CloseEditor, Look!Editing, Look!NoEditor
<1>15. CASE Look!Restart
  <2>1. ASSUME NEW c, Look!Started(c), "theme" \in DOMAIN c
        PROVE  "theme" \in DOMAIN look' /\ shown' = look'.theme.palette
    BY <2>1 DEF Look!Started, Look!Cleared
  <2>2. "theme" \in DOMAIN Look!Defaults
    BY DEF Look!Defaults
  <2> QED
    BY <1>15, <2>1, <2>2 DEF Look!Restart, Look!NoEditor
<1>16. ASSUME NEW h, Look!RemoveHost(h) PROVE LookInv'
  BY <1>1, <1>16 DEF Look!RemoveHost
<1> QED
  BY <1>3, <1>4, <1>5, <1>6, <1>7, <1>9, <1>10, <1>11, <1>12, <1>13, <1>14, <1>15, <1>16
     DEF Look!Next

-----------------------------------------------------------------------------
(* The libraries of tunnels and snippets (Library).  No row names a group  *)
(* that is gone (InGroups): the foreign key refuses what a form still      *)
(* says, ON DELETE SET NULL clears what the rows said.  And a tunnel that  *)
(* the registry has dropped never comes back to it (DroppedGone), since    *)
(* ids are not given twice (RowsFresh).                                    *)

\* Only ids given are in use.
RowsFresh == \A i \in DOMAIN rows \cup DOMAIN cache \cup DOMAIN removing : i < nextItem

InGroups == \A i \in DOMAIN rows : rows[i].group \in DOMAIN groups \cup {Books!None}

DroppedGone == \A i \in DOMAIN removing : removing[i] = "dropped" => i \notin DOMAIN cache

BooksKept == RowsFresh /\ InGroups /\ Books!RegistryRepeatsStore /\ DroppedGone
BooksInv == Books!TypeOK /\ BooksKept

-----------------------------------------------------------------------------
(* What the operations on tables do.                                       *)

LEMMA WithIs ==
  ASSUME NEW f, NEW x, NEW y
  PROVE  /\ DOMAIN Books!With(f, x, y) = DOMAIN f \cup {x} /\ Books!With(f, x, y)[x] = y
         /\ \A z \in DOMAIN f \ {x} : Books!With(f, x, y)[z] = f[z]
  BY DEF Books!With

LEMMA PutIs ==
  ASSUME NEW f, NEW x, NEW y
  PROVE  /\ DOMAIN Books!Put(f, x, y) = DOMAIN f
         /\ x \in DOMAIN f => Books!Put(f, x, y)[x] = y
         /\ \A z \in DOMAIN f \ {x} : Books!Put(f, x, y)[z] = f[z]
  BY DEF Books!Put

LEMMA WithoutIs ==
  ASSUME NEW f, NEW x
  PROVE  /\ DOMAIN Books!Without(f, x) = DOMAIN f \ {x}
         /\ \A z \in DOMAIN f \ {x} : Books!Without(f, x)[z] = f[z]
  BY DEF Books!Without, Books!Restrict

LEMMA NulledIs ==
  ASSUME NEW f, NEW g, \A i \in DOMAIN f : f[i] \in Books!Rows
  PROVE  /\ DOMAIN Books!Nulled(f, g) = DOMAIN f
         /\ \A i \in DOMAIN f : /\ Books!Nulled(f, g)[i] \in Books!Rows
                                /\ Books!Nulled(f, g)[i].group \in {f[i].group, Books!None} \ ({g} \ {Books!None})
  BY DEF Books!Nulled, Books!Rows

\* A table maps ids to rows.
Table(f) == DOMAIN f \subseteq Books!Items /\ \A i \in DOMAIN f : f[i] \in Books!Rows

LEMMA Tables == Books!TypeOK <=>
  /\ kind \in {TUNNEL, SNIPPET}
  /\ DOMAIN groups \subseteq Books!GroupIds /\ \A g \in DOMAIN groups : groups[g] \in Names
  /\ Table(rows) /\ Table(cache)
  /\ DOMAIN removing \subseteq Books!Items
  /\ \A i \in DOMAIN removing : removing[i] \in Books!Stages
  /\ dialog \in Books!Forms \cup {Books!NoForm}
  /\ dialogTimers \in 0..MaxTimers /\ rowFaults \in 0..MaxFaults
  /\ renaming \in Books!GroupIds \cup {Books!None} /\ refused \subseteq Books!Items
  /\ nextItem \in 1..MaxItems + 1 /\ nextGroup \in 1..MaxGroups + 1
  BY DEF Books!TypeOK, Table, Books!Range

\* The same of the next state.
LEMMA TablesNext ==
  ASSUME /\ kind' \in {TUNNEL, SNIPPET}
         /\ DOMAIN groups' \subseteq Books!GroupIds
         /\ \A g \in DOMAIN groups' : groups'[g] \in Names
         /\ Table(rows') /\ Table(cache')
         /\ DOMAIN removing' \subseteq Books!Items
         /\ \A i \in DOMAIN removing' : removing'[i] \in Books!Stages
         /\ dialog' \in Books!Forms \cup {Books!NoForm}
         /\ dialogTimers' \in 0..MaxTimers /\ rowFaults' \in 0..MaxFaults
         /\ renaming' \in Books!GroupIds \cup {Books!None} /\ refused' \subseteq Books!Items
         /\ nextItem' \in 1..MaxItems + 1 /\ nextGroup' \in 1..MaxGroups + 1
  PROVE  Books!TypeOK'
  BY DEF Books!TypeOK, Table, Books!Range

-----------------------------------------------------------------------------
(* Libraries: the type.                                                    *)

LEMMA BooksTypeInit == ASSUME Books!LibraryAssumption, Books!Init PROVE Books!TypeOK
<1>1. \A f : f = << >> => DOMAIN f = {}
  OBVIOUS
<1> QED
  BY <1>1, Tables DEF Books!Init, Table, Books!LibraryAssumption

LEMMA TableSteps ==
  ASSUME NEW f, Table(f), NEW i, NEW r \in Books!Rows
  PROVE  /\ i \in Books!Items => Table(Books!With(f, i, r))
         /\ Table(Books!Put(f, i, r)) /\ Table(Books!Without(f, i))
         /\ \A g : Table(Books!Nulled(f, g))
         /\ i \in DOMAIN f => Table([f EXCEPT ![i].favorite = ~@])
<1>1. i \in Books!Items => Table(Books!With(f, i, r))
  BY DEF Table, Books!With
<1>2. Table(Books!Put(f, i, r))
  BY PutIs DEF Table
<1>3. Table(Books!Without(f, i))
  BY DEF Table, Books!Without, Books!Restrict
<1>4. \A g : Table(Books!Nulled(f, g))
  BY NulledIs DEF Table
<1>5. ASSUME i \in DOMAIN f PROVE Table([f EXCEPT ![i].favorite = ~@])
  BY <1>5 DEF Table, Books!Rows
<1> QED
  BY <1>1, <1>2, <1>3, <1>4, <1>5

\* What a form can be turned into.
LEMMA FormSteps ==
  ASSUME Books!LibraryAssumption, dialog \in Books!Forms
  PROVE  /\ [dialog EXCEPT !.active = FALSE] \in Books!Forms
         /\ \A b \in Bodies \cup {Books!Invalid} : [dialog EXCEPT !.body = b] \in Books!Forms
         /\ \A g \in Books!GroupIds \cup {Books!None} : [dialog EXCEPT !.group = g] \in Books!Forms
         /\ dialog.body \in Bodies /\ dialog.group \in Books!GroupIds \cup {Books!None} => Books!Row \in Books!Rows
         /\ dialog.editing \in Books!Items \cup {Books!None}
  BY DEF Books!Forms, Books!Row, Books!Rows

LEMMA NewForms ==
  ASSUME Books!LibraryAssumption
  PROVE  Books!Blank \in Books!Forms /\ \A i \in Books!Items, r \in Books!Rows : Books!Filled(i, r) \in Books!Forms
  BY DEF Books!Blank, Books!Filled, Books!Forms, Books!Rows

LEMMA FormKinds == ASSUME Books!TypeOK, Books!Exists PROVE dialog \in Books!Forms
  BY Tables DEF Books!Exists

LEMMA ClosingType ==
  ASSUME Books!LibraryAssumption, Books!TypeOK, Books!Exists, Books!Closing
  PROVE  dialogTimers' \in 0..MaxTimers /\ dialog' \in Books!Forms
<1>1. dialog \in Books!Forms
  BY FormKinds
<1>2. dialog' \in Books!Forms
  BY <1>1, FormSteps DEF Books!Closing
<1>3. dialogTimers' \in 0..MaxTimers
  BY Tables DEF Books!Closing, Books!LibraryAssumption
<1> QED
  BY <1>2, <1>3

\* A form that can be saved is a row.
LEMMA RowIsRow ==
  ASSUME Books!LibraryAssumption, Books!TypeOK, Books!Exists, dialog.body \in Bodies
  PROVE  Books!Row \in Books!Rows
  BY FormKinds DEF Books!Forms, Books!Row, Books!Rows

LEMMA BooksTypeStep ==
  ASSUME Books!LibraryAssumption, Books!TypeOK, [Books!Next]_(Books!vars)
  PROVE  Books!TypeOK'
<1> USE DEF Books!pages
<1>1. CASE Books!OpenForCreate
  BY <1>1, Tables, TablesNext, NewForms DEF Books!OpenForCreate
<1>2. CASE Books!Fill
  <2>1. dialog \in Books!Forms
    BY <1>2, FormKinds DEF Books!Fill
  <2>2. dialog' \in Books!Forms
    BY <1>2, <2>1, FormSteps, Tables DEF Books!Fill
  <2> QED
    BY <1>2, <2>2, Tables, TablesNext DEF Books!Fill
<1>3. CASE Books!Close
  BY <1>3, ClosingType, Tables, TablesNext DEF Books!Close
<1>4. CASE Books!TimerFires
  BY <1>4, Tables, TablesNext DEF Books!TimerFires, Books!LibraryAssumption
<1>5. CASE Books!Refused
  BY <1>5, Tables, TablesNext DEF Books!Refused, Books!Fault, Books!LibraryAssumption
<1>6. CASE Books!UpdateTunnel
  <2>1. Table(rows') /\ Table(cache')
    BY <1>6, RowIsRow, TableSteps, Tables DEF Books!UpdateTunnel
  <2>2. dialogTimers' \in 0..MaxTimers /\ dialog' \in Books!Forms
    BY <1>6, ClosingType DEF Books!UpdateTunnel
  <2> QED
    BY <1>6, <2>1, <2>2, Tables, TablesNext DEF Books!UpdateTunnel
<1>7. CASE Books!AddTunnel
  <2>1. nextItem \in Books!Items /\ nextItem' \in 1..MaxItems + 1
    BY <1>7, Tables DEF Books!AddTunnel, Books!Items, Books!LibraryAssumption
  <2>2. Table(rows') /\ Table(cache')
    BY <1>7, <2>1, RowIsRow, TableSteps, Tables DEF Books!AddTunnel
  <2>3. dialogTimers' \in 0..MaxTimers /\ dialog' \in Books!Forms
    BY <1>7, ClosingType DEF Books!AddTunnel
  <2> QED
    BY <1>7, <2>1, <2>2, <2>3, Tables, TablesNext DEF Books!AddTunnel
<1>8. CASE Books!SaveSnippet
  <2>1. CASE dialog.editing # Books!None
    <3>1. Table(rows') /\ nextItem' = nextItem
      BY <1>8, <2>1, RowIsRow, TableSteps, Tables DEF Books!SaveSnippet
    <3>2. dialogTimers' \in 0..MaxTimers /\ dialog' \in Books!Forms
      BY <1>8, ClosingType DEF Books!SaveSnippet
    <3> QED
      BY <1>8, <3>1, <3>2, Tables, TablesNext DEF Books!SaveSnippet
  <2>2. CASE dialog.editing = Books!None
    <3>1. nextItem \in Books!Items /\ nextItem' \in 1..MaxItems + 1
      BY <1>8, <2>2, Tables DEF Books!SaveSnippet, Books!Items, Books!LibraryAssumption
    <3>2. Table(rows')
      BY <1>8, <2>2, <3>1, RowIsRow, TableSteps, Tables DEF Books!SaveSnippet
    <3>3. dialogTimers' \in 0..MaxTimers /\ dialog' \in Books!Forms
      BY <1>8, ClosingType DEF Books!SaveSnippet
    <3> QED
      BY <1>8, <3>1, <3>2, <3>3, Tables, TablesNext DEF Books!SaveSnippet
  <2> QED
    BY <2>1, <2>2
<1>9. ASSUME NEW i \in Books!Items, Books!OpenTunnelForEdit(i) \/ Books!OpenSnippetForEdit(i)
      PROVE  Books!TypeOK'
  <2>1. rows[i] \in Books!Rows
    BY <1>9, Tables DEF Books!OpenTunnelForEdit, Books!OpenSnippetForEdit, Table
  <2>2. dialog' \in Books!Forms
    BY <1>9, <2>1, NewForms DEF Books!OpenTunnelForEdit, Books!OpenSnippetForEdit
  <2> QED
    BY <1>9, <2>2, Tables, TablesNext DEF Books!OpenTunnelForEdit, Books!OpenSnippetForEdit
<1>10. ASSUME NEW i \in Books!Items, Books!ToggleTunnelFavorite(i) PROVE Books!TypeOK'
  <2>1. rows[i] \in Books!Rows /\ cache[i] \in Books!Rows
    BY <1>10, Tables DEF Books!ToggleTunnelFavorite, Table
  <2>2. Table(rows') /\ rows'[i].favorite \in BOOLEAN
    <3>1. Table(rows')
      BY <1>10, <2>1, TableSteps, Tables DEF Books!ToggleTunnelFavorite
    <3>2. i \in DOMAIN rows'
      BY <1>10 DEF Books!ToggleTunnelFavorite
    <3> QED
      BY <3>1, <3>2 DEF Table, Books!Rows
  <2>3. [cache[i] EXCEPT !.favorite = rows'[i].favorite] \in Books!Rows
    BY <2>1, <2>2 DEF Books!Rows
  <2>4. Table(cache')
    BY <1>10, <2>3, TableSteps, Tables DEF Books!ToggleTunnelFavorite
  <2> QED
    BY <1>10, <2>2, <2>4, Tables, TablesNext DEF Books!ToggleTunnelFavorite
<1>11. ASSUME NEW i \in Books!Items, Books!ToggleSnippetFavorite(i) PROVE Books!TypeOK'
  <2>1. rows[i] \in Books!Rows
    BY <1>11, Tables DEF Books!ToggleSnippetFavorite, Table
  <2>2. Table(rows')
    BY <1>11, <2>1, TableSteps, Tables DEF Books!ToggleSnippetFavorite
  <2> QED
    BY <1>11, <2>2, Tables, TablesNext DEF Books!ToggleSnippetFavorite
<1>12. ASSUME NEW i \in Books!Items, Books!RemoveTunnel(i) PROVE Books!TypeOK'
  BY <1>12, Tables, TablesNext DEF Books!RemoveTunnel, Books!With, Books!Stages
<1>13. ASSUME NEW i \in Books!Items, Books!DropFromRegistry(i) PROVE Books!TypeOK'
  <2>1. Table(cache')
    BY <1>13, Tables DEF Books!DropFromRegistry, Table, Books!Without, Books!Restrict
  <2> QED
    BY <1>13, <2>1, Tables, TablesNext DEF Books!DropFromRegistry, Books!Stages
<1>14. ASSUME NEW i \in Books!Items, Books!DeleteFromStore(i) PROVE Books!TypeOK'
  <2>1. Table(rows')
    BY <1>14, Tables DEF Books!DeleteFromStore, Table, Books!Without, Books!Restrict
  <2>2. /\ DOMAIN removing' \subseteq Books!Items
        /\ \A j \in DOMAIN removing' : removing'[j] \in Books!Stages
    BY <1>14, Tables DEF Books!DeleteFromStore, Books!Without, Books!Restrict
  <2>3. rowFaults' \in 0..MaxFaults /\ refused' \subseteq Books!Items
    BY <1>14, Tables DEF Books!DeleteFromStore, Books!Fault, Books!LibraryAssumption
  <2> QED
    BY <1>14, <2>1, <2>2, <2>3, Tables, TablesNext DEF Books!DeleteFromStore
<1>15. ASSUME NEW i \in Books!Items, Books!DeleteSnippet(i) PROVE Books!TypeOK'
  <2>1. Table(rows')
    BY <1>15, Tables DEF Books!DeleteSnippet, Table, Books!Without, Books!Restrict
  <2> QED
    BY <1>15, <2>1, Tables, TablesNext DEF Books!DeleteSnippet
<1>16. ASSUME NEW n \in Names, Books!CreateGroup(n) PROVE Books!TypeOK'
  <2>1. nextGroup \in Books!GroupIds /\ nextGroup' \in 1..MaxGroups + 1
    BY <1>16, Tables DEF Books!CreateGroup, Books!GroupIds, Books!LibraryAssumption
  <2>2. dialog' \in Books!Forms
    BY <1>16, <2>1, FormKinds, FormSteps DEF Books!CreateGroup
  <2>3. DOMAIN groups' \subseteq Books!GroupIds /\ \A g \in DOMAIN groups' : groups'[g] \in Names
    BY <1>16, <2>1, Tables DEF Books!CreateGroup, Books!With
  <2> QED
    BY <1>16, <2>1, <2>2, <2>3, Tables, TablesNext DEF Books!CreateGroup
<1>17. ASSUME NEW n \in Names, Books!CommitRename(n) PROVE Books!TypeOK'
  <2>1. DOMAIN groups' \subseteq Books!GroupIds /\ \A g \in DOMAIN groups' : groups'[g] \in Names
    BY <1>17, Tables DEF Books!CommitRename, Books!Put
  <2> QED
    BY <1>17, <2>1, Tables, TablesNext DEF Books!CommitRename
<1>18. ASSUME NEW g \in Books!GroupIds, Books!RemoveGroup(g) PROVE Books!TypeOK'
  <2>1. Table(rows') /\ Table(cache')
    BY <1>18, NulledIs, Tables DEF Books!RemoveGroup, Books!Mirrored, Table
  <2>2. DOMAIN groups' \subseteq Books!GroupIds /\ \A h \in DOMAIN groups' : groups'[h] \in Names
    BY <1>18, Tables DEF Books!RemoveGroup, Books!Without, Books!Restrict
  <2> QED
    BY <1>18, <2>1, <2>2, Tables, TablesNext DEF Books!RemoveGroup
<1>19. ASSUME NEW g \in Books!GroupIds, Books!StartRename(g) PROVE Books!TypeOK'
  BY <1>19, Tables, TablesNext DEF Books!StartRename
<1>20. CASE Books!CancelRename
  BY <1>20, Tables, TablesNext DEF Books!CancelRename
<1>21. CASE Books!Restart
  <2>1. DOMAIN removing' = {}
    BY <1>21 DEF Books!Restart
  <2> QED
    BY <1>21, <2>1, Tables, TablesNext DEF Books!Restart, Books!LibraryAssumption
<1>22. CASE UNCHANGED Books!vars
  BY <1>22, Tables, TablesNext DEF Books!vars
<1> QED
  BY <1>1, <1>2, <1>3, <1>4, <1>5, <1>6, <1>7, <1>8, <1>9, <1>10, <1>11, <1>12, <1>13, <1>14,
     <1>15, <1>16, <1>17, <1>18, <1>19, <1>20, <1>21, <1>22 DEF Books!Next

-----------------------------------------------------------------------------
(* Libraries: the rest of the invariant.                                   *)

LEMMA BooksKeptInit == ASSUME Books!LibraryAssumption, Books!Init PROVE BooksKept
<1>1. \A f : f = << >> => DOMAIN f = {}
  OBVIOUS
<1> QED
  BY <1>1 DEF Books!Init, BooksKept, RowsFresh, InGroups, Books!RegistryRepeatsStore,
         DroppedGone

\* What touches neither the tables nor a removal disturbs nothing.
LEMMA QuietStep ==
  ASSUME BooksKept, UNCHANGED <<kind, rows, cache, removing, refused, nextItem>>,
         DOMAIN groups \subseteq DOMAIN groups'
  PROVE  BooksKept'
  BY DEF BooksKept, RowsFresh, InGroups, Books!RegistryRepeatsStore, DroppedGone

LEMMA UpdateTunnelKeeps == ASSUME BooksInv, Books!UpdateTunnel PROVE BooksKept'
<1> USE DEF BooksInv, BooksKept
<1>1. /\ DOMAIN rows' = DOMAIN rows /\ DOMAIN cache' = DOMAIN cache
      /\ \A i \in DOMAIN rows : rows'[i] = IF i = dialog.editing THEN Books!Row ELSE rows[i]
      /\ \A i \in DOMAIN cache : cache'[i] = IF i = dialog.editing THEN Books!Row ELSE cache[i]
      /\ UNCHANGED <<kind, groups, removing, refused, nextItem>>
      /\ dialog.editing \in DOMAIN rows => Books!GroupExists
  BY DEF Books!UpdateTunnel, Books!Put
<1>2. InGroups'
  BY <1>1 DEF InGroups, Books!GroupExists, Books!Row
<1>3. Books!RegistryRepeatsStore'
  BY <1>1 DEF Books!RegistryRepeatsStore
<1> QED
  BY <1>1, <1>2, <1>3 DEF RowsFresh, DroppedGone

LEMMA AddTunnelKeeps ==
  ASSUME BooksInv, Books!LibraryAssumption, Books!AddTunnel
  PROVE  BooksKept'
<1> USE DEF BooksInv, BooksKept
<1>1. /\ DOMAIN rows' = DOMAIN rows \cup {nextItem} /\ DOMAIN cache' = DOMAIN cache \cup {nextItem}
      /\ rows'[nextItem] = Books!Row /\ cache'[nextItem] = Books!Row
      /\ \A i \in DOMAIN rows \ {nextItem} : rows'[i] = rows[i]
      /\ \A i \in DOMAIN cache \ {nextItem} : cache'[i] = cache[i]
      /\ UNCHANGED <<kind, groups, removing, refused>>
      /\ Books!GroupExists /\ nextItem' = nextItem + 1
  BY DEF Books!AddTunnel, Books!With
<1>2. nextItem \in Int /\ DOMAIN rows \cup DOMAIN cache \cup DOMAIN removing \subseteq Int
  BY Tables DEF Table, Books!Items, Books!LibraryAssumption
<1>3. nextItem \notin DOMAIN removing
  BY <1>2 DEF RowsFresh
<1>4. RowsFresh'
  BY <1>1, <1>2 DEF RowsFresh
<1>5. InGroups'
  BY <1>1 DEF InGroups, Books!GroupExists, Books!Row
<1>6. Books!RegistryRepeatsStore'
  BY <1>1 DEF Books!RegistryRepeatsStore
<1>7. DroppedGone'
  BY <1>1, <1>3 DEF DroppedGone
<1> QED
  BY <1>4, <1>5, <1>6, <1>7

\* (Snippets have no registry.)
LEMMA SaveSnippetKeeps ==
  ASSUME BooksInv, Books!LibraryAssumption, Books!SaveSnippet
  PROVE  BooksKept'
<1> USE DEF BooksInv, BooksKept
<1>1. kind' = SNIPPET /\ kind' # TUNNEL /\ UNCHANGED <<groups, cache, removing, refused>>
  BY DEF Books!SaveSnippet, Books!LibraryAssumption
<1>2. \/ nextItem' = nextItem /\ DOMAIN rows' = DOMAIN rows
      \/ nextItem' = nextItem + 1 /\ DOMAIN rows' = DOMAIN rows \cup {nextItem}
  BY DEF Books!SaveSnippet, Books!Put, Books!With
<1>3. nextItem \in Int /\ DOMAIN rows \cup DOMAIN cache \cup DOMAIN removing \subseteq Int
  BY Tables DEF Table, Books!Items, Books!LibraryAssumption
<1>4. RowsFresh'
  BY <1>1, <1>2, <1>3 DEF RowsFresh
<1>5. InGroups'
  <2>1. CASE dialog.editing # Books!None
    BY <1>1, <2>1 DEF Books!SaveSnippet, InGroups, Books!GroupExists, Books!Row, Books!Put
  <2>2. CASE dialog.editing = Books!None
    BY <1>1, <2>2 DEF Books!SaveSnippet, InGroups, Books!GroupExists, Books!Row, Books!With
  <2> QED
    BY <2>1, <2>2
<1> QED
  BY <1>1, <1>4, <1>5 DEF Books!RegistryRepeatsStore, DroppedGone

LEMMA ToggleTunnelKeeps ==
  ASSUME BooksInv, NEW i \in Books!Items, Books!ToggleTunnelFavorite(i)
  PROVE  BooksKept'
<1> USE DEF BooksInv, BooksKept
<1>1. rows[i] \in Books!Rows /\ cache[i] \in Books!Rows
  BY Tables DEF Books!ToggleTunnelFavorite, Table
<1>2. /\ DOMAIN rows' = DOMAIN rows /\ DOMAIN cache' = DOMAIN cache
      /\ i \in DOMAIN rows /\ i \in DOMAIN cache /\ kind = TUNNEL
      /\ rows'[i] = [rows[i] EXCEPT !.favorite = ~@]
      /\ cache'[i] = [cache[i] EXCEPT !.favorite = rows'[i].favorite]
      /\ \A j \in DOMAIN rows \ {i} : rows'[j] = rows[j]
      /\ \A j \in DOMAIN cache \ {i} : cache'[j] = cache[j]
      /\ UNCHANGED <<kind, groups, removing, refused, nextItem>>
  BY DEF Books!ToggleTunnelFavorite, Books!Put
<1>3. rows'[i].group = rows[i].group
  BY <1>1, <1>2 DEF Books!Rows
<1>4. cache[i] = rows[i]
  BY <1>2 DEF Books!RegistryRepeatsStore
<1>5. cache'[i] = rows'[i]
  BY <1>1, <1>2, <1>4 DEF Books!Rows
<1>6. InGroups'
  BY <1>2, <1>3 DEF InGroups
<1>7. Books!RegistryRepeatsStore'
  BY <1>2, <1>5 DEF Books!RegistryRepeatsStore
<1> QED
  BY <1>2, <1>6, <1>7 DEF RowsFresh, DroppedGone

LEMMA ToggleSnippetKeeps ==
  ASSUME BooksInv, Books!LibraryAssumption, NEW i \in Books!Items, Books!ToggleSnippetFavorite(i)
  PROVE  BooksKept'
<1> USE DEF BooksInv, BooksKept
<1>1. rows[i] \in Books!Rows
  BY Tables DEF Books!ToggleSnippetFavorite, Table
<1>2. /\ DOMAIN rows' = DOMAIN rows /\ rows'[i] = [rows[i] EXCEPT !.favorite = ~@]
      /\ \A j \in DOMAIN rows \ {i} : rows'[j] = rows[j]
      /\ UNCHANGED <<kind, groups, cache, removing, refused, nextItem>>
      /\ kind # TUNNEL
  BY DEF Books!ToggleSnippetFavorite, Books!LibraryAssumption
<1>3. rows'[i].group = rows[i].group
  BY <1>1, <1>2 DEF Books!Rows
<1> QED
  BY <1>2, <1>3 DEF RowsFresh, InGroups, Books!RegistryRepeatsStore, DroppedGone

\* The three steps of a removal.
LEMMA RemovalKeeps ==
  ASSUME BooksInv, Books!LibraryAssumption, NEW i \in Books!Items,
         Books!RemoveTunnel(i) \/ Books!DropFromRegistry(i) \/ Books!DeleteFromStore(i)
  PROVE  BooksKept'
<1> USE DEF BooksInv, BooksKept
<1>1. CASE Books!RemoveTunnel(i)
  <2>1. /\ DOMAIN removing' = DOMAIN removing \cup {i} /\ removing'[i] = "stopping"
        /\ \A j \in DOMAIN removing \ {i} : removing'[j] = removing[j]
        /\ UNCHANGED <<kind, groups, rows, cache, nextItem, refused>> /\ i \in DOMAIN cache
    BY <1>1 DEF Books!RemoveTunnel, Books!With, Books!pages
  <2> QED
    BY <2>1 DEF RowsFresh, InGroups, Books!RegistryRepeatsStore, DroppedGone
<1>2. CASE Books!DropFromRegistry(i)
  <2>1. /\ DOMAIN removing' = DOMAIN removing /\ i \in DOMAIN removing /\ removing'[i] = "dropped"
        /\ \A j \in DOMAIN removing \ {i} : removing'[j] = removing[j]
        /\ DOMAIN cache' = DOMAIN cache \ {i} /\ \A j \in DOMAIN cache' : cache'[j] = cache[j]
        /\ UNCHANGED <<kind, groups, rows, nextItem, refused>>
    BY <1>2 DEF Books!DropFromRegistry, Books!Without, Books!Restrict
  <2> QED
    BY <2>1 DEF RowsFresh, InGroups, Books!RegistryRepeatsStore, DroppedGone
<1>3. CASE Books!DeleteFromStore(i)
  <2>1. /\ DOMAIN removing' = DOMAIN removing \ {i} /\ i \in DOMAIN removing
        /\ removing[i] = "dropped"
        /\ \A j \in DOMAIN removing' : removing'[j] = removing[j]
        /\ UNCHANGED <<kind, groups, cache, nextItem>>
    BY <1>3 DEF Books!DeleteFromStore, Books!Without, Books!Restrict
  <2>2. i \notin DOMAIN cache
    BY <2>1 DEF DroppedGone
  <2>3. CASE refused' = refused \cup {i} /\ rows' = rows
    BY <2>1, <2>3 DEF RowsFresh, InGroups, Books!RegistryRepeatsStore, DroppedGone
  <2>4. CASE rows' = Books!Without(rows, i) /\ refused' = refused
    <3>1. DOMAIN rows' = DOMAIN rows \ {i} /\ \A j \in DOMAIN rows' : rows'[j] = rows[j]
      BY <2>4 DEF Books!Without, Books!Restrict
    <3> QED
      BY <2>1, <2>2, <2>4, <3>1 DEF RowsFresh, InGroups, Books!RegistryRepeatsStore, DroppedGone
  <2> QED
    BY <1>3, <2>3, <2>4 DEF Books!DeleteFromStore
<1> QED
  BY <1>1, <1>2, <1>3

LEMMA DeleteSnippetKeeps ==
  ASSUME BooksInv, Books!LibraryAssumption, NEW i \in Books!Items, Books!DeleteSnippet(i)
  PROVE  BooksKept'
<1> USE DEF BooksInv, BooksKept
<1>1. /\ DOMAIN rows' \subseteq DOMAIN rows /\ \A j \in DOMAIN rows' : rows'[j] = rows[j]
      /\ UNCHANGED <<kind, groups, cache, removing, nextItem, refused>> /\ kind # TUNNEL
  BY DEF Books!DeleteSnippet, Books!Without, Books!Restrict, Books!LibraryAssumption
<1> QED
  BY <1>1 DEF RowsFresh, InGroups, Books!RegistryRepeatsStore, DroppedGone

\* The rows of a group that goes leave it, in the store and in the registry.
LEMMA RemoveGroupKeeps ==
  ASSUME BooksInv, NEW g \in Books!GroupIds, Books!RemoveGroup(g)
  PROVE  BooksKept'
<1> USE DEF BooksInv, BooksKept
<1>1. /\ DOMAIN rows' = DOMAIN rows /\ DOMAIN cache' = DOMAIN cache
      /\ UNCHANGED <<kind, removing, nextItem, refused>>
      /\ DOMAIN groups' = DOMAIN groups \ {g}
  BY DEF Books!RemoveGroup, Books!Mirrored, Books!Nulled, Books!Without, Books!Restrict
<1>2. \A i \in DOMAIN rows : rows'[i].group \in {rows[i].group, Books!None} \ ({g} \ {Books!None})
  <2>1. \A i \in DOMAIN rows : rows[i] \in Books!Rows
    BY Tables DEF Table
  <2> QED
    BY <2>1, NulledIs DEF Books!RemoveGroup
<1>3. InGroups'
  BY <1>1, <1>2 DEF InGroups
<1>4. kind = TUNNEL => \A i \in DOMAIN cache \cap DOMAIN rows :
                         cache[i] = rows[i] => cache'[i] = rows'[i]
  BY DEF Books!RemoveGroup, Books!Mirrored, Books!Nulled
<1>5. Books!RegistryRepeatsStore'
  BY <1>1, <1>4 DEF Books!RegistryRepeatsStore
<1> QED
  BY <1>1, <1>3, <1>5 DEF RowsFresh, DroppedGone

\* The store is read anew.
LEMMA RestartKeeps == ASSUME BooksInv, Books!LibraryAssumption, Books!Restart PROVE BooksKept'
<1> USE DEF BooksInv, BooksKept
<1>1. DOMAIN removing' = {} /\ UNCHANGED <<kind, groups, rows, nextItem, refused>>
  BY DEF Books!Restart
<1>2. cache' = rows \/ (cache' = cache /\ kind # TUNNEL)
  BY DEF Books!Restart
<1> QED
  BY <1>1, <1>2 DEF RowsFresh, InGroups, Books!RegistryRepeatsStore, DroppedGone

LEMMA BooksNext ==
  ASSUME Books!LibraryAssumption, BooksInv, [Books!Next]_(Books!vars)
  PROVE  BooksKept'
<1> USE DEF BooksInv
<1>1. CASE Books!OpenForCreate \/ Books!Fill \/ Books!Close \/ Books!TimerFires
           \/ Books!Refused \/ Books!CancelRename
  BY <1>1, QuietStep DEF Books!OpenForCreate, Books!Fill, Books!Close, Books!TimerFires,
         Books!Refused, Books!CancelRename, Books!pages, Books!Fault
<1>2. CASE Books!UpdateTunnel \/ Books!AddTunnel \/ Books!SaveSnippet \/ Books!Restart
  BY <1>2, UpdateTunnelKeeps, AddTunnelKeeps, SaveSnippetKeeps, RestartKeeps
<1>3. ASSUME NEW i \in Books!Items, Books!OpenTunnelForEdit(i) \/ Books!OpenSnippetForEdit(i)
      PROVE  BooksKept'
  BY <1>3, QuietStep DEF Books!OpenTunnelForEdit, Books!OpenSnippetForEdit, Books!pages
<1>4. ASSUME NEW i \in Books!Items, Books!ToggleTunnelFavorite(i) \/ Books!ToggleSnippetFavorite(i)
      PROVE  BooksKept'
  BY <1>4, ToggleTunnelKeeps, ToggleSnippetKeeps
<1>5. ASSUME NEW i \in Books!Items, Books!RemoveTunnel(i) \/ Books!DropFromRegistry(i) \/ Books!DeleteFromStore(i)
      PROVE  BooksKept'
  BY <1>5, RemovalKeeps
<1>6. ASSUME NEW i \in Books!Items, Books!DeleteSnippet(i) PROVE BooksKept'
  BY <1>6, DeleteSnippetKeeps
<1>7. ASSUME NEW n \in Names, Books!CreateGroup(n) PROVE BooksKept'
  BY <1>7, QuietStep DEF Books!CreateGroup, Books!With
<1>8. ASSUME NEW n \in Names, Books!CommitRename(n) PROVE BooksKept'
  BY <1>8, QuietStep, PutIs DEF Books!CommitRename
<1>9. ASSUME NEW g \in Books!GroupIds, Books!RemoveGroup(g) PROVE BooksKept'
  BY <1>9, RemoveGroupKeeps
<1>10. ASSUME NEW g \in Books!GroupIds, Books!StartRename(g) PROVE BooksKept'
  BY <1>10, QuietStep DEF Books!StartRename, Books!pages
<1>11. CASE UNCHANGED Books!vars
  BY <1>11, QuietStep DEF Books!vars
<1> QED
  BY <1>1, <1>2, <1>3, <1>4, <1>5, <1>6, <1>7, <1>8, <1>9, <1>10, <1>11 DEF Books!Next

\* A page deals every item it has to a section, since no row names a group that is gone.
LEMMA NoneIsLost == ASSUME Books!LibraryAssumption, BooksInv PROVE Books!NoneLostFromView
<1>1. \A i \in DOMAIN Books!Shown : Books!Shown[i].group \in DOMAIN groups \cup {Books!None}
  BY Tables DEF BooksInv, BooksKept, InGroups, Books!RegistryRepeatsStore, Books!Shown
<1>2. \A i \in DOMAIN Books!Shown : \E g \in DOMAIN groups \cup {Books!None} : i \in Books!Section(g)
  BY <1>1 DEF Books!Section
<1>3. \A g : Books!Section(g) \subseteq DOMAIN Books!Shown
  BY DEF Books!Section
<1> QED
  BY <1>2, <1>3 DEF Books!NoneLostFromView, Books!Sections

-----------------------------------------------------------------------------
(* Saved hosts: the chains of jumps.                                       *)

\* The host a host jumps through, in a table of hosts.
JumpIn(H, h) == IF h \in DOMAIN H THEN H[h].jump ELSE 0

\* s leads from a along the links of H, in n steps.
Walk(H, s, n, a) == s[0] = a /\ \A i \in 1..n : s[i] = JumpIn(H, s[i - 1])
Reach(H, a, t) == \E n \in 0..MaxSaves : \E s : Walk(H, s, n, a) /\ s[n] = t
NoCircle(H) == \A h \in DOMAIN H : ~Reach(H, H[h].jump, h)

\* Whatever holds of some number in 0..n has a first that it holds of.
LEMMA FirstIn ==
  ASSUME NEW n \in Nat, NEW S \in SUBSET (0..n), S # {}
  PROVE  \E r \in S : r \in 0..n /\ \A i \in 0..n : i < r => i \notin S
<1>1. S \in SUBSET Nat
  OBVIOUS
<1>2. PICK r \in S : \A q \in S : r <= q
  BY <1>1, OldestExists
<1> QED
  BY <1>2

\* And a last.
LEMMA LastIn ==
  ASSUME NEW n \in Nat, NEW S \in SUBSET (0..n), S # {}
  PROVE  \E r \in S : r \in 0..n /\ \A i \in 0..n : r < i => i \notin S
<1> DEFINE T == {n - i : i \in S}
<1>1. T \in SUBSET Nat /\ T # {}
  <2>1. \A i \in S : n - i \in Nat
    OBVIOUS
  <2> QED
    BY <2>1
<1>2. PICK r \in T : \A q \in T : r <= q
  BY <1>1, OldestExists
<1>3. PICK i \in S : r = n - i
  BY <1>2
<1>4. ASSUME NEW k \in 0..n, i < k, k \in S PROVE FALSE
  <2>1. n - k \in T
    BY <1>4
  <2>2. n - i <= n - k
    BY <1>2, <1>3, <2>1
  <2>3. i \in 0..n
    OBVIOUS
  <2> QED
    BY <1>4, <2>2, <2>3
<1> QED
  BY <1>3, <1>4

\* The walk of n steps from a.
Steps(H, a, n) == CHOOSE s : s = [i \in 0..n |-> IF i = 0 THEN a ELSE JumpIn(H, s[i - 1])]

LEMMA StepsWalk ==
  ASSUME NEW H, NEW a, NEW n \in Nat
  PROVE  Walk(H, Steps(H, a, n), n, a)
<1> DEFINE Good(s, m) == s = [i \in 0..m |-> IF i = 0 THEN a ELSE JumpIn(H, s[i - 1])]
           Bad == {m \in 0..n : ~\E s : Good(s, m)}
<1>1. Good([i \in 0..0 |-> a], 0)
  OBVIOUS
<1>2. ASSUME NEW m \in Nat, NEW s, Good(s, m) PROVE \E u : Good(u, m + 1)
  <2> DEFINE u == [i \in 0..m + 1 |-> IF i = m + 1 THEN JumpIn(H, s[m]) ELSE s[i]]
  <2>1. \A i \in 0..m : s[i] = IF i = 0 THEN a ELSE JumpIn(H, s[i - 1])
    BY <1>2
  <2>2. ASSUME NEW i \in 0..m + 1 PROVE u[i] = IF i = 0 THEN a ELSE JumpIn(H, u[i - 1])
    <3>1. CASE i = m + 1
      <4>1. u[i] = JumpIn(H, s[m]) /\ u[i - 1] = s[m] /\ i # 0
        BY <3>1
      <4> QED
        BY <4>1
    <3>2. CASE i # m + 1
      <4>1. i \in 0..m /\ u[i] = s[i]
        BY <3>2
      <4>2. i # 0 => u[i - 1] = s[i - 1]
        BY <4>1
      <4> QED
        BY <2>1, <4>1, <4>2
    <3> QED
      BY <3>1, <3>2
  <2>3. u = [i \in 0..m + 1 |-> u[i]]
    OBVIOUS
  <2> HIDE DEF u
  <2>4. Good(u, m + 1)
    BY <2>2, <2>3
  <2> QED
    BY <2>4
<1>3. Bad = {}
  <2> SUFFICES ASSUME Bad # {} PROVE FALSE
    OBVIOUS
  <2>1. Bad \in SUBSET (0..n)
    OBVIOUS
  <2> HIDE DEF Good
  <2>2. PICK r \in Bad : r \in 0..n /\ \A i \in 0..n : i < r => i \notin Bad
    BY <2>1, FirstIn
  <2>3. r # 0
    BY <1>1, <2>2
  <2>4. r - 1 \in 0..n /\ r - 1 < r /\ r - 1 \in Nat
    BY <2>2, <2>3
  <2>5. PICK s : Good(s, r - 1)
    BY <2>2, <2>4
  <2>6. \E u : Good(u, (r - 1) + 1)
    BY <1>2, <2>4, <2>5
  <2>7. (r - 1) + 1 = r
    BY <2>2
  <2> QED
    BY <2>2, <2>6, <2>7
<1> HIDE DEF Good
<1>4. \E s : Good(s, n)
  BY <1>3
<1> USE DEF Good
<1>5. Good(Steps(H, a, n), n)
  BY <1>4 DEF Steps
<1>6. \A i \in 0..n : Steps(H, a, n)[i] = IF i = 0 THEN a ELSE JumpIn(H, Steps(H, a, n)[i - 1])
  BY <1>5
<1> QED
  BY <1>6 DEF Walk

\* Two walks from one place go the same way.
LEMMA WalksAgree ==
  ASSUME NEW H, NEW a, NEW n \in Nat, NEW s, NEW u, Walk(H, s, n, a), Walk(H, u, n, a)
  PROVE  \A i \in 0..n : s[i] = u[i]
<1> DEFINE Bad == {i \in 0..n : s[i] # u[i]}
<1> SUFFICES ASSUME Bad # {} PROVE FALSE
  OBVIOUS
<1>1. PICK r \in Bad : r \in 0..n /\ \A i \in 0..n : i < r => i \notin Bad
  BY FirstIn
<1>2. r # 0
  BY <1>1 DEF Walk
<1>3. r \in 1..n /\ r - 1 \in 0..n /\ r - 1 < r
  BY <1>1, <1>2
<1>4. s[r - 1] = u[r - 1]
  BY <1>1, <1>3
<1> QED
  BY <1>1, <1>3, <1>4 DEF Walk

\* What jump_would_cycle asks is whether there is a walk.
LEMMA ReachIs ==
  ASSUME MaxSaves \in Nat
  PROVE  \A a, t : Forms!ChainReaches(a, t) <=> a # 0 /\ Reach(hosts, a, t)
<1> TAKE a, t
<1> DEFINE c == Steps(hosts, a, MaxSaves)
<1>2. Walk(hosts, c, MaxSaves, a)
  BY StepsWalk
<1>3. Forms!ChainReaches(a, t) <=> a # 0 /\ \E n \in 0..MaxSaves : c[n] = t
  BY DEF Forms!ChainReaches, Forms!Jump, Forms!None, JumpIn, Steps
<1> HIDE DEF c
<1>4. ASSUME NEW n \in 0..MaxSaves, c[n] = t PROVE Reach(hosts, a, t)
  BY <1>2, <1>4 DEF Reach, Walk
<1>5. ASSUME NEW n \in 0..MaxSaves, NEW s, Walk(hosts, s, n, a), s[n] = t PROVE c[n] = t
  <2>1. Walk(hosts, c, n, a)
    BY <1>2 DEF Walk
  <2> QED
    BY <1>5, <2>1, WalksAgree
<1> QED
  BY <1>3, <1>4, <1>5 DEF Reach

\* No host has the number that stands for none: a walk that leads to a host does not
\* pass through it.
LEMMA NeverNone ==
  ASSUME NEW H, 0 \notin DOMAIN H, NEW n \in Nat, NEW s, NEW a, Walk(H, s, n, a), s[n] # 0
  PROVE  \A i \in 0..n : s[i] # 0
<1> SUFFICES ASSUME NEW r \in 0..n, s[r] = 0 PROVE FALSE
  OBVIOUS
<1> DEFINE u == [i \in 0..n - r |-> s[r + i]]
           z == [i \in 0..n - r |-> 0]
<1>1. Walk(H, u, n - r, 0)
  <2>1. u[0] = 0
    OBVIOUS
  <2>2. ASSUME NEW i \in 1..n - r PROVE u[i] = JumpIn(H, u[i - 1])
    <3>1. r + i \in 1..n /\ u[i] = s[r + i] /\ u[i - 1] = s[r + (i - 1)] /\ r + (i - 1) = (r + i) - 1
      OBVIOUS
    <3> HIDE DEF u
    <3> QED
      BY <3>1 DEF Walk
  <2> QED
    BY <2>1, <2>2 DEF Walk
<1>2. Walk(H, z, n - r, 0)
  BY DEF Walk, JumpIn
<1>3. u[n - r] = z[n - r]
  BY <1>1, <1>2, WalksAgree
<1>4. u[n - r] = s[n] /\ z[n - r] = 0
  OBVIOUS
<1> QED
  BY <1>3, <1>4

\* Taking hosts and links away closes no circle.
LEMMA CircleCut ==
  ASSUME NEW H, NEW H2, MaxSaves \in Nat, 0 \notin DOMAIN H, NoCircle(H),
         DOMAIN H2 \subseteq DOMAIN H,
         \A h \in DOMAIN H2 : H2[h].jump \in {H[h].jump, 0}
  PROVE  NoCircle(H2)
<1> SUFFICES ASSUME NEW h \in DOMAIN H2, NEW n \in 0..MaxSaves, NEW s,
                    Walk(H2, s, n, H2[h].jump), s[n] = h
             PROVE  FALSE
  BY DEF NoCircle, Reach
<1>1. h # 0 /\ h \in DOMAIN H
  OBVIOUS
<1>2. \A i \in 0..n : s[i] # 0
  BY <1>1, NeverNone
<1>3. s[0] = H[h].jump
  BY <1>2 DEF Walk
<1>4. ASSUME NEW i \in 1..n PROVE s[i] = JumpIn(H, s[i - 1])
  <2>1. s[i] = JumpIn(H2, s[i - 1]) /\ s[i] # 0
    BY <1>2 DEF Walk
  <2> QED
    BY <2>1 DEF JumpIn
<1>5. Walk(H, s, n, H[h].jump)
  BY <1>3, <1>4 DEF Walk
<1> QED
  BY <1>1, <1>5 DEF NoCircle, Reach

\* Links lead to hosts.
Closed(H) == 0 \notin DOMAIN H /\ \A h \in DOMAIN H : H[h].jump \in DOMAIN H \cup {0}

\* Nor does a host that nobody jumps through yet.
LEMMA CircleAdd ==
  ASSUME NEW H, NEW H2, NEW id, MaxSaves \in Nat, Closed(H), NoCircle(H),
         id # 0, id \notin DOMAIN H, DOMAIN H2 = DOMAIN H \cup {id},
         \A h \in DOMAIN H : H2[h].jump = H[h].jump,
         H2[id].jump \in DOMAIN H \cup {0}
  PROVE  NoCircle(H2)
<1> SUFFICES ASSUME NEW h \in DOMAIN H2, NEW n \in 0..MaxSaves, NEW s,
                    Walk(H2, s, n, H2[h].jump), s[n] = h
             PROVE  FALSE
  BY DEF NoCircle, Reach
<1> DEFINE Old == DOMAIN H \cup {0}
           Bad == {i \in 0..n : s[i] \notin Old}
<1>1. \A x \in Old : JumpIn(H2, x) = JumpIn(H, x) /\ JumpIn(H2, x) \in Old
  BY DEF JumpIn, Closed
<1>2. s[0] \in Old
  BY DEF Walk, Closed
<1>3. Bad = {}
  <2> SUFFICES ASSUME Bad # {} PROVE FALSE
    OBVIOUS
  <2>0. n \in Nat /\ Bad \in SUBSET (0..n)
    OBVIOUS
  <2>1. PICK r \in Bad : r \in 0..n /\ \A i \in 0..n : i < r => i \notin Bad
    <3> HIDE DEF Bad
    <3> QED
      BY <2>0, FirstIn
  <2>2. r # 0
    BY <1>2, <2>1
  <2>3. r \in 1..n /\ r - 1 \in 0..n /\ r - 1 < r
    BY <2>1, <2>2
  <2>4. s[r - 1] \in Old
    BY <2>1, <2>3
  <2>5. s[r] = JumpIn(H2, s[r - 1])
    BY <2>3 DEF Walk
  <2> QED
    BY <1>1, <2>1, <2>4, <2>5
<1>4. \A i \in 0..n : s[i] \in Old
  BY <1>3
<1>5. h \in DOMAIN H
  BY <1>4 DEF Closed
<1>6. ASSUME NEW i \in 1..n PROVE s[i] = JumpIn(H, s[i - 1])
  <2>1. i - 1 \in 0..n
    OBVIOUS
  <2> QED
    BY <1>1, <1>4, <2>1 DEF Walk
<1>7. Walk(H, s, n, H[h].jump)
  BY <1>5, <1>6 DEF Walk
<1> QED
  BY <1>5, <1>7 DEF NoCircle, Reach

\* A link that is changed closes none either, unless it leads back to its host.
LEMMA CircleEdit ==
  ASSUME NEW H, NEW H2, NEW h \in DOMAIN H, MaxSaves \in Nat, 0 \notin DOMAIN H, NoCircle(H),
         DOMAIN H2 = DOMAIN H,
         \A g \in DOMAIN H \ {h} : H2[g].jump = H[g].jump,
         H2[h].jump = 0 \/ ~Reach(H, H2[h].jump, h)
  PROVE  NoCircle(H2)
<1> DEFINE j == H2[h].jump
<1>0. ~Reach(H, j, h)
  <2> SUFFICES ASSUME j = 0, NEW n \in 0..MaxSaves, NEW s, Walk(H, s, n, 0), s[n] = h PROVE FALSE
    BY DEF Reach
  <2>1. s[0] # 0
    BY NeverNone
  <2> QED
    BY <2>1 DEF Walk
<1> SUFFICES ASSUME NEW g \in DOMAIN H, NEW n \in 0..MaxSaves, NEW s,
                    Walk(H2, s, n, H2[g].jump), s[n] = g
             PROVE  FALSE
  BY DEF NoCircle, Reach
<1>1. \A x : x # h => JumpIn(H2, x) = JumpIn(H, x)
  BY DEF JumpIn
<1>2. JumpIn(H2, h) = j
  BY DEF JumpIn
<1> DEFINE Hits == {i \in 0..n : s[i] = h}
<1>h. n \in Nat /\ Hits \in SUBSET (0..n)
  OBVIOUS
\* A walk before it comes to h is one of the old links.
<1>3. ASSUME NEW m \in 0..n, \A i \in 0..n : i < m => s[i] # h
      PROVE  Walk(H, s, m, s[0])
  <2>1. ASSUME NEW i \in 1..m PROVE s[i] = JumpIn(H, s[i - 1])
    <3>1. i \in 1..n /\ i - 1 \in 0..n /\ i - 1 < m
      OBVIOUS
    <3> QED
      BY <1>1, <1>3, <3>1 DEF Walk
  <2> QED
    BY <2>1 DEF Walk
<1>4. s[0] = H2[g].jump
  BY DEF Walk
<1>5. CASE g = h
  <2>1. n \in Hits
    BY <1>5
  <2>2. PICK k \in Hits : k \in 0..n /\ \A i \in 0..n : i < k => i \notin Hits
    <3> HIDE DEF Hits
    <3> QED
      BY <1>h, <2>1, FirstIn
  <2>3. Walk(H, s, k, s[0])
    BY <1>3, <2>2
  <2> QED
    BY <1>0, <1>4, <1>5, <2>2, <2>3 DEF Reach
<1>6. CASE g # h /\ Hits = {}
  <2>1. Walk(H, s, n, s[0])
    BY <1>3, <1>6
  <2> QED
    BY <1>4, <1>6, <2>1 DEF NoCircle, Reach
<1>7. CASE g # h /\ Hits # {}
  <2>1. PICK k \in Hits : k \in 0..n /\ \A i \in 0..n : i < k => i \notin Hits
    <3> HIDE DEF Hits
    <3> QED
      BY <1>h, <1>7, FirstIn
  <2>2. PICK m \in Hits : m \in 0..n /\ \A i \in 0..n : m < i => i \notin Hits
    <3> HIDE DEF Hits
    <3> QED
      BY <1>h, <1>7, LastIn
  <2>3. k <= m /\ m < n
    BY <1>7, <2>1, <2>2
  <2> DEFINE w == n - m
             l == w + k
             u == [i \in 0..l |-> IF i < w THEN s[(m + 1) + i] ELSE s[i - w]]
  <2>4. w \in 1..n /\ l \in 0..n /\ l \in 0..MaxSaves
    BY <2>1, <2>2, <2>3
  <2>5. u[0] = j
    <3>1. u[0] = s[m + 1]
      BY <2>4
    <3>2. m + 1 \in 1..n /\ (m + 1) - 1 = m
      BY <2>2, <2>3
    <3>3. s[m + 1] = JumpIn(H2, s[m])
      BY <3>2 DEF Walk
    <3> QED
      BY <1>2, <2>2, <3>1, <3>3
  <2>6. u[l] = h
    <3>1. l \in 0..l /\ ~(l < w) /\ l - w = k
      BY <2>1, <2>4
    <3>2. u[l] = s[l - w]
      BY <3>1
    <3>3. u[l] = s[k]
      BY <3>1, <3>2
    <3> QED
      BY <2>1, <3>3
  <2>7. ASSUME NEW i \in 1..l PROVE u[i] = JumpIn(H, u[i - 1])
    <3>1. CASE i < w
      <4>1. /\ u[i] = s[(m + 1) + i] /\ u[i - 1] = s[(m + 1) + (i - 1)]
            /\ (m + 1) + i \in 1..n /\ (m + 1) + (i - 1) = ((m + 1) + i) - 1
            /\ (m + 1) + (i - 1) \in 0..n /\ m < (m + 1) + (i - 1)
        BY <2>2, <2>4, <3>1
      <4>2. s[(m + 1) + (i - 1)] # h
        BY <2>2, <4>1
      <4>3. s[(m + 1) + i] = JumpIn(H2, s[((m + 1) + i) - 1])
        BY <4>1 DEF Walk
      <4> HIDE DEF u, w, l
      <4> QED
        BY <1>1, <4>1, <4>2, <4>3
    <3>2. CASE i = w
      <4>1. u[i] = s[0] /\ u[i - 1] = s[(m + 1) + (i - 1)] /\ (m + 1) + (i - 1) = n
        BY <2>2, <2>4, <3>2
      <4> HIDE DEF u, w, l
      <4> QED
        BY <1>1, <1>4, <1>7, <4>1 DEF JumpIn
    <3>3. CASE w < i
      <4>1. /\ u[i] = s[i - w] /\ u[i - 1] = s[(i - w) - 1]
            /\ i - w \in 1..n /\ (i - w) - 1 \in 0..n /\ (i - w) - 1 < k
        BY <2>1, <2>4, <3>3
      <4>2. s[(i - w) - 1] # h
        BY <2>1, <4>1
      <4>3. s[i - w] = JumpIn(H2, s[(i - w) - 1])
        BY <4>1 DEF Walk
      <4> HIDE DEF u, w, l
      <4> QED
        BY <1>1, <4>1, <4>2, <4>3
    <3> QED
      BY <2>2, <2>4, <3>1, <3>2, <3>3
  <2> HIDE DEF u
  <2>8. Walk(H, u, l, j)
    BY <2>5, <2>7 DEF Walk
  <2> QED
    BY <1>0, <2>4, <2>6, <2>8 DEF Reach
<1> QED
  BY <1>5, <1>6, <1>7

-----------------------------------------------------------------------------
(* Saved hosts: whose credential and proxy is whose.                       *)

\* Numbers are given once, and what refers to something refers to what has been.
FormRecord ==
  [active : BOOLEAN, editing : Int, kind : Kinds, jump : Nat, proxied : BOOLEAN,
   cred0 : Nat, proxy0 : Nat]
Given(x) == x.cred < next.cred /\ x.proxy < next.proxy

FormsTyped ==
  /\ next \in [host : 1..MaxSaves + 1, cred : 1..MaxSaves + 1, proxy : Nat \ {0}]
  /\ next.proxy <= next.cred
  /\ creds \subseteq 1..next.cred - 1 /\ proxies \subseteq 1..next.proxy - 1
  /\ DOMAIN hosts \subseteq 1..next.host - 1 /\ DOMAIN list \subseteq 0..next.host - 1
  /\ \A h \in DOMAIN hosts :
        /\ hosts[h] \in [kind : Kinds, cred : Nat, proxy : Nat, jump : Nat] /\ Given(hosts[h])
        /\ hosts[h].jump \in DOMAIN hosts \cup {0}
  /\ \A h \in DOMAIN list :
        list[h] \in [kind : Kinds, cred : Nat, proxy : Nat] /\ Given(list[h])
  /\ Forms!Exists =>
        /\ form \in FormRecord /\ form.editing \in -1..next.host - 1
        /\ form.cred0 < next.cred /\ form.proxy0 < next.proxy
  /\ formTimers \in 0..MaxTimers /\ formFaults \in 0..MaxFaults /\ marred \subseteq 0..MaxSaves

\* The hosts whose writes went through.
Whole == DOMAIN hosts \ marred

\* Two rows share neither credential nor proxy.
ApartRows(x, y) == x.cred # y.cred /\ (x.proxy # y.proxy \/ x.proxy = 0)

\* A whole host is listed as it is saved, has what it refers to, and shares it with no
\* row, be it of the store or of the list, whole or not.
RowsApart ==
  \A g \in Whole :
    /\ g \in DOMAIN list /\ list[g].cred = hosts[g].cred /\ list[g].proxy = hosts[g].proxy
    /\ hosts[g].cred \in creds /\ hosts[g].proxy \in proxies \cup {0}
    /\ \A h \in DOMAIN hosts \ {g} : ApartRows(hosts[g], hosts[h])
    /\ \A h \in DOMAIN list \ {g} : ApartRows(hosts[g], list[h])

\* Nor is it the credential or the proxy that a form took hold of when it was opened for
\* another host; what it took of its own host is no other's.
FormApart ==
  Forms!Exists /\ form.editing # -1 =>
    /\ \A g \in Whole \ {form.editing} :
          /\ hosts[g].cred # form.cred0
          /\ hosts[g].proxy # form.proxy0 \/ form.proxy0 = 0
    /\ form.editing \in Whole /\ form.proxy0 # 0 =>
          /\ \A h \in DOMAIN hosts \ {form.editing} : hosts[h].proxy # form.proxy0
          /\ \A h \in DOMAIN list \ {form.editing} : list[h].proxy # form.proxy0

HostsInv == FormsTyped /\ RowsApart /\ FormApart /\ NoCircle(hosts)

LEMMA FormsStart == ASSUME Forms!HostFormsAssumption, Forms!Init PROVE HostsInv
<1> USE DEF Forms!Init, Forms!HostFormsAssumption
<1>1. FormsTyped
  BY DEF FormsTyped, Forms!Exists, Given
<1>2. RowsApart /\ FormApart /\ NoCircle(hosts)
  BY DEF RowsApart, FormApart, Whole, Forms!Exists, NoCircle
<1> QED
  BY <1>1, <1>2 DEF HostsInv

\* A step that moves only the form and its timers.
LEMMA OnlyForm ==
  ASSUME HostsInv, UNCHANGED <<hosts, creds, proxies, list, next, formFaults, marred>>,
         formTimers' \in 0..MaxTimers,
         Forms!Exists' => /\ form' \in FormRecord /\ form'.editing \in -1..next.host - 1
                          /\ form'.cred0 < next.cred /\ form'.proxy0 < next.proxy,
         FormApart'
  PROVE  HostsInv'
<1> USE DEF HostsInv
<1>1. FormsTyped'
  BY DEF FormsTyped, Given
<1>2. RowsApart'
  BY DEF RowsApart, Whole
<1>3. NoCircle(hosts)'
  <2>1. hosts' = hosts
    OBVIOUS
  <2> QED
    BY <2>1 DEF NoCircle, Reach, Walk, JumpIn
<1> QED
  BY <1>1, <1>2, <1>3

\* One that leaves to the form what it took hold of.
LEMMA SameForm ==
  ASSUME HostsInv, UNCHANGED <<hosts, creds, proxies, list, next, formFaults, marred>>,
         formTimers' \in 0..MaxTimers, Forms!Exists,
         form' \in FormRecord, form'.editing = form.editing,
         form'.cred0 = form.cred0, form'.proxy0 = form.proxy0
  PROVE  HostsInv'
<1>1. Forms!Exists' => /\ form' \in FormRecord /\ form'.editing \in -1..next.host - 1
                       /\ form'.cred0 < next.cred /\ form'.proxy0 < next.proxy
  BY DEF HostsInv, FormsTyped
<1>2. FormApart'
  BY DEF HostsInv, FormApart, Whole
<1> QED
  BY <1>1, <1>2, OnlyForm

\* One that leaves no form, or one for a new host.
LEMMA BlankForms ==
  ASSUME HostsInv, UNCHANGED <<hosts, creds, proxies, list, next, formFaults, marred>>,
         formTimers' \in 0..MaxTimers,
         Forms!Exists' => form' \in FormRecord /\ form'.editing = -1 /\ form'.cred0 = 0 /\ form'.proxy0 = 0
  PROVE  HostsInv'
<1>1. Forms!Exists' => /\ form' \in FormRecord /\ form'.editing \in -1..next.host - 1
                       /\ form'.cred0 < next.cred /\ form'.proxy0 < next.proxy
  BY DEF HostsInv, FormsTyped
<1>2. FormApart'
  BY DEF FormApart
<1> QED
  BY <1>1, <1>2, OnlyForm

\* close_connection_form starts one timer at most.
LEMMA ClosingTimers ==
  ASSUME formTimers \in 0..MaxTimers, Forms!Closing PROVE formTimers' \in 0..MaxTimers
  BY SettingsAssumption DEF Forms!Closing, Forms!HostFormsAssumption

\* What a form for a listed host starts with.
LEMMA FilledIs ==
  ASSUME FormsTyped, NEW h \in DOMAIN list, NEW e \in Int
  PROVE  /\ Forms!Filled(h, e) \in FormRecord /\ Forms!Filled(h, e).editing = e
         /\ Forms!Filled(h, e).cred0 = list[h].cred /\ Forms!Filled(h, e).proxy0 = list[h].proxy
<1>1. Forms!Jump(h) \in Nat
  BY DEF FormsTyped, Forms!Jump, Forms!None
<1>2. list[h].kind \in Kinds /\ list[h].cred \in Nat /\ list[h].proxy \in Nat
  BY DEF FormsTyped
<1> QED
  BY <1>1, <1>2 DEF Forms!Filled, Forms!None, FormRecord

LEMMA HostFormSteps ==
  ASSUME HostsInv,
         \/ Forms!Close \/ Forms!TimerFires \/ Forms!Fill
         \/ \E k \in Kinds : Forms!OpenNew(k)
         \/ \E h \in 0..MaxSaves : Forms!CloneHost(h) \/ Forms!EditHost(h)
  PROVE  HostsInv'
<1>0. /\ formTimers \in 0..MaxTimers /\ MaxTimers \in Nat
      /\ Forms!Exists => form \in FormRecord
  BY SettingsAssumption DEF HostsInv, FormsTyped, Forms!HostFormsAssumption
<1>1. CASE Forms!Close
  <2>1. formTimers' \in 0..MaxTimers
    BY <1>0, <1>1, ClosingTimers DEF Forms!Close
  <2>2. /\ form' \in FormRecord /\ form'.editing = form.editing
        /\ form'.cred0 = form.cred0 /\ form'.proxy0 = form.proxy0
    BY <1>0, <1>1 DEF Forms!Close, FormRecord
  <2> QED
    BY <1>1, <2>1, <2>2, SameForm DEF Forms!Close
<1>2. CASE Forms!TimerFires
  BY <1>0, <1>2, BlankForms DEF Forms!TimerFires, Forms!Exists
<1>3. CASE Forms!Fill
  <2>1. Forms!Candidates \subseteq Nat
    BY DEF Forms!Candidates, HostsInv, FormsTyped
  <2>2. /\ form' \in FormRecord /\ form'.editing = form.editing
        /\ form'.cred0 = form.cred0 /\ form'.proxy0 = form.proxy0
    <3>1. CASE \E k \in Kinds : form' = [form EXCEPT !.kind = k]
      BY <1>0, <1>3, <3>1 DEF Forms!Fill, FormRecord
    <3>2. CASE \E j \in Forms!Candidates \cup {Forms!None} : form' = [form EXCEPT !.jump = j]
      BY <1>0, <1>3, <2>1, <3>2 DEF Forms!Fill, FormRecord, Forms!None
    <3>3. CASE \E b \in BOOLEAN : form' = [form EXCEPT !.proxied = b]
      BY <1>0, <1>3, <3>3 DEF Forms!Fill, FormRecord
    <3> QED
      BY <1>3, <3>1, <3>2, <3>3 DEF Forms!Fill
  <2> QED
    BY <1>0, <1>3, <2>2, SameForm DEF Forms!Fill
<1>4. ASSUME NEW k \in Kinds, Forms!OpenNew(k) PROVE HostsInv'
  <2>1. CASE Forms!Exists
    <3>1. /\ form' \in FormRecord /\ form'.editing = form.editing
          /\ form'.cred0 = form.cred0 /\ form'.proxy0 = form.proxy0
      BY <1>0, <1>4, <2>1 DEF Forms!OpenNew, FormRecord
    <3> QED
      BY <1>0, <1>4, <2>1, <3>1, SameForm DEF Forms!OpenNew
  <2>2. CASE ~Forms!Exists
    <3>1. form' \in FormRecord /\ form'.editing = -1 /\ form'.cred0 = 0 /\ form'.proxy0 = 0
      BY <1>4, <2>2 DEF Forms!OpenNew, Forms!BlankForm, FormRecord, Forms!New, Forms!None
    <3> QED
      BY <1>0, <1>4, <3>1, BlankForms DEF Forms!OpenNew
  <2> QED
    BY <2>1, <2>2
<1>5. ASSUME NEW h \in 0..MaxSaves, Forms!CloneHost(h) PROVE HostsInv'
  <2>1. formTimers' \in 0..MaxTimers
    BY <1>0, <1>5, ClosingTimers DEF Forms!CloneHost
  <2>2. Forms!Filled(h, -1) \in FormRecord /\ Forms!Filled(h, -1).editing = -1
    <3>1. FormsTyped /\ h \in DOMAIN list
      BY <1>5 DEF HostsInv, Forms!CloneHost
    <3>2. -1 \in Int
      OBVIOUS
    <3> QED
      BY <3>1, <3>2, FilledIs
  <2>3. form' \in FormRecord /\ form'.editing = -1 /\ form'.cred0 = 0 /\ form'.proxy0 = 0
    BY <1>5, <2>2 DEF Forms!CloneHost, FormRecord, Forms!New, Forms!None
  <2> QED
    BY <1>5, <2>1, <2>3, BlankForms DEF Forms!CloneHost
<1>6. ASSUME NEW h \in 0..MaxSaves, Forms!EditHost(h) PROVE HostsInv'
  <2>1. formTimers' \in 0..MaxTimers
    BY <1>0, <1>6, ClosingTimers DEF Forms!EditHost
  <2>2. /\ form' \in FormRecord /\ form'.editing = h
        /\ form'.cred0 = list[h].cred /\ form'.proxy0 = list[h].proxy
    BY <1>6, FilledIs DEF HostsInv, Forms!EditHost
  <2>3. h \in DOMAIN list /\ h \in 0..next.host - 1 /\ Given(list[h])
    BY <1>6 DEF HostsInv, FormsTyped, Forms!EditHost
  <2>4. FormApart'
    <3> USE DEF HostsInv
    <3>1. \A g \in Whole \ {h} : ApartRows(hosts[g], list[h])
      BY <2>3 DEF RowsApart
    <3>2. ASSUME h \in Whole, list[h].proxy # 0
          PROVE  /\ \A g \in DOMAIN hosts \ {h} : hosts[g].proxy # list[h].proxy
                 /\ \A g \in DOMAIN list \ {h} : list[g].proxy # list[h].proxy
      BY <3>2 DEF RowsApart, ApartRows
    <3>3. hosts' = hosts /\ list' = list /\ marred' = marred
      BY <1>6 DEF Forms!EditHost
    <3> QED
      BY <2>2, <3>1, <3>2, <3>3 DEF FormApart, ApartRows, Whole
  <2>5. h \in -1..next.host - 1
    BY <2>3 DEF HostsInv, FormsTyped
  <2> QED
    BY <1>6, <2>1, <2>2, <2>3, <2>4, <2>5, OnlyForm DEF Forms!EditHost, Given
<1> QED
  BY <1>1, <1>2, <1>3, <1>4, <1>5, <1>6

\* reload_hosts, by itself or after a connection: the list repeats the store.
LEMMA ReloadKeeps ==
  ASSUME HostsInv, Forms!Reload \/ \E h \in 0..MaxSaves : Forms!Connect(h)
  PROVE  HostsInv'
<1> USE DEF HostsInv
<1>1. /\ list' = Forms!FromStore
      /\ UNCHANGED <<hosts, creds, proxies, form, formTimers, next, formFaults, marred>>
  BY DEF Forms!Reload, Forms!Connect
<1>2. /\ DOMAIN list' = DOMAIN hosts
      /\ \A h \in DOMAIN hosts : list'[h] = [kind |-> hosts[h].kind, cred |-> hosts[h].cred,
                                              proxy |-> hosts[h].proxy]
  BY <1>1 DEF Forms!FromStore, Forms!Listed
<1>3. \A h \in DOMAIN hosts : /\ list'[h] \in [kind : Kinds, cred : Nat, proxy : Nat]
                              /\ list'[h].cred = hosts[h].cred /\ list'[h].proxy = hosts[h].proxy
  BY <1>2 DEF FormsTyped
<1> HIDE <1>2 DEF HostsInv
<1>4. FormsTyped'
  <2>1. DOMAIN list' \subseteq 0..next'.host - 1
    BY <1>1, <1>2 DEF HostsInv, FormsTyped
  <2>2. \A h \in DOMAIN list' : list'[h] \in [kind : Kinds, cred : Nat, proxy : Nat] /\ Given(list[h])'
    BY <1>1, <1>2, <1>3 DEF HostsInv, FormsTyped, Given
  <2> QED
    BY <1>1, <2>1, <2>2 DEF HostsInv, FormsTyped, Given, Forms!Exists
<1>5. RowsApart'
  BY <1>1, <1>2, <1>3 DEF HostsInv, RowsApart, ApartRows, Whole
<1>6. FormApart'
  BY <1>1, <1>2, <1>3 DEF HostsInv, FormApart, Whole, Forms!Exists
<1>7. NoCircle(hosts)'
  BY <1>1 DEF HostsInv, NoCircle, Reach, Walk, JumpIn
<1> QED
  BY <1>4, <1>5, <1>6, <1>7 DEF HostsInv

\* The instance counts as this module does.
LEMMA SameCount == \A S : Forms!Cardinality(S) = Cardinality(S)
  BY DEF Forms!Cardinality, Cardinality

\* The writes that fail are counted.
LEMMA FaultsCounted ==
  ASSUME FormsTyped, NEW failing \in SUBSET {"credential", "proxy", "host"}, Forms!Failing(failing)
  PROVE  formFaults' \in 0..MaxFaults
<1>1. IsFiniteSet({"credential", "proxy", "host"})
  <2>1. IsFiniteSet({} \cup {"credential"})
    BY FS_EmptySet, FS_AddElement
  <2>2. IsFiniteSet(({} \cup {"credential"}) \cup {"proxy"})
    BY <2>1, FS_AddElement
  <2>3. IsFiniteSet((({} \cup {"credential"}) \cup {"proxy"}) \cup {"host"})
    BY <2>2, FS_AddElement
  <2>4. (({} \cup {"credential"}) \cup {"proxy"}) \cup {"host"} = {"credential", "proxy", "host"}
    OBVIOUS
  <2> QED
    BY <2>3, <2>4
<1>2. IsFiniteSet(failing) /\ Cardinality(failing) \in Nat
  BY <1>1, FS_Subset, FS_CardinalityType
<1>3. formFaults \in Nat /\ MaxFaults \in Nat
  BY SettingsAssumption DEF FormsTyped, Forms!HostFormsAssumption
<1> QED
  BY <1>2, <1>3, SameCount DEF Forms!Failing

\* A save gives the host a credential nobody had, or none, and keeps its proxy, gives it
\* one nobody had, or none.
LEMMA Written ==
  ASSUME FormsTyped, Forms!Exists, NEW failing, NEW old \in Nat, old < next.proxy,
         proxies' = Forms!ProxiesAfter(failing, old), NEW d, d = Cardinality(proxies' \ proxies)
  PROVE  /\ Forms!NewCred(failing) \in {0, next.cred}
         /\ failing = {} => Forms!NewCred(failing) = next.cred
         /\ Forms!ProxyKept(failing, old) \in {0, old, next.proxy}
         /\ d \in {0, 1} /\ Forms!ProxyKept(failing, old) < next.proxy + d
         /\ proxies \subseteq proxies' /\ proxies' \subseteq 1..(next.proxy + d) - 1
<1> DEFINE p == Forms!ProxyKept(failing, old)
<1>1. next.proxy \in Nat \ {0} /\ proxies \subseteq 1..next.proxy - 1 /\ form.proxied \in BOOLEAN
  BY DEF FormsTyped, FormRecord
<1> HIDE DEF p
<1>2. /\ Forms!NewCred(failing) \in {0, next.cred}
      /\ failing = {} => Forms!NewCred(failing) = next.cred
  BY DEF Forms!NewCred, Forms!None
<1>3. CASE form.proxied /\ old = 0 /\ "proxy" \notin failing
  <2>1. proxies' = proxies \cup {next.proxy} /\ p = next.proxy
    BY <1>3 DEF p, Forms!ProxiesAfter, Forms!ProxyKept, Forms!None
  <2>2. proxies' \ proxies = {next.proxy}
    BY <1>1, <2>1
  <2>3. Cardinality(proxies' \ proxies) = 1
    BY <2>2, FS_Singleton
  <2>4. p \in {0, old, next.proxy} /\ d \in {0, 1} /\ p < next.proxy + d
    BY <1>1, <2>1, <2>3
  <2>5. proxies \subseteq proxies' /\ proxies' \subseteq 1..(next.proxy + d) - 1
    <3>1. d = 1
      BY <2>3
    <3>2. \A x \in proxies' : x \in 1..next.proxy
      BY <1>1, <2>1
    <3>3. (next.proxy + d) - 1 = next.proxy
      BY <1>1, <3>1
    <3> QED
      BY <2>1, <3>2, <3>3
  <2> QED
    BY <1>2, <2>4, <2>5 DEF p
<1>4. CASE ~(form.proxied /\ old = 0 /\ "proxy" \notin failing)
  <2>1. proxies' = proxies
    BY <1>4 DEF Forms!ProxiesAfter, Forms!None
  <2>2. p \in {0, old}
    BY <1>1, <1>4 DEF p, Forms!ProxyKept, Forms!None
  <2>3. Cardinality(proxies' \ proxies) = 0
    <3>1. proxies' \ proxies = {}
      BY <2>1
    <3> QED
      BY <3>1, FS_EmptySet
  <2>4. p \in {0, old, next.proxy} /\ d \in {0, 1} /\ p < next.proxy + d
    BY <1>1, <2>2, <2>3
  <2>5. proxies \subseteq proxies' /\ proxies' \subseteq 1..(next.proxy + d) - 1
    BY <1>1, <2>1, <2>3
  <2> QED
    BY <1>2, <2>4, <2>5 DEF p
<1> QED
  BY <1>3, <1>4

\* save_new_host_from_form
LEMMA SaveNewKeeps ==
  ASSUME HostsInv, NEW failing \in SUBSET {"credential", "proxy", "host"}, Forms!SaveNew(failing)
  PROVE  HostsInv'
<1> DEFINE c == Forms!NewCred(failing)
           p == Forms!ProxyKept(failing, 0)
           j == IF form.kind = SSH THEN form.jump ELSE 0
           row == [kind |-> form.kind, cred |-> c, proxy |-> p, jump |-> j]
           entry == [kind |-> form.kind, cred |-> c, proxy |-> p]
           put == "host" \notin failing /\ j \in DOMAIN hosts \cup {0} /\ p \in proxies' \cup {0}
           id == IF put THEN next.host ELSE 0
           d == Cardinality(proxies' \ proxies)
<1> USE DEF HostsInv
<1>1. /\ Forms!Exists /\ form.editing = -1 /\ next.host <= MaxSaves /\ next.cred <= MaxSaves
      /\ Forms!Failing(failing) /\ Forms!Closing
      /\ form' = [form EXCEPT !.active = FALSE]
      /\ creds' = creds \cup ({c} \ {0})
      /\ proxies' = Forms!ProxiesAfter(failing, 0)
      /\ hosts' = (IF put THEN Forms!WithRow(hosts, id, row) ELSE hosts)
      /\ list' = Forms!WithRow(list, id, entry)
      /\ next' = [host |-> next.host + (IF put THEN 1 ELSE 0), cred |-> next.cred + 1,
                  proxy |-> next.proxy + d]
      /\ marred' = IF put /\ failing # {} THEN marred \cup {id} ELSE marred
  BY SameCount DEF Forms!SaveNew, Forms!ForeignKeys, Forms!None, Forms!New
<1>2. /\ c \in {0, next.cred} /\ (failing = {} => c = next.cred) /\ p \in {0, next.proxy}
      /\ d \in {0, 1} /\ p < next.proxy + d
      /\ proxies \subseteq proxies' /\ proxies' \subseteq 1..(next.proxy + d) - 1
  <2>1. FormsTyped /\ 0 \in Nat /\ 0 < next.proxy
    BY DEF FormsTyped
  <2> QED
    BY <1>1, <2>1, Written
<1>3. formTimers' \in 0..MaxTimers /\ formFaults' \in 0..MaxFaults
  BY <1>1, ClosingTimers, FaultsCounted DEF FormsTyped
<1>4. /\ next.host \in 1..MaxSaves + 1 /\ next.cred \in 1..MaxSaves + 1 /\ next.proxy \in Nat \ {0}
      /\ next.proxy <= next.cred /\ form \in FormRecord /\ MaxSaves \in Nat
  BY <1>1, SettingsAssumption DEF FormsTyped, Forms!HostFormsAssumption
<1>5. id \in 0..MaxSaves /\ id \notin DOMAIN hosts /\ (put => id = next.host /\ id # 0 /\ id \notin DOMAIN list)
  BY <1>1, <1>4 DEF FormsTyped
<1> HIDE DEF c, p, d, HostsInv
<1>6. /\ DOMAIN hosts' = DOMAIN hosts \cup (IF put THEN {id} ELSE {})
      /\ \A h \in DOMAIN hosts : hosts'[h] = hosts[h]
      /\ put => hosts'[id] = row
  BY <1>1, <1>5 DEF Forms!WithRow
<1>7. /\ DOMAIN list' = DOMAIN list \cup {id}
      /\ \A h \in DOMAIN list : list'[h] = list[h]
      /\ id \notin DOMAIN list => list'[id] = entry
  BY <1>1 DEF Forms!WithRow
<1>8. /\ row \in [kind : Kinds, cred : Nat, proxy : Nat, jump : Nat]
      /\ entry \in [kind : Kinds, cred : Nat, proxy : Nat]
  BY <1>2, <1>4 DEF FormRecord
<1>9. FormsTyped'
  <2>1. /\ next' \in [host : 1..MaxSaves + 1, cred : 1..MaxSaves + 1, proxy : Nat \ {0}]
        /\ next'.proxy <= next'.cred
        /\ next'.host = next.host + (IF put THEN 1 ELSE 0) /\ next'.cred = next.cred + 1
        /\ next'.proxy = next.proxy + d
    BY <1>1, <1>2, <1>4
  <2>2. creds' \subseteq 1..next'.cred - 1 /\ proxies' \subseteq 1..next'.proxy - 1
    BY <1>1, <1>2, <1>4, <2>1 DEF HostsInv, FormsTyped
  <2>3. DOMAIN hosts' \subseteq 1..next'.host - 1 /\ DOMAIN list' \subseteq 0..next'.host - 1
    BY <1>4, <1>5, <1>6, <1>7, <2>1 DEF HostsInv, FormsTyped
  <2>4. ASSUME NEW h \in DOMAIN hosts'
        PROVE  /\ hosts'[h] \in [kind : Kinds, cred : Nat, proxy : Nat, jump : Nat] /\ Given(hosts[h])'
               /\ hosts'[h].jump \in DOMAIN hosts' \cup {0}
    <3>1. CASE h \in DOMAIN hosts
      BY <1>2, <1>4, <1>6, <2>1, <3>1 DEF HostsInv, FormsTyped, Given
    <3>2. CASE put /\ h = id
      BY <1>2, <1>4, <1>6, <1>8, <2>1, <3>2 DEF Given
    <3> QED
      BY <1>6, <3>1, <3>2
  <2>5. ASSUME NEW h \in DOMAIN list'
        PROVE  list'[h] \in [kind : Kinds, cred : Nat, proxy : Nat] /\ Given(list[h])'
    <3>1. CASE h \in DOMAIN list
      BY <1>2, <1>4, <1>7, <2>1, <3>1 DEF HostsInv, FormsTyped, Given
    <3>2. CASE h \notin DOMAIN list
      BY <1>2, <1>4, <1>7, <1>8, <2>1, <3>2 DEF Given
    <3> QED
      BY <3>1, <3>2
  <2>6. /\ form' \in FormRecord /\ form'.editing \in -1..next'.host - 1
        /\ form'.cred0 < next'.cred /\ form'.proxy0 < next'.proxy
    <3>1. /\ form' \in FormRecord /\ form'.editing = form.editing
          /\ form'.cred0 = form.cred0 /\ form'.proxy0 = form.proxy0
      BY <1>1, <1>4 DEF FormRecord
    <3>2. form.editing = -1 /\ form.cred0 \in Nat /\ form.proxy0 \in Nat /\ form.cred0 < next.cred /\ form.proxy0 < next.proxy
      BY <1>1, <1>4 DEF HostsInv, FormsTyped, FormRecord
    <3> QED
      BY <1>2, <1>4, <2>1, <3>1, <3>2
  <2>7. marred' \subseteq 0..MaxSaves
    BY <1>1, <1>5 DEF HostsInv, FormsTyped
  <2> QED
    BY <1>3, <2>1, <2>2, <2>3, <2>4, <2>5, <2>6, <2>7 DEF FormsTyped
<1>10. RowsApart'
  <2> SUFFICES ASSUME NEW g \in Whole'
               PROVE  /\ g \in DOMAIN list' /\ list'[g].cred = hosts'[g].cred /\ list'[g].proxy = hosts'[g].proxy
                      /\ hosts'[g].cred \in creds' /\ hosts'[g].proxy \in proxies' \cup {0}
                      /\ \A h \in DOMAIN hosts' \ {g} : ApartRows(hosts'[g], hosts'[h])
                      /\ \A h \in DOMAIN list' \ {g} : ApartRows(hosts'[g], list'[h])
    BY DEF RowsApart, ApartRows
  <2>1. CASE g \in DOMAIN hosts
    <3>1. g \in Whole
      BY <1>1, <2>1 DEF Whole
    <3>2. /\ g \in DOMAIN list /\ list[g].cred = hosts[g].cred /\ list[g].proxy = hosts[g].proxy
          /\ hosts[g].cred \in creds /\ hosts[g].proxy \in proxies \cup {0}
          /\ \A h \in DOMAIN hosts \ {g} : ApartRows(hosts[g], hosts[h])
          /\ \A h \in DOMAIN list \ {g} : ApartRows(hosts[g], list[h])
      BY <3>1 DEF HostsInv, RowsApart
    <3>3. hosts[g].cred # c /\ (hosts[g].proxy # p \/ hosts[g].proxy = 0)
      BY <1>2, <1>4, <3>2 DEF HostsInv, FormsTyped
    <3>4. ApartRows(hosts[g], row) /\ ApartRows(hosts[g], entry)
      BY <3>3 DEF ApartRows
    <3>5. \A h \in DOMAIN hosts' \ {g} : ApartRows(hosts'[g], hosts'[h])
      BY <1>6, <2>1, <3>2, <3>4
    <3>6. \A h \in DOMAIN list' \ {g} : ApartRows(hosts'[g], list'[h])
      BY <1>6, <1>7, <2>1, <3>2, <3>4
    <3> QED
      BY <1>1, <1>2, <1>6, <1>7, <2>1, <3>2, <3>5, <3>6
  <2>2. CASE g \notin DOMAIN hosts
    <3>1. put /\ g = id /\ failing = {} /\ c = next.cred /\ hosts'[g] = row /\ list'[g] = entry
      BY <1>1, <1>2, <1>5, <1>6, <1>7, <2>2 DEF Whole
    <3>2. \A h \in DOMAIN hosts : hosts[h].cred # c /\ (p # hosts[h].proxy \/ p = 0)
      BY <1>2, <1>4, <3>1 DEF HostsInv, FormsTyped, Given
    <3>3. \A h \in DOMAIN list : list[h].cred # c /\ (p # list[h].proxy \/ p = 0)
      BY <1>2, <1>4, <3>1 DEF HostsInv, FormsTyped, Given
    <3>4. \A h \in DOMAIN hosts' \ {g} : ApartRows(hosts'[g], hosts'[h])
      BY <1>6, <3>1, <3>2 DEF ApartRows
    <3>5. \A h \in DOMAIN list' \ {g} : ApartRows(hosts'[g], list'[h])
      BY <1>7, <3>1, <3>3 DEF ApartRows
    <3>6. c \in creds' /\ p \in proxies' \cup {0}
      BY <1>1, <1>4, <3>1
    <3> QED
      BY <1>7, <3>1, <3>4, <3>5, <3>6
  <2> QED
    BY <2>1, <2>2
<1>11. FormApart'
  <2>1. form'.editing = -1
    BY <1>1, <1>4 DEF FormRecord
  <2> QED
    BY <2>1 DEF FormApart
<1>12. NoCircle(hosts')
  <2>1. CASE put
    <3>1. Closed(hosts)
      BY DEF Closed, HostsInv, FormsTyped
    <3>2. \A h \in DOMAIN hosts : hosts'[h].jump = hosts[h].jump
      BY <1>6
    <3>3. hosts'[id].jump \in DOMAIN hosts \cup {0} /\ DOMAIN hosts' = DOMAIN hosts \cup {id}
      BY <1>6, <2>1
    <3> QED
      BY <1>4, <1>5, <2>1, <3>1, <3>2, <3>3, CircleAdd DEF HostsInv
  <2>2. CASE ~put
    BY <1>1, <2>2 DEF HostsInv
  <2> QED
    BY <2>1, <2>2
<1>13. NoCircle(hosts)'
  BY <1>12 DEF NoCircle, Reach, Walk, JumpIn
<1> QED
  BY <1>9, <1>10, <1>11, <1>13 DEF HostsInv

\* The callback of edit_host: the old credential goes, the proxy is another's only if the
\* form had it from another, and a chain that comes back to the host is not saved.
LEMMA SaveEditKeeps ==
  ASSUME HostsInv, NEW failing \in SUBSET {"credential", "proxy", "host"}, Forms!SaveEdit(failing)
  PROVE  HostsInv'
<1> DEFINE h == form.editing
           c == Forms!NewCred(failing)
           p == Forms!ProxyKept(failing, form.proxy0)
           j == IF form.kind = SSH /\ ~Forms!ChainReaches(form.jump, h) THEN form.jump ELSE 0
           row == [kind |-> form.kind, cred |-> c, proxy |-> p, jump |-> j]
           put == /\ "host" \notin failing
                  /\ h \in DOMAIN hosts => j \in DOMAIN hosts \cup {0} /\ p \in proxies' \cup {0}
           d == Cardinality(proxies' \ proxies)
<1> USE DEF HostsInv
<1>1. /\ Forms!Exists /\ h # -1 /\ next.cred <= MaxSaves
      /\ Forms!Failing(failing) /\ Forms!Closing
      /\ form' = [form EXCEPT !.active = FALSE]
      /\ creds' = (creds \ {form.cred0}) \cup ({c} \ {0})
      /\ proxies' = Forms!ProxiesAfter(failing, form.proxy0)
      /\ hosts' = (IF put /\ h \in DOMAIN hosts THEN [hosts EXCEPT ![h] = row] ELSE hosts)
      /\ list' = (IF put /\ h \in DOMAIN list THEN Forms!Relisted(h, c, p) ELSE list)
      /\ next' = [next EXCEPT !.cred = @ + 1, !.proxy = @ + d]
      /\ marred' = IF failing # {} \/ ~put THEN marred \cup {h} ELSE marred
  BY SameCount DEF Forms!SaveEdit, Forms!ForeignKeys, Forms!None, Forms!New
<1>2. /\ c \in {0, next.cred} /\ (failing = {} => c = next.cred)
      /\ p \in {0, form.proxy0, next.proxy}
      /\ d \in {0, 1} /\ p < next.proxy + d
      /\ proxies \subseteq proxies' /\ proxies' \subseteq 1..(next.proxy + d) - 1
  <2>1. FormsTyped /\ form.proxy0 \in Nat /\ form.proxy0 < next.proxy
    BY <1>1 DEF FormsTyped, FormRecord
  <2> QED
    BY <1>1, <2>1, Written
<1>3. formTimers' \in 0..MaxTimers /\ formFaults' \in 0..MaxFaults
  BY <1>1, ClosingTimers, FaultsCounted DEF FormsTyped
<1>4. /\ next.host \in 1..MaxSaves + 1 /\ next.cred \in 1..MaxSaves + 1 /\ next.proxy \in Nat \ {0}
      /\ next \in [host : 1..MaxSaves + 1, cred : 1..MaxSaves + 1, proxy : Nat \ {0}]
      /\ next.proxy <= next.cred /\ form \in FormRecord /\ MaxSaves \in Nat
      /\ form.editing \in -1..next.host - 1 /\ form.cred0 < next.cred /\ form.proxy0 < next.proxy
  BY <1>1, SettingsAssumption DEF FormsTyped, Forms!HostFormsAssumption
<1>5. h \in 0..MaxSaves
  BY <1>1, <1>4
<1>0. j = 0 \/ ~Reach(hosts, j, h)
  BY <1>4, ReachIs
<1> HIDE DEF c, p, d, HostsInv
<1>6. /\ DOMAIN hosts' = DOMAIN hosts
      /\ \A g \in DOMAIN hosts \ {h} : hosts'[g] = hosts[g]
      /\ h \in DOMAIN hosts /\ put => hosts'[h] = row
      /\ ~put => hosts' = hosts
  BY <1>1
<1>7. /\ DOMAIN list' = DOMAIN list
      /\ \A g \in DOMAIN list \ {h} : list'[g] = list[g]
      /\ ~put => list' = list
      /\ h \in DOMAIN list /\ put =>
            /\ list'[h] \in [kind : Kinds, cred : Nat, proxy : Nat]
            /\ list'[h].cred = c /\ list'[h].proxy = p
  <2>1. \A g \in DOMAIN list : list[g] \in [kind : Kinds, cred : Nat, proxy : Nat]
    BY DEF HostsInv, FormsTyped
  <2>2. c \in Nat /\ p \in Nat
    BY <1>2, <1>4 DEF FormRecord
  <2> QED
    BY <1>1, <2>1, <2>2 DEF Forms!Relisted
<1>8. /\ row \in [kind : Kinds, cred : Nat, proxy : Nat, jump : Nat]
      /\ row.cred = c /\ row.proxy = p /\ row.jump = j
  BY <1>2, <1>4 DEF FormRecord
<1>9. /\ form' \in FormRecord /\ form'.editing = h
      /\ form'.cred0 = form.cred0 /\ form'.proxy0 = form.proxy0
  BY <1>1, <1>4 DEF FormRecord
<1> HIDE DEF row
<1>10. FormsTyped'
  <2>1. /\ next' \in [host : 1..MaxSaves + 1, cred : 1..MaxSaves + 1, proxy : Nat \ {0}]
        /\ next'.proxy <= next'.cred
        /\ next'.host = next.host /\ next'.cred = next.cred + 1 /\ next'.proxy = next.proxy + d
    <3>1. next' = [host |-> next.host, cred |-> next.cred + 1, proxy |-> next.proxy + d]
      BY <1>1, <1>4
    <3> QED
      BY <1>1, <1>2, <1>4, <3>1
  <2>2. creds' \subseteq 1..next'.cred - 1 /\ proxies' \subseteq 1..next'.proxy - 1
    BY <1>1, <1>2, <1>4, <2>1 DEF HostsInv, FormsTyped
  <2>3. DOMAIN hosts' \subseteq 1..next'.host - 1 /\ DOMAIN list' \subseteq 0..next'.host - 1
    BY <1>6, <1>7, <2>1 DEF HostsInv, FormsTyped
  <2>4. ASSUME NEW g \in DOMAIN hosts'
        PROVE  /\ hosts'[g] \in [kind : Kinds, cred : Nat, proxy : Nat, jump : Nat] /\ Given(hosts[g])'
               /\ hosts'[g].jump \in DOMAIN hosts' \cup {0}
    <3>1. CASE hosts'[g] = hosts[g]
      BY <1>2, <1>4, <1>6, <2>1, <3>1 DEF HostsInv, FormsTyped, Given
    <3>2. CASE put /\ g = h
      BY <1>2, <1>4, <1>6, <1>8, <2>1, <3>2 DEF Given
    <3> QED
      BY <1>6, <3>1, <3>2
  <2>5. ASSUME NEW g \in DOMAIN list'
        PROVE  list'[g] \in [kind : Kinds, cred : Nat, proxy : Nat] /\ Given(list[g])'
    <3>1. CASE list'[g] = list[g]
      BY <1>2, <1>4, <1>7, <2>1, <3>1 DEF HostsInv, FormsTyped, Given
    <3>2. CASE put /\ g = h
      BY <1>2, <1>4, <1>7, <2>1, <3>2 DEF Given
    <3> QED
      BY <1>7, <3>1, <3>2
  <2>6. /\ form'.editing \in -1..next'.host - 1
        /\ form'.cred0 < next'.cred /\ form'.proxy0 < next'.proxy
    <3>1. form.cred0 \in Nat /\ form.proxy0 \in Nat
      BY <1>4 DEF FormRecord
    <3> QED
      BY <1>2, <1>4, <1>9, <2>1, <3>1
  <2>7. marred' \subseteq 0..MaxSaves
    BY <1>1, <1>5 DEF HostsInv, FormsTyped
  <2> QED
    BY <1>3, <1>9, <2>1, <2>2, <2>3, <2>4, <2>5, <2>6, <2>7 DEF FormsTyped
<1>11. Whole' \subseteq Whole /\ (h \in Whole' => put /\ failing = {})
  BY <1>1, <1>6 DEF Whole
<1>12. \A g \in Whole \ {h} : hosts[g].cred # form.cred0 /\ (hosts[g].proxy # form.proxy0 \/ form.proxy0 = 0)
  BY <1>1 DEF HostsInv, FormApart
<1>13. RowsApart'
  <2> SUFFICES ASSUME NEW g \in Whole'
               PROVE  /\ g \in DOMAIN list' /\ list'[g].cred = hosts'[g].cred /\ list'[g].proxy = hosts'[g].proxy
                      /\ hosts'[g].cred \in creds' /\ hosts'[g].proxy \in proxies' \cup {0}
                      /\ \A i \in DOMAIN hosts' \ {g} : ApartRows(hosts'[g], hosts'[i])
                      /\ \A i \in DOMAIN list' \ {g} : ApartRows(hosts'[g], list'[i])
    BY DEF RowsApart, ApartRows
  <2>0. /\ g \in Whole /\ g \in DOMAIN hosts
        /\ g \in DOMAIN list /\ list[g].cred = hosts[g].cred /\ list[g].proxy = hosts[g].proxy
        /\ hosts[g].cred \in creds /\ hosts[g].proxy \in proxies \cup {0}
        /\ \A i \in DOMAIN hosts \ {g} : ApartRows(hosts[g], hosts[i])
        /\ \A i \in DOMAIN list \ {g} : ApartRows(hosts[g], list[i])
    BY <1>11 DEF HostsInv, RowsApart, Whole
  <2>1. CASE g # h
    <3>1. hosts'[g] = hosts[g] /\ list'[g] = list[g]
      BY <1>6, <1>7, <2>0, <2>1
    <3>2. hosts[g].cred # c /\ (hosts[g].proxy # p \/ hosts[g].proxy = 0)
      <4>1. hosts[g].cred \in 1..next.cred - 1 /\ hosts[g].proxy \in 0..next.proxy - 1
        BY <1>4, <2>0 DEF HostsInv, FormsTyped
      <4>2. hosts[g].proxy # form.proxy0 \/ form.proxy0 = 0
        BY <1>12, <2>0, <2>1
      <4> QED
        BY <1>2, <1>4, <4>1, <4>2
    <3>3. ASSUME NEW x, x.cred = c, x.proxy = p PROVE ApartRows(hosts[g], x)
      BY <3>2, <3>3 DEF ApartRows
    <3>4. \A i \in DOMAIN hosts' \ {g} : ApartRows(hosts'[g], hosts'[i])
      <4> SUFFICES ASSUME NEW i \in DOMAIN hosts' \ {g} PROVE ApartRows(hosts[g], hosts'[i])
        BY <3>1
      <4>1. CASE i # h \/ ~put
        BY <1>6, <2>0, <4>1
      <4>2. CASE i = h /\ put
        BY <1>6, <1>8, <3>3, <4>2
      <4> QED
        BY <4>1, <4>2
    <3>5. \A i \in DOMAIN list' \ {g} : ApartRows(hosts'[g], list'[i])
      <4> SUFFICES ASSUME NEW i \in DOMAIN list' \ {g} PROVE ApartRows(hosts[g], list'[i])
        BY <3>1
      <4>1. CASE i # h \/ ~put
        BY <1>7, <2>0, <4>1
      <4>2. CASE i = h /\ put
        BY <1>7, <3>3, <4>2
      <4> QED
        BY <4>1, <4>2
    <3>6. hosts[g].cred \in creds'
      BY <1>1, <1>12, <2>0, <2>1
    <3> QED
      BY <1>2, <1>7, <2>0, <3>1, <3>4, <3>5, <3>6
  <2>2. CASE g = h
    <3>1. put /\ failing = {} /\ c = next.cred
      BY <1>2, <1>11, <2>2
    <3>2. hosts'[g] = row /\ hosts'[g].cred = c /\ hosts'[g].proxy = p
      BY <1>6, <1>8, <2>0, <2>2, <3>1
    <3>3. list'[g].cred = c /\ list'[g].proxy = p
      BY <1>7, <2>0, <2>2, <3>1
    <3>4. /\ \A i \in DOMAIN hosts : c # hosts[i].cred /\ hosts[i].proxy # next.proxy
          /\ \A i \in DOMAIN list : c # list[i].cred /\ list[i].proxy # next.proxy
      BY <1>4, <3>1 DEF HostsInv, FormsTyped, Given
    <3>5. form.proxy0 # 0 => /\ \A i \in DOMAIN hosts \ {h} : hosts[i].proxy # form.proxy0
                             /\ \A i \in DOMAIN list \ {h} : list[i].proxy # form.proxy0
      BY <1>1, <2>0, <2>2 DEF HostsInv, FormApart
    <3>6. \A i \in DOMAIN hosts' \ {g} : ApartRows(hosts'[g], hosts'[i])
      BY <1>2, <1>6, <2>2, <3>2, <3>4, <3>5 DEF ApartRows
    <3>7. \A i \in DOMAIN list' \ {g} : ApartRows(hosts'[g], list'[i])
      BY <1>2, <1>7, <2>2, <3>2, <3>4, <3>5 DEF ApartRows
    <3>8. c \in creds' /\ p \in proxies' \cup {0}
      BY <1>1, <1>4, <2>0, <2>2, <3>1
    <3> QED
      BY <1>7, <2>0, <3>2, <3>3, <3>6, <3>7, <3>8
  <2> QED
    BY <2>1, <2>2
<1>14. FormApart'
  <2>1. h \in Whole /\ form.proxy0 # 0 =>
          /\ \A i \in DOMAIN hosts \ {h} : hosts[i].proxy # form.proxy0
          /\ \A i \in DOMAIN list \ {h} : list[i].proxy # form.proxy0
    BY <1>1 DEF HostsInv, FormApart
  <2>2. \A g \in Whole' \ {h} : g \in DOMAIN hosts /\ hosts'[g] = hosts[g] /\ g \in Whole
    BY <1>6, <1>11 DEF Whole
  <2> QED
    BY <1>6, <1>7, <1>9, <1>11, <1>12, <2>1, <2>2 DEF FormApart
<1>15. NoCircle(hosts')
  <2>1. CASE put /\ h \in DOMAIN hosts
    <3>1. 0 \notin DOMAIN hosts /\ NoCircle(hosts)
      BY <1>4 DEF HostsInv, FormsTyped
    <3>2. hosts'[h].jump = j /\ \A g \in DOMAIN hosts \ {h} : hosts'[g].jump = hosts[g].jump
      BY <1>6, <1>8, <2>1
    <3> HIDE DEF j
    <3> QED
      BY <1>0, <1>4, <1>6, <2>1, <3>1, <3>2, CircleEdit
  <2>2. CASE ~(put /\ h \in DOMAIN hosts)
    BY <1>1, <2>2 DEF HostsInv
  <2> QED
    BY <2>1, <2>2
<1>16. NoCircle(hosts)'
  BY <1>15 DEF NoCircle, Reach, Walk, JumpIn
<1> QED
  BY <1>10, <1>13, <1>14, <1>16 DEF HostsInv

\* remove_host
LEMMA RemoveHostKeeps ==
  ASSUME HostsInv, NEW h, NEW failing \in SUBSET {"credential", "host"}, h \in 0..MaxSaves,
         Forms!RemoveHost(h, failing)
  PROVE  HostsInv'
<1> USE DEF HostsInv
<1>1. /\ h \in DOMAIN list /\ Forms!Failing(failing)
      /\ creds' = IF "credential" \in failing THEN creds ELSE creds \ {list[h].cred}
      /\ UNCHANGED <<proxies, form, formTimers, next>>
      /\ marred' = IF "host" \in failing THEN marred \cup {h} ELSE marred
  BY DEF Forms!RemoveHost
<1>2. /\ DOMAIN hosts' \subseteq DOMAIN hosts
      /\ "host" \notin failing => h \notin DOMAIN hosts'
      /\ \A g \in DOMAIN hosts' :
            /\ hosts'[g] \in [kind : Kinds, cred : Nat, proxy : Nat, jump : Nat]
            /\ hosts'[g].cred = hosts[g].cred /\ hosts'[g].proxy = hosts[g].proxy
            /\ hosts'[g].jump \in {hosts[g].jump, 0}
            /\ hosts'[g].jump \in DOMAIN hosts' \cup {0}
  <2>1. CASE "host" \in failing
    BY <2>1 DEF Forms!RemoveHost, FormsTyped
  <2>2. CASE "host" \notin failing
    <3>1. hosts' = [g \in DOMAIN hosts \ {h} |->
                      [hosts[g] EXCEPT !.jump = IF @ = h THEN 0 ELSE @]]
      BY <2>2 DEF Forms!RemoveHost, Forms!None
    <3>2. \A g \in DOMAIN hosts : /\ hosts[g] \in [kind : Kinds, cred : Nat, proxy : Nat, jump : Nat]
                                  /\ hosts[g].jump \in DOMAIN hosts \cup {0}
      BY DEF FormsTyped
    <3>3. DOMAIN hosts' = DOMAIN hosts \ {h}
      BY <3>1
    <3>4. ASSUME NEW g \in DOMAIN hosts'
          PROVE  /\ hosts'[g] \in [kind : Kinds, cred : Nat, proxy : Nat, jump : Nat]
                 /\ hosts'[g].cred = hosts[g].cred /\ hosts'[g].proxy = hosts[g].proxy
                 /\ hosts'[g].jump = (IF hosts[g].jump = h THEN 0 ELSE hosts[g].jump)
      BY <3>1, <3>2, <3>3
    <3> QED
      BY <2>2, <3>2, <3>3, <3>4
  <2> QED
    BY <2>1, <2>2
<1>3. DOMAIN list' = DOMAIN list \ {h} /\ \A g \in DOMAIN list' : list'[g] = list[g]
  BY DEF Forms!RemoveHost, Forms!Without, Forms!Restrict
<1>4. formFaults' \in 0..MaxFaults
  <2>1. failing \in SUBSET {"credential", "proxy", "host"} /\ FormsTyped
    OBVIOUS
  <2> QED
    BY <1>1, <2>1, FaultsCounted
<1> HIDE DEF HostsInv
<1>5. FormsTyped'
  <2>1. creds' \subseteq 1..next'.cred - 1 /\ proxies' \subseteq 1..next'.proxy - 1
    BY <1>1 DEF HostsInv, FormsTyped
  <2>2. DOMAIN hosts' \subseteq 1..next'.host - 1 /\ DOMAIN list' \subseteq 0..next'.host - 1
    BY <1>1, <1>2, <1>3 DEF HostsInv, FormsTyped
  <2>3. \A g \in DOMAIN hosts' :
          /\ hosts'[g] \in [kind : Kinds, cred : Nat, proxy : Nat, jump : Nat] /\ Given(hosts[g])'
          /\ hosts'[g].jump \in DOMAIN hosts' \cup {0}
    BY <1>1, <1>2 DEF HostsInv, FormsTyped, Given
  <2>4. \A g \in DOMAIN list' : list'[g] \in [kind : Kinds, cred : Nat, proxy : Nat] /\ Given(list[g])'
    BY <1>1, <1>3 DEF HostsInv, FormsTyped, Given
  <2>5. marred' \subseteq 0..MaxSaves
    BY <1>1 DEF HostsInv, FormsTyped
  <2> QED
    BY <1>1, <1>4, <2>1, <2>2, <2>3, <2>4, <2>5 DEF HostsInv, FormsTyped, Forms!Exists
<1>6. /\ Whole' \subseteq Whole \ {h}
      /\ \A g \in Whole' : g \in DOMAIN hosts'
  BY <1>1, <1>2 DEF Whole
<1>7. RowsApart'
  <2> SUFFICES ASSUME NEW g \in Whole'
               PROVE  /\ g \in DOMAIN list' /\ list'[g].cred = hosts'[g].cred /\ list'[g].proxy = hosts'[g].proxy
                      /\ hosts'[g].cred \in creds' /\ hosts'[g].proxy \in proxies' \cup {0}
                      /\ \A i \in DOMAIN hosts' \ {g} : ApartRows(hosts'[g], hosts'[i])
                      /\ \A i \in DOMAIN list' \ {g} : ApartRows(hosts'[g], list'[i])
    BY DEF RowsApart, ApartRows
  <2>1. /\ g \in Whole /\ g # h /\ g \in DOMAIN hosts'
        /\ g \in DOMAIN list /\ list[g].cred = hosts[g].cred /\ list[g].proxy = hosts[g].proxy
        /\ hosts[g].cred \in creds /\ hosts[g].proxy \in proxies \cup {0}
        /\ \A i \in DOMAIN hosts \ {g} : ApartRows(hosts[g], hosts[i])
        /\ \A i \in DOMAIN list \ {g} : ApartRows(hosts[g], list[i])
    BY <1>6 DEF HostsInv, RowsApart
  <2>2. hosts[g].cred # list[h].cred
    BY <1>1, <2>1 DEF ApartRows
  <2>3. hosts'[g].cred = hosts[g].cred /\ hosts'[g].proxy = hosts[g].proxy /\ list'[g] = list[g] /\ g \in DOMAIN list'
    BY <1>2, <1>3, <2>1
  <2>4. \A i \in DOMAIN hosts' \ {g} : ApartRows(hosts'[g], hosts'[i])
    BY <1>2, <2>1, <2>3 DEF ApartRows
  <2>5. \A i \in DOMAIN list' \ {g} : ApartRows(hosts'[g], list'[i])
    BY <1>3, <2>1, <2>3 DEF ApartRows
  <2> QED
    BY <1>1, <2>1, <2>2, <2>3, <2>4, <2>5
<1>8. FormApart'
  <2>1. \A g \in Whole' : hosts'[g].cred = hosts[g].cred /\ hosts'[g].proxy = hosts[g].proxy
    BY <1>2, <1>6
  <2>2. \A g \in DOMAIN hosts' : g \in DOMAIN hosts /\ hosts'[g].proxy = hosts[g].proxy
    BY <1>2
  <2>3. \A g \in DOMAIN list' : g \in DOMAIN list /\ list'[g].proxy = list[g].proxy
    BY <1>3
  <2> QED
    BY <1>1, <1>6, <2>1, <2>2, <2>3 DEF HostsInv, FormApart, Forms!Exists
<1>9. NoCircle(hosts')
  <2>1. MaxSaves \in Nat /\ 0 \notin DOMAIN hosts /\ NoCircle(hosts)
    BY SettingsAssumption DEF HostsInv, FormsTyped, Forms!HostFormsAssumption
  <2> QED
    BY <1>2, <2>1, CircleCut
<1>10. NoCircle(hosts)'
  BY <1>9 DEF NoCircle, Reach, Walk, JumpIn
<1> QED
  BY <1>5, <1>7, <1>8, <1>10 DEF HostsInv

LEMMA HostsStep == HostsInv /\ [Forms!Next]_hostVars => HostsInv'
<1> SUFFICES ASSUME HostsInv, [Forms!Next]_hostVars PROVE HostsInv'
  OBVIOUS
<1>1. CASE UNCHANGED hostVars
  <2> USE <1>1 DEF hostVars, HostsInv
  <2>1. FormsTyped'
    BY DEF FormsTyped, Given, Forms!Exists
  <2>2. RowsApart' /\ FormApart'
    BY DEF RowsApart, FormApart, Whole, ApartRows, Forms!Exists
  <2>3. NoCircle(hosts)'
    BY DEF NoCircle, Reach, Walk, JumpIn
  <2> QED
    BY <2>1, <2>2, <2>3
<1>2. CASE Forms!Next
  BY <1>2, HostFormSteps, ReloadKeeps, SaveNewKeeps, SaveEditKeeps, RemoveHostKeeps DEF Forms!Next
<1> QED
  BY <1>1, <1>2

\* Whole hosts are held, listed and dialled as they are saved, and no chain has a circle.
LEMMA HostsHeld == HostsInv => SavedHostsSound
<1> SUFFICES ASSUME HostsInv PROVE SavedHostsSound
  OBVIOUS
<1> USE DEF HostsInv
<1>1. Forms!JumpsEnd
  <2>1. MaxSaves \in Nat
    BY SettingsAssumption DEF Forms!HostFormsAssumption
  <2> QED
    BY <2>1, ReachIs DEF NoCircle, Forms!JumpsEnd
<1>2. Forms!RowsHeld
  BY DEF Forms!RowsHeld, RowsApart, ApartRows, Whole, Forms!None
<1>3. Forms!DialsAsSaved
  BY DEF Forms!DialsAsSaved, Forms!Dials, Forms!Cred, Forms!Proxy, RowsApart, Whole, Forms!None
<1> QED
  BY <1>1, <1>2, <1>3 DEF SavedHostsSound, Forms!HostsSound

LEMMA HostsTyped == HostsInv => Forms!TypeOK
<1> SUFFICES ASSUME HostsInv PROVE Forms!TypeOK
  OBVIOUS
<1>1. FormsTyped /\ MaxSaves \in Nat
  BY SettingsAssumption DEF HostsInv, Forms!HostFormsAssumption
<1>2. /\ next.host \in 1..MaxSaves + 1 /\ next.cred \in 1..MaxSaves + 1 /\ next.proxy \in Nat \ {0}
      /\ next.proxy <= next.cred
  BY <1>1 DEF FormsTyped
<1>3. ASSUME NEW h \in DOMAIN hosts PROVE hosts[h] \in Forms!Row /\ h \in Forms!Ids
  BY <1>1, <1>2 DEF FormsTyped, Given, Forms!Row, Forms!Ids
<1>4. creds \subseteq Forms!Ids /\ proxies \subseteq Forms!Ids /\ DOMAIN list \subseteq 0..MaxSaves
  BY <1>1, <1>2 DEF FormsTyped, Forms!Ids
<1> QED
  BY <1>1, <1>3, <1>4 DEF FormsTyped, Forms!TypeOK

-----------------------------------------------------------------------------
(* All of them.  Only what is at work moves.                               *)

PagesInv == IInv /\ KeysInv /\ AiInv /\ LookInv /\ BooksInv /\ HostsInv

LEMMA PagesInit == MCInit => PagesInv
  BY InvInit, KeysInit, AiInit, LookInit, BooksTypeInit, BooksKeptInit, FormsStart,
     SettingsAssumption
     DEF MCInit, PagesInv, BooksInv

LEMMA OneAtATime ==
  ASSUME [MCNext]_<<kept, vars, pageVars>>
  PROVE  /\ [Next]_vars /\ [Shortcuts!Next]_keyVars /\ [Providers!Next]_aiVars
         /\ [Look!Next]_lookVars /\ [Books!Next]_bookVars /\ [Forms!Next]_hostVars
  BY DEF MCNext, pageVars

LEMMA PagesStep == PagesInv /\ [MCNext]_<<kept, vars, pageVars>> => PagesInv'
<1> SUFFICES ASSUME PagesInv, [MCNext]_<<kept, vars, pageVars>> PROVE PagesInv'
  OBVIOUS
<1> USE SettingsAssumption DEF PagesInv
<1>1. IInv'
  BY OneAtATime, NextKeepsInv
<1>2. KeysInv'
  BY OneAtATime, KeysStep DEF keyVars, Shortcuts!vars
<1>3. AiInv'
  BY OneAtATime, AiStep DEF aiVars, Providers!vars
<1>4. LookInv'
  BY OneAtATime, LookStep DEF lookVars, Look!vars
<1>5. BooksInv'
  BY OneAtATime, BooksTypeStep, BooksNext DEF bookVars, Books!vars, BooksInv
<1>6. HostsInv'
  BY OneAtATime, HostsStep
<1> QED
  BY <1>1, <1>2, <1>3, <1>4, <1>5, <1>6

LEMMA PagesKept == MCSpec => []PagesInv
  BY PagesInit, PagesStep, PTL DEF MCSpec

\* Two actions have one shortcut only when the user cleared one of them: no recording,
\* reset, failed save or restart lets two actions answer to one stroke (settings.rs and
\* keybinds.rs: keybind_conflict, set_binding, apply).
THEOREM NoClashUnseen == MCSpec => []ClashOnlyByClearing
<1>1. PagesInv => ClashOnlyByClearing
  BY DEF PagesInv, KeysInv, Apart, ClashOnlyByClearing, Shortcuts!ClashOnlyByClearing,
         Shortcuts!Clash, Shortcuts!Apply
<1> QED
  BY <1>1, PagesKept, PTL

\* A stored key belongs to an entry of the configuration, or to one that a restart forgot
\* or whose key could not be deleted: no field left open, failed save or restart leaves
\* another behind (settings.rs: ai_remove_provider).
THEOREM EveryKeyHasItsEntry == MCSpec => []KeysOwned
<1>1. PagesInv => KeysOwned
  BY DEF PagesInv, AiInv, KeysOwned
<1> QED
  BY <1>1, PagesKept, PTL

\* Without an open editor, what is drawn is the theme of the configuration: every preview
\* ends with its editor, however it is closed, and with a restart (theme_editor.rs).
THEOREM PreviewsEnd == MCSpec => []PreviewEnds
<1>1. PagesInv => PreviewEnds
  BY DEF PagesInv, LookInv, PreviewEnds
<1> QED
  BY <1>1, PagesKept, PTL

\* Whatever is saved, starred, grouped, refused or half removed, with whatever form left
\* open, the pages show every item and the registry has the store's tunnels as they are
\* (tunnels.rs, snippets.rs and groups.rs of the app; the store's foreign keys).  And a
\* toast that runs out has its timer, a dismissed one its clean-up, and time dismisses it
\* only once its last timer has run (notification.rs show, begin_dismiss_slot,
\* schedule_cleanup, reset_auto_dismiss).
THEOREM PagesLoseNothing == MCSpec => []PagesTrue
<1>1. PagesInv => PagesTrue
  BY NoneIsLost, SettingsAssumption
     DEF PagesInv, IInv, BooksInv, BooksKept, PagesTrue, Books!LibrarySound, ToastsSound
<1> QED
  BY <1>1, PagesKept, PTL

\* However hosts are created, cloned, edited, removed and reloaded, with
\* forms that outlive their closing and writes that fail: a host whose writes went through
\* has its credential and its proxy to itself, is listed and would be dialled as it is
\* saved, and no chain of jumps comes back to a host it left (connection.rs
\* save_new_host_from_form, upsert_proxy_for_host, jump_would_cycle; hosts.rs of the app
\* and of the store).
THEOREM HostsDialAsSaved == MCSpec => []SavedHostsSound
<1>1. PagesInv => SavedHostsSound
  BY HostsHeld DEF PagesInv
<1> QED
  BY <1>1, PagesKept, PTL

\* Toasts, libraries and saved hosts keep their types: no more than MAX_NOTIFICATIONS
\* toasts, rows and groups as the store's tables declare them.
THEOREM TypeCorrect == MCSpec => [](TypeOK /\ Books!TypeOK /\ Forms!TypeOK)
<1>1. PagesInv => TypeOK /\ Books!TypeOK /\ Forms!TypeOK
  BY HostsTyped DEF PagesInv, IInv, BooksInv
<1> QED
  BY <1>1, PagesKept, PTL
=============================================================================
