------------------------------- MODULE Keybinds -------------------------------
(***************************************************************************)
(* Keyboard shortcuts: the catalog's defaults, the overrides of the        *)
(* configuration, what is registered with GPUI, and the settings page that *)
(* records a new keystroke.  Sources: crabport-ui keybinds.rs,             *)
(* windows/settings.rs (render_keybinds_pane, on_key_recording) and        *)
(* crabport-core config.rs (KeybindConfig, update, save).                  *)
(*                                                                         *)
(* A change of the configuration alters the memory first and the file      *)
(* after it, through a temporary file; the write may fail, and the program *)
(* may end at any time.                                                    *)
(***************************************************************************)
EXTENDS Naturals, Functions

CONSTANTS Actions,       \* the catalog
          Configurable,  \* those the page shows
          Strokes,       \* keystrokes that can be recorded
          Default,       \* default_keystroke of each action, or Unbound
          Unbound,       \* the empty string
          MaxFaults      \* bound: saves that fail

KeybindsAssumption ==
  /\ Configurable \subseteq Actions /\ Unbound \notin Strokes
  /\ Default \in [Actions -> Strokes \cup {Unbound}]
  /\ \A a, b \in Actions : a # b /\ Default[a] # Unbound => Default[a] # Default[b]
  /\ MaxFaults \in Nat

VARIABLES bindings,   \* KeybindConfig::bindings in memory
          saved,      \* the same in config.toml
          registered, \* what GPUI dispatches, per action
          fieldKeys,  \* whether the keys of text fields (backspace, enter...) are registered
          page,       \* the settings window's keybinds page
          faults

vars == <<bindings, saved, registered, fieldKeys, page, faults>>

Closed == [open |-> FALSE]
NotRecording == [open |-> TRUE, recording |-> FALSE]
Recording(a) == [open |-> TRUE, recording |-> TRUE, action |-> a]

\* resolve_keystroke: an override, unless it is empty, and the default otherwise.
Resolve(over, a) ==
  IF a \in DOMAIN over /\ over[a] # Unbound THEN over[a] ELSE Default[a]

\* apply_bindings: everything is registered anew; nothing for an empty keystroke.
Apply(over) == [a \in {b \in Actions : Resolve(over, b) # Unbound} |-> Resolve(over, a)]

\* Mutant of Conflict: only what has been changed is looked at.
ConflictAmongChanged(over, a, k) == \E b \in DOMAIN over \ {a} : over[b] = k

\* find_conflict
Conflict(over, a, k) == \E b \in Actions \ {a} : Resolve(over, b) = k

Init ==
  /\ bindings = << >> /\ saved = << >> /\ faults = 0
  /\ registered = Apply(<< >>) /\ fieldKeys = TRUE /\ page = Closed

\* config::update and apply_bindings: the memory keeps what could not be saved, and the
\* whole keymap is cleared before the catalog's shortcuts are registered again.
Update(over) ==
  /\ bindings' = over
  /\ \/ saved' = over /\ UNCHANGED faults
     \/ saved' = saved /\ faults < MaxFaults /\ faults' = faults + 1
  /\ registered' = Apply(over) /\ fieldKeys' = FALSE
With(a, k) == [b \in DOMAIN bindings \cup {a} |-> IF b = a THEN k ELSE bindings[b]]

OpenPage == ~page.open /\ page' = NotRecording /\ UNCHANGED <<bindings, saved, registered, fieldKeys, faults>>
ClosePage == page.open /\ page' = Closed /\ UNCHANGED <<bindings, saved, registered, fieldKeys, faults>>

\* Left click on a chip.
ToggleRecording(a) ==
  /\ page.open
  /\ page' = IF page = Recording(a) THEN NotRecording ELSE Recording(a)
  /\ UNCHANGED <<bindings, saved, registered, fieldKeys, faults>>

\* on_key_recording: Escape, or a key that is no shortcut or somebody else's.
Escape ==
  /\ page.open /\ page.recording /\ page' = NotRecording
  /\ UNCHANGED <<bindings, saved, registered, fieldKeys, faults>>

Record(k) ==
  /\ page.open /\ page.recording
  /\ ~Conflict(bindings, page.action, k)
  /\ Update(With(page.action, k))
  /\ page' = NotRecording

\* Right click on a chip.
ClearBinding(a) ==
  /\ page.open
  /\ Update(With(a, Unbound))
  /\ page' = NotRecording

ResetAll ==
  /\ page.open
  /\ Update(<< >>)
  /\ page' = NotRecording

\* The program ends, at the latest before a rename, and starts with what the file holds;
\* main initialises gpui_component after the shortcuts.
Restart ==
  /\ bindings' = saved /\ registered' = Apply(saved) /\ fieldKeys' = TRUE /\ page' = Closed
  /\ UNCHANGED <<saved, faults>>

Next ==
  \/ OpenPage \/ ClosePage \/ Escape \/ ResetAll \/ Restart
  \/ \E a \in Configurable : ToggleRecording(a) \/ ClearBinding(a)
  \/ \E k \in Strokes : Record(k)

Spec == Init /\ [][Next]_vars

-----------------------------------------------------------------------------
\* Every variable stays in its type.
TypeOK ==
  /\ DOMAIN bindings \subseteq Configurable /\ DOMAIN saved \subseteq Configurable
  /\ \A a \in DOMAIN bindings : bindings[a] \in Strokes \cup {Unbound}
  /\ DOMAIN registered \subseteq Actions /\ fieldKeys \in BOOLEAN /\ faults \in 0..MaxFaults

Clash(a, b) ==
  a # b /\ {a, b} \subseteq DOMAIN registered /\ registered[a] = registered[b]

\* Two actions come to share a keystroke only through one that was "cleared" and fell
\* back to its default, across any changes, failed saves and restarts: the check made
\* when a key is recorded sees the shortcuts as they are dispatched (keybinds.rs
\* find_conflict).
ClashOnlyByClearing ==
  \A a, b \in Actions :
    Clash(a, b) => \E c \in {a, b} : c \in DOMAIN bindings /\ bindings[c] = Unbound

\* "An empty `keystroke` string disables the binding" (keybinds.rs:154, config.rs:296).  It does
\* not: an empty override resolves to the default, so a shortcut that was cleared goes on
\* working, even if its default has meanwhile been given to another action.
ClearDisables ==
  \A a \in DOMAIN bindings : bindings[a] = Unbound => a \notin DOMAIN registered

\* Text fields can be edited: "apply_bindings calls cx.clear_key_bindings(), which wipes the
\* entire keymap - including any bindings that gpui-component registered earlier [...]
\* without this, Backspace does nothing" (main.rs:128-137), which is why main calls it
\* first.  set_binding and the resets call it again, and nothing registers those again.
FieldsEditable == fieldKeys
=============================================================================
