------------------------------ MODULE AiProviders ------------------------------
(***************************************************************************)
(* The assistant's providers: the entries of the configuration and its     *)
(* pointer to the one in use, the keys stored apart from them, the         *)
(* settings page that edits both, and the model picker of an AI panel,     *)
(* which fetches each endpoint's list of models.  Sources: crabport-core   *)
(* config.rs and store/ai.rs, crabport-ui ai.rs, windows/settings.rs (AI   *)
(* pages) and views/panel/ai.rs (set_state, fetch_models, the picker).     *)
(*                                                                         *)
(* Every keystroke of a field is saved at once.  A change of the           *)
(* configuration stays in memory when it could not be written; keys are    *)
(* rows of the store under the id of their entry, or of the entry that     *)
(* lends its key.  A model is named by the endpoint whose list it is from. *)
(***************************************************************************)
EXTENDS Naturals, Functions

CONSTANTS Builtin,    \* entries the product seeds, never removed
          Main,       \* the first of them
          Lender,     \* whose key a built-in entry uses
          Endpoint,   \* base URL of the built-in entries
          Urls,       \* base URLs a user types
          Blank,      \* the empty base URL, the model not chosen
          MaxAdds,    \* bound: providers added
          MaxFaults   \* bound: writes that fail

AiProvidersAssumption ==
  /\ Main \in Builtin /\ Lender \in [Builtin -> Builtin]
  /\ DOMAIN Endpoint = Builtin /\ Blank \notin Urls
  /\ {MaxAdds, MaxFaults} \subseteq Nat

VARIABLES cfg,     \* [ai] in memory
          saved,   \* [ai] in config.toml
          keys,    \* ai_secrets: whether the key stored under an id is more than blank
          inputs,  \* entries the settings window has fields for; NoWindow
          panel,   \* an AI panel's lists of models
          next,    \* providers added so far
          lost,    \* entries a restart forgot, or whose key could not be deleted
          faults

vars == <<cfg, saved, keys, inputs, panel, next, lost, faults>>

NoWindow == {Blank}
NewPanel == [attempts |-> {}, fetches |-> {}, lists |-> << >>, items |-> {}]
Fresh == [urls |-> Endpoint, active |-> Main, model |-> Blank, enabled |-> TRUE]

Init ==
  /\ cfg = Fresh /\ saved = Fresh /\ keys = << >>
  /\ inputs = NoWindow /\ panel = NewPanel
  /\ next = 0 /\ lost = {} /\ faults = 0

Ids == DOMAIN cfg.urls
KeyOf(id) == IF id \in Builtin THEN Lender[id] ELSE id
Active == IF cfg.active \in Ids THEN cfg.active ELSE Main
Keyed(id) == KeyOf(id) \in DOMAIN keys /\ keys[KeyOf(id)]
Usable(id) == cfg.urls[id] # Blank /\ Keyed(id)
Without(f, id) == Restrict(f, DOMAIN f \ {id})
Put(f, id, v) == [i \in DOMAIN f \cup {id} |-> IF i = id THEN v ELSE f[i]]

Fault == faults < MaxFaults /\ faults' = faults + 1

\* config::update
Update(new) ==
  /\ cfg' = new
  /\ \/ saved' = new /\ UNCHANGED faults
     \/ saved' = saved /\ Fault

-----------------------------------------------------------------------------
(* The settings window.                                                    *)

Shown == inputs \cap Ids

\* SettingsWindow::new, ai_entry_inputs
OpenWindow ==
  /\ inputs = NoWindow /\ inputs' = Ids
  /\ UNCHANGED <<cfg, saved, keys, panel, next, lost, faults>>

CloseWindow ==
  /\ inputs # NoWindow /\ inputs' = NoWindow
  /\ UNCHANGED <<cfg, saved, keys, panel, next, lost, faults>>

\* ai_add_provider: the id is the time, so it is new.
Add ==
  /\ inputs # NoWindow /\ next < MaxAdds
  /\ next' = next + 1 /\ inputs' = inputs \cup {next'}
  /\ Update([cfg EXCEPT !.urls = Put(@, next', Blank)])
  /\ UNCHANGED <<keys, panel, lost>>

EditUrl(id, u) ==
  /\ id \in Shown \ Builtin
  /\ Update([cfg EXCEPT !.urls[id] = u])
  /\ UNCHANGED <<keys, inputs, panel, next, lost>>

\* The field of an entry that borrows its key is not drawn.
EditKey(id, more) ==
  /\ id \in Shown /\ KeyOf(id) = id
  /\ \/ keys' = Put(keys, id, more) /\ UNCHANGED faults
     \/ keys' = keys /\ Fault
  /\ UNCHANGED <<cfg, saved, inputs, panel, next, lost>>

\* Mutant of Removed: the key outlives its entry.
RemovedKeepsKey(id) == keys

\* delete_ai_api_key
Removed(id) == Without(keys, id)

\* ai_remove_provider: the configuration first, then the key; the model stays.
Remove(id) ==
  /\ id \in Shown \ Builtin
  /\ inputs' = inputs \ {id}
  /\ cfg' = [cfg EXCEPT !.urls = Without(@, id)]
  /\ \/ saved' = cfg' /\ keys' = Removed(id) /\ UNCHANGED <<lost, faults>>
     \/ saved' = saved /\ keys' = Removed(id) /\ Fault /\ UNCHANGED lost
     \/ saved' = cfg' /\ keys' = keys /\ Fault /\ lost' = lost \cup {id}
  /\ UNCHANGED <<panel, next>>

SetEnabled(b) ==
  /\ inputs # NoWindow
  /\ Update([cfg EXCEPT !.enabled = b])
  /\ UNCHANGED <<keys, inputs, panel, next, lost>>

-----------------------------------------------------------------------------
(* The panel.                                                              *)

\* set_state and render: every endpoint is tried once, which is no more than a mark
\* when there is no key yet; and the rows of the picker are drawn.
Attempts == {<<id, cfg.urls[id]>> : id \in {i \in Ids : cfg.urls[i] # Blank}}
Items(lists) ==
  {<<id, lists[id]>> : id \in DOMAIN lists \cap Ids}
    \cup {<<id, cfg.model>> : id \in {i \in {Active} \ DOMAIN lists : cfg.model # Blank}}

Frame ==
  /\ cfg.enabled
  /\ panel' = [panel EXCEPT
       !.attempts = @ \cup Attempts,
       !.fetches = @ \cup {a \in Attempts \ panel.attempts : Usable(a[1])},
       !.items = Items(panel.lists)]
  /\ UNCHANGED <<cfg, saved, keys, inputs, next, lost, faults>>

\* fetch_models returns: its list is stored under the entry's id.
FetchLands(f) ==
  /\ f \in panel.fetches
  /\ \/ panel' = [panel EXCEPT !.fetches = @ \ {f}, !.lists = Put(@, f[1], f[2])]
     \/ panel' = [panel EXCEPT !.fetches = @ \ {f}]
  /\ UNCHANGED <<cfg, saved, keys, inputs, next, lost, faults>>

\* A row of the picker, as it was last drawn.
Pick(item) ==
  /\ item \in panel.items
  /\ Update([cfg EXCEPT !.active = item[1], !.model = item[2]])
  /\ UNCHANGED <<keys, inputs, panel, next, lost>>

\* Another terminal's panel.
OpenPanel ==
  /\ panel # NewPanel /\ panel' = NewPanel
  /\ UNCHANGED <<cfg, saved, keys, inputs, next, lost, faults>>

\* load and normalize: the built-in entries are as the product defines them.
Normalized(c) ==
  [c EXCEPT !.urls = [i \in Builtin \cup DOMAIN @ |-> IF i \in Builtin THEN Endpoint[i] ELSE @[i]]]
Restart ==
  /\ cfg' = Normalized(saved)
  /\ lost' = lost \cup (Ids \ DOMAIN saved.urls)
  /\ inputs' = NoWindow /\ panel' = NewPanel
  /\ UNCHANGED <<saved, keys, next, faults>>

Next ==
  \/ OpenWindow \/ CloseWindow \/ Add \/ Frame \/ OpenPanel \/ Restart
  \/ \E b \in BOOLEAN : SetEnabled(b)
  \/ \E id \in Builtin \cup 1..MaxAdds :
        \/ \E u \in Urls \cup {Blank} : EditUrl(id, u)
        \/ \E more \in BOOLEAN : EditKey(id, more)
        \/ Remove(id)
        \/ \E u \in Urls \cup Range(Endpoint) : FetchLands(<<id, u>>) \/ Pick(<<id, u>>)

Spec == Init /\ [][Next]_vars

-----------------------------------------------------------------------------
\* Every variable stays in its type.
TypeOK ==
  /\ Builtin \subseteq Ids /\ Ids \subseteq Builtin \cup 1..MaxAdds
  /\ DOMAIN keys \subseteq Builtin \cup 1..MaxAdds
  /\ next \in 0..MaxAdds /\ faults \in 0..MaxFaults /\ {cfg.enabled} \subseteq BOOLEAN

\* A stored key belongs to an entry of the configuration: neither a field left open, a
\* failed save nor a restart leaves the key of a removed provider behind (settings.rs
\* ai_remove_provider: "delete its stored API key so it doesn't linger on disk"), but for
\* an entry that could not be saved before a restart, or a key that could not be deleted.
KeysOwned == DOMAIN keys \subseteq {KeyOf(id) : id \in Ids} \cup lost

\* A turn is sent to the active entry's endpoint with a model that endpoint has listed:
\* "[`Self::model`] persists the model selected for the active entry and is
\* validated/reset by the UI when the provider changes" (config.rs:999-1000).  It is not:
\* removing the active provider, or editing its URL, leaves the model as it was.
ModelFits ==
  cfg.enabled /\ cfg.model # Blank /\ Usable(Active) => cfg.model = cfg.urls[Active]

\* Once nothing is being fetched the picker offers, for an entry, what its present endpoint
\* has: "editing an endpoint's URL produces a new key and re-fetches" (ai.rs:29-30).  It
\* does not: a URL typed again is not fetched again, and answers come in any order.
ListFollowsEndpoint ==
  panel.fetches = {} /\ Attempts \subseteq panel.attempts =>
    \A id \in DOMAIN panel.lists \cap Ids :
      cfg.urls[id] # Blank => panel.lists[id] = cfg.urls[id]
=============================================================================
