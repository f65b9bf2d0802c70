----------------------------- MODULE MCSettings -----------------------------
(***************************************************************************)
(* What the user keeps: saved hosts written by the connection form or      *)
(* imported from ssh_config, saved tunnels and snippets, key bindings, AI  *)
(* providers, the look of the program; and the toasts that say how it      *)
(* went.  One of them in each behaviour.                                   *)
(***************************************************************************)
EXTENDS Notifications, Sequences, TLC

CONSTANTS
    MaxFaults, MaxTimers,                                  \* of most of them
    Kinds, SSH, MaxSaves,                                  \* of HostForms
    LocalUser, NoId, MaxId,                                \* of SshImport
    Actions, Configurable, Strokes, Default, Unbound,      \* of Keybinds
    Builtin, Main, Lender, Endpoint, Urls, NoUrl, MaxAdds, \* of AiProviders
    Themes, Fallback, Customs, Palettes, Files, Locales,   \* of Appearance
    DefaultLocale, Hosts, Home, SizeMin, SizeMax, DefaultSize, Digits,
    TUNNEL, SNIPPET, Bodies, Names, MaxItems, MaxGroups,   \* of Library
    toggle, settings, quit, zen, go

VARIABLES
    kept,   \* "hosts", "import", "keys", "providers", "look", "library" or "toasts"
    hosts, creds, proxies, list, form, formTimers, next, formFaults, marred,
    imported, importCreds, preview, importTimers,
    bindings, savedKeys, registered, fieldKeys, page, keyFaults,
    ai, savedAi, secrets, inputs, panel, added, lost, aiFaults,
    look, savedLook, files, catalog, shown, locale, editor, field, startable, launched, lookFaults,
    kind, groups, rows, cache, removing, dialog, dialogTimers, renaming, nextItem, nextGroup,
    rowFaults, refused

\* Two of the three shortcuts can be changed; both built-in providers use one key.
MCDefault == (toggle :> "k") @@ (settings :> ",") @@ (quit :> "q")
MCLender == (zen :> zen) @@ (go :> zen)
MCEndpoint == (zen :> 11) @@ (go :> 12)
MCThemes == "dark" :> "black"

\* Aliases that name each other as jumps, on two lines, with "none" after them,
\* in circles; a blocked one, a pattern, an option this program cannot honour.
Alias(n, jumps) == [name |-> n, pattern |-> FALSE, user |-> TRUE, keys |-> <<"ready">>,
                    jumps |-> jumps, critical |-> FALSE]
Locked(n) == [Alias(n, <<>>) EXCEPT !.keys = <<"locked">>]
MCConfigs ==
    {<<Alias("t", <<"a", "b">>), Alias("b", jb), Locked("a"),
       [Alias("x", <<>>) EXCEPT !.pattern = TRUE]>> : jb \in {<<>>, <<"a", "none">>, <<"t">>}}
    \cup {<<Alias("t", <<"b">>), Alias("b", <<"a">>), Alias("b", <<>>),
            [Alias("a", <<>>) EXCEPT !.user = FALSE, !.keys = <<"gone">>]>>,
          <<Alias("t", <<"b">>),
            [Alias("a", <<"odd">>) EXCEPT !.critical = TRUE, !.keys = <<"token", "ready">>],
            [Alias("b", <<>>) EXCEPT !.keys = <<"bad">>]>>}

\* Saved beforehand: a host of another kind, a chain, two of one name.
Saved(n, ssh, jump, cred) == [name |-> n, ssh |-> ssh, jump |-> jump, cred |-> cred]
MCStores ==
    {<<Saved("b", FALSE, NoId, 1)>>,
     <<Saved("a", TRUE, NoId, 1), Saved("b", TRUE, 1, 1)>>,
     <<Saved("b", TRUE, 2, 1), Saved("t", TRUE, NoId, 2)>>,
     <<Saved("b", TRUE, NoId, 1), Saved("b", TRUE, NoId, 2)>>}

Import == INSTANCE SshImport WITH
    hosts <- imported, creds <- importCreds, timers <- importTimers,
    Configs <- MCConfigs, Stores <- MCStores, None <- NoId

Forms == INSTANCE HostForms WITH timers <- formTimers, faults <- formFaults

Shortcuts == INSTANCE Keybinds WITH saved <- savedKeys, faults <- keyFaults

Providers == INSTANCE AiProviders WITH
    cfg <- ai, saved <- savedAi, keys <- secrets, next <- added, faults <- aiFaults,
    Blank <- NoUrl

Look == INSTANCE Appearance WITH
    cfg <- look, saved <- savedLook, hosts <- startable, faults <- lookFaults,
    Builtin <- Themes, Keys <- Digits

Books == INSTANCE Library WITH
    form <- dialog, timers <- dialogTimers, faults <- rowFaults, kept <- refused

ASSUME SettingsAssumption ==
    /\ NotificationsAssumption /\ Forms!HostFormsAssumption
    /\ Shortcuts!KeybindsAssumption /\ Providers!AiProvidersAssumption
    /\ Look!AppearanceAssumption /\ Books!LibraryAssumption

hostVars == <<hosts, creds, proxies, list, form, formTimers, next, formFaults, marred>>
importVars == <<imported, importCreds, preview, importTimers>>
keyVars == <<bindings, savedKeys, registered, fieldKeys, page, keyFaults>>
aiVars == <<ai, savedAi, secrets, inputs, panel, added, lost, aiFaults>>
lookVars == <<look, savedLook, files, catalog, shown, locale, editor, field, startable,
              launched, lookFaults>>
bookVars == <<kind, groups, rows, cache, removing, dialog, dialogTimers, renaming, nextItem,
              nextGroup, rowFaults, refused>>
pageVars == <<hostVars, importVars, keyVars, aiVars, lookVars, bookVars>>

\* (What is not at work takes one of its initial states.)
MCInit ==
    /\ kept \in {"hosts", "import", "keys", "providers", "look", "library", "toasts"}
    /\ Init /\ Forms!Init /\ Import!Init /\ Shortcuts!Init /\ Providers!Init /\ Look!Init
    /\ Books!Init
    /\ kept # "library" => kind = TUNNEL
    /\ kept # "import" => imported = CHOOSE s \in MCStores : TRUE
    /\ kept # "look" => files = <<>> /\ catalog = Themes

MCNext ==
    \/ kept = "hosts" /\ Forms!Next
       /\ UNCHANGED <<kept, vars, importVars, keyVars, aiVars, lookVars, bookVars>>
    \/ kept = "import" /\ Import!Next
       /\ UNCHANGED <<kept, vars, hostVars, keyVars, aiVars, lookVars, bookVars>>
    \/ kept = "keys" /\ Shortcuts!Next
       /\ UNCHANGED <<kept, vars, hostVars, importVars, aiVars, lookVars, bookVars>>
    \/ kept = "providers" /\ Providers!Next
       /\ UNCHANGED <<kept, vars, hostVars, importVars, keyVars, lookVars, bookVars>>
    \/ kept = "look" /\ Look!Next
       /\ UNCHANGED <<kept, vars, hostVars, importVars, keyVars, aiVars, bookVars>>
    \/ kept = "library" /\ Books!Next
       /\ UNCHANGED <<kept, vars, hostVars, importVars, keyVars, aiVars, lookVars>>
    \/ kept = "toasts" /\ Next
       /\ UNCHANGED <<kept, pageVars>>

MCSpec == MCInit /\ [][MCNext]_<<kept, vars, pageVars>>

\* What the form wrote can be connected to, and is dialled as it was saved.
SavedHostsSound == Forms!HostsSound /\ Forms!DialsAsSaved

ImportSound == Import!ImportSound
ClashOnlyByClearing == Shortcuts!ClashOnlyByClearing
KeysOwned == Providers!KeysOwned
PreviewEnds == Look!PreviewEnds

(* What the pages show is what is saved, all of it, and no toast over them *)
(* is forgotten or goes before its time.                                   *)
PagesTrue == Books!LibrarySound /\ ToastsSound

FieldsEditable == Shortcuts!FieldsEditable
MCTypeOK ==
    /\ TypeOK /\ Forms!TypeOK /\ Import!TypeOK /\ Shortcuts!TypeOK /\ Providers!TypeOK
    /\ Look!TypeOK /\ Books!TypeOK
=============================================================================
