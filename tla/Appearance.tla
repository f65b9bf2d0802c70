------------------------------ MODULE Appearance ------------------------------
(***************************************************************************)
(* How the program looks and where it starts: [appearance] in memory and   *)
(* in config.toml, the catalog of themes with the user's files, the        *)
(* palette every window paints with, the Theme Editor that previews into   *)
(* it, and the settings pages with their dropdowns and number fields.      *)
(* Sources: crabport-ui theme.rs, color.rs, lib.rs, windows/theme_editor.rs, *)
(* windows/settings.rs (general, appearance, panels and connection pages), *)
(* components/number_input.rs, app.rs (apply_startup_page), crabport-core  *)
(* config.rs, src/main.rs.                                                 *)
(*                                                                         *)
(* One dropdown stands for those that only change the configuration, one   *)
(* (the language) for the two whose choice must be put into effect, one    *)
(* number field for both; a palette is an opaque value.                    *)
(***************************************************************************)
EXTENDS Naturals, Functions, TLC

CONSTANTS Builtin,     \* id |-> palette of the embedded themes
          Fallback,    \* "modern-dark", one of them
          Customs,     \* further ids a user may choose
          Palettes,    \* what can be edited
          Files,       \* stems of files dropped into themes/ by hand
          Locales, DefaultLocale,
          Hosts,       \* hosts saved at first
          Home,        \* the start page; a host stands for its session
          SizeMin, SizeMax, DefaultSize,
          Keys,        \* digits that can be typed
          MaxFaults    \* bound: reads and writes that fail

AppearanceAssumption ==
  /\ Fallback \in DOMAIN Builtin /\ DefaultLocale \in Locales /\ Home \notin Hosts
  /\ DefaultSize \in SizeMin..SizeMax /\ Keys \subseteq 0..9 /\ MaxFaults \in Nat

VARIABLES cfg,      \* [appearance] in memory
          saved,    \* the same in config.toml
          files,    \* themes/: stem |-> [name, palette]
          catalog,  \* id |-> palette
          shown,    \* color::THEME
          locale,   \* the language in effect
          editor,   \* the Theme Editor: closed, or the theme it works on
          field,    \* number shown in the settings window's field; closed: none
          hosts, launched,
          faults

vars == <<cfg, saved, files, catalog, shown, locale, editor, field, hosts, launched, faults>>

NoEditor == [open |-> FALSE]
NoField == [open |-> FALSE]
Field(n) == [open |-> TRUE, value |-> n]
Editing(name, palette) == [open |-> TRUE, name |-> name, palette |-> palette]

Defaults ==
  [theme |-> [name |-> Fallback, palette |-> Builtin[Fallback]],
   size |-> DefaultSize, locale |-> DefaultLocale, page |-> Home]

\* build_catalog: a file replaces what has its `name`; of two such files the one that the
\* directory lists last.
Named(dir, id) == {dir[f].palette : f \in {g \in DOMAIN dir : dir[g].name = id}}
Ids(dir) == DOMAIN Builtin \cup {dir[f].name : f \in DOMAIN dir}
Catalogs(dir) ==
  {c \in [Ids(dir) -> Range(Builtin) \cup Palettes] :
     \A id \in Ids(dir) :
       IF Named(dir, id) = {} THEN c[id] = Builtin[id] ELSE c[id] \in Named(dir, id)}

\* theme::get
Resolved(cat, id) ==
  IF id \in DOMAIN cat THEN [name |-> id, palette |-> cat[id]]
                       ELSE [name |-> Fallback, palette |-> cat[Fallback]]

Init ==
  /\ cfg = Defaults /\ saved = Defaults /\ shown = Defaults.theme.palette
  /\ files \in {<< >>} \cup
       [Files -> [name : Customs \cup DOMAIN Builtin, palette : Palettes]]
  /\ catalog \in Catalogs(files)
  /\ locale = DefaultLocale /\ editor = NoEditor /\ field = NoField
  /\ hosts = Hosts /\ launched = Home /\ faults = 0

Fault == faults < MaxFaults /\ faults' = faults + 1

\* config::update
Update(new) ==
  /\ cfg' = new
  /\ \/ saved' = new /\ UNCHANGED faults
     \/ saved' = saved /\ Fault

-----------------------------------------------------------------------------
(* The settings window.                                                    *)

OpenSettings ==
  /\ ~field.open /\ field' = Field(cfg.size)
  /\ UNCHANGED <<cfg, saved, files, catalog, shown, locale, editor, hosts, launched, faults>>

CloseSettings ==
  /\ field.open /\ field' = NoField
  /\ UNCHANGED <<cfg, saved, files, catalog, shown, locale, editor, hosts, launched, faults>>

\* The theme dropdown: apply_theme.
ChooseTheme(id) ==
  /\ field.open /\ id \in DOMAIN catalog
  /\ Update([cfg EXCEPT !.theme = Resolved(catalog, id)])
  /\ shown' = cfg'.theme.palette
  /\ UNCHANGED <<files, catalog, locale, editor, field, hosts, launched>>

\* The language dropdown.
ChooseLocale(l) ==
  /\ field.open
  /\ Update([cfg EXCEPT !.locale = l]) /\ locale' = l
  /\ UNCHANGED <<files, catalog, shown, editor, field, hosts, launched>>

\* The start page dropdown: Home and the saved hosts.
ChoosePage(p) ==
  /\ field.open /\ p \in hosts \cup {Home}
  /\ Update([cfg EXCEPT !.page = p])
  /\ UNCHANGED <<files, catalog, shown, locale, editor, field, hosts, launched>>

\* Mutant of ResetConfig: the palette is left to the next choice.
ResetQuietly ==
  /\ field.open
  /\ Update(Defaults)
  /\ UNCHANGED <<files, catalog, shown, locale, editor, field, hosts, launched>>

\* "Reset config": the palette is refreshed; language and number field are not.
ResetConfig ==
  /\ field.open
  /\ Update(Defaults)
  /\ shown' = cfg'.theme.palette
  /\ UNCHANGED <<files, catalog, locale, editor, field, hosts, launched>>

\* subscribe_number_filter: whatever the event, the text is cleaned, shown and saved.
Clamped(raw) == IF raw < SizeMin THEN SizeMin ELSE IF raw > SizeMax THEN SizeMax ELSE raw
Cleaned(raw) ==
  /\ field' = Field(Clamped(raw))
  /\ Update([cfg EXCEPT !.size = Clamped(raw)])
  /\ UNCHANGED <<files, catalog, shown, locale, editor, hosts, launched>>

\* A digit at the end or over the selection, a backspace, a number too long to parse.
TypeDigit(d) == field.open /\ (Cleaned(field.value * 10 + d) \/ Cleaned(d))
Backspace == field.open /\ Cleaned(field.value \div 10)
PasteTooLong == field.open /\ Cleaned(SizeMin)
FocusField == field.open /\ Cleaned(field.value)

-----------------------------------------------------------------------------
(* The Theme Editor.                                                       *)

OpenEditor ==
  /\ field.open /\ ~editor.open
  /\ editor' = Editing(cfg.theme.name, cfg.theme.palette)
  /\ UNCHANGED <<cfg, saved, files, catalog, shown, locale, field, hosts, launched, faults>>

EditColor(p) ==
  /\ editor.open
  /\ editor' = [editor EXCEPT !.palette = p] /\ shown' = p
  /\ UNCHANGED <<cfg, saved, files, catalog, locale, field, hosts, launched, faults>>

EditName(id) ==
  /\ editor.open
  /\ editor' = [editor EXCEPT !.name = id]
  /\ UNCHANGED <<cfg, saved, files, catalog, shown, locale, field, hosts, launched, faults>>

\* save: the file, the catalog, and apply_theme; or the file cannot be written.
SaveTheme ==
  /\ editor.open
  /\ \/ /\ files' = (editor.name :> [name |-> editor.name, palette |-> editor.palette]) @@ files
        /\ catalog' \in Catalogs(files')
        /\ Update([cfg EXCEPT !.theme = Resolved(catalog', editor.name)])
        /\ shown' = cfg'.theme.palette
     \/ Fault /\ UNCHANGED <<cfg, saved, files, catalog, shown>>
  /\ UNCHANGED <<locale, editor, field, hosts, launched>>

ResetTheme ==
  /\ editor.open
  /\ editor' = Editing(cfg.theme.name, cfg.theme.palette) /\ shown' = cfg.theme.palette
  /\ UNCHANGED <<cfg, saved, files, catalog, locale, field, hosts, launched, faults>>

\* Mutant of CloseEditor: the preview stays.
CloseKeepsPreview ==
  /\ editor.open /\ editor' = NoEditor
  /\ UNCHANGED <<cfg, saved, files, catalog, shown, locale, field, hosts, launched, faults>>

\* The window is released, however it was closed.
CloseEditor ==
  /\ editor.open /\ editor' = NoEditor /\ shown' = cfg.theme.palette
  /\ UNCHANGED <<cfg, saved, files, catalog, locale, field, hosts, launched, faults>>

-----------------------------------------------------------------------------
\* A host is removed in the main window.
RemoveHost(h) ==
  /\ h \in hosts /\ hosts' = hosts \ {h}
  /\ UNCHANGED <<cfg, saved, files, catalog, shown, locale, editor, field, launched, faults>>

\* The program ends and starts: load, main, and apply_startup_page, which clears the page
\* of a host that is gone.  A file that cannot be read leaves the defaults in memory.
Landed(c) == IF c.page \in hosts THEN c.page ELSE Home
Cleared(c) == [c EXCEPT !.page = Landed(c)]
Started(c) ==
  /\ cfg' = Cleared(c) /\ shown' = c.theme.palette /\ locale' = c.locale
  /\ launched' = Landed(c)
Restart ==
  /\ \/ Started(saved) /\ saved' = cfg' /\ UNCHANGED faults
     \/ Started(saved) /\ saved' = saved /\ cfg' # saved /\ Fault
     \/ Started(Defaults) /\ saved' = saved /\ Fault
  /\ catalog' \in Catalogs(files)
  /\ editor' = NoEditor /\ field' = NoField
  /\ UNCHANGED <<files, hosts>>

Next ==
  \/ OpenSettings \/ CloseSettings \/ ResetConfig
  \/ Backspace \/ PasteTooLong \/ FocusField
  \/ OpenEditor \/ SaveTheme \/ ResetTheme \/ CloseEditor \/ Restart
  \/ \E id \in DOMAIN Builtin \cup Customs : ChooseTheme(id) \/ EditName(id)
  \/ \E l \in Locales : ChooseLocale(l)
  \/ \E p \in Hosts \cup {Home} : ChoosePage(p)
  \/ \E d \in Keys : TypeDigit(d)
  \/ \E p \in Palettes : EditColor(p)
  \/ \E h \in Hosts : RemoveHost(h)

Spec == Init /\ [][Next]_vars

-----------------------------------------------------------------------------
\* Every variable stays in its type.
TypeOK ==
  /\ {cfg.size, saved.size} \subseteq SizeMin..SizeMax
  /\ {cfg.locale, locale} \subseteq Locales /\ shown \in Range(Builtin) \cup Palettes
  /\ DOMAIN Builtin \subseteq DOMAIN catalog /\ hosts \subseteq Hosts
  /\ launched \in Hosts \cup {Home} /\ faults \in 0..MaxFaults

\* A preview does not outlive the editor: without one every window paints the theme of
\* the configuration, whatever was edited, saved, chosen or reset meanwhile, and whatever
\* could not be written (color.rs preview_theme, theme_editor.rs on_release).
PreviewEnds == ~editor.open => shown = cfg.theme.palette

\* "Save the working copy as a custom theme and apply it" (theme_editor.rs save).  With
\* another file of that `name` in themes/, the other may be the one applied.
SaveApplies == [][SaveTheme /\ files' # files => shown' = editor.palette]_vars

\* A reset or a restart leaves the program in the language the configuration names.  The
\* reset of settings.rs does not: its description says "restore defaults".
LanguageAsConfigured == locale = cfg.locale

\* The number changes when the user changes it: "Subscribe to [`InputEvent::Change`]"
\* (number_input.rs).  The handler takes every event, so a focus saves again what a reset
\* has left in the field.
FocusChangesNothing == [][FocusField => cfg' = cfg]_vars
=============================================================================
