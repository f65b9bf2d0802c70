# TLA+ models of CrabPort

CrabPort is a desktop terminal and SSH client written in Rust (gpui for the
interface, tokio and russh for the connections). This directory holds
specifications of the parts of it whose correctness depends on order: of tasks
over a lock, of events from a connection, of a failing write and the memory it
was to repeat, of windows and dialogs open beside each other. TLC checks the
specifications on small instances; TLAPS proves the main safety properties for
every value of the constants.

Source paths are given from the repository's root (`crabport-ssh/src/...`).

    tlc -workers 2 -config tunnels.cfg MCTunnels.tla             # one run
    tlapm TunnelManagerProofs.tla                                # one module's proofs

Contents: 1 [The system](#1-the-system) · 2 [Modules](#2-modules) ·
3 [Runs](#3-runs) · 4 [Bounds](#4-bounds) · 5 [Fairness](#5-fairness) ·
6 [Proofs](#6-proofs) · 7 [Where code and comments disagree](#7-where-code-and-comments-disagree) ·
8 [Abstractions](#8-abstractions) · 9 [Not modelled](#9-not-modelled) ·
10 [Plan](#10-plan)

## 1. The system

Two worlds run side by side. The **UI thread** (gpui) runs one event handler at
a time; everything shown lives there. **tokio tasks** and a few threads do the
I/O. They meet through shared `Arc`s with locks and atomics, through broadcast
events of a terminal, and through tasks spawned from the UI that await
something elsewhere and then *come back* to change UI state. Nearly every hard
behaviour is one of three: a task interleaved with another over a lock released
between two steps, a task that comes back to state that moved on, and state
kept twice (memory and store, registry and manager, overlay and backend) of
which one half may fail to change.

    AiPanel --tools--> agent executor ----------+        AiStream <-- provider
      |  Allow/Deny/stop                        |
    Tunnels page -> TunnelRegistry --start/stop--> TunnelManager --handle--> SSH session
      (UI thread)        ^                             | accept loops,        ^   |  ^
    tab closing ---------+                             | connection tasks     |   |  +-- SFTP cache,
    Workspace (tabs, panes) -> TerminalView -> backend |                      |   |      transfers
       |                       (SSH, Telnet, serial,   |                  SshHandler
       +-> side panel, SFTP tab       local PTY)  ReverseForwardRegistry <----+-> known hosts
    transfer panel --pause/cancel--> TransferControl
    settings, forms, imports, libraries, themes --> store and config.toml

### Inventory

| part | state | hard | correct means |
|---|---|---|---|
| Tunnel manager (`crabport-ssh/src/crabport_tunnel.rs`, `crabport-tunnel/src/lib.rs`) | map of entries, accept loops, abort handles, `ReverseForwardRegistry` | the entry follows the loop it stands for; -R is registered before it is asked for, rolled back or re-keyed; all queue on one async mutex | no port, listener or connection is forgotten; traffic reaches its tunnel; stops return |
| Owned session (`owned_session.rs`) | handle slot, parked task | the parked task pins the handle | a shutdown closes the connection |
| Inbound channels (`handler.rs`) | bridges | looked up by port | the bridge goes to the port's owner |
| Transfer control (`crabport-sftp/src/control.rs`) | atomic state, `Notify`, outcome, flag | lost wakeups; order of outcome and flag | buttons act within a chunk |
| Streaming and SFTP sessions (`crabport-sftp/src/transfer.rs`, `crabport-ssh/src/transfer*`, `terminal.rs`) | one cached session, the handle's mutex, temporary files | session taken and given back by many; lock held across a lock | nothing lost, shared or left on the remote; everything ends |
| SSH backend, monitor, jump chains (`backend.rs`, `monitor.rs`, `jump.rs`) | stage of the connect, panes, transfers tracked, status | what splits share is ended by one pane's close; early returns | status first, one final event; closing lets go |
| Telnet, serial (`crabport-telnet`, `crabport-serial`) | decoder state, login phase; thread, queue, port | protocol split over reads; two channels with one end | text whole, login at its prompts, port released |
| Local terminal (`crabport-terminal`) | worker, buffer, broadcast channel, grid mode, history | keys typed while the PTY is built; batches; stale history reads | order kept, pump ends |
| Terminal view (`views/terminal.rs`, overlay) | attempts, overlay, timer, history rows | an old attempt's listeners go on; timers fire late | only what is down is replaced; ends are shown and recorded |
| Tabs and panes (`app/tabs.rs`, `layouts/content.rs`) | trees, active pane, focus, AI panels | four records that must agree | no pane lost, toolbar follows |
| SFTP tab, side panel (`views/sftp/*`, `views/panel/sftp.rs`) | panels, menus, edits, pickers | what was chosen waits while listings land and hosts change | it happens where it was chosen |
| Transfer panel (`transfer_center.rs`) | jobs, records, dismissal timer | jobs that never say they are over | one row each, true outcomes |
| AI panel, its stream (`views/panel/ai.rs`, `crabport-agent/src/compaction.rs`, `crabport-ai`) | conversation, generation, queue, cards; channels, reveal | a chain of calls goes on with exactly one turn; superseded streams deliver; compaction renumbers | histories a provider accepts; nothing runs unapproved; queues drain |
| Agent tools (`crabport-agent/src/agent.rs`) | definitions, calls that wait | open against open, close, delete; events without an id | what was started can be stopped; every call answered |
| App tunnel registry (`views/tunnels/state.rs`, `app/tunnels.rs`) | configs, runtimes | checks in one UI turn, work elsewhere, writes in another | the page shows what runs and can stop it |
| Tunnel and snippet libraries, groups (`app/{tunnels,snippets,groups}.rs`, `views/collection.rs`) | rows, the registry's copies, form, groups | registry and store change separately; groups go while forms are open | shown is saved, all of it |
| Saved hosts (`app/connection.rs`, `app/hosts.rs`, `views/sessions/form.rs`) | rows with credentials, proxies, jumps; the list in memory | several rows per save, each may fail | a host keeps its secrets and is dialled as saved |
| ssh_config import (`crabport-core/src/ssh_import.rs`, `views/sessions/import.rs`) | preview, selection, chains | chains that share hops; cycles with what is saved | links true, no circle |
| Known hosts (`known_hosts.rs`, settings pane) | the file, handshakes, panes | read, alter, replace; crash | changes are decisions |
| Shortcuts, AI providers, appearance (`keybinds.rs`, `ai.rs`, `theme.rs`, `windows/*`) | configuration in memory and file, what is registered, keys, palette | failing saves, restarts, editors left open | no clash unseen, no orphan key, the palette restored |
| Notifications (`components/notification.rs`) | toasts, timers that cannot be cancelled | hover, eviction, close | none forgotten, each its full time |
| Proxies, store, rendering | byte formats, SQL, drawing | | [section 9](#9-not-modelled) |

The hazards these parts are exposed to, each at its line and with the
properties that would catch it, are in `PROJECT.json` under `hazards`.

## 2. Modules

| module | models | composed in | proofs |
|---|---|---|---|
| `TunnelManager` | manager, reverse-forward registry, owned session, inbound channels, the server's forwards | `MCTunnels`, `MCTraffic` | `TunnelManagerProofs` |
| `TunnelRegistry` | saved tunnels, their runtimes, rows, tabs | `MCTunnels` | `TunnelRegistryProofs` |
| `InterruptibleTransfer` | abstract: what pause, resume and cancel promise | `TransferControl` | |
| `TransferControl` | the control and the chunk loop, refining the above | `StagedCopy` | `TrafficProofs` |
| `StagedCopy` | a remote-to-remote copy that watches a download's file | `MCTraffic` | |
| `TransferPanel` | the transfer panel | `MCTraffic` | `TrafficProofs` |
| `RemoteBackend` | abstract: what a view relies on | `SshSession`, `MCBackends`, `TerminalView` in its guards | |
| `SshSession` | one SSH connection with its panes, refining the above | `MCBackends` | `SshSessionProofs` |
| `SftpSession` | the session cache and the tasks over it | `MCBackends` | `SshSessionProofs` |
| `TelnetBackend`, `SerialBackend` | the other two backends, refining `RemoteBackend` | `MCBackends` | `SshSessionProofs` (of serial, the refinement) |
| `LocalTerminal` | PTY construction, pump, keyboard flag, history | `MCTraffic` | `TrafficProofs` |
| `TerminalView` | attempts, overlay, reconnects, connection history | | |
| `Workspace` | tabs, panes, focus, toolbar, AI panels | `MCPanes` | `PanesProofs` |
| `AiPanel` | agent loop, queue, cards, compaction | `MCPanes` | `PanesProofs` |
| `AiStream` | one response from the wire to the conversation | `MCAgent` | `AgentProofs` |
| `AgentTunnels` | the agent's tunnel tools | `MCAgent` | `AgentProofs` |
| `AgentWaits` | the agent's tools that poll and wait | `MCAgent` | |
| `SftpTab`, `SidePanel` | where files are browsed | `MCFiles` | `FilesProofs` |
| `KnownHosts` | the file of accepted keys and its users | `MCFiles` | `FilesProofs` |
| `HostForms` | saved hosts and the form they are written with | `MCSettings` | `SettingsProofs` |
| `SshImport` | saved hosts, by import | `MCSettings` | |
| `Keybinds`, `AiProviders`, `Appearance` | the settings pages with state of their own | `MCSettings` | `SettingsProofs` |
| `Library` | saved tunnels and snippets with their groups | `MCSettings` | `SettingsProofs` |
| `Notifications` | toasts | `MCSettings` | `SettingsProofs` |

Definitions keep the source's names where they stand for a function
(`start_turn`, `compaction_cut`, `is_running`); actions, which are pieces of
functions between two points where another task may run, have names of their
own. Which lines each definition stands for is in `PROJECT.json` under `map`.

An MC module gives one component its model values, or puts several side by
side: a variable (`kind`, `part`, `place`, `kept`) chosen by `Init` says which
of them runs in a behaviour, the others stay in one initial state. They share a
run, not a state space: TLC sees the sum of them, not the product. Each has its
own fairness, asked only where it runs. Every module has a `TypeOK`, and every
MC module that puts several side by side an `MCTypeOK`; the types are proved
for most modules with a proof module, and can be checked elsewhere by naming the
invariant in the cfg.

A definition introduced by a comment `\* Mutant of D: ...` (or `\* Slip: ...`)
is not part of the model. It is `D` with a plausible mistake in it; put in the
place of `D` it makes TLC find one of the properties violated, which shows that
the property can tell the two apart. `PROJECT.json` pairs them under `mutants`.

### TunnelManager

An action is what a task does between two awaits or lock releases.

| variable | code |
|---|---|
| `calls` | the locals of one `start_*` call: its place, kind, port, the server's reply |
| `tunnels`, `connTasks` | the manager's map of entries; `conn_tasks` of each |
| `loops`, `aborted`, `conns` | accept-loop tasks, use of their abort handles, connection tasks |
| `registry` | `ReverseForwardRegistry` |
| `server`, `link` | sshd's forwarded listeners; the transport (external) |
| `bridges` | which target an inbound channel was bridged to |
| `stops` | the locals of one `stop` or `stop_all` |
| `slot`, `parked`, `hlock` | the handle in the source, the parked clone of it, the async mutex around it |

`start_local`/`start_dynamic`: `Bind` (or `BindFails`), then `InsertEntry`;
between the two the loop already runs `Accept`, `SpawnConn`, `RegisterConn`.
`start_remote`: `PreRegister`, `ForwardGranted`/`ForwardRefused` under the
mutex, `Rollback` still under it, or `DropGuard`, `Rekey`, `InsertEntry`.
`stop`: `TakeEntry`, then `AbortTasks`, or `Unregister` and `CancelForward`.
`stop_all`: the same for each id of its snapshot, then `Shutdown` and
`Disconnect`. `HandleDropped` and `LinkDies` end the transport.

`SharedPorts = FALSE` restricts the *callers*: none asks for a remote port that
is in use. The code has no such check; `TRUE` is the code as it is.

### TunnelRegistry

Seen from the page, a start is `StartOwned`/`StartBorrowed` (checks, in a UI
turn), `Connect`, `StartSucceeds`/`StartFails` (elsewhere), `Register`/
`ReportFailure` (back in the UI). Stops, removals and tab closings are `Jobs`
with a snapshot, the managers to stop, and a last UI turn. `store` holds the
rows of the tunnels table, `configs` the registry's copies. Any of these may
overlap any other, on the same tunnel too: the only checks are the code's own
(`is_running`, `tabs`, `form`), made in the UI turn that begins the work and not
again. `met` is history: what each start overlapped with while it was under way
(another start, a stop, removal or closing, the edit form). No step looks at it;
the properties do, to say exactly what overlapping costs. `Ephemeral` are the
addresses several tunnels may hold at once. `HostRemovals` adds the removal of
hosts, whose rows a foreign key cascades.

### TransferControl, StagedCopy, TransferPanel

`Checkpoint` and `Await` are separate because the code loads the state and then
waits; `DoResume`/`Cancel` and `NotifyOne` because it stores the state and then
notifies. `Notify`'s stored permit is `permit`. `InterruptibleTransfer` knows
nothing of these: a chunk moves with a permission given while running.
`Promise` is the refinement mapping. `StagedCopy` extends the control with the
loop that polls the size of the file. `TransferPanel` retires a job in a
render, and a render comes when something notifies.

### SshSession, SftpSession, the other backends

`SshSession` follows the task that connects stage by stage, the event loops of
the first pane and the splits, the monitor, and the transfers each pane
tracks. `SftpSession` gives each task a plan of steps, each of which borrows
the cached session or runs a command under the handle's lock; a step's result
may extend the plan (a missing `tar`, a directory to walk). `TelnetBackend`
reads a stream in any pieces; `SerialBackend` has the thread and the
broadcaster with a channel each way. All of them refine `RemoteBackend`, which
is what `TerminalView` takes an attempt to be.

### AiPanel, AiStream, the agent's tools

A UI handler may run a cascade: settling a call continues the loop, which
starts a turn or a compaction, and committing a turn sends the head of the
queue. So the panel is one record and every method an operator from a panel to
the *set* of panels it may leave; `Leaves` makes an action of such a set.
Outcomes carry the message and call indices taken when the call was started
(`Place`), as in the code. `Circumstances` pairs whether the history may
outgrow the window with whether a provider may be missing.

`AiStream` follows a turn's chunks through both channels, the accumulator and
the reveal, beside the streams of turns that were cancelled. `AgentTunnels`
takes every tunnel tool call as a task of its own that outlives the click that
stopped waiting for it; `overlap` is chosen at the start and says whether calls
on one definition may be under way together. `AgentWaits` has the loops that
poll with a deadline.

### What the user browses and keeps

`SftpTab` and `SidePanel` keep, for each menu, edit and picker, what it
captured; `did` is history: where the last operation went, compared with where
it was chosen. `KnownHosts` separates every read from its write and lets the
program die between. `HostForms`, `Library` and `SshImport` have the timer
that destroys a closed dialog 200 ms later, whatever dialog there is by then,
and a dialog whose buttons work while it fades. `Keybinds`, `AiProviders` and
`Appearance` change the memory first and the file after, and either may fail.
`Library` is one module for two tables because the pages are one scaffold: a
snippet is read from the store at every render, a tunnel from a registry that
has to be told.

## 3. Runs

Times are of one run with two workers.

| run | instance | minutes | checks |
|---|---|---|---|
| `tunnels` | Dynamic and Remote tunnels, 2 starts, 2 stops, 2 clients, 2 ports, owned session; 2 saved tunnels on 2 addresses, 2 starts, 2 jobs, 2 tabs, hosts removed | 4.3 | `ListenersAccounted`, `RegisteredConnsDieWithTunnel`, `ForwardsAccounted`, `InboundToOwner`, `LiveAccounted`, `RunsAsSaved`, `TabsTornDown`, `RunningIsLive`, `OwnedSurvivesTabs` |
| `traffic` | 2 chunks and a staged copy of them; 3 transfers of 2 hosts in a panel of 2 jobs and 1 record; Local and Remote tunnels, 2 starts, 1 stop, 1 client, fair; a local terminal with 2 inputs and a channel of 6 | 4.1 | `NoLostWakeup`, `KeepsPromise`, `JobsAccounted`, `JobsRetire`, `StopTerminates`, `ShutdownClosesTransport`, `SessionSound`, `CloseEndsPump` |
| `backends` | Telnet over three streams, serial, SSH with a split, a hop and 2 transfers, SFTP with 2 tasks | 3.3 | `TransfersDieWithClose`, `TelnetSound`, `SessionsSound`, `ImplementRemote`, `CloseLetsGo`, `TasksEnd` |
| `terminals` | a view of 3 attempts, reconnected by hand and by timer | 1.6 | `ViewFollowsAttempt` |
| `panes` | the agent loop with 3 messages and 2 calls; 2 tabs with 3 panes | 3.6 | `HistorySound`, `PanesSound`, `LateOutcomeIgnored`, `QueueDrains` |
| `agent` | 3 tunnel calls on 1 definition, 2 waiting calls beside a user's job, 2 turns of 2 chunks | 3.0 | `TunnelsHeld`, `TurnsSound`, `EveryCallAnswered` |
| `files` | the tab's two sides over 3 directories, 2 of them with the same names, the side panel of 2 panes, 3 handshakes of 1 host | 2.0 | `OperationsHitChosen`, `ShownIsTrue`, `ChangesAreDecisions` |
| `settings` | 3 saved rows, 5 ssh_config files over 4 stores, 4 keystrokes, 3 providers, 2 themes, 2 items, 2 toasts | 3.0 | `SavedHostsSound`, `ImportSound`, `ClashOnlyByClearing`, `KeysOwned`, `PreviewEnds`, `PagesTrue` |
| `shortcuts_fields`, `staged_copy`, `ai_pending`, `second_source` | small, the last that of `tunnels` | | one disagreement each, [section 7](#7-where-code-and-comments-disagree) |

### What each property says

*Tunnel manager.* `ListenersAccounted`: every loop that listens has an entry,
or a start about to insert it, or a stop about to abort it.
`ForwardsAccounted`: the same for ports the server listens on, except those
whose cancel failed. `RegisteredConnsDieWithTunnel`: a registered connection
task ends with its tunnel. `InboundToOwner`: a channel is bridged to the target
of the tunnel whose port it came in on. `StopTerminates`: the mutex is always
given back. `ShutdownClosesTransport`: after `stop_all` on an owned session the
connection closes, unless a client connection is still being bridged.

*Registry.* `RunningIsLive`: what the page shows running is live.
`OwnedSurvivesTabs`: closing a tab stops no owned tunnel. The other three hold
for starts that nothing overlapped (`Alone`: no other start of that tunnel, no
stop or removal of it, no closing of the tab it borrows from was under way while
it was), whatever overlaps anything else, those later included. `LiveAccounted`:
such a tunnel can be found and stopped. `RunsAsSaved`: two such never run one
tunnel, and what the page shows running is the configuration that is saved,
unless the form was open while it started. `TabsTornDown`: none outlives its
tab. A start that *was* overlapped may fail each of these, and that is what the
code does: `second_source` is the shortest way ([section 7](#7-where-code-and-comments-disagree)).

*Transfers.* `NoLostWakeup`: a parked transfer that is no longer paused has its
wakeup on the way. `KeepsPromise`: the refinement of `InterruptibleTransfer`
with its fairness, so a resumed transfer goes on and a cancelled one ends.
`JobsAccounted`: a transfer has one row at most, a record tells its outcome, a
panel that is open has a place. `JobsRetire`: one that said it is over leaves
the list by itself.

*Backends.* `ImplementRemote`: whichever backend it is, status first, then one
final event, on every path that ends it. `TransfersDieWithClose`: a closed
pane's transfers end, nobody else's. `CloseLetsGo`: the closed line is reported
and the port let go; a connection whose panes are all closed is let go of by
its tasks, unless a key question was left open or a transfer paused.
`TelnetSound`: no byte of text lost to the protocol, by a reading of RFC 854's
grammar command by command (`TextOf`), a login typed at the prompts it belongs to. `SessionsSound`: an SFTP session is parked or held by
one task, and a remote temporary file outlives only a failed stream.
`TasksEnd`: sharing the handle and the session stops nobody.

*Terminals.* `SessionSound`: the freshest command stays in front of the history
however stale the file that is merged; the keyboard flag is only on while its
program owns the screen. `CloseEndsPump`. `ViewFollowsAttempt`: a reconnect
replaces only an attempt that is down, the end of the one on show reaches the
overlay, every attempt leaves one row that is never rewritten.

*Panes and AI panel.* `PanesSound`: every registered pane is one leaf of one
tab, the toolbar works on the active one, nothing runs behind a pane that is
gone. `HistorySound`: no request goes out with a call unanswered and never two
at once, turns in order, a compaction keeps calls with their results; while no
compaction renumbers the cards, also that no call is allowed that nobody
allowed and that outcomes are on their own card (section 7 shows why only
then); and with a provider throughout and nothing to compact, that messages
leave the queue in order and that an idle panel has none. `LateOutcomeIgnored`: what the user stopped waiting for
changes nothing, as long as nothing renumbers the cards. `QueueDrains`.

*Agent.* `TunnelsHeld`: what was opened can be closed (when calls on one
definition follow each other), and only a start under way outlives the panel.
`EveryCallAnswered`: and a transfer tool that reports a timeout was not told of
its transfer's end; and a turn that has ended or was stopped leaves the panel
free. `TurnsSound`: what is committed is what that turn's own response said, all
of it, or a beginning when the user stopped it.

*Files.* `OperationsHitChosen`: a rename, deletion, folder, download or typed
path happens where it was chosen, whatever lands or is reconnected meanwhile,
but for two exceptions, both in section 7: a rename goes on in another directory of
the host when that lists the very same names, which is all that is compared
(never where names differ, and never on another host), and a rename input made
for the disk commits on the host chosen since.
`ShownIsTrue`: no terminal is connected that no panel shows, and a path nobody
types into shows where the panel is. `ChangesAreDecisions`: the file of known
hosts changes only by an accepted key or a confirmed Forget, also when a write
fails and across an end of the program; only a change that could not *read* the
file takes it for empty.

*Settings.* `SavedHostsSound`: jump chains end, a host whose writes went
through has its own credential and proxy, and is dialled as its row says.
`ImportSound`: the links an import writes are those of the chains and close no
circle with each other, and the credentials it names are there and its own
(except by an Import clicked while the preview fades out). `ClashOnlyByClearing`: two actions share a keystroke
only by way of a cleared shortcut (section 7). `KeysOwned`: a stored key
belongs to an entry, unless its deletion failed. `PreviewEnds`: with the editor
closed the palette is the configured theme's. `PagesTrue`: every item is dealt
to one section of its page, the tunnels' registry repeats the store but for
removals half done, an open toast has its timer still to come and had its full
time when one dismissed it.

## 4. Bounds

Constants that only bound a run are declared as such (`\* bound:`) in their
modules. Starts, stops, clients, calls, jobs and handshakes are one-shot model
values, because one that has ended never acts again: another is another value.

- *Tunnels.* The hazards are between two calls: a start against a stop, a stop
  against a stop, a connection against a stop. There are two of each, so a
  client of one tunnel meets the stop of another. `traffic` has one of each
  actor: a liveness violation needs one that waits and one that does not give
  back; its tunnels are Local and Remote, since a Dynamic one, which `tunnels`
  has, only adds a handshake before its client is a Local one's, and their port
  is a fixed one: port 0, which `tunnels` has as well, changes the key a forward
  is filed under and nothing that a stop waits for. In the registry two starts
  and two jobs on two tunnels and two tabs give every pair of operations, on one
  tunnel and on different ones. `MaxBegun` = 3 is what one behaviour may begin,
  of stops and clients in the manager, of tunnels and jobs in the registry (and
  the form, while it is open): two jobs against one tunnel's starts, or one
  against two.
- *Transfers.* The control does not depend on the number of chunks beyond "some
  left, none left"; two give a loop that goes round. `Polls` = 4 is more than
  the three equal sizes the staged copy waits for. `MaxJobs` = 2 and
  `MaxRecords` = 1 stand for 49 and the history's limit: three transfers exceed
  both. `MaxShows` = 3 lets a dismissal timer be overtaken by a second showing.
  Two of the three run on one host and are alike, so the run lets one of them be
  the first (`FirstIsFirst`, in `BoundedSpec`; the proofs are about `MCSpec`).
- *Backends.* Each Telnet stream has the cases an IAC decoder has (escaped 255,
  options, a subnegotiation with an escape before what would end it) around
  prompts, cut at every
  place into reads; one key typed (`MaxKeys`), two reads and writes on the
  serial side, one more than what fills the first channel. One hop and one
  split are what the code treats differently from none. Of the SFTP tasks, one
  navigates or saves an edit (`MaxSaves` = 1) while the other does any of the
  rest; a rename is left to the directory creation it equals, one request.
- *Terminals.* `Cap` = 4 makes the channel full under the pump; `MaxInputs` = 2
  lets one input come before and one after the PTY; three attempts let a timer
  of the first fire into the third.
- *AI.* Two calls in one turn are the least with a first and a last to settle,
  three messages the least with one sent, one queued and one that might
  overtake it. `Quiet` = 1 and `Deadline` = 2 are polls. Two streams of two
  chunks, of text and of three interleaved calls, over channels of one
  (`Buffer`) let a cancelled stream run on beside its successor.
- *Files.* Three directories: one lists part of what the second does, so that a
  name chosen may be missing, or there again, and the third lists the very same
  names as the first, which the code cannot tell from it. A behaviour visits the
  user's home and one other of them (`visits`, `InVisited`), and with the
  lookalike the tab connects to one host. The user works in one side
  (`Worked`) while both connect. `MaxLoads` = 3, `MaxForgets` = 2, one fault and
  one crash let two changes of the file meet a third and one be cut short.
- *Settings.* `MaxSaves` = 3 rows of credentials, of which an edit may replace
  one; `MaxFaults` = 1 failing write at any place, as long as another save may
  follow it; `MaxTimers` = 1 closing animation; `MaxId` = 6 rows an import may
  add to those of its store. The
  number field has `SizeMax` = 14 and the digit 2, so that a number typed may be
  under, within and over its limits. `MaxAdds` = 1 provider is added to two
  built in. `MaxItems` = 2 and `MaxGroups` = 1: one item in the group and one
  without, added or edited while the group goes. `MAX_NOTIFICATIONS` = 2 (5 in
  the code), with `MaxGeneration` = 5 shows and hovers and one click (`MaxCloses`), lets
  a third toast evict the first while a hover has overtaken its timer.

All cfgs say `CHECK_DEADLOCK FALSE`: a system whose one-shot calls have all
returned, a finished transfer, a page at its bound rightly stand still. What
must *not* stand still is stated as liveness.

## 5. Fairness

- `TunnelManager`: weak fairness of each start's, loop's, connection's and
  stop's next step and of `HandleDropped`. tokio polls a task that is ready; the
  server answers or the transport dies, and then russh fails the request. The
  async mutex queues its waiters; the calls are one-shot, so weak fairness
  stands for that, and what is at stake is whether the holder gives it back.
  Clients, callers, `BridgeEof` and `LinkDies` are not fair.
- `TransferControl`: `NotifyOne` (the UI thread finishes the call it is in) and
  the loop's step. No button is pressed of necessity. `StagedCopy` adds its
  polls.
- `TransferPanel`: a window renders what was notified, a task that is over says
  so. Nobody is obliged to hover.
- `SshSession`, `TelnetBackend`, `SerialBackend`: tasks and threads run; the
  server, the device and the user do as they like. `SftpSession`: strong
  fairness where a task queues for the handle's mutex, which tokio serves in
  order.
- `LocalTerminal`: threads run on and the executor polls the pump.
  `TerminalView`: a backend told to close goes down and reports (what
  `RemoteBackend` promises), and the view's listeners are polled while it is
  open.
- `AiPanel`: streams end (the client has timeouts), the reveal timer ticks,
  executors answer (each has a limit of its own). The user is not fair, so
  `QueueDrains` excuses a panel that waits for a decision. `AiStream`: the
  worker sends what it has, the pump and the ticker run; the server is not fair.
- `AgentTunnels`, `AgentWaits`: each call's task and the panel's drop run; what
  they wait for need not come.
- `TunnelRegistry`, `Workspace`, `SftpTab`, `SidePanel`, `KnownHosts` and the
  modules of `MCSettings` state no liveness.

## 6. Proofs

| theorem | statement | assumes |
|---|---|---|
| `TrafficProofs!TypeCorrect` | `Spec => []TypeOK` | `ChunksAssumption` |
| `TrafficProofs!WakeupNeverLost` | `Spec => []NoLostWakeup` | same |
| `TrafficProofs!FinishedIsFinal` | `Spec => []OutcomeBeforeFlag` | same |
| `TrafficProofs!ControlKeepsPromise` | `Spec => Promise!Spec` | same |
| `TrafficProofs!JobsFiledOnce` | `MCSpec => []JobsAccounted` | `TrafficAssumption` |
| `TrafficProofs!FreshestStaysFirst` | `MCSpec => []SessionSound` | same |
| `TunnelManagerProofs!TypeCorrect` | `Spec => []TypeOK` | `ConstantsAssumption` |
| `TunnelManagerProofs!NoListenerOrphaned` | `Spec => []ListenersAccounted` | same |
| `TunnelManagerProofs!NoForwardForgotten` | `Spec => []ForwardsAccounted` | same |
| `TunnelManagerProofs!RegisteredConnsDie` | `Spec => []RegisteredConnsDieWithTunnel` | same |
| `TunnelManagerProofs!InboundReachesOwner` | `Spec => []InboundToOwner` | and `SharedPorts = FALSE` |
| `TunnelManagerProofs!ActiveTunnelsForward` | `Spec => []ActiveForwards` | and `SharedPorts = FALSE` |
| `TunnelRegistryProofs!TypeCorrect` | `MCSpec => []Registry!TypeOK` (`MCTunnels`) | `Registry!RegistryAssumption` |
| `TunnelRegistryProofs!ShownRunningIsLive` | `MCSpec => []RunningIsLive` | same |
| `TunnelRegistryProofs!TabsSpareOwned` | `MCSpec => OwnedSurvivesTabs` | same |
| `TunnelRegistryProofs!NothingIsOrphaned` | `MCSpec => []LiveAccounted` | same |
| `TunnelRegistryProofs!EachRunsAsSaved` | `MCSpec => []RunsAsSaved` | same |
| `TunnelRegistryProofs!ClosedTabsLendNothing` | `MCSpec => []TabsTornDown` | same |
| `TunnelRegistryProofs!NothingOutlivesItsConfig` | `MCSpec => []RemovedIsStopped` | same |
| `TunnelRegistryProofs!FailedStartsClearNothing` | `MCSpec => FailureClearsNothing` | same |
| `TunnelRegistryProofs!StoreAgrees` | `MCSpec => []Registry!ConfigsMatchStore` | and `HostRemovals = FALSE` |
| `SshSessionProofs!TypeCorrect` | `Spec => []TypeOK` | `SessionAssumption` |
| `SshSessionProofs!ClosedPanesTransferNothing` | `Spec => TransfersDieWithClose` | same |
| `SshSessionProofs!FirstPaneIsBackend` | `Spec => Remote!Spec` (safety) | same |
| `SshSessionProofs!SftpTypeCorrect` | `Sftp!Spec => []Sftp!TypeOK` | `SftpAssumption` |
| `SshSessionProofs!SessionsNeverLost` | `MCSpec => []SessionsSound` (`MCBackends`) | `BackendsAssumption` |
| `SshSessionProofs!AnyBackendIsRemote` | `MCSpec => ImplementRemote` | same |
| `SshSessionProofs!TelnetLosesNothing` | `MCSpec => []TelnetSound` | same |
| `FilesProofs!TypeCorrect` | `MCSpec => []MCTypeOK` (`MCFiles`) | `FilesAssumption` |
| `FilesProofs!DecisionsOnly` | `MCSpec => ChangesAreDecisions` | same |
| `FilesProofs!OperationsGoWhereChosen` | `MCSpec => []OperationsHitChosen` | same |
| `FilesProofs!NothingShownIsStale` | `MCSpec => []ShownIsTrue` | same |
| `PanesProofs!PanesAgree` | `MCSpec => []PanesSound` (`MCPanes`) | `PanesAssumption` |
| `PanesProofs!PanesTypeCorrect` | `MCSpec => []Panes!TypeOK` | same |
| `PanesProofs!HistoryKept` | `MCSpec => []HistorySound` | `PanelAssumption` |
| `PanesProofs!LateOutcomeChangesNothing` | `MCSpec => LateOutcomeIgnored` | same |
| `AgentProofs!TypeCorrect` | `Spec => []TypeOK` | `AgentAssumption` |
| `AgentProofs!AgentHoldsItsTunnels` | `Spec => []TunnelsHeld` | same |
| `AgentProofs!TurnsSaidAsSent` | `MCSpec => []TurnsSound` (`MCAgent`) | `MCAssumption` |
| `SettingsProofs!NoClashUnseen` | `MCSpec => []ClashOnlyByClearing` (`MCSettings`) | `SettingsAssumption` |
| `SettingsProofs!EveryKeyHasItsEntry` | `MCSpec => []KeysOwned` | same |
| `SettingsProofs!PreviewsEnd` | `MCSpec => []PreviewEnds` | same |
| `SettingsProofs!PagesLoseNothing` | `MCSpec => []PagesTrue` | same |
| `SettingsProofs!HostsDialAsSaved` | `MCSpec => []SavedHostsSound` | same |
| `SettingsProofs!TypeCorrect` | `MCSpec => [](TypeOK /\ Books!TypeOK /\ Forms!TypeOK)` | same |

The assumptions only say which constants are numbers, Booleans or subsets and
that names do not clash: any number of calls, clients, ports, tunnels, tabs,
panes, messages, tool calls, SFTP tasks, hosts, toasts, any file length, any
directories, whatever names they list. `SharedPorts = FALSE` is the discipline of
callers described in section 2 and `HostRemovals = FALSE` leaves the hosts alone;
where a theorem does not name them it holds either way.

Each module follows one line: an inductive invariant `IInv`, one lemma per
action or family of actions that it is kept, `NextKeepsInv`, and the theorems
from `IInv` by temporal logic. What the strengthenings are for:

*TransferControl*: `IInv = TypeOK /\ NoLostWakeup /\ Progress`. `NoLostWakeup`
is inductive with the types. `OutcomeBeforeFlag` is not: one must know that the
outcome has been fixed before the flag is reached and that "complete" comes
only from the last chunk, which is `Progress`. The refinement's step lemma uses
`Progress` too: each step of the control maps to one of the promise, or to a
stutter (`NotifyOne`, `Await`, loading PAUSED, both halves of `finish`).

*TransferPanel*: `PanelInv` says what `JobsAccounted` counts without counting: no
transfer has two rows, two records or one of each. For that to stay true a row
must be of a transfer that has begun (`StartJob` puts the new one in front of rows
that cannot be it) and a record of one that has ended, which it never takes back;
`PlaceHeld` adds that no timer is for the generation an open panel is shown in,
and that none is for one to come. `retire_finished` is a loop over the jobs, a recursive function in the
model; that there is such a function, and that each turn leaves kept rows of jobs
that go on, records of jobs that are over and the later jobs in neither, is proved
by the least turn at which it would fail (`LoopExists`, `LoopTurns`, `Retires`).

*LocalTerminal*: that the freshest command stays in front is not inductive by
itself: a read of the history file is taken when Enter is pressed and merged much
later, after reads begun before it and writes of the file since. `HistoryInv` says
of every read, under way or on the channel, that the file still knows all it gave
(`Reads`): the shell only adds to its file (`FileGrows`), so a command the file
does not know is in no read, and merging any of them keeps it in front
(`MergeIs`). Capturing a line puts it there (`CapturedIs`). The two recursions
behind them are proved about like the panel's loop (`Climb`, `Recursion`,
`WithoutIs`). For the keyboard flag the screen must suit it within a batch as
well as after it, since a batch may be left by Closed.

*TunnelManager*: the first three properties are inductive together with shapes
of the calls. `StopShape`: a stop has a tunnel in hand exactly between
`TakeEntry` and the end of its teardown, and only a Remote one in `cancel`, so
that "a stop is tearing it down" never goes stale for a listener. `LoopShape`
and `TaskShape`: the connection a loop has in hand is its own and started, so
that registering its handle just after `TakeEntry` is impossible (the guard
`s \in tunnels`) and no handle is registered for a connection that has yet to be
accepted. `ServerShape` ties the port the server listens on to the port the
call will be keyed under, through `BoundPort`, while the start is between the
reply and the re-keying; without it a cancel could be for another port.
`CallShape` and `TunnelShape` give each phase its kind and port.

For the last two a second invariant, `RInv`, says that a remote port has one
user. A server-chosen port is known only from the reply, so a start may hold a
port nobody could ask for yet; that is why there are two sides to it.
`OneTaker`: of two tunnels whose entries or teardowns name one port, one has
already given it up. `FixedApart` and `AskedFixed`: a start that asked for a
port asked for one nobody had, and nobody gets it while it waits. `CallFacts`
says, phase by phase, whose target the registry holds under the port of a
call; `Served`, that the server listens for whoever holds the port;
`RegistryOwn` and `RegistryKept`, that a registry entry is its holder's and
stays as long as he holds it. With them, a roll-back, a re-keying or a stop
removes only the entry that is its own.

*TunnelRegistry*: `RuntimeRegistered` says a runtime's start is over and was of
this tunnel, `StartedIsLive` that nothing stops a manager before it is
registered, and `TodoIsOwn` that a job only stops managers of its own tunnel or
tab; with them `RunningIsLive` is inductive: whoever empties a manager still
owes the clearing of its runtime (`Clearing`). `TabsSpareOwned` is an action
property read off `TodoIsOwn`. `StoreInv` adds `FreshIsNowhere` (an id not yet
handed out has no row and no config) and `RowIsLast` (a removal about to delete
the row has already dropped the config, for good, since AUTOINCREMENT ids are
never reused); without `RowIsLast` an edit could restore what is being removed.

The properties that speak of `met` follow from `MetInv`. At its centre is
`PendingMet`: a start under way has its tunnel to itself (stopped, as saved when
the start began, not in the form, its tab open), *or* has met what took that
away. `RunningUnedited` says the same of what is registered, `SavedAgree` of the
store against the registry, `LiveFound` of what is live: registered, about to be,
or overlapped. `JobHits`: a job has in hand every runtime it will clear whose
start nothing overlapped, since such a start was over when the job took its
snapshot. `TabsClosed`: a closed tab lends nothing but to starts it overlapped.
Because `met` only grows while a start is under way, each of these is kept by a
step that overlaps as well as by one that does not; no step is excluded.

*SshSession*: `TransfersDieWithClose` follows from `DrainedClosed`, that a pane
whose Close was handled stays closed, so that nothing new is tracked for it.
The step lemma of the refinement uses `InStep`, which gives for each stage of
the connecting task what it has told the monitor and the view. For Telnet and
serial `LineInStep` is enough: until a line is down there is no end to report.
`BackendsInv` is these three invariants side by side, whichever backend runs.

*TelnetBackend*: decoding one stream and going on with another is decoding
both at once (`Composes`), so the state carried from read to read is that of a
decoder which has had all the bytes in one piece (`Heard`), whatever the
cuts. What that shows is, place by place, what the grammar says (`LeftFollows`),
and the grammar has one reading (`OnlyLeft`, by the last place where two would
differ). That an escaped IAC before SE does not end a subnegotiation is part of
the grammar. `LoggedIn` says for each phase of the login what was typed on the
way to it.

*SftpSession*: `Held` numbers the sessions. A task has one exactly while its
counter says so, a held session is open and not the parked one, holders are
distinct, and every open session is parked or held. A task without a session
finds a number that is not in use because there is one more number than tasks
(`FreshIsNew`, by the pigeonhole principle). For the files, `Follows` says of a
plan that a step which leaves something on the remote is followed by one that
uses or removes it; the plans are made so (`PlansFollow`) and stay so when a
step is done or others are put before (`RestOfPlan`, `ConcatPlan`). So, while
the connection is up, a staged file is about to be used (`Staged`), and only a
task that stopped at the step that made it leaves it.

*KnownHosts*: whoever is past the beginning of a change holds the lock
(`LockHeld`), so what he read is what the file still says, or nothing where the
file could not be read (`Fresh`, over `Ground`), and the temporary file is what
the change makes of that (`Staged`). A failed write ends the change before the
rename. `OneChange` says that no actor begins a second change beside his first.
A crash empties all of it but the files.

*SftpTab*: a panel on a host has a connected terminal of its own, the others
none (`Links`), and a connected terminal has a panel (`NoneHidden`); from both,
`TerminalsShown`. Of a rename under way the invariant says that its panel still
is on the host it was begun on and lists the names it was begun over
(`RenameInPlace`): connecting takes the input away, and so does a render that
brings other names. *SidePanel* has the same of every input (`EditHere`), since
the panel is shared and the focus follows the pane, and that nothing is being
typed under a menu or a question (`Covered`), so that an input of a path is
never replaced by another one before it shows its directory again. Names are
all that `sync_remote_state` compares, and so all that the invariant can say: the
directory may be another one with the same names, which is the exception that
the property states, not an assumption of the theorem.

*Workspace*: `close_tab` and `close_pane` end in one another, from a click or
from a shell's end, so the invariant `Sound` is a formula about a record of all
the tabs' state, and each of the two is shown to map a sound record to a sound
one whose trees lie `Within` the old ones. `Sound` says more than `PanesSound`:
leaves are all different, a tree holds its active pane, no two trees share a
leaf, a pane that is not registered has no backend that runs. It is not
inductive alone. A shell's end closes the pane in the tab it was *opened* in,
which must be the one whose tree has it (`InPlace`), and a pane that is opened
must not be in a tree already: numbers are given once (`Fresh`). The lemmas
`Inserted`, `TakenOut`, `SplitTree` and `RemoveTree` say what the two operations
on trees do to the sequence of leaves.

*AiPanel*: `HistorySound` is far from inductive. `PanelOK` says when there may
be a request: with every call of the history answered, for the present
generation, and either a turn or a compaction; what waits for the reveal
belongs to that turn, and a compaction's cut is at a message of the user.
`Pumped` says that no two pumps have one generation and that the present turn's
has not delivered yet, so that a superseded one, whatever it delivers, is told
from the present one by its generation alone. For the cards, `Kept`: ids are
each card's own, the place a run was given at its start is still that of its
call, which was allowed and is running or given up, and no two runs share a
place. That is what compaction breaks, hence the condition. A call the panel
refuses itself is answered before anything is sent (`Skipped...`). For the
queue, `InTurn`: what was sent is older than what is queued, and
`QueueWaits`: a queue is left only while something under way will send it,
which is lost with a provider that goes or a compaction that is stopped
(section 7). The methods return sets of panels, and a cascade is as deep as
one method calls the next, so each of them has a lemma (`Starts`, `Continues`,
`Commits`, `SendsQueued`, `Finalizes`, `Settles`), and what they have in common
is that the conversation is kept and turns are put after it (`CardsGrow`,
`TurnsKept`). That a
compaction finds the latest message to cut at is `LatestExists`, by
well-foundedness of the natural numbers.

*AgentTunnels*: a definition that is Running names a call that returned it
(`RunningFacts`), and what is live came from an open (`LiveFacts`). `InTurn` is
what following each other means for the state: nobody opens what runs, nobody
stops another tunnel than the definition's own. `Drops` covers the panel's
end: what is live then is on the list being stopped, or was being started.

*AiStream*: `StreamInv` follows a piece of text from the response to the
message. `Kept`: the accumulator has what came, each call by its index.
`Flow`: what came is what the panel has shown, then what it has pending, then
the events in the channel, then those the worker has not sent, then what a
cancelled worker threw away, which is nothing unless it ended without an
outcome. `Reply`: the pump of the present turn is over exactly when the turn
waits to be committed or has been, and a turn that is not live left nothing
behind. A stream's own step adds at the end and nothing once its worker has
ended (`Grows`), and the panel need not know of it (`Unseen`), so that a stream
that was superseded can go on for as long as it likes: what a message says of
it stays true. What the filter of `finish` keeps is proved by the `Chosen`
lemmas, each by the least place at which it would fail.

*HostForms*: that two hosts do not share a credential or a proxy needs more than
the rows. `RowsApart` says it also of the list in memory and of rows that a
failed write has touched, because a form is opened from the list, whatever it
says; `FormApart`, that what a form took hold of when it was opened is no other
host's, for as long as the form lives, since its buttons work after it was
closed and while hosts are removed below it; `FormsTyped`, that every number in
use lies below the next one of its table. `JumpsEnd` is about
`jump_would_cycle`, a loop that follows the links; it is modelled by a recursive
function, and `ReachIs` shows what it decides: whether there is a `Walk` from
the one host to the other. From there the lemmas are about walks. A table of
hosts stays without circles when a host is added (`CircleAdd`: nothing leads to
it yet), when links are cut (`CircleCut`) and when the link of one host is
replaced by one that does not lead back (`CircleEdit`: a circle through the new
link has a last visit of the host, and what follows is a walk of the old table).
Each is proved by a first or last step, which exists by well-foundedness
(`FirstIn`, `LastIn`).

*Library*: an item is dealt to a section because its group is one of the list,
which a group's deletion keeps (`InGroups`, the store's `ON DELETE SET NULL`);
the registry repeats the store because a removal that dropped a config never
sees it return (`DroppedGone`), and that because ids are given once (`RowsFresh`).

*Notifications*: `NoneForgotten` and `FullTime` are inductive with `Below`: all
slots and generations in use are values the counter has had, so a new timer is
nobody else's. That an eviction finds an oldest toast is `OldestExists`, by
well-foundedness of the natural numbers; that it makes room is `RoomForOne`.

*Keybinds, AiProviders, Appearance*: these pages change the memory first and
the file after, and a restart takes the file for the memory, so what is said of
one (`Apart`) is said of both. A shortcut that conflicts with nothing clashes
with nothing because what is registered is what is in memory (`registered =
Apply(bindings)`). A built-in entry may lend its key to another and is never
removed (`Builtin \subseteq Ids`), so a removal takes the key of one entry only.

Only model-checked: all liveness, and the fairness part of the refinement
`KeepsPromise` (the theorem is about the abstract specification without its
fairness), because they need `ENABLED`; what most recursive definitions over sequences and
messages compute, because the provers here have no induction over data (of five,
the chain of jumps, the jobs that are retired, the merged history, the calls a
response ends with and the decoder's loop, what matters about the result is
proved, each by the least index at which it would fail); and
the safety properties of the modules with no proof module
(`StagedCopy`, the output of `SerialBackend`, `TerminalView`,
`AgentWaits`, `SshImport`), and of `AiPanel`, `AiStream` and `LocalTerminal`
their `TypeOK`.

## 7. Where code and comments disagree

Four runs end in a counterexample; `PROJECT.json` lists them as findings.

| run | property | a comment says | the code |
|---|---|---|---|
| `second_source` | `OneSource` | "a tunnel can only run from one source at a time. If the tunnel is already running (owned or borrowed) the start is rejected" (`app/tunnels.rs:466-468`) | `is_running` is false until a start has registered, many awaits later; a second start accepted meanwhile succeeds on port 0 or on another server, and its registration takes the first runtime's place (`app/tunnels.rs:470`) |
| `shortcuts_fields` | `FieldsEditable` | the presets "MUST run before gpui_component::init()" because clearing the keymap takes the text fields' keys, Backspace included (`src/main.rs:128-137`) | every change of a shortcut clears the keymap and registers the catalog only (`keybinds.rs:144`) |
| `staged_copy` | `CopiesWhole` | "wait for the download to finish, then upload" (`helpers.rs:277-283`) | a file whose size rests for three polls counts as finished, paused or stalled as its download may be (`helpers.rs:351`) |
| `ai_pending` | `AllowedByUser` | a pending call is "Waiting for the user; the turn does not continue until it is resolved" (`views/panel/ai.rs:74`) | a late result is addressed by the indices of its card at the start; after a compaction another card is there, and a pending one is given the result, marked allowed and passed over (`ai.rs:1468`) |

The following are defined in the modules beside the properties that hold, each
under a comment that quotes what is promised, and TLC refutes each on the
instance of its module's run (name it in the cfg to see the behaviour).

| module | property | what happens |
|---|---|---|
| `TunnelManager` | `StoppedHasNoBridge` | a connection accepted while `stop` removes the entry registers nowhere |
| | `StopAllLeavesNone` | a tunnel started during `stop_all` survives it |
| | `ConnTasksBounded` | handles of finished connections stay |
| | `ActiveReachable` (with `SharedPorts`) | a refused second request for a port takes the first tunnel's target away |
| `TransferControl` | `CancelledReportsFailure` | a cancel after the last checkpoint marks a success cancelled |
| | `ToggleReportsState` | it reports what it loaded, not what it left |
| | `PauseAfterFinishIsNoop` | a finished transfer can be paused |
| `AiPanel` | `IdleQueueEmpty`, `StoppedRoundRunsTurn` | a stopped compaction sends neither the queue nor the turn it held up |
| | `LateAlwaysIgnored` | after a compaction the indices address another card |
| `TunnelRegistry` | `NothingToClear` | "nothing to clear" after a failed start (`tunnels.rs:596-600`), but for the runtime of a start beside it, which is cleared |
| | `SessionServesTunnel` | a start that fails after its connect leaves the session up |
| | `ConfigsMatchStore` (with `HostRemovals`) | the cascade deletes rows the registry keeps |
| `TransferPanel` | `EveryJobRetires` | a job whose task was aborted never says it is over (`transfer_center.rs:24-28`) |
| `SshSession` | `SplitsKeepMonitor` | the first pane's end marks the shared monitor disconnected |
| | `NoTransferOutlivesClose` | a loop that ended before Close drains nothing |
| | `PromptEnds` | a closed pane's question is never dropped |
| `SftpSession` | `DownloadSweeps` | a failed stream leaves the remote temporary archive |
| | `ListingMatchesCwd` | directory and entries are written apart, by navigations that overlap |
| `TelnetBackend` | `RepliesAreWhole` | an option is forgotten at the end of a read |
| | `NothingStoredNothingTyped` | prompts are answered with empty credentials |
| `SerialBackend` | `FinalOutput` | the end overtakes what was read before it |
| `LocalTerminal` | `HistoryHandled`, `FirstKeysKept`, `RevisionCounts`, `ClosedShellExits` | a history that arrives within a batch is dropped; a key between the replay and the hand-over goes nowhere; a batch that ends with Closed is not counted; a shell that starts after its view was closed lives on |
| `TerminalView` | `ConnectedIsSuccess`, `DropReconnects` | the status is read late and may be gone, or mirrored before the end is handled |
| | `ReconnectOffered` | an overlay once hidden stays hidden |
| | `OldLoopsExit` | nothing closes the channels of an earlier attempt |
| `Workspace` | `LateCloseIsHarmless` | a pane's late end takes the tab with it |
| | `KeyboardStays` | a background pane's end takes the keyboard |
| | `BorrowsOwnTab` | a split's agent hands out its pane's id for a tab's |
| `AgentTunnels` | `NoTunnelOutlivesPanel`, `RidesSession`, `DeletedStaysDeleted`, `AnswersAreTrue` | a start in flight outlives `stop_all`; after a reconnect tunnels ride the old connection; an open returns a deleted definition to life; a limit of three seconds answers early |
| `AgentWaits` | `OwnResult`, `NoOutputIsTrue` | an event names a kind, not a transfer; quiet is not the end |
| `SftpTab` | `RenamesReachTheirHost` | an input made for a local file commits on the server chosen since (`view.rs:562-590`) |
| | `RenamesStayInPlace` | a rename begun in one directory goes on in another that lists the same names (`view.rs:494-512`) |
| `HostForms` | `EditsSavedKind`, `ClearedProxyRemoved` | a form opens without the saved kind; a cleared proxy's row stays |
| `SshImport` | `ImportedOnce`, `SubmittedIsAccepted` | a second click while the preview fades; a circle through saved hosts of the same name |
| `Keybinds` | `ClearDisables` | a cleared shortcut goes on working as the default |
| `AiProviders` | `ModelFits`, `ListFollowsEndpoint` | the model stays when its provider goes; lists arrive in any order |
| `Appearance` | `SaveApplies`, `LanguageAsConfigured`, `FocusChangesNothing` | two files of one name; a reset leaves the language; a focus saves a stale number |

Seen while modelling, with no property of their own: cloning a host loses its
port to `open()` (`sessions/form.rs:248-262`); a timer of a closed dialog
destroys one opened within 200 ms, and Save clicked while one fades saves
twice; an edit removes the old credential before the update that may fail; a
known-hosts file that cannot be read counts as empty, so that accepting a key
overwrites it, and an unreadable `config.toml` becomes the defaults and is then
overwritten; transfers without a job, or beyond the panel's
limit, are never recorded; `set_*_group` and `toggle_group_favorite` have no
callers though the docs say "Move to Group"; a star set on the side panel while
the form is open is undone by Save; `save_tunnel` returns silently for an empty
name though `tunnels/form.rs:311` calls it optional.

## 8. Abstractions

- Aborting a connection task takes effect at once; aborting an accept loop is
  modelled exactly (at an await), because what it does meanwhile matters.
- A start call, the id it allocates and, in `TunnelRegistry`, the manager it
  builds are one model value each: ids come from a counter under a mutex, and
  the app builds a manager per start. One bind address stands for all.
- What happens to bytes is left out unless a property is about it: a bridge is
  its two ends, a chunk is a chunk, a turn is its author, generation and calls.
  `TelnetBackend` and `AiStream` do follow what is said.
- `stop_all` is one step in `TunnelRegistry`, which sees a manager from
  outside; its steps are `TunnelManager`'s. `TerminalView` takes an attempt for
  a `RemoteBackend`.
- Undecided outcomes of the environment are nondeterministic: a bind, a request
  or a write may fail, a stream may end well, blank, broken or cancelled, a tool
  may be refused, fail or finish. What fails in one handler is drawn before it,
  so that the handler's steps are an operator of it.
- A bridge ends at any time or never, which covers both readings of
  `handler.rs:242-274`, whose comment speaks of either direction and whose code
  joins both.
- Field contents are `Invalid` or a value: a form's checks decide only whether
  Save goes on. Names matter only for being equal.
- `SftpSession`: `sftp_navigate` keeps the cached session's mutex locked while it
  opens one (`terminal.rs:101-120`); `TakeSession` does not, so the model has
  more behaviours than the code, not fewer. `Swept` takes the best-effort `rm`
  of a temporary file (`file.rs:107,187`) to succeed while the link is up; one
  that fails leaves its file behind; the code ignores its result.
- `AgentWaits` has the revision counter that the application's session provides
  (`panel/ai.rs:338`), not the fallback without one (`agent.rs:309-313`), and
  takes the check of the deadline and the drain after it as one step.
- `SftpTab` and `SidePanel`: one menu, dialog or picker is open at a time; a
  remote row's Delete stands for the row or the selection alike.
- Progress counters, error texts, `on_change`, `get` and `list` only feed
  rendering and are left out.

## 9. Not modelled

| part | why |
|---|---|
| Proxies (`crabport-proxy`) | byte-level handshakes without shared state |
| Store and migrations (`crabport-core/src/store`) | SQL; the rows that matter and what foreign keys do to them are in `TunnelRegistry`, `HostForms`, `SshImport` and `Library` |
| Parsing of monitor and capture output, of ssh_config text, of keystrokes and colours | text formats; the modules start at what was parsed |
| The providers' wire formats (`crabport-ai`) | parsing; `AiStream` starts at its chunks |
| Emulation of escape sequences | a vendored emulator; the mode and history logic around it is in `LocalTerminal` |
| Layouts, widgets, icons, localisation | rendering |

## 10. Plan

The components are modelled; what is left is mostly proof.

1. `ViewFollowsAttempt` of `TerminalView`, for any number of attempts.
2. An abstract tunnel service (off, starting, on, stopping; on means reachable)
   that `TunnelManager` refines for one manager and `TunnelRegistry` uses.
