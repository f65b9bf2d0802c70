------------------------------ MODULE HostForms ------------------------------
(***************************************************************************)
(* Saved hosts: the form in which a host is created, cloned and edited,    *)
(* the rows of the store it is saved to, and the list from which the user  *)
(* connects.  Sources: crabport-ui/src/app/connection.rs, app/hosts.rs,    *)
(* app/groups.rs, views/sessions/form.rs and the store's hosts.rs,         *)
(* credentials.rs and proxies.rs in crabport-core.                         *)
(*                                                                         *)
(* A host's row refers to a credential and a proxy, which the form         *)
(* replaces or updates when it is saved, and to the host it jumps through. *)
(* The list in memory (CrabportApp::hosts) repeats part of the row; what a *)
(* connection uses is read partly from the one and partly from the other.  *)
(* A closed form lives on while its animation plays, and its buttons still *)
(* work; a timer of 200 ms then destroys whatever form there is.           *)
(***************************************************************************)
EXTENDS Integers, FiniteSets, Functions

CONSTANTS Kinds,      \* connection kinds; only one of them can be a jump host
          SSH,
          MaxSaves,   \* bound: rows ever written by the form
          MaxFaults,  \* bound: writes of the store that fail
          MaxTimers   \* bound: animations under way

HostFormsAssumption == SSH \in Kinds /\ {MaxSaves, MaxFaults, MaxTimers} \subseteq Nat

VARIABLES hosts,    \* rows of the table hosts, by id
          creds,    \* ids of the credentials stored
          proxies,  \* ids of the proxies stored
          list,     \* CrabportApp::hosts, by id
          form,     \* CrabportApp::connection_form
          timers,   \* destructions pending
          next,     \* next id of each table (AUTOINCREMENT)
          faults,   \* writes that have failed
          marred    \* hosts a failed write has touched

vars == <<hosts, creds, proxies, list, form, timers, next, faults, marred>>

None == 0      \* no jump host, no proxy; also the id taken for a row that was not written
New == -1      \* the form creates a host
NoForm == [editing |-> -2]
Ids == 1..MaxSaves

Init ==
  /\ hosts = << >> /\ list = << >>
  /\ creds = {} /\ proxies = {}
  /\ form = NoForm /\ timers = 0
  /\ next = [host |-> 1, cred |-> 1, proxy |-> 1]
  /\ faults = 0 /\ marred = {}

Exists == form # NoForm
Covered == Exists /\ form.active   \* the overlay is up: the page below takes no click
Listed(h) == [kind |-> hosts[h].kind, cred |-> hosts[h].cred, proxy |-> hosts[h].proxy]
FromStore == [h \in DOMAIN hosts |-> Listed(h)]
Without(f, h) == Restrict(f, DOMAIN f \ {h})
WithRow(f, h, row) == [g \in DOMAIN f \cup {h} |-> IF g \in DOMAIN f THEN f[g] ELSE row]
Cred(c) == IF c \in creds THEN c ELSE None
Proxy(p) == IF p \in proxies THEN p ELSE None
Jump(h) == IF h \in DOMAIN hosts THEN hosts[h].jump ELSE None

\* The jump links that lead away from start pass through target.
ChainReaches(start, target) ==
  LET chain[n \in 0..MaxSaves] == IF n = 0 THEN start ELSE Jump(chain[n - 1])
  IN  start # None /\ \E n \in 0..MaxSaves : chain[n] = target

\* Mutant of Relisted: the edit forgets that the proxy's row may be new.
RelistedHalf(h, c, p) == [list EXCEPT ![h].cred = c]

\* The row of the list after an edit: not its kind.
Relisted(h, c, p) == [list EXCEPT ![h].cred = c, ![h].proxy = p]

\* What the jump-host selector offers.
Candidates ==
  {h \in DOMAIN hosts : hosts[h].kind = SSH
                        /\ (form.editing = New \/ ~ChainReaches(h, form.editing))}

-----------------------------------------------------------------------------
(* Opening and closing the form.                                           *)

\* close_connection_form
Closing ==
  IF Exists THEN timers < MaxTimers /\ timers' = timers + 1
            ELSE UNCHANGED timers

Close ==
  /\ Exists /\ Closing
  /\ form' = [form EXCEPT !.active = FALSE]
  /\ UNCHANGED <<hosts, creds, proxies, list, next, faults, marred>>

TimerFires ==
  /\ timers > 0
  /\ timers' = timers - 1
  /\ form' = NoForm
  /\ UNCHANGED <<hosts, creds, proxies, list, next, faults, marred>>

BlankForm(k) == [active |-> TRUE, editing |-> New, kind |-> k, jump |-> None, proxied |-> FALSE,
             cred0 |-> None, proxy0 |-> None]

\* A form that exists, on its way out or not, is brought to the front as it is.
OpenNew(k) ==
  /\ form' = IF Exists THEN [form EXCEPT !.active = TRUE] ELSE BlankForm(k)
  /\ UNCHANGED <<hosts, creds, proxies, list, timers, next, faults, marred>>

\* What clone_host and edit_host fill in: the list's row, and the store's jump host.
Filled(h, e) ==
  [active |-> TRUE, editing |-> e, kind |-> list[h].kind,
   jump |-> IF Jump(h) = h THEN None ELSE Jump(h),
   proxied |-> Proxy(list[h].proxy) # None,
   cred0 |-> list[h].cred, proxy0 |-> list[h].proxy]

\* A clone, like any new host, starts without rows of its own.
CloneHost(h) ==
  /\ ~Covered /\ h \in DOMAIN list /\ Closing
  /\ form' = [Filled(h, New) EXCEPT !.cred0 = None, !.proxy0 = None]
  /\ UNCHANGED <<hosts, creds, proxies, list, next, faults, marred>>

EditHost(h) ==
  /\ ~Covered /\ h \in DOMAIN list /\ Closing
  /\ form' = Filled(h, h)
  /\ UNCHANGED <<hosts, creds, proxies, list, next, faults, marred>>

\* The user's choices, while the dialog can be seen.
Fill ==
  /\ Exists
  /\ \/ \E k \in Kinds : form' = [form EXCEPT !.kind = k]
     \/ \E j \in Candidates \cup {None} : form.kind = SSH /\ form' = [form EXCEPT !.jump = j]
     \/ \E b \in BOOLEAN : form' = [form EXCEPT !.proxied = b]
  /\ UNCHANGED <<hosts, creds, proxies, list, timers, next, faults, marred>>

-----------------------------------------------------------------------------
(* Saving.  failing names the writes of this save that the store refuses.  *)

\* (bound: a write fails while there is a save left that may follow it.)
Failing(failing) ==
  /\ failing # {} => next.cred < MaxSaves
  /\ faults + Cardinality(failing) <= MaxFaults
  /\ faults' = faults + Cardinality(failing)

NewCred(failing) == IF "credential" \in failing THEN None ELSE next.cred

\* upsert_proxy_for_host: without a proxy it returns before the old row is removed.
ProxyKept(failing, old) ==
  CASE ~form.proxied          -> None
    [] form.proxied /\ old # None -> old
    [] OTHER                  -> IF "proxy" \in failing THEN None ELSE next.proxy
ProxiesAfter(failing, old) ==
  IF form.proxied /\ old = None /\ "proxy" \notin failing
  THEN proxies \cup {next.proxy} ELSE proxies

ForeignKeys(row) == row.jump \in DOMAIN hosts \cup {None} /\ row.proxy \in proxies' \cup {None}

\* save_new_host_from_form, whether or not it also connects
SaveNew(failing) ==
  LET c == NewCred(failing)
      p == ProxyKept(failing, None)
      row == [kind |-> form.kind, cred |-> c, proxy |-> p,
              jump |-> IF form.kind = SSH THEN form.jump ELSE None]
      kept == "host" \notin failing /\ ForeignKeys(row)
      id == IF kept THEN next.host ELSE None
  IN  /\ Exists /\ form.editing = New
      /\ next.host <= MaxSaves /\ next.cred <= MaxSaves
      /\ Failing(failing) /\ Closing
      /\ form' = [form EXCEPT !.active = FALSE]
      /\ creds' = creds \cup ({c} \ {None})
      /\ proxies' = ProxiesAfter(failing, None)
      /\ hosts' = IF kept THEN WithRow(hosts, id, row) ELSE hosts
      /\ list' = WithRow(list, id, [kind |-> form.kind, cred |-> c, proxy |-> p])
      /\ next' = [host |-> next.host + (IF kept THEN 1 ELSE 0), cred |-> next.cred + 1,
                  proxy |-> next.proxy + Cardinality(proxies' \ proxies)]
      /\ marred' = IF kept /\ failing # {} THEN marred \cup {id} ELSE marred

\* The callback of edit_host: the old credential goes first.
SaveEdit(failing) ==
  LET h == form.editing
      c == NewCred(failing)
      p == ProxyKept(failing, form.proxy0)
      row == [kind |-> form.kind, cred |-> c, proxy |-> p,
              jump |-> IF form.kind = SSH /\ ~ChainReaches(form.jump, h) THEN form.jump ELSE None]
      kept == "host" \notin failing /\ (h \in DOMAIN hosts => ForeignKeys(row))
  IN  /\ Exists /\ h # New
      /\ next.cred <= MaxSaves
      /\ Failing(failing) /\ Closing
      /\ form' = [form EXCEPT !.active = FALSE]
      /\ creds' = (creds \ {form.cred0}) \cup ({c} \ {None})
      /\ proxies' = ProxiesAfter(failing, form.proxy0)
      /\ hosts' = IF kept /\ h \in DOMAIN hosts THEN [hosts EXCEPT ![h] = row] ELSE hosts
      /\ list' = IF kept /\ h \in DOMAIN list THEN Relisted(h, c, p) ELSE list
      /\ next' = [next EXCEPT !.cred = @ + 1,
                              !.proxy = @ + Cardinality(proxies' \ proxies)]
      /\ marred' = IF failing # {} \/ ~kept THEN marred \cup {h} ELSE marred

-----------------------------------------------------------------------------
(* The list.                                                               *)

\* remove_host: the links of hosts that jump through it are set to NULL.
RemoveHost(h, failing) ==
  /\ ~Covered /\ h \in DOMAIN list
  /\ Failing(failing)
  /\ creds' = IF "credential" \in failing THEN creds ELSE creds \ {list[h].cred}
  /\ hosts' = IF "host" \in failing THEN hosts
              ELSE [g \in DOMAIN hosts \ {h} |->
                      [hosts[g] EXCEPT !.jump = IF @ = h THEN None ELSE @]]
  /\ list' = Without(list, h)
  /\ marred' = IF "host" \in failing THEN marred \cup {h} ELSE marred
  /\ UNCHANGED <<proxies, form, timers, next>>

\* What connect_to_host connects with: the row of the list as it is before the reload.
Dials(h) == [cred |-> Cred(list[h].cred), proxy |-> Proxy(list[h].proxy)]

Connect(h) ==
  /\ h \in DOMAIN list
  /\ list' = FromStore
  /\ UNCHANGED <<hosts, creds, proxies, form, timers, next, faults, marred>>

\* reload_hosts, after a change of favourites or groups
Reload ==
  /\ list' = FromStore
  /\ UNCHANGED <<hosts, creds, proxies, form, timers, next, faults, marred>>

Next ==
  \/ Close \/ TimerFires \/ Fill \/ Reload
  \/ \E k \in Kinds : OpenNew(k)
  \/ \E h \in 0..MaxSaves : CloneHost(h) \/ EditHost(h) \/ Connect(h)
  \/ \E failing \in SUBSET {"credential", "proxy", "host"} :
        SaveNew(failing) \/ SaveEdit(failing)
  \/ \E h \in 0..MaxSaves, failing \in SUBSET {"credential", "host"} : RemoveHost(h, failing)

Spec == Init /\ [][Next]_vars

-----------------------------------------------------------------------------
Row == [kind : Kinds, cred : 0..MaxSaves, proxy : 0..MaxSaves, jump : 0..MaxSaves]

\* Every variable stays in its type.
TypeOK ==
  /\ DOMAIN hosts \subseteq Ids /\ \A h \in DOMAIN hosts : hosts[h] \in Row
  /\ creds \subseteq Ids /\ proxies \subseteq Ids
  /\ DOMAIN list \subseteq 0..MaxSaves
  /\ timers \in 0..MaxTimers /\ faults \in 0..MaxFaults
  /\ marred \subseteq 0..MaxSaves

\* No sequence of saves makes a host a hop of its own jump chain (connection.rs
\* jump_would_cycle and the selector's filter): chains can be followed to their end.
JumpsEnd == \A h \in DOMAIN hosts : ~ChainReaches(hosts[h].jump, h)

\* A host whose writes went through has its credential and proxy in the store, and no
\* other host uses them: saving, cloning, editing twice or removing one host never
\* takes another's secrets away or changes them.
RowsHeld ==
  LET sound == DOMAIN hosts \ marred IN
  /\ \A h \in sound : hosts[h].cred \in creds /\ hosts[h].proxy \in proxies \cup {None}
  /\ \A g, h \in sound : g # h => /\ hosts[g].cred # hosts[h].cred
                                  /\ hosts[g].proxy # hosts[h].proxy \/ hosts[h].proxy = None
HostsSound == JumpsEnd /\ RowsHeld

\* A saved host is listed and would be dialled with the credential and the proxy its
\* row has now, though connect_to_host takes their ids from the list in memory: whatever
\* changes the row brings the list along.
DialsAsSaved ==
  \A h \in DOMAIN hosts \ marred :
    h \in DOMAIN list /\ Dials(h) = [cred |-> hosts[h].cred, proxy |-> hosts[h].proxy]

\* The form that edit_host opens starts with the kind that is saved ("Restore the
\* connection type so the form opens on the correct tab", hosts.rs:390-392).  It does
\* not: an edit that changes the kind leaves the list's row with the old one.
EditsSavedKind ==
  [][\A h \in DOMAIN hosts :
       EditHost(h) => form'.kind = hosts[h].kind]_vars

\* Saving an edited host without a proxy removes the proxy's row (connection.rs
\* upsert_proxy_for_host: "if `existing_id` was set, delete that proxy row").  It does
\* not: the function returns before it gets there.
ClearedProxyRemoved ==
  [][\A h \in DOMAIN hosts :
       SaveEdit({}) /\ form.editing = h /\ ~form.proxied => form.proxy0 \notin proxies']_vars

=============================================================================
