---------------------------- MODULE SftpSession ----------------------------
(***************************************************************************)
(* The SFTP side of one SSH connection: a cache of at most one open SFTP   *)
(* session, the async mutex around the russh Handle that opens channels,   *)
(* and the tasks that use both (src/crabport-ssh/src/terminal.rs and       *)
(* src/crabport-ssh/src/transfer/): navigations, downloads, uploads,       *)
(* deletions, edits, with their remote temporary files and the fallbacks   *)
(* taken when the server has no tar.                                       *)
(*                                                                         *)
(* A transfer is a plan: a sequence of steps, each of which either borrows *)
(* the session from the cache (or opens one) and gives it back, or runs a  *)
(* command under the handle's lock.  A step's result may extend the plan.  *)
(*                                                                         *)
(* sftp_navigate holds the cache's mutex while it opens a session; here    *)
(* others may use the cache meanwhile, which allows more, not less.        *)
(***************************************************************************)
EXTENDS Naturals, Sequences, FiniteSets

CONSTANTS
    Tasks,      \* tasks spawned over the life of the backend
    KindsOf,    \* [Tasks -> what each may be]
    Paths,      \* directories a navigation may ask for
    MaxSaves,   \* bound: saves in the editor
    MayDrop,    \* the connection may be lost
    None

SftpAssumption ==
    /\ IsFiniteSet(Tasks) /\ None \notin Tasks \cup Paths
    /\ KindsOf \in [Tasks -> SUBSET {"navigate", "download", "upload", "batch", "delete",
                                    "rename", "mkdir", "edit", "capture"}]
    /\ MaxSaves \in Nat /\ MayDrop \in BOOLEAN

VARIABLES
    task,       \* [Tasks -> the task's record]
    cache,      \* sftp_session: the parked session, 0 when None
    open,       \* SFTP sessions open on the server
    lock,       \* who holds the Handle's mutex across a command
    entries,    \* sftp_entries: the directory it lists
    cwd,        \* sftp_cwd
    backend,    \* "up", "draining" (Close has aborted the transfers), "closed"
    link        \* the transport works

vars == <<task, cache, open, lock, entries, cwd, backend, link>>
shown == <<entries, cwd>>

SftpSteps == {"goto", "stat", "size", "pull", "fetch", "push", "store", "list",
              "delete", "rmdir", "rename", "mkdir", "mkdirs"}
ExecSteps == {"which", "pack", "tar", "unpack", "untar", "extract", "rm", "start"}

Idle == [kind |-> None, plan |-> <<>>, pc |-> "new", sess |-> 0, tmp |-> FALSE,
         path |-> None, saves |-> 0, result |-> None, at |-> None]

TypeOK ==
    /\ \A t \in Tasks :
          /\ task[t].kind \in KindsOf[t] \cup {None}
          /\ task[t].plan \in Seq(SftpSteps \cup ExecSteps \cup {"watch", "drain"})
          /\ task[t].pc \in {"new", "run", "open", "hold", "entries", "cwd", "park",
                             "exec", "done", "aborted"}
          /\ task[t].tmp \in BOOLEAN /\ task[t].path \in Paths \cup {None}
          /\ task[t].saves \in 0..MaxSaves
          /\ task[t].result \in {None, "ok", "error", "cancelled"}
    /\ cache \in open \cup {0} /\ open \subseteq 1..(Cardinality(Tasks) + 1)
    /\ lock \in Tasks \cup {None}
    /\ entries \in Paths \cup {None, "home"} /\ cwd \in Paths \cup {None, "home"}
    /\ backend \in {"up", "draining", "closed"} /\ link \in BOOLEAN

\* The connect task has tried SFTP once: it read cwd and entries, each of which
\* may have failed, and parked the session; or there is no session.
Init ==
    /\ task = [t \in Tasks |-> Idle]
    /\ cache \in {0, 1} /\ open = {cache} \ {0} /\ lock = None
    /\ cwd \in (IF cache = 0 THEN {None} ELSE {None, "home"})
    /\ entries \in (IF cache = 0 THEN {None} ELSE {None, "home"})
    /\ backend = "up" /\ link = TRUE

-----------------------------------------------------------------------------
(* Plans *)

DownloadFile == <<"pack", "size", "pull", "rm">>            \* gzip staging
DownloadDir  == <<"tar", "size", "fetch", "rm">>
UploadFile   == <<"push", "unpack">>
UploadDir    == <<"store", "untar">>

\* What a spawned task sets out to do; local_path is a file or a directory.
Plans(kind) ==
    CASE kind = "navigate" -> {<<"goto">>}
      [] kind = "download" -> {<<"stat">>}
      [] kind = "upload"   -> {UploadFile, UploadDir}
      [] kind = "batch"    -> {<<"which">>}
      [] kind = "delete"   -> {<<"stat">>}
      [] kind = "rename"   -> {<<"rename">>}
      [] kind = "mkdir"    -> {<<"mkdir">>}
      [] kind = "edit"     -> {<<"stat", "watch">>}
      [] kind = "capture"  -> {<<"start", "drain">>}

\* What a step that succeeded adds in front of the rest of the plan: stat
\* tells a file from a directory, "list" yields the children, "which" has
\* found tar or has not.
Found(kind, step) ==
    CASE step = "stat" /\ kind = "delete" -> {<<"delete">>, <<"rmdir">>}
      [] step = "stat" /\ kind # "delete" -> {DownloadFile, DownloadDir}
      [] step = "list" /\ kind = "delete" -> {<<>>, <<"delete">>}
      [] step = "list" /\ kind # "delete" -> {<<>>, DownloadFile}
      [] step = "mkdirs"                  -> {<<>>, UploadFile}
      [] step = "which"                   -> {UploadFile, <<"store", "extract">>}
      [] OTHER                            -> {<<>>}

\* Failures a step survives: tar is missing (exit 127), the directory was not
\* empty; the temporary file of this attempt is gone or was never made.
Fallback(step) ==
    CASE step = "tar"   -> {<<"list">>}
      [] step = "untar" -> {<<"mkdirs">>}
      [] step = "rmdir" -> {<<"list", "delete">>}
      [] OTHER          -> {}

-----------------------------------------------------------------------------
(* Tasks *)

Next1(t) == Head(task[t].plan)
Running(t) == task[t].pc \notin {"new", "done", "aborted"}
Holders(s) == {t \in Tasks : task[t].sess = s}
Fresh == CHOOSE s \in 1..(Cardinality(Tasks) + 1) : s \notin open

\* The task goes on with `plan`, or is over.  An edit that has opened its file
\* goes back to watching it whatever a save came to.
Proceed(r, plan) ==
    IF plan = <<>> THEN [r EXCEPT !.plan = plan, !.pc = "done", !.result = "ok",
                                  !.sess = 0, !.path = None]
                   ELSE [r EXCEPT !.plan = plan, !.pc = "run", !.sess = 0]
ProceedWith(r, plan, tmp) == [Proceed(r, plan) EXCEPT !.tmp = tmp]
Fail(r, result, tmp) ==
    IF r.kind = "edit" /\ r.saves > 0
      THEN [r EXCEPT !.plan = <<"watch">>, !.pc = "run", !.sess = 0, !.tmp = FALSE]
      ELSE [r EXCEPT !.plan = <<>>, !.pc = "done", !.result = result, !.sess = 0,
                     !.tmp = tmp, !.at = Head(r.plan)]

Start(t) ==
    /\ task[t].pc = "new" /\ backend = "up"
    /\ \E kind \in KindsOf[t] : \E plan \in Plans(kind) :
          \E path \in (IF kind = "navigate" THEN Paths ELSE {None}) :
             task' = [task EXCEPT ![t] = [Idle EXCEPT !.kind = kind, !.plan = plan,
                                                      !.pc = "run", !.path = path]]
    /\ UNCHANGED <<cache, open, lock, shown, backend, link>>

\* Slip: the session is borrowed and left in the cache.
TakeCopy(t) ==
    /\ task[t].pc = "run" /\ Next1(t) \in SftpSteps
    /\ task' = [task EXCEPT ![t].pc = IF cache # 0 THEN "hold" ELSE "open",
                            ![t].sess = cache]
    /\ UNCHANGED <<cache, open, lock, shown, backend, link>>

\* take_or_open_sftp: the parked session, if there is one.
TakeSession(t) ==
    /\ task[t].pc = "run" /\ Next1(t) \in SftpSteps
    /\ task' = [task EXCEPT ![t].pc = IF cache # 0 THEN "hold" ELSE "open",
                            ![t].sess = cache]
    /\ cache' = 0
    /\ UNCHANGED <<open, lock, shown, backend, link>>

\* A new SFTP channel, under the handle's lock.
OpenSession(t) ==
    /\ task[t].pc = "open" /\ lock = None
    /\ \/ /\ link
          /\ open' = open \cup {Fresh}
          /\ task' = [task EXCEPT ![t].pc = "hold", ![t].sess = Fresh]
       \/ /\ task' = [task EXCEPT ![t] = Fail(@, "error", @.tmp)]
          /\ UNCHANGED open
    /\ UNCHANGED <<cache, lock, shown, backend, link>>

\* *sftp_session = Some(s): a session parked meanwhile by another is dropped.
Park(s) == cache' = s /\ open' = open \ {cache}

Close(s) == open' = open \ {s} /\ UNCHANGED cache

Streamed == {"pull", "push"}              \* these tell a cancel from an error
MakesTmp(step) == step \in {"push", "store"}

\* The step succeeds; the session goes back.
SftpOk(t) ==
    /\ task[t].pc = "hold" /\ Next1(t) # "goto" /\ link
    /\ \E more \in Found(task[t].kind, Next1(t)) :
          task' = [task EXCEPT ![t] =
                     ProceedWith(@, more \o Tail(@.plan), @.tmp \/ MakesTmp(Next1(t)))]
    /\ Park(task[t].sess)
    /\ UNCHANGED <<lock, shown, backend, link>>

\* rmdir fails on a directory that is not empty: the session is closed, the
\* children are deleted one by one.  mkdir and mkdirs of a directory that
\* exists park the session and go on.
SftpRefused(t) ==
    /\ task[t].pc = "hold" /\ link
    /\ \/ /\ Next1(t) = "rmdir"
          /\ \E more \in Fallback("rmdir") :
                task' = [task EXCEPT ![t] = Proceed(@, more \o Tail(@.plan))]
          /\ Close(task[t].sess)
       \/ /\ Next1(t) \in {"mkdir", "mkdirs"}
          /\ \E more \in Found(task[t].kind, Next1(t)) :
                task' = [task EXCEPT ![t] = Proceed(@, more \o Tail(@.plan))]
          /\ Park(task[t].sess)
       \/ /\ Next1(t) = "mkdir"      \* a file is in the way: the stat succeeds
          /\ task' = [task EXCEPT ![t] = Fail(@, "error", @.tmp)]
          /\ Park(task[t].sess)
    /\ UNCHANGED <<lock, shown, backend, link>>

\* The user cancelled: the file streams park the healthy session, the archive
\* streams treat it as any error.
SftpCancelled(t) ==
    /\ task[t].pc = "hold" /\ Next1(t) \in Streamed
    /\ task' = [task EXCEPT ![t] = Fail(@, "cancelled", TRUE)]
    /\ Park(task[t].sess)
    /\ UNCHANGED <<lock, shown, backend, link>>

\* return_sftp on an error: the session is closed.
SftpFails(t) ==
    /\ task[t].pc = "hold"
    /\ task' = [task EXCEPT ![t] = Fail(@, "error", @.tmp \/ MakesTmp(Next1(t)))]
    /\ Close(task[t].sess)
    /\ UNCHANGED <<lock, shown, backend, link>>

Sftp(t) == TakeSession(t) \/ OpenSession(t) \/ SftpOk(t) \/ SftpRefused(t)
           \/ SftpCancelled(t) \/ SftpFails(t)

-----------------------------------------------------------------------------
(* sftp_navigate: canonicalize and read_dir, then two writes and the return,
   each under a lock of its own *)

ReadDir(t) ==
    /\ task[t].pc = "hold" /\ Next1(t) = "goto" /\ link
    /\ task' = [task EXCEPT ![t].pc = "entries"]
    /\ UNCHANGED <<cache, open, lock, shown, backend, link>>

WriteEntries(t) ==
    /\ task[t].pc = "entries"
    /\ entries' = task[t].path /\ task' = [task EXCEPT ![t].pc = "cwd"]
    /\ UNCHANGED <<cache, open, lock, cwd, backend, link>>

WriteCwd(t) ==
    /\ task[t].pc = "cwd"
    /\ cwd' = task[t].path /\ task' = [task EXCEPT ![t].pc = "park"]
    /\ UNCHANGED <<cache, open, lock, entries, backend, link>>

ParkSession(t) ==
    /\ task[t].pc = "park"
    /\ Park(task[t].sess)
    /\ task' = [task EXCEPT ![t] = Proceed(@, <<>>)]
    /\ UNCHANGED <<lock, shown, backend, link>>

Navigate(t) == ReadDir(t) \/ WriteEntries(t) \/ WriteCwd(t) \/ ParkSession(t)

-----------------------------------------------------------------------------
(* Commands: exec on a channel of its own, the handle locked throughout;
   exec_capture locks it only to start *)

LockHandle(t) ==
    /\ task[t].pc = "run" /\ Next1(t) \in ExecSteps /\ lock = None
    /\ lock' = t /\ task' = [task EXCEPT ![t].pc = "exec"]
    /\ UNCHANGED <<cache, open, shown, backend, link>>

\* Slip: the guard outlives the compression (no drop(h) before the stat).
UnlockLate(t) == lock' = IF Next1(t) = "pack" THEN t ELSE None
Unlock(t) == lock' = None

\* pack and tar leave the temporary file, unpack, untar and extract consume
\* it, rm deletes it.
ExecOk(t) ==
    /\ task[t].pc = "exec" /\ link
    /\ \E more \in Found(task[t].kind, Next1(t)) :
          task' = [task EXCEPT ![t] =
                     ProceedWith(@, more \o Tail(@.plan), Next1(t) \in {"pack", "tar"})]
    /\ Unlock(t)
    /\ UNCHANGED <<cache, open, shown, backend, link>>

\* Exit status 127, of a missing tar or of a dead channel: the recursive
\* fallback, but a batch just fails.  An extraction that fails sweeps its file
\* with a second command.
ExecMissing(t) ==
    /\ task[t].pc = "exec"
    /\ \E more \in Fallback(Next1(t)) :
          task' = [task EXCEPT ![t] =
                     ProceedWith(@, more \o SubSeq(@.plan, IF Next1(t) = "tar" THEN 5 ELSE 2,
                                                    Len(@.plan)), @.tmp /\ ~link)]
    /\ Unlock(t)
    /\ UNCHANGED <<cache, open, shown, backend, link>>

NeverSwept(step) == FALSE                \* slip: no clean-up on failure
\* The rm of what a failed stream left works as long as the connection does (its
\* result is ignored).
Swept(step) == step \in {"unpack", "untar", "extract"} /\ link
ExecFails(t) ==
    /\ task[t].pc = "exec"
    /\ \/ /\ Next1(t) \notin {"rm", "which"}
          /\ \E made \in {FALSE, Next1(t) \in {"pack", "tar"}} :
                task' = [task EXCEPT ![t] =
                           Fail(@, "error", (@.tmp \/ made) /\ ~Swept(Next1(t)))]
       \/ /\ Next1(t) = "rm"         \* the result of the clean-up is ignored
          /\ ~link /\ task' = [task EXCEPT ![t] = Proceed(@, Tail(@.plan))]
    /\ Unlock(t)
    /\ UNCHANGED <<cache, open, shown, backend, link>>

\* No tar, or no answer to `which tar`: one file upload per item.
NoTar(t) ==
    /\ task[t].pc = "exec" /\ Next1(t) = "which"
    /\ task' = [task EXCEPT ![t] = Proceed(@, UploadFile)]
    /\ Unlock(t)
    /\ UNCHANGED <<cache, open, shown, backend, link>>

Exec(t) == LockHandle(t) \/ ExecOk(t) \/ ExecMissing(t) \/ ExecFails(t) \/ NoTar(t)

\* drain_exec_capture: the output ends, the deadline passes or the token stops it.
Drain(t) ==
    /\ task[t].pc = "run" /\ Next1(t) = "drain"
    /\ task' = [task EXCEPT ![t] = Proceed(@, <<>>)]
    /\ UNCHANGED <<cache, open, lock, shown, backend, link>>

\* The edited file was saved; or it is gone, or 30 minutes are over.
Save(t) ==
    /\ task[t].pc = "run" /\ Next1(t) = "watch" /\ task[t].saves < MaxSaves
    /\ task' = [task EXCEPT ![t].plan = UploadFile \o @, ![t].saves = @ + 1]
    /\ UNCHANGED <<cache, open, lock, shown, backend, link>>
StopWatching(t) ==
    /\ task[t].pc = "run" /\ Next1(t) = "watch"
    /\ task' = [task EXCEPT ![t] = Proceed(@, <<>>)]
    /\ UNCHANGED <<cache, open, lock, shown, backend, link>>

-----------------------------------------------------------------------------
(* The backend closes, the connection is lost *)

Tracked == {t \in Tasks : Running(t) /\ task[t].kind \notin {"navigate", "capture"}}

\* Command::Close aborts the transfers at their await: what a task holds is
\* dropped with it.
AbortTransfers ==
    /\ backend = "up" /\ backend' = "draining"
    /\ task' = [t \in Tasks |-> IF t \in Tracked
                                  THEN [task[t] EXCEPT !.pc = "aborted", !.sess = 0]
                                  ELSE task[t]]
    /\ open' = open \ {task[t].sess : t \in Tracked}
    /\ lock' = IF lock \in Tracked THEN None ELSE lock
    /\ UNCHANGED <<cache, shown, link>>

\* Then it closes the parked session.
CloseParked ==
    /\ backend = "draining" /\ backend' = "closed"
    /\ open' = open \ {cache} /\ cache' = 0
    /\ UNCHANGED <<task, lock, shown, link>>

LinkDies ==
    /\ MayDrop /\ link /\ link' = FALSE
    /\ UNCHANGED <<task, cache, open, lock, shown, backend>>

-----------------------------------------------------------------------------
Work(t) == Sftp(t) \/ Navigate(t) \/ Exec(t) \/ Drain(t) \/ StopWatching(t)

Next == \/ \E t \in Tasks : Start(t) \/ Work(t) \/ Save(t)
        \/ AbortTransfers \/ CloseParked \/ LinkDies

Spec == Init /\ [][Next]_vars

\* The runtime polls every task; commands and SFTP requests end, by an answer
\* or by the connection's loss; the mutex of tokio is fair.
Fairness == /\ \A t \in Tasks : WF_vars(Work(t)) /\ SF_vars(OpenSession(t) \/ LockHandle(t))
            /\ WF_vars(CloseParked)

FairSpec == Spec /\ Fairness

-----------------------------------------------------------------------------
(* Properties *)

\* A session that is open is parked or held by exactly one task, never both,
\* and a held one is open: concurrent operations don't fight over a channel
\* (terminal.rs, sftp_navigate), none is leaked and none is closed under a task.
SessionsAccounted ==
    /\ \A s \in open : Cardinality(Holders(s)) + (IF cache = s THEN 1 ELSE 0) = 1
    /\ \A t \in Tasks : task[t].sess # 0 => task[t].sess \in open

\* A remote temporary file outlives only a download or a stream that failed
\* half-way: never a success, never a failed extraction, on a live connection.
TmpSwept ==
    \A t \in Tasks : task[t].pc = "done" /\ task[t].tmp /\ link =>
        task[t].result # "ok" /\ task[t].at \in {"pack", "tar", "size", "pull", "fetch",
                                                 "push", "store"}

\* Sharing the handle and the session stops nobody: every navigation,
\* transfer and capture comes to its end.
TasksEnd == \A t \in Tasks : Running(t) ~> ~Running(t)

\* What is listed is the current directory, as the panel and the agent's
\* sftp_listing, which read the two together, take it to be.
ListingMatchesCwd ==
    (\A t \in Tasks : ~Running(t)) /\ entries # None /\ cwd # None => entries = cwd

\* "Clean up the remote tmp regardless of step 2's outcome."
DownloadSweeps ==
    \A t \in Tasks : task[t].kind = "download" /\ task[t].pc = "done" /\ link => ~task[t].tmp
=============================================================================
