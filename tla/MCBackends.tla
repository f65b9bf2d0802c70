----------------------------- MODULE MCBackends -----------------------------
(***************************************************************************)
(* The three backends a remote tab may have behind one interface: Telnet,  *)
(* a serial port, or an SSH connection with its panes; and the tasks of a  *)
(* connection that share one SFTP session.  One of the four in each        *)
(* behaviour.                                                              *)
(***************************************************************************)
EXTENDS SshSession

CONSTANTS Streams, Creds, Startup, MaxKeys,             \* of TelnetBackend
          HasStartup, MaxReads, MaxWrites,              \* of SerialBackend
          Tasks, KindsOf, Paths, MaxSaves, MayDrop      \* of SftpSession

VARIABLES
    kind,                                                     \* which backend
    closing, lineStatus, lineSaid, ending,                    \* Telnet and serial
    stream, pos, iac, data, replies, phase, recent, startupSent, typed, keys,
    io, cmds, port, reads, pipe, shown, turn, parting,
    task, cache, sessions, lock, entries, cwd, backend, up    \* SFTP

Telnet == INSTANCE TelnetBackend WITH status <- lineStatus, said <- lineSaid
Serial == INSTANCE SerialBackend WITH status <- lineStatus, said <- lineSaid

\* A file being edited or a directory read, while something else borrows the
\* session.  (A rename is one request, like the creation of a directory.)
MCKindsOf == [t \in Tasks |-> IF t = "s1" THEN {"navigate", "edit"}
                              ELSE {"navigate", "download", "upload", "batch", "delete", "mkdir",
                                    "capture"}]
Sftp == INSTANCE SftpSession WITH open <- sessions, link <- up, None <- NoOne
ASSUME BackendsAssumption ==
    /\ SessionAssumption /\ Telnet!TelnetAssumption /\ Serial!SerialAssumption
    /\ Sftp!SftpAssumption

lineVars == <<closing, lineStatus, lineSaid, ending>>
telnetVars == <<stream, pos, iac, data, replies, phase, recent, startupSent, typed, keys>>
serialVars == <<io, cmds, port, reads, pipe, shown, turn, parting>>
sftpVars == <<task, cache, sessions, lock, entries, cwd, backend, up>>

\* Text and prompts around commands: an escaped 255, options of every kind, a
\* subnegotiation with an escape in it.
MCStreams ==
    { <<"x", "iac", "iac", "iac", "will", "echo", "login", "x", "password", "x", "x">>,
      <<"iac", "do", "ttype", "iac", "sb", "ttype", "iac", "se", "login", "password", "x", "x">>,
      <<"password", "login", "iac", "dont", "opt", "password", "iac", "sb", "opt", "iac", "iac", "se", "x", "iac", "se", "x", "x">> }

\* (What the backend that is not there would find is fixed.)
MCInit ==
    /\ kind \in {"telnet", "serial", "ssh", "sftp"}
    /\ Init /\ Telnet!Init /\ Serial!Init /\ Sftp!Init
    /\ kind # "telnet" => stream = CHOOSE s \in Streams : TRUE
    /\ kind # "ssh" => known = {}
    /\ kind # "sftp" => cache = 0

OnTelnet == kind = "telnet" /\ UNCHANGED <<kind, vars, serialVars, sftpVars>>
OnSerial == kind = "serial" /\ UNCHANGED <<kind, vars, telnetVars, sftpVars>>
OnSsh == kind = "ssh" /\ UNCHANGED <<kind, lineVars, telnetVars, serialVars, sftpVars>>
OnSftp == kind = "sftp" /\ UNCHANGED <<kind, vars, lineVars, telnetVars, serialVars>>

MCNext ==
    \/ OnTelnet /\ Telnet!Next
    \/ OnSerial /\ Serial!Next
    \/ OnSsh /\ Next
    \/ OnSftp /\ Sftp!Next

\* Each module's own fairness.
MCSpec ==
    /\ MCInit /\ [][MCNext]_<<vars, lineVars, telnetVars, serialVars, sftpVars, kind>>
    /\ WF_Telnet!vars(kind = "telnet" /\ Telnet!TaskStep)
    /\ WF_Serial!vars(kind = "serial" /\ Serial!IoStep)
    /\ WF_Serial!vars(kind = "serial" /\ Serial!CastStep)
    /\ WF_vars(kind = "ssh" /\ Task) /\ WF_vars(kind = "ssh" /\ MonitorStep)
    /\ \A p \in Splits : WF_vars(kind = "ssh" /\ (SplitEnds(p) \/ SplitClose(p)))
    /\ \A t \in Transfers : WF_vars(kind = "ssh" /\ FinishTransfer(t))
    /\ \A t \in Tasks :
          /\ WF_sftpVars(kind = "sftp" /\ Sftp!Work(t))
          /\ SF_sftpVars(kind = "sftp" /\ (Sftp!OpenSession(t) \/ Sftp!LockHandle(t)))
    /\ WF_sftpVars(kind = "sftp" /\ Sftp!CloseParked)

\* Whichever it is, a tab's first pane has the backend its view relies on:
\* status first, then one final event, on every path that ends it.
StatusShown == IF kind = "ssh" THEN status ELSE lineStatus
EndSaid == IF kind = "ssh" THEN said[Primary] ELSE lineSaid
Viewed == INSTANCE RemoteBackend WITH status <- StatusShown, said <- EndSaid
ImplementRemote == Viewed!Init /\ [][Viewed!Next]_<<StatusShown, EndSaid>>

\* The view that closes a line's backend is told of the end and a serial port
\* is let go; once a connection is closed or lost its tasks let go of it.
CloseLetsGo ==
    /\ closing ~> lineSaid # "none" /\ io \in {"none", "gone"}
    /\ TasksLetGo
FinalOutput == Serial!FinalOutput

\* Telnet loses no byte of text to the protocol, and types a login at the
\* prompts it belongs to.
TelnetSound == Telnet!TextIsWhole /\ Telnet!LoginInOrder

\* No session is lost or shared, and what was staged on the remote is swept.
SessionsSound == Sftp!SessionsAccounted /\ Sftp!TmpSwept
TasksEnd == Sftp!TasksEnd
MCTypeOK == TypeOK /\ Telnet!TypeOK /\ Serial!TypeOK /\ Sftp!TypeOK
=============================================================================
