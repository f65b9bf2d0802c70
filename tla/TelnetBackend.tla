--------------------------- MODULE TelnetBackend ----------------------------
(***************************************************************************)
(* The Telnet backend: one task that strips IAC commands from what the     *)
(* server sends, in whatever pieces it arrives, answers them, types the    *)
(* stored credentials and the startup command, and ends                    *)
(* (src/crabport-telnet/src/backend.rs).                                   *)
(***************************************************************************)
EXTENDS Integers, Sequences, SequencesExt

CONSTANTS
    Streams,  \* what the server may send: sequences of Bytes
    Creds,    \* a username and a password are stored
    Startup,  \* a startup command is configured
    MaxKeys   \* bound: keys typed and windows resized

\* A prompt is one symbol of text; "se" and the option codes are text outside
\* a command.
Commands == {"will", "wont", "do", "dont"}
Options == {"echo", "ttype", "naws", "opt"}
Text == {"x", "login", "password"}
Bytes == Commands \cup Options \cup Text \cup {"iac", "sb", "se"}

TelnetAssumption ==
    Streams \subseteq Seq(Bytes) /\ {Creds, Startup} \subseteq BOOLEAN /\ MaxKeys \in Nat

VARIABLES
    stream,  \* what this server sends
    pos,     \* how much of it the task has read
    iac,     \* the IacState carried from one read to the next
    data,    \* the visible bytes broadcast so far
    replies, \* the negotiation replies written so far
    phase,   \* LoginPhase
    recent,  \* AutoLogin.buf
    startupSent,
    typed,   \* what else was written: "user", "pass", "startup", "key", "naws", ...
    keys,    \* keys and resizes so far
    closing, \* Command::Close is queued, or the sender is gone
    status, said,
    ending   \* the event the task is about to end with, or "none"

decodeVars == <<stream, pos, iac, data, replies>>
loginVars == <<phase, recent, startupSent>>
endVars == <<status, said, ending>>
vars == <<decodeVars, loginVars, typed, keys, closing, endVars>>

TypeOK ==
    /\ stream \in Streams /\ pos \in 0..Len(stream)
    /\ iac \in {"normal", "iac", "sb", "sbiac"} \cup Commands
    /\ data \in Seq(Bytes) /\ replies \in Seq(Seq(Bytes \cup {"is"}))
    /\ phase \in {"idle", "loginPrompt", "passwordPrompt", "done"}
    /\ recent \subseteq Bytes /\ {startupSent, closing} \subseteq BOOLEAN
    /\ typed \in Seq({"user", "pass", "startup", "key", "naws", "nop", "init"})
    /\ keys \in 0..MaxKeys
    /\ status \in {"Connecting", "Connected", "Disconnected"}
    /\ {said, ending} \subseteq {"none", "Error", "Closed"}

Init ==
    /\ stream \in Streams /\ pos = 0 /\ iac = "normal" /\ data = <<>> /\ replies = <<>>
    /\ phase = "idle" /\ recent = {} /\ startupSent = FALSE
    /\ typed = <<>> /\ keys = 0 /\ closing = FALSE
    /\ status = "Connecting" /\ said = "none" /\ ending = "none"

-----------------------------------------------------------------------------
(* process_iac: one byte of a read; acc carries the state, the option of   *)
(* the subnegotiation if this read saw it, and what was produced           *)

Visible(acc, b) == [acc EXCEPT !.st = "normal", !.data = Append(@, b)]
Reply(acc, r) == [acc EXCEPT !.st = "normal", !.neg = Append(@, r)]
Goto(acc, s) == [acc EXCEPT !.st = s]

\* Slip: an escaped 255 is taken for a command that is ignored.
AfterIacEatsEscape(acc, b) ==
    CASE b \in Commands -> Goto(acc, b)
      [] b = "sb"       -> [Goto(acc, "sb") EXCEPT !.opt = "none"]
      [] OTHER          -> Goto(acc, "normal")

AfterIac(acc, b) ==
    CASE b = "iac"      -> Visible(acc, b)
      [] b \in Commands -> Goto(acc, b)
      [] b = "sb"       -> [Goto(acc, "sb") EXCEPT !.opt = "none"]
      [] OTHER          -> Goto(acc, "normal")

Negotiate(acc, b) ==
    CASE acc.st = "will" -> Reply(acc, <<IF b = "echo" THEN "do" ELSE "dont", b>>)
      [] acc.st = "do"   -> Reply(acc, <<IF b \in {"echo", "naws", "ttype"} THEN "will" ELSE "wont", b>>)
      [] OTHER           -> Goto(acc, "normal")

Subnegotiation(acc, b) ==
    CASE acc.st = "sb" /\ b = "iac"    -> Goto(acc, "sbiac")
      [] acc.st = "sb" /\ b # "iac"    -> [acc EXCEPT !.opt = IF @ = "none" THEN b ELSE @]
      [] acc.st = "sbiac" /\ b = "se"  -> IF acc.opt = "ttype"
                                          THEN [Reply(acc, <<"ttype", "is">>) EXCEPT !.opt = "none"]
                                          ELSE [Goto(acc, "normal") EXCEPT !.opt = "none"]
      [] acc.st = "sbiac" /\ b # "se"  -> Goto(acc, "sb")

ProcessByte(acc, b) ==
    CASE acc.st = "normal"   -> IF b = "iac" THEN Goto(acc, "iac") ELSE Visible(acc, b)
      [] acc.st = "iac"      -> AfterIac(acc, b)
      [] acc.st \in Commands -> Negotiate(acc, b)
      [] OTHER               -> Subnegotiation(acc, b)

\* sb_opt starts as None on every call.
process_iac(chunk, state) ==
    LET run[n \in 0..Len(chunk)] ==
          IF n = 0 THEN [st |-> state, opt |-> "none", data |-> <<>>, neg |-> <<>>]
          ELSE ProcessByte(run[n - 1], chunk[n])
    IN  run[Len(chunk)]

-----------------------------------------------------------------------------
(* AutoLogin::feed, for a chunk with something visible                     *)

Login(p, r, s, reply) ==
    phase' = p /\ recent' = r /\ startupSent' = s /\ typed' = typed \o reply

\* Slip: the password prompt is looked for from the start.
PasswordAnywhere(seen) == phase # "done" /\ "password" \in seen
PasswordExpected(seen) == phase = "loginPrompt" /\ "password" \in seen

feed(chunk) ==
    LET seen == recent \cup ToSet(chunk)
        due == phase = "done" /\ ~startupSent
    IN  IF due /\ Startup THEN Login(phase, recent, TRUE, <<"startup">>)
        ELSE IF PasswordExpected(seen) THEN Login("passwordPrompt", {}, startupSent, <<"pass">>)
        ELSE IF phase = "idle" /\ "login" \in seen
             THEN Login("loginPrompt", {}, startupSent, <<"user">>)
        ELSE IF phase = "passwordPrompt" THEN Login("done", seen, startupSent, <<>>)
        ELSE Login(phase, seen, startupSent \/ due, <<>>)

-----------------------------------------------------------------------------
Running == status = "Connected" /\ ending = "none" /\ said = "none"

\* Connect, negotiate, announce the size; without credentials the startup
\* command goes out at once.
Connect ==
    /\ status = "Connecting" /\ status' = "Connected"
    /\ startupSent' = (~Creds /\ Startup)
    /\ typed' = <<"init", "naws">> \o (IF ~Creds /\ Startup THEN <<"startup">> ELSE <<>>)
    /\ UNCHANGED <<decodeVars, phase, recent, keys, closing, said, ending>>

ConnectFails ==
    /\ status = "Connecting" /\ status' = "Disconnected" /\ ending' = "Error"
    /\ UNCHANGED <<decodeVars, loginVars, typed, keys, closing, said>>

\* One read of n bytes: replies first, then the login, then the broadcast.
Read(n) ==
    /\ Running /\ n \in 1..(Len(stream) - pos) /\ pos' = pos + n
    /\ LET r == process_iac(SubSeq(stream, pos + 1, pos + n), iac) IN
         /\ iac' = r.st /\ data' = data \o r.data /\ replies' = replies \o r.neg
         /\ IF r.data # <<>> THEN feed(r.data) ELSE UNCHANGED <<loginVars, typed>>
    /\ UNCHANGED <<stream, keys, closing, endVars>>

\* Slip: the reset is reported while the monitor still says Connected.
DownQuietly(e) ==
    /\ Running /\ said' = e /\ UNCHANGED <<status, ending>>
    /\ UNCHANGED <<decodeVars, loginVars, keys, closing>>
Down(e) ==
    /\ Running /\ status' = "Disconnected" /\ ending' = e /\ UNCHANGED said
    /\ UNCHANGED <<decodeVars, loginVars, keys, closing>>

ReadEof == Down("Closed") /\ UNCHANGED typed
ReadError == Down("Error") /\ UNCHANGED typed
KeepaliveFails == Down("Closed") /\ UNCHANGED typed
HandleClose == closing /\ Down("Closed") /\ UNCHANGED typed

\* A key, a resize or the keepalive's no-operation goes to the socket.
Write(what) ==
    /\ Running /\ keys < MaxKeys /\ keys' = keys + 1 /\ typed' = Append(typed, what)
    /\ UNCHANGED <<decodeVars, loginVars, closing, endVars>>

Report ==
    /\ ending # "none" /\ said = "none" /\ said' = ending
    /\ UNCHANGED <<decodeVars, loginVars, typed, keys, closing, status, ending>>

Close ==
    /\ ~closing /\ closing' = TRUE
    /\ UNCHANGED <<decodeVars, loginVars, typed, keys, endVars>>

\* What the task goes on with once the connect has come back or the command
\* queue has reached the Close.
TaskStep == Connect \/ ConnectFails \/ HandleClose \/ Report

Next ==
    \/ TaskStep \/ (\E n \in 1..Len(stream) : Read(n)) \/ ReadEof \/ ReadError
    \/ KeepaliveFails \/ (\E w \in {"key", "naws", "nop"} : Write(w)) \/ Close

Spec == Init /\ [][Next]_vars /\ WF_vars(TaskStep)

-----------------------------------------------------------------------------
(* Properties *)

\* What RFC 854 says is text in a stream, read command by command: everything but
\* commands of two or three bytes and subnegotiations up to an IAC SE; an escaped IAC
\* is one byte, and one inside a subnegotiation ends nothing.  A command cut off by
\* the end gives nothing yet.
TextOf(s) ==
    LET byte(i) == IF i <= Len(s) THEN s[i] ELSE "end"
        from[p \in (1..Len(s) + 3) \X BOOLEAN] ==
          LET i == p[1] IN
          IF i > Len(s) THEN <<>>
          ELSE IF p[2] THEN IF s[i] = "iac" THEN from[<<i + 2, byte(i + 1) # "se">>]
                                            ELSE from[<<i + 1, TRUE>>]
          ELSE IF s[i] # "iac" THEN <<s[i]>> \o from[<<i + 1, FALSE>>]
          ELSE IF byte(i + 1) = "iac" THEN <<"iac">> \o from[<<i + 2, FALSE>>]
          ELSE IF byte(i + 1) \in Commands THEN from[<<i + 3, FALSE>>]
          ELSE from[<<i + 2, byte(i + 1) = "sb">>]
    IN  from[<<1, FALSE>>]

\* However the stream is cut into reads, the terminal gets its text, whole and
\* in order, and nothing of its commands.
TextIsWhole == data = TextOf(SubSeq(stream, 1, pos))

\* The name is typed before the password, both once at most, and the startup
\* command once, after both.
LoginInOrder ==
    LET at(w) == {i \in DOMAIN typed : typed[i] = w} IN
    /\ \A w \in {"user", "pass", "startup"} : \A i, j \in at(w) : i = j
    /\ \A i \in at("pass") : \E j \in at("user") : j < i
    /\ Creds => \A i \in at("startup") : \E j \in at("pass") : j < i

Backend == INSTANCE RemoteBackend
ImplementsBackend == Backend!Init /\ [][Backend!Next]_<<status, said>>

\* backend.rs on IacState: "Telnet IAC sequences may straddle `read` calls, so
\* we can't process a buffer in isolation". The option of a subnegotiation is
\* forgotten at the end of a read, and its answer with it.
RepliesAreWhole == replies = process_iac(SubSeq(stream, 1, pos), "normal").neg

\* backend.rs on TelnetBackend: "auto-responds to login prompts with stored
\* credentials". It answers with empty ones when none are stored.
NothingStoredNothingTyped == ~Creds => {"user", "pass"} \cap ToSet(typed) = {}
=============================================================================
