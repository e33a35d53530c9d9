------------------------------ MODULE Session ------------------------------
(***************************************************************************)
(* What connections say: the handler of a connection, which is the same    *)
(* text in src/tcpserver/single_goroutine_server.go and, called by a       *)
(* worker of the pool, in pooled_goroutine_server.go; the password file of *)
(* src/auth/auth.go, which the server and interactive shells (src/cli)     *)
(* started in its directory write; the store is Cache.                     *)
(*                                                                         *)
(* A line is a record of what ParseCommandWithQuotes makes of it; SETS and *)
(* SETX are SETs of other values.  Counters of statistics are left out,    *)
(* and Stop, which only closes the listener and which nothing calls.       *)
(***************************************************************************)
EXTENDS Cache, Sequences

CONSTANTS Conns,          \* connections, each with its goroutine
          Shells,         \* processes started with -cli
          Passwords,
          ConfigPassword, \* cfg.Auth.Password, or NoPassword
          NoPassword,     \* no password; a password file that holds none
          NoReply, NoLine,
          TtlArgs,        \* the arguments of -t: a number and the length of its unit
          NoTtl,
          Bursts,         \* bound: the sequences of lines a client sends at once
          MaxBursts       \* bound: bursts sent

ASSUME ConnsAssumption == Conns \subseteq Nat

ASSUME TtlArgsAssumption == TtlArgs \subseteq [num : Int, unit : Nat \ {0}]

ASSUME PasswordAssumption == /\ ConfigPassword \in Passwords \cup {NoPassword}
                             /\ NoPassword \notin Passwords

VARIABLES listening,     \* s.running
          phase,         \* where the goroutine of a connection stands
          inbox,         \* lines it has not read
          line, reply,   \* the line it handles, the response it writes
          authenticated,
          hungUp,        \* the client has closed its end
          file,          \* the password that auth.dat verifies, or NoPassword
          spc,           \* where the processes that write auth.dat stand
          setting,       \* the password each of them is about to write
          bursts,
          broken,        \* history: the last writer of auth.dat did not finish
          asked          \* history: the deadline asked for each key, as an integer

conns == <<phase, inbox, line, reply, authenticated, hungUp>>
auth == <<file, spc, setting, broken>>
svars == <<vars, listening, conns, auth, bursts, asked>>

Server == "server"
Setters == Shells \cup {Server}

Commands == [cmd : {"SET", "SETNX"}, key : Keys, value : Values, ttl : TtlArgs \cup {NoTtl}]
            \cup [cmd : {"GET", "DEL"}, key : Keys]
            \cup [cmd : {"KEYS", "FLUSHALL", "MALFORMED"}]
            \cup [cmd : {"AUTH"}, password : Passwords]
            \cup [cmd : {"EMPTY", "TOOLONG"}]

Answers == Values \cup (SUBSET Keys)
           \cup {"OK", "NOT_SET", "NULL", "NOT_FOUND", "AUTHENTICATED", "ERROR"}

ASSUME BurstsAssumption == Bursts \subseteq Seq(Commands)

\* What marks that there is nothing is not a thing.
ASSUME NothingAssumption == /\ NoLine \notin Commands
                            /\ NoItem \notin Values
                            /\ \A a \in Answers : a # NoReply

----------------------------------------------------------------------------
\* time.Duration(num) * unit, an int64.
ParseTTL(a) == ((a.num * a.unit + Half) % (2 * Half)) - Half

\* A plausible slip: a command does not pass the ttl it was given.
TtlDropped(r) == 0

\* parseTTLFromParts.
TtlOf(r) == IF r.ttl = NoTtl THEN 0 ELSE ParseTTL(r.ttl)

\* The deadline the client means: 0 for a value that is to stay; for a negative ttl,
\* which the code takes for none, Half when it does not fit into an int64.
Meant(r) == LET ttl == IF r.ttl = NoTtl THEN 0 ELSE r.ttl.num * r.ttl.unit
            IN IF ttl > 0 THEN now + ttl ELSE IF ttl < -Half THEN Half ELSE 0

\* A password is configured; otherwise nothing writes the file.
Guarded == ConfigPassword # NoPassword

\* The address the allocator hands out; while there is none it does not return.
FreshId == CHOOSE i \in Ids : i \notin InUse

SInit == /\ Init
         /\ listening = ~Guarded
         /\ phase = [c \in Conns |-> "closed"]
         /\ inbox = [c \in Conns |-> <<>>]
         /\ line = [c \in Conns |-> NoLine] /\ reply = [c \in Conns |-> NoReply]
         /\ authenticated = [c \in Conns |-> FALSE]
         /\ hungUp = [c \in Conns |-> FALSE]
         /\ file = NoPassword
         /\ spc = [p \in Setters |-> IF Guarded THEN "start" ELSE "up"]
         /\ setting = [p \in Setters |-> ConfigPassword]
         /\ bursts = 0 /\ broken = FALSE
         /\ asked = [k \in Keys |-> 0]

----------------------------------------------------------------------------
(* The password file.                                                       *)

\* main starts the server after SetPassword, whatever came of it.
AfterSet(p) == /\ spc' = [spc EXCEPT ![p] = IF p = Server THEN "up" ELSE "ready"]
               /\ setting' = [setting EXCEPT ![p] = ConfigPassword]
               /\ listening' = (listening \/ p = Server)

\* SetPassword: os.Create empties the file.
Create(p) == /\ spc[p] \in {"start", "verified"}
             /\ file' = NoPassword
             /\ spc' = [spc EXCEPT ![p] = "fill"]
             /\ UNCHANGED <<vars, listening, conns, setting, broken, bursts, asked>>

Fill(p) == /\ spc[p] = "fill"
           /\ file' = setting[p]
           /\ broken' = FALSE
           /\ AfterSet(p)
           /\ UNCHANGED <<vars, conns, bursts, asked>>

\* os.Create or the write fails: the error is logged, and the file stays as it is.
SetFails(p) == /\ spc[p] \in {"start", "verified", "fill"}
               /\ broken' = (broken \/ file = NoPassword)
               /\ AfterSet(p)
               /\ UNCHANGED <<vars, conns, file, bursts, asked>>

\* A plausible slip of AUTH change: the file is emptied before the password is checked.
ChangeUnchecked(s) == /\ spc[s] = "ready"
                      /\ file' = NoPassword
                      /\ \E new \in Passwords \ {file} : setting' = [setting EXCEPT ![s] = new]
                      /\ spc' = [spc EXCEPT ![s] = "verified"]
                      /\ UNCHANGED <<vars, listening, conns, broken, bursts, asked>>

\* AUTH change of a shell, up to SetPassword: the current password was typed right,
\* another one was typed twice.
Change(s) == /\ spc[s] = "ready"
             /\ file # NoPassword
             /\ \E new \in Passwords \ {file} : setting' = [setting EXCEPT ![s] = new]
             /\ spc' = [spc EXCEPT ![s] = "verified"]
             /\ UNCHANGED <<vars, listening, conns, file, broken, bursts, asked>>

\* exit, a wrong password at the start, a signal.
Quit(s) == /\ spc[s] # "gone"
           /\ broken' = (broken \/ (spc[s] = "fill" /\ file = NoPassword))
           /\ spc' = [spc EXCEPT ![s] = "gone"]
           /\ setting' = [setting EXCEPT ![s] = ConfigPassword]
           /\ UNCHANGED <<vars, listening, conns, file, bursts, asked>>

----------------------------------------------------------------------------
(* The clients and the accept loop.                                         *)

\* A new connection gets the lowest number that is free.
Free(c) == /\ phase[c] = "closed"
           /\ \A d \in Conns : d < c => phase[d] # "closed"

\* A plausible slip of handleTextConnection: the flag outlives the connection.
AcceptKeepsFlag(c) ==
    /\ listening /\ Free(c)
    /\ phase' = [phase EXCEPT ![c] = "scan"]
    /\ UNCHANGED <<vars, listening, inbox, line, reply, authenticated, hungUp, auth, bursts, asked>>

Accept(c) == /\ listening /\ Free(c)
             /\ phase' = [phase EXCEPT ![c] = "scan"]
             /\ authenticated' = [authenticated EXCEPT ![c] = FALSE]
             /\ UNCHANGED <<vars, listening, inbox, line, reply, hungUp, auth, bursts, asked>>

Send(c) == /\ phase[c] # "closed" /\ ~hungUp[c]
           /\ bursts < MaxBursts /\ inbox[c] = <<>>
           /\ \E b \in Bursts : inbox' = [inbox EXCEPT ![c] = b]
           /\ bursts' = bursts + 1
           /\ UNCHANGED <<vars, listening, phase, line, reply, authenticated, hungUp, auth, asked>>

HangUp(c) == /\ phase[c] # "closed" /\ ~hungUp[c]
             /\ hungUp' = [hungUp EXCEPT ![c] = TRUE]
             /\ UNCHANGED <<vars, listening, phase, inbox, line, reply, authenticated, auth,
                            bursts, asked>>

----------------------------------------------------------------------------
(* The goroutine of a connection.                                           *)

\* The scanner's buffer cannot take the next line (1 MB).
NextTooLong(c) == inbox[c] # <<>> /\ Head(inbox[c]).cmd = "TOOLONG"

Scan(c) == /\ phase[c] = "scan" /\ inbox[c] # <<>>
           /\ ~NextTooLong(c)
           /\ inbox' = [inbox EXCEPT ![c] = Tail(@)]
           /\ IF Head(inbox[c]).cmd = "EMPTY"
              THEN UNCHANGED <<phase, line>>
              ELSE /\ line' = [line EXCEPT ![c] = Head(inbox[c])]
                   /\ phase' = [phase EXCEPT ![c] = "process"]
           /\ UNCHANGED <<vars, listening, reply, authenticated, hungUp, auth, bursts, asked>>

\* conn.Close: what was not read is gone.
Close(c) == /\ phase' = [phase EXCEPT ![c] = "closed"]
            /\ inbox' = [inbox EXCEPT ![c] = <<>>]
            /\ hungUp' = [hungUp EXCEPT ![c] = FALSE]

\* A plausible slip: the connection is kept until the client closes it.
LeaveHungUp(c) == /\ phase[c] = "scan" /\ inbox[c] = <<>> /\ hungUp[c]
                  /\ Close(c)
                  /\ UNCHANGED <<vars, listening, line, reply, authenticated, auth, bursts,
                                 asked>>

\* Scan ends, once what was sent is read, when the client has closed its end, or
\* was silent until the read deadline; and, with lines unread, at one that is too long.
LeaveLoop(c) == /\ phase[c] = "scan"
                /\ inbox[c] = <<>> \/ NextTooLong(c)
                /\ Close(c)
                /\ UNCHANGED <<vars, listening, line, reply, authenticated, auth, bursts, asked>>

\* A plausible slip: the line is not taken off and is handled again.
RespondAgain(c, a) == /\ reply' = [reply EXCEPT ![c] = a]
                      /\ UNCHANGED <<listening, line, phase, inbox, hungUp, auth, bursts>>

\* The processing of the line ends with a response.
Respond(c, a) == /\ reply' = [reply EXCEPT ![c] = a]
                 /\ line' = [line EXCEPT ![c] = NoLine]
                 /\ phase' = [phase EXCEPT ![c] = "write"]
                 /\ UNCHANGED <<listening, inbox, hungUp, auth, bursts>>

\* VerifyPassword, which reads the file with one read.
Verifies(p) == p = file

\* handleAuth.
Auth(c) == /\ phase[c] = "process" /\ line[c].cmd = "AUTH"
           /\ IF ~Guarded \/ Verifies(line[c].password)
              THEN /\ authenticated' = [authenticated EXCEPT ![c] = TRUE]
                   /\ Respond(c, "AUTHENTICATED")
              ELSE /\ UNCHANGED authenticated
                   /\ Respond(c, "ERROR")
           /\ UNCHANGED <<vars, asked>>

Allowed(c) == ~Guarded \/ authenticated[c]

Refuse(c) == /\ phase[c] = "process" /\ line[c].cmd # "AUTH"
             /\ ~Allowed(c) \/ line[c].cmd = "MALFORMED"
             /\ Respond(c, "ERROR")
             /\ UNCHANGED <<vars, authenticated, asked>>

\* The switch over the commands; each calls the store once.
Execute(c, r) ==
    \/ /\ r.cmd = "SET"
       /\ FreshId \in Ids
       /\ Set(r.key, r.value, TtlOf(r), FreshId)
       /\ Respond(c, "OK")
       /\ asked' = [asked EXCEPT ![r.key] = Meant(r)]
    \/ /\ r.cmd = "SETNX"
       /\ FreshId \in Ids
       /\ SetNX(r.key, r.value, TtlOf(r), FreshId)
       /\ Respond(c, "OK")
       /\ asked' = [asked EXCEPT ![r.key] = Meant(r)]
    \/ /\ r.cmd = "SETNX" /\ Visible(r.key)
       /\ Respond(c, "NOT_SET")
       /\ UNCHANGED <<vars, asked>>
    \/ /\ r.cmd = "GET"
       /\ Respond(c, IF Visible(r.key) THEN items[r.key].value ELSE "NULL")
       /\ UNCHANGED <<vars, asked>>
    \/ /\ r.cmd = "DEL"
       /\ Delete(r.key)
       /\ Respond(c, "OK")
       /\ asked' = [asked EXCEPT ![r.key] = 0]
    \/ /\ r.cmd = "DEL" /\ ~Stored(r.key)
       /\ Respond(c, "NOT_FOUND")
       /\ UNCHANGED <<vars, asked>>
    \/ /\ r.cmd = "KEYS"
       /\ Respond(c, {k \in Keys : Visible(k)})
       /\ UNCHANGED <<vars, asked>>
    \/ /\ r.cmd = "FLUSHALL"
       /\ FlushAll
       /\ Respond(c, "OK")
       /\ asked' = [k \in Keys |-> 0]

Process(c) == /\ phase[c] = "process" /\ line[c].cmd # "AUTH"
              /\ Allowed(c)
              /\ Execute(c, line[c])
              /\ UNCHANGED authenticated

\* conn.Write returns: the response is written, and the goroutine scans on.
Written(c) == /\ reply' = [reply EXCEPT ![c] = NoReply]
              /\ phase' = [phase EXCEPT ![c] = "scan"]
              /\ UNCHANGED <<vars, listening, inbox, line, authenticated, hungUp, auth,
                             bursts, asked>>

\* conn.Write waits for room, without a deadline: the client does not read, and the
\* buffers of both ends are full.
Block(c) == /\ phase[c] = "write" /\ ~hungUp[c]
            /\ phase' = [phase EXCEPT ![c] = "blocked"]
            /\ UNCHANGED <<vars, listening, inbox, line, reply, authenticated, hungUp, auth,
                           bursts, asked>>

\* The client reads on, and the write ends.
Drain(c) == phase[c] = "blocked" /\ ~hungUp[c] /\ Written(c)

\* The write fails, since the client has gone, and the lines it sent are not read.
WriteFails(c) == /\ phase[c] \in {"write", "blocked"} /\ hungUp[c]
                 /\ reply' = [reply EXCEPT ![c] = NoReply]
                 /\ Close(c)
                 /\ UNCHANGED <<vars, listening, line, authenticated, auth, bursts, asked>>

Write(c) == \/ phase[c] = "write" /\ Written(c)
            \/ WriteFails(c)

Handle(c) == Scan(c) \/ LeaveLoop(c) \/ Auth(c) \/ Refuse(c) \/ Process(c) \/ Write(c)

\* The cleaner and the clock of the store.
Background == /\ Cleanup \/ Tick
              /\ asked' = [k \in Keys |-> IF items'[k] = NoItem THEN 0 ELSE asked[k]]
              /\ UNCHANGED <<listening, conns, auth, bursts>>

SNext == \/ \E p \in Setters : Create(p) \/ Fill(p) \/ SetFails(p)
         \/ \E s \in Shells : Change(s) \/ Quit(s)
         \/ \E c \in Conns : Accept(c) \/ Send(c) \/ HangUp(c) \/ Handle(c)
         \/ \E c \in Conns : Block(c) \/ Drain(c)
         \/ Background

SSpec == SInit /\ [][SNext]_svars

\* Every goroutine that can gets on, and the read deadline of a silent connection
\* comes.  Nothing makes a client read (Drain) or hang up.
FairSSpec == SSpec /\ \A c \in Conns : WF_svars(Handle(c))

----------------------------------------------------------------------------
(* Properties *)

\* Types of the session's variables.
STypeOK ==
    /\ TypeOK
    /\ listening \in BOOLEAN
    /\ phase \in [Conns -> {"closed", "scan", "process", "write", "blocked"}]
    /\ inbox \in [Conns -> Seq(Commands)]
    /\ authenticated \in [Conns -> BOOLEAN]
    /\ \A c \in Conns : line[c] # NoLine <=> phase[c] = "process"
    /\ \A c \in Conns : reply[c] # NoReply <=> phase[c] \in {"write", "blocked"}
    /\ file \in Passwords \cup {NoPassword}
    /\ spc \in [Setters -> {"start", "fill", "up", "ready", "verified", "gone"}]

Service == INSTANCE KeyService WITH
    Clients  <- Conns,
    NoValue  <- NoItem,
    store    <- [k \in Keys |-> IF Visible(k) THEN items[k].value ELSE NoItem],
    mortal   <- {i.key : i \in heap},
    password <- file,
    present  <- [c \in Conns |-> phase[c] # "closed"],
    entitled <- [c \in Conns |-> phase[c] # "closed" /\ Allowed(c)],
    calls    <- [c \in Conns |-> IF phase[c] = "process" THEN <<line[c]>> \o inbox[c]
                                 ELSE inbox[c]],
    answer   <- reply

\* Pipelined bursts, other connections, expiry, lost connections and changes of the
\* password do not disturb what a connection is promised (KeyService).
ImplementsKeyService == Service!Spec

\* Nobody is locked out for ever: once the server listens, auth.dat holds a password
\* but while a process is writing it, or after a writer failed or died half way.
LockoutExplained ==
    Guarded /\ listening /\ file = NoPassword => broken \/ \E p \in Setters : spc[p] = "fill"

\* A stored value has the deadline its client asked for, from the argument of -t to
\* the item, as long as that fits into an int64.
TtlAsAsked == \A k \in Keys :
    Stored(k) /\ asked[k] < Half => items[k].exp = asked[k]

\* The goroutine of a connection, or its worker of the pool, is held for ever in one
\* way only: by a client that neither reads the answer it is being sent nor hangs up.
\* Otherwise it is given back, whatever its client sent (finitely many lines, refused
\* ones and too long ones among them) and whether it hangs up or falls silent.
ConnectionsEnd ==
    \A c \in Conns : \/ []<>(phase[c] = "closed")
                    \/ <>[](phase[c] = "blocked" /\ ~hungUp[c])
=============================================================================
