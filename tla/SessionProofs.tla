--------------------------- MODULE SessionProofs ---------------------------
(***************************************************************************)
(* Theorems about Session, for any connections, shells, bursts and ttls:   *)
(* when auth.dat can be without a password, what deadline a stored value   *)
(* has, and that every step is one that KeyService allows.                 *)
(***************************************************************************)
EXTENDS Session, CacheProofs

\* Every process that writes auth.dat writes a password.
SettingIsPassword == Guarded => \A p \in Setters : setting[p] \in Passwords

SettingIsFunction == setting = [p \in Setters |-> setting[p]]
                     /\ spc = [p \in Setters |-> spc[p]]

\* The strengthening of LockoutExplained that steps preserve.
LockoutInv == SettingIsPassword /\ SettingIsFunction /\ LockoutExplained

\* Writing the file leaves it with a password, whoever writes it.
LEMMA AfterSetKeeps ==
    ASSUME NEW p \in Setters, LockoutInv, AfterSet(p)
    PROVE  /\ SettingIsPassword' /\ SettingIsFunction'
           /\ \A q \in Setters \ {p} : spc'[q] = spc[q]
  BY PasswordAssumption
     DEF LockoutInv, SettingIsPassword, SettingIsFunction, AfterSet, Guarded

LEMMA LockoutInit == SInit => LockoutInv
  BY PasswordAssumption
     DEF SInit, LockoutInv, SettingIsPassword, SettingIsFunction, LockoutExplained, Guarded

\* What does not touch the password file leaves the invariant as it is.
LEMMA LockoutUnchanged ==
    ASSUME LockoutInv, UNCHANGED <<auth, listening>>
    PROVE  LockoutInv'
  BY DEF LockoutInv, SettingIsPassword, SettingIsFunction, LockoutExplained, auth, Guarded

LEMMA CreateKeeps ==
    ASSUME LockoutInv, NEW p \in Setters, Create(p)
    PROVE  LockoutInv'
<1>1. SettingIsPassword' /\ SettingIsFunction'
  BY DEF LockoutInv, SettingIsPassword, SettingIsFunction, Create, Guarded
<1>2. spc'[p] = "fill"
  BY DEF LockoutInv, SettingIsFunction, Create
<1>. QED  BY <1>1, <1>2 DEF LockoutInv, LockoutExplained

LEMMA FillKeeps ==
    ASSUME LockoutInv, NEW p \in Setters, Fill(p)
    PROVE  LockoutInv'
<1>1. SettingIsPassword' /\ SettingIsFunction'
  BY AfterSetKeeps DEF Fill
<1>2. Guarded => file' # NoPassword
  BY PasswordAssumption DEF LockoutInv, SettingIsPassword, Fill
<1>. QED  BY <1>1, <1>2 DEF LockoutInv, LockoutExplained, Guarded

LEMMA SetFailsKeeps ==
    ASSUME LockoutInv, NEW p \in Setters, SetFails(p)
    PROVE  LockoutInv'
<1>1. SettingIsPassword' /\ SettingIsFunction'
  BY AfterSetKeeps DEF SetFails
<1>2. file' = NoPassword => broken'
  BY DEF SetFails
<1>. QED  BY <1>1, <1>2 DEF LockoutInv, LockoutExplained

LEMMA ChangeKeeps ==
    ASSUME LockoutInv, NEW s \in Shells, Change(s)
    PROVE  LockoutInv'
<1>1. SettingIsPassword' /\ SettingIsFunction'
  BY DEF LockoutInv, SettingIsPassword, SettingIsFunction, Change, Guarded, Setters
<1>2. file' # NoPassword
  BY DEF Change
<1>. QED  BY <1>1, <1>2 DEF LockoutInv, LockoutExplained

LEMMA QuitKeeps ==
    ASSUME LockoutInv, NEW s \in Shells, Quit(s)
    PROVE  LockoutInv'
<1>1. SettingIsPassword' /\ SettingIsFunction'
  BY PasswordAssumption
     DEF LockoutInv, SettingIsPassword, SettingIsFunction, Quit, Guarded
<1>2. ASSUME Guarded', listening', file' = NoPassword, ~broken'
      PROVE  \E p \in Setters : spc'[p] = "fill"
  <2>1. PICK p \in Setters : spc[p] = "fill"
    BY <1>2 DEF LockoutInv, LockoutExplained, Quit, Guarded
  <2>2. p # s
    BY <1>2, <2>1 DEF Quit
  <2>3. spc'[p] = "fill"
    BY <2>1, <2>2 DEF Quit, LockoutInv, SettingIsFunction
  <2>. QED  BY <2>3
<1>. QED  BY <1>1, <1>2 DEF LockoutInv, LockoutExplained

LEMMA LockoutNext == LockoutInv /\ [SNext]_svars => LockoutInv'
<1>. SUFFICES ASSUME LockoutInv, [SNext]_svars
              PROVE  LockoutInv'
  OBVIOUS
<1>1. CASE \E p \in Setters : Create(p) \/ Fill(p) \/ SetFails(p)
  BY <1>1, CreateKeeps, FillKeeps, SetFailsKeeps
<1>2. CASE \E s \in Shells : Change(s) \/ Quit(s)
  BY <1>2, ChangeKeeps, QuitKeeps
<1>3. CASE \E c \in Conns : Accept(c) \/ Send(c) \/ HangUp(c) \/ Handle(c)
  <2>1. PICK c \in Conns : Accept(c) \/ Send(c) \/ HangUp(c) \/ Handle(c)
    BY <1>3
  <2>2. CASE Accept(c) \/ Send(c) \/ HangUp(c)
    BY <2>2, LockoutUnchanged DEF Accept, Send, HangUp
  <2>3. CASE Handle(c)
    <3>1. CASE Scan(c) \/ LeaveLoop(c) \/ Write(c)
      BY <3>1, LockoutUnchanged DEF Scan, LeaveLoop, Write, Written, WriteFails
    <3>2. CASE Auth(c)
      BY <3>2, LockoutUnchanged DEF Auth, Respond
    <3>3. CASE Refuse(c)
      BY <3>3, LockoutUnchanged DEF Refuse, Respond
    <3>4. CASE Process(c)
      BY <3>4, LockoutUnchanged DEF Process, Execute, Respond
    <3>. QED  BY <2>3, <3>1, <3>2, <3>3, <3>4 DEF Handle
  <2>. QED  BY <2>1, <2>2, <2>3
<1>4. CASE \E c \in Conns : Block(c) \/ Drain(c)
  BY <1>4, LockoutUnchanged DEF Block, Drain, Written
<1>5. CASE Background
  BY <1>5, LockoutUnchanged DEF Background
<1>6. CASE UNCHANGED svars
  BY <1>6, LockoutUnchanged DEF svars
<1>. QED  BY <1>1, <1>2, <1>3, <1>4, <1>5, <1>6 DEF SNext

\* Once the server listens, auth.dat verifies no password only while a process is
\* writing it, or after a writer failed or died half way (main, SetPassword, AUTH
\* change of any number of shells).
THEOREM LockoutAlwaysExplained == SSpec => []LockoutExplained
<1>1. LockoutInv => LockoutExplained
  BY DEF LockoutInv
<1>. QED  BY <1>1, LockoutInit, LockoutNext, PTL DEF SSpec

----------------------------------------------------------------------------
(* Types, and the deadlines of stored values.                               *)

ConnTypes ==
    /\ phase \in [Conns -> {"closed", "scan", "process", "write", "blocked"}]
    /\ inbox \in [Conns -> Seq(Commands)]
    /\ line \in [Conns -> Commands \cup {NoLine}]
    /\ reply \in [Conns -> Answers \cup {NoReply}]
    /\ authenticated \in [Conns -> BOOLEAN]
    /\ hungUp \in [Conns -> BOOLEAN]
    /\ \A c \in Conns : line[c] # NoLine <=> phase[c] = "process"
    /\ \A c \in Conns : reply[c] # NoReply <=> phase[c] \in {"write", "blocked"}

FileTypes ==
    /\ listening \in BOOLEAN
    /\ file \in Passwords \cup {NoPassword}
    /\ spc \in [Setters -> {"start", "fill", "up", "ready", "verified", "gone"}]
    /\ setting \in [Setters -> Passwords \cup {NoPassword}]

StoreInv == Inv /\ asked \in [Keys -> Int] /\ TtlAsAsked

\* The strengthening of STypeOK and TtlAsAsked that steps preserve.
SInv == ConnTypes /\ FileTypes /\ StoreInv

LEMMA SInitInv == SInit => SInv
<1>. SUFFICES ASSUME SInit PROVE SInv
  OBVIOUS
<1>1. ConnTypes
  BY DEF SInit, ConnTypes
<1>2. FileTypes
  BY PasswordAssumption DEF SInit, FileTypes
<1>3. StoreInv
  BY InitInv DEF SInit, Init, StoreInv, TtlAsAsked, Stored
<1>. QED  BY <1>1, <1>2, <1>3 DEF SInv

LEMMA FileKeeps ==
    ASSUME FileTypes, [SNext]_svars
    PROVE  FileTypes'
<1>1. ASSUME NEW p \in Setters, Create(p) \/ Fill(p) \/ SetFails(p)
      PROVE  FileTypes'
  BY <1>1, PasswordAssumption DEF FileTypes, Create, Fill, SetFails, AfterSet
<1>2. ASSUME NEW s \in Shells, Change(s) \/ Quit(s)
      PROVE  FileTypes'
  BY <1>2, PasswordAssumption DEF FileTypes, Change, Quit, Setters
<1>3. ASSUME UNCHANGED <<auth, listening>>
      PROVE  FileTypes'
  BY <1>3 DEF FileTypes, auth
<1>4. ASSUME NEW c \in Conns, \/ Accept(c) \/ Send(c) \/ HangUp(c) \/ Handle(c)
                              \/ Block(c) \/ Drain(c)
      PROVE  UNCHANGED <<auth, listening>>
  <2>1. CASE Accept(c) \/ Send(c) \/ HangUp(c) \/ Block(c) \/ Drain(c) \/ Write(c)
    BY <2>1 DEF Accept, Send, HangUp, Block, Drain, Write, Written, WriteFails
  <2>2. CASE Scan(c) \/ LeaveLoop(c) \/ Auth(c) \/ Refuse(c) \/ Process(c)
    BY <2>2 DEF Scan, LeaveLoop, Auth, Refuse, Process, Execute, Respond
  <2>. QED  BY <1>4, <2>1, <2>2 DEF Handle
<1>5. Background \/ UNCHANGED svars => UNCHANGED <<auth, listening>>
  BY DEF Background, svars
<1>. QED  BY <1>1, <1>2, <1>3, <1>4, <1>5 DEF SNext

\* What a line holds, by its command.
LEMMA CommandFields ==
    ASSUME NEW r \in Commands
    PROVE  /\ r.cmd \in {"SET", "SETNX"} =>
                 r.key \in Keys /\ r.value \in Values /\ r.ttl \in TtlArgs \cup {NoTtl}
           /\ r.cmd \in {"GET", "DEL"} => r.key \in Keys
           /\ r.cmd = "AUTH" => r.password \in Passwords
BY DEF Commands

\* Every answer is one.
LEMMA RespondKeeps ==
    ASSUME ConnTypes, NEW c \in Conns, phase[c] = "process", NEW a \in Answers, Respond(c, a),
           authenticated' \in [Conns -> BOOLEAN]
    PROVE  ConnTypes'
BY NothingAssumption DEF ConnTypes, Respond

LEMMA SomeAnswer ==
    ASSUME ConnTypes, Inv, NEW c \in Conns, Auth(c) \/ Refuse(c) \/ Process(c)
    PROVE  phase[c] = "process" /\ \E a \in Answers : Respond(c, a)
<1>1. /\ phase[c] = "process" /\ authenticated \in [Conns -> BOOLEAN]
      /\ line[c] \in Commands
  BY NothingAssumption DEF ConnTypes, Auth, Refuse, Process
<1>2. /\ "OK" \in Answers /\ "NOT_SET" \in Answers /\ "NOT_FOUND" \in Answers
      /\ "AUTHENTICATED" \in Answers /\ "ERROR" \in Answers
      /\ {k \in Keys : Visible(k)} \in Answers
      /\ \A k \in Keys : (IF Visible(k) THEN items[k].value ELSE "NULL") \in Answers
  <2>1. \A k \in Keys : Visible(k) => items[k].value \in Values
    BY DEF Inv, TypeOK, Visible, Stored, Item
  <2>2. \A k \in Keys : (IF Visible(k) THEN items[k].value ELSE "NULL") \in Values \cup {"NULL"}
    BY <2>1
  <2>3. {k \in Keys : Visible(k)} \in SUBSET Keys
    OBVIOUS
  <2>4. /\ "OK" \in Answers /\ "NOT_SET" \in Answers /\ "NOT_FOUND" \in Answers
        /\ "AUTHENTICATED" \in Answers /\ "ERROR" \in Answers
    BY DEF Answers
  <2>. QED  BY <2>2, <2>3, <2>4 DEF Answers
<1>3. \E a \in Answers : Respond(c, a)
  <2>1. CASE Auth(c) \/ Refuse(c)
    BY <1>2, <2>1 DEF Auth, Refuse
  <2>2. CASE Process(c)
    <3>. DEFINE r == line[c]
    <3>1. Execute(c, r) /\ (r.cmd = "GET" => r.key \in Keys)
      BY <1>1, <2>2, CommandFields DEF Process
    <3>. HIDE DEF r
    <3>. QED  BY <1>2, <3>1 DEF Execute
  <2>. QED  BY <2>1, <2>2
<1>. QED  BY <1>1, <1>3

LEMMA AnswersKeep ==
    ASSUME ConnTypes, Inv, NEW c \in Conns, Auth(c) \/ Refuse(c) \/ Process(c)
    PROVE  ConnTypes'
<1>1. authenticated' \in [Conns -> BOOLEAN]
  BY DEF ConnTypes, Auth, Refuse, Process
<1>. QED  BY <1>1, SomeAnswer, RespondKeeps

LEMMA ConnKeeps ==
    ASSUME ConnTypes, Inv, [SNext]_svars
    PROVE  ConnTypes'
<1>1. ASSUME NEW c \in Conns, \/ Accept(c) \/ HangUp(c) \/ LeaveLoop(c) \/ Write(c)
                              \/ Block(c) \/ Drain(c)
      PROVE  ConnTypes'
  <2>1. CASE Accept(c) \/ HangUp(c)
    BY <2>1 DEF ConnTypes, Accept, Free, HangUp
  <2>2. CASE LeaveLoop(c)
    BY <2>2 DEF ConnTypes, LeaveLoop, Close
  <2>3. CASE Written(c) /\ phase[c] \in {"write", "blocked"}
    BY <2>3 DEF ConnTypes, Written
  <2>4. CASE WriteFails(c)
    BY <2>4 DEF ConnTypes, WriteFails, Close
  <2>5. CASE Block(c)
    BY <2>5 DEF ConnTypes, Block
  <2>. QED  BY <1>1, <2>1, <2>2, <2>3, <2>4, <2>5 DEF Write, Drain
<1>2. ASSUME NEW c \in Conns, Send(c)
      PROVE  ConnTypes'
  BY <1>2, BurstsAssumption DEF ConnTypes, Send
<1>3. ASSUME NEW c \in Conns, Scan(c)
      PROVE  ConnTypes'
  <2>1. inbox[c] \in Seq(Commands) /\ inbox[c] # <<>>
    BY <1>3 DEF ConnTypes, Scan
  <2>2. Head(inbox[c]) \in Commands /\ Tail(inbox[c]) \in Seq(Commands)
    BY <2>1
  <2>. QED  BY <1>3, <2>2, NothingAssumption DEF ConnTypes, Scan
<1>4. ASSUME UNCHANGED conns
      PROVE  ConnTypes'
  BY <1>4 DEF ConnTypes, conns
<1>5. ASSUME NEW p \in Setters, Create(p) \/ Fill(p) \/ SetFails(p)
      PROVE  UNCHANGED conns
  BY <1>5 DEF Create, Fill, SetFails
<1>6. ASSUME NEW s \in Shells, Change(s) \/ Quit(s)
      PROVE  UNCHANGED conns
  BY <1>6 DEF Change, Quit
<1>7. Background \/ UNCHANGED svars => UNCHANGED conns
  BY DEF Background, svars
<1>. QED  BY <1>1, <1>2, <1>3, <1>4, <1>5, <1>6, <1>7, AnswersKeep DEF SNext, Handle

----------------------------------------------------------------------------
(* The ttl of a command: what the conversions make of it.                   *)

\* The two's complement of an integer, and that it is the integer when that fits.
LEMMA ParseRange ==
    ASSUME NEW x \in Int
    PROVE  /\ ((x + Half) % (2 * Half)) - Half \in -Half .. Half - 1
           /\ x \in -Half .. Half - 1 => ((x + Half) % (2 * Half)) - Half = x
<1>. DEFINE y == x + Half
            m == 2 * Half
<1>1. m \in Nat \ {0} /\ y \in Int /\ Half \in Nat
  BY ClockAssumption
<1>2. x \in -Half .. Half - 1 => y \in 0 .. m - 1
  BY <1>1
<1>3. x = y - Half /\ m = Half + Half
  BY <1>1
<1>. HIDE DEF y, m
<1>4. y % m \in 0 .. m - 1
  BY <1>1
<1>5. y \in 0 .. m - 1 => y % m = y
  BY <1>1
<1>6. (y % m) - Half \in -Half .. Half - 1 /\ (x \in -Half .. Half - 1 => (y % m) - Half = x)
  BY <1>1, <1>2, <1>3, <1>4, <1>5
<1>. QED  BY <1>6 DEF y, m

LEMMA TtlRange ==
    ASSUME NEW r, r.ttl \in TtlArgs \cup {NoTtl}
    PROVE  TtlOf(r) \in -Half .. Half - 1
<1>1. CASE r.ttl = NoTtl
  BY <1>1, ClockAssumption DEF TtlOf
<1>2. CASE r.ttl # NoTtl
  <2>1. r.ttl.num * r.ttl.unit \in Int
    BY <1>2, TtlArgsAssumption
  <2>. QED  BY <1>2, <2>1, ParseRange DEF TtlOf, ParseTTL
<1>. QED  BY <1>1, <1>2

\* A deadline that fits into an int64 is stored as it was meant; a ttl that is 0 or
\* negative makes a value that stays.
LEMMA DeadlineAsMeant ==
    ASSUME TypeOK, NEW r, r.ttl \in TtlArgs \cup {NoTtl}
    PROVE  /\ Meant(r) \in Int
           /\ Meant(r) < Half => Expiration(TtlOf(r)) = Meant(r)
<1>1. now \in Int /\ now >= 0 /\ Half \in Nat /\ Half > 0
  BY ClockAssumption DEF TypeOK
<1>2. CASE r.ttl = NoTtl
  BY <1>1, <1>2 DEF TtlOf, Meant, Expiration
<1>3. CASE r.ttl # NoTtl
  <2>. DEFINE x == r.ttl.num * r.ttl.unit
  <2>1. x \in Int
    BY <1>3, TtlArgsAssumption
  <2>2. TtlOf(r) \in Int /\ (x \in -Half .. Half - 1 => TtlOf(r) = x)
    BY <1>3, <2>1, ParseRange, TtlRange, <1>1 DEF TtlOf, ParseTTL
  <2>3. Meant(r) = IF x > 0 THEN now + x ELSE IF x < -Half THEN Half ELSE 0
    BY <1>3 DEF Meant
  <2>. HIDE DEF x
  <2>4. CASE x > 0 /\ now + x < Half
    BY <1>1, <2>1, <2>2, <2>3, <2>4 DEF Expiration, Wrap
  <2>5. CASE ~(x > 0) /\ ~(x < -Half)
    BY <1>1, <2>1, <2>2, <2>3, <2>5 DEF Expiration
  <2>6. CASE (x > 0 /\ ~(now + x < Half)) \/ (~(x > 0) /\ x < -Half)
    BY <1>1, <2>1, <2>3, <2>6
  <2>. QED  BY <2>1, <1>1, <2>4, <2>5, <2>6
<1>. QED  BY <1>2, <1>3

\* SET and SETNX.
LEMMA PutAsked ==
    ASSUME StoreInv, NEW k \in Keys, NEW v \in Values, NEW r, r.ttl \in TtlArgs \cup {NoTtl},
           FreshId \in Ids, Put(k, v, TtlOf(r), FreshId),
           asked' = [asked EXCEPT ![k] = Meant(r)]
    PROVE  StoreInv'
<1>1. Inv'
  BY TtlRange, PutInv DEF StoreInv
<1>2. Meant(r) \in Int /\ (Meant(r) < Half => Expiration(TtlOf(r)) = Meant(r))
  BY DeadlineAsMeant DEF StoreInv, Inv
<1>3. asked' \in [Keys -> Int]
  BY <1>2 DEF StoreInv
<1>4. /\ items'[k].exp = Expiration(TtlOf(r)) /\ asked'[k] = Meant(r)
      /\ \A l \in Keys \ {k} : items'[l] = items[l] /\ asked'[l] = asked[l]
  BY DEF StoreInv, Inv, TypeOK, Put
<1>5. TtlAsAsked'
  BY <1>2, <1>4 DEF StoreInv, TtlAsAsked, Stored
<1>. QED  BY <1>1, <1>3, <1>5 DEF StoreInv

LEMMA ExecuteKeepsStore ==
    ASSUME StoreInv, NEW c \in Conns, NEW r \in Commands, Execute(c, r)
    PROVE  StoreInv'
<1>1. CASE /\ r.cmd \in {"SET", "SETNX"} /\ FreshId \in Ids
           /\ Put(r.key, r.value, TtlOf(r), FreshId)
           /\ asked' = [asked EXCEPT ![r.key] = Meant(r)]
  BY <1>1, CommandFields, PutAsked
<1>2. CASE UNCHANGED <<vars, asked>>
  BY <1>2 DEF StoreInv, TtlAsAsked, Inv, TypeOK, DeadlinesQueued, StaleAccounted,
              ItemsDistinct, Stored, vars
<1>3. CASE r.cmd = "DEL" /\ Delete(r.key) /\ asked' = [asked EXCEPT ![r.key] = 0]
  <2>1. r.key \in Keys /\ Inv'
    BY <1>3, CommandFields, DeleteInv DEF StoreInv
  <2>2. /\ items'[r.key] = NoItem /\ asked' \in [Keys -> Int]
        /\ \A l \in Keys \ {r.key} : items'[l] = items[l] /\ asked'[l] = asked[l]
    BY <1>3, <2>1 DEF StoreInv, Inv, TypeOK, Delete
  <2>. QED  BY <2>1, <2>2 DEF StoreInv, TtlAsAsked, Stored
<1>4. CASE FlushAll /\ asked' = [k \in Keys |-> 0]
  <2>1. Inv'
    BY <1>4, FlushAllInv DEF StoreInv
  <2>. QED  BY <1>4, <2>1 DEF StoreInv, TtlAsAsked, Stored, FlushAll
<1>. QED  BY <1>1, <1>2, <1>3, <1>4 DEF Execute, Set, SetNX

LEMMA StoreKeeps ==
    ASSUME ConnTypes, StoreInv, [SNext]_svars
    PROVE  StoreInv'
<1>1. CASE UNCHANGED <<vars, asked>>
  BY <1>1 DEF StoreInv, TtlAsAsked, Inv, TypeOK, DeadlinesQueued, StaleAccounted,
              ItemsDistinct, Stored, vars
<1>2. ASSUME NEW p \in Setters, Create(p) \/ Fill(p) \/ SetFails(p)
      PROVE  UNCHANGED <<vars, asked>>
  BY <1>2 DEF Create, Fill, SetFails
<1>3. ASSUME NEW s \in Shells, Change(s) \/ Quit(s)
      PROVE  UNCHANGED <<vars, asked>>
  BY <1>3 DEF Change, Quit
<1>4. ASSUME NEW c \in Conns, \/ Accept(c) \/ Send(c) \/ HangUp(c) \/ Scan(c)
                              \/ LeaveLoop(c) \/ Write(c) \/ Auth(c) \/ Refuse(c)
                              \/ Block(c) \/ Drain(c)
      PROVE  UNCHANGED <<vars, asked>>
  BY <1>4 DEF Accept, Send, HangUp, Scan, LeaveLoop, Write, Written, WriteFails, Block, Drain,
              Auth, Refuse
<1>5. ASSUME NEW c \in Conns, Process(c)
      PROVE  StoreInv'
  <2>1. line[c] \in Commands /\ Execute(c, line[c])
    BY <1>5, NothingAssumption DEF ConnTypes, Process
  <2>. QED  BY <2>1, ExecuteKeepsStore
<1>6. CASE Background
  <2>1. Inv'
    BY <1>6, CleanupInv, TickInv DEF Background, StoreInv
  <2>2. \A k \in Keys : items'[k] \in {items[k], NoItem}
    BY <1>6 DEF Background, Cleanup, Tick
  <2>3. asked' = [k \in Keys |-> IF items'[k] = NoItem THEN 0 ELSE asked[k]]
    BY <1>6 DEF Background
  <2>. QED  BY <2>1, <2>2, <2>3 DEF StoreInv, TtlAsAsked, Stored
<1>7. CASE UNCHANGED svars
  BY <1>1, <1>7 DEF svars
<1>. QED  BY <1>1, <1>2, <1>3, <1>4, <1>5, <1>6, <1>7 DEF SNext, Handle

LEMMA SSafety == SSpec => []SInv
<1>1. SInv /\ [SNext]_svars => SInv'
  BY ConnKeeps, FileKeeps, StoreKeeps DEF SInv, StoreInv
<1>. QED  BY <1>1, SInitInv, PTL DEF SSpec

\* The goroutine of a connection has a line exactly while it handles one, and a
\* response exactly while it writes it (handleTextConnection); the store keeps its
\* types under the commands of any number of connections.
THEOREM SessionTypeCorrect == SSpec => []STypeOK
<1>1. SInv => STypeOK
  BY DEF SInv, ConnTypes, FileTypes, StoreInv, Inv, STypeOK
<1>. QED  BY <1>1, SSafety, PTL

\* A stored value has the deadline its client asked for, if that fits into an int64,
\* whatever the width of the clock, the numbers and the units (ParseTTL,
\* parseTTLFromParts, Set, SetNX).
THEOREM TtlAlwaysAsAsked == SSpec => []TtlAsAsked
<1>1. SInv => TtlAsAsked
  BY DEF SInv, StoreInv
<1>. QED  BY <1>1, SSafety, PTL

----------------------------------------------------------------------------
(* Connections, the store and the password file implement KeyService.       *)

Store   == [k \in Keys |-> IF Visible(k) THEN items[k].value ELSE NoItem]
Mortal  == {i.key : i \in heap}
Present == [c \in Conns |-> phase[c] # "closed"]
Entitled == [c \in Conns |-> phase[c] # "closed" /\ Allowed(c)]
Calls   == [c \in Conns |-> IF phase[c] = "process" THEN <<line[c]>> \o inbox[c] ELSE inbox[c]]

\* What KeyService sees of connection d is as it was.
Same(d) == /\ phase'[d] = phase[d] /\ inbox'[d] = inbox[d] /\ line'[d] = line[d]
           /\ authenticated'[d] = authenticated[d] /\ reply'[d] = reply[d]

LEMMA ConnectionMoves ==
    ASSUME NEW c \in Conns, \A d \in Conns \ {c} : Same(d)
    PROVE  /\ Present' = [Present EXCEPT ![c] = Present'[c]]
           /\ Entitled' = [Entitled EXCEPT ![c] = Entitled'[c]]
           /\ Calls' = [Calls EXCEPT ![c] = Calls'[c]]
<1>1. \A d \in Conns \ {c} : /\ Present'[d] = Present[d] /\ Entitled'[d] = Entitled[d]
                             /\ Calls'[d] = Calls[d]
  BY DEF Same, Present, Entitled, Calls, Allowed
<1>2. /\ Present = [d \in Conns |-> Present[d]] /\ Present' = [d \in Conns |-> Present'[d]]
      /\ Entitled = [d \in Conns |-> Entitled[d]] /\ Entitled' = [d \in Conns |-> Entitled'[d]]
      /\ Calls = [d \in Conns |-> Calls[d]] /\ Calls' = [d \in Conns |-> Calls'[d]]
  BY DEF Present, Entitled, Calls
<1>3. Present' = [Present EXCEPT ![c] = Present'[c]]
  BY <1>1, <1>2
<1>4. Entitled' = [Entitled EXCEPT ![c] = Entitled'[c]]
  BY <1>1, <1>2
<1>5. Calls' = [Calls EXCEPT ![c] = Calls'[c]]
  BY <1>1, <1>2
<1>. QED  BY <1>3, <1>4, <1>5

LEMMA StoreStays == UNCHANGED vars => UNCHANGED <<Store, Mortal>>
BY DEF vars, Store, Mortal, Visible, Stored, Expired

LEMMA AcceptJoins ==
    ASSUME SInv, NEW c \in Conns, Accept(c)
    PROVE  Service!Join(c)
<1>1. \A d \in Conns \ {c} : Same(d)
  BY DEF SInv, ConnTypes, Accept, Same
<1>2. UNCHANGED <<Store, Mortal, file, reply>>
  BY StoreStays DEF Accept, auth
<1>3. phase[c] = "closed" /\ phase'[c] = "scan" /\ ~authenticated'[c] /\ inbox'[c] = inbox[c]
  BY DEF SInv, ConnTypes, Accept, Free
<1>4. ~Present[c] /\ Present'[c] = TRUE /\ Entitled'[c] = ~Guarded /\ Calls'[c] = Calls[c]
  BY <1>3 DEF Present, Entitled, Calls, Allowed
<1>5. Calls' = Calls
  BY <1>1, <1>4, ConnectionMoves DEF Calls
<1>6. /\ Present' = [Present EXCEPT ![c] = TRUE] /\ Entitled' = [Entitled EXCEPT ![c] = ~Guarded]
  BY <1>1, <1>4, ConnectionMoves
<1>. QED  BY <1>2, <1>4, <1>5, <1>6
          DEF Service!Join, Store, Mortal, Present, Entitled, Calls

LEMMA Cons ==
    ASSUME NEW S, NEW x \in S, NEW s \in Seq(S)
    PROVE  /\ <<x>> \o s # <<>> /\ Head(<<x>> \o s) = x /\ Tail(<<x>> \o s) = s
           /\ Service!IsPrefix(<<x>> \o <<>>, <<x>> \o s) /\ Service!IsPrefix(<<>>, s)
<1>1. <<x>> \o s \in Seq(S) /\ Len(<<x>> \o s) = 1 + Len(s)
  OBVIOUS
<1>2. <<x>> \o s # <<>> /\ Head(<<x>> \o s) = x
  BY <1>1
<1>3. Tail(<<x>> \o s) = s
  OBVIOUS
<1>4. /\ <<x>> \o <<>> = <<x>> /\ Len(<<x>>) = 1 /\ Len(<<>>) = 0
      /\ SubSeq(<<x>>, 1, 1) = SubSeq(<<x>> \o s, 1, 1)
      /\ SubSeq(<<>>, 1, 0) = SubSeq(s, 1, 0)
  OBVIOUS
<1>5. Service!IsPrefix(<<x>> \o <<>>, <<x>> \o s) /\ Service!IsPrefix(<<>>, s)
  BY <1>1, <1>4 DEF Service!IsPrefix
<1>. QED  BY <1>2, <1>3, <1>5

LEMMA SendCalls ==
    ASSUME SInv, NEW c \in Conns, Send(c)
    PROVE  Service!Call(c)
<1>1. \A d \in Conns \ {c} : Same(d)
  BY DEF SInv, ConnTypes, Send, Same
<1>2. UNCHANGED <<Store, Mortal, file, reply, phase, authenticated>>
  BY StoreStays DEF Send, auth
<1>3. UNCHANGED <<Present, Entitled>> /\ Present[c]
  BY <1>2 DEF Present, Entitled, Allowed, Send
<1>4. /\ inbox[c] = <<>> /\ inbox'[c] \in Seq(Commands) /\ line' = line
      /\ phase[c] = "process" => line[c] \in Commands
  BY BurstsAssumption, NothingAssumption DEF SInv, ConnTypes, Send
<1>5. Service!IsPrefix(Calls[c], Calls'[c])
  <2>1. CASE phase[c] = "process"
    BY <1>2, <1>4, <2>1, Cons DEF Calls
  <2>2. CASE phase[c] # "process"
    <3>1. Service!IsPrefix(<<>>, inbox'[c])
      BY <1>4 DEF Service!IsPrefix
    <3>. QED  BY <1>2, <1>4, <2>2, <3>1 DEF Calls
  <2>. QED  BY <2>1, <2>2
<1>6. Calls' = [Calls EXCEPT ![c] = Calls'[c]]
  BY <1>1, ConnectionMoves
<1>. QED  BY <1>2, <1>3, <1>5, <1>6
          DEF Service!Call, Store, Mortal, Present, Entitled, Calls

\* The connection is closed: what was not read is gone.
LEMMA CloseLeaves ==
    ASSUME SInv, NEW c \in Conns, phase[c] # "closed", Close(c), UNCHANGED <<vars, auth, authenticated>>,
           \A d \in Conns \ {c} : line'[d] = line[d],
           reply' = [reply EXCEPT ![c] = NoReply]
    PROVE  Service!Leave(c)
<1>1. \A d \in Conns \ {c} : Same(d)
  BY DEF SInv, ConnTypes, Close, Same
<1>2. UNCHANGED <<Store, Mortal, file>>
  BY StoreStays DEF auth
<1>3. phase'[c] = "closed" /\ inbox'[c] = <<>>
  BY DEF SInv, ConnTypes, Close
<1>4. Present[c] /\ Present'[c] = FALSE /\ Entitled'[c] = FALSE /\ Calls'[c] = <<>>
  BY <1>3 DEF Present, Entitled, Calls
<1>5. /\ Present' = [Present EXCEPT ![c] = FALSE] /\ Entitled' = [Entitled EXCEPT ![c] = FALSE]
      /\ Calls' = [Calls EXCEPT ![c] = <<>>]
  BY <1>1, <1>4, ConnectionMoves
<1>. QED  BY <1>2, <1>4, <1>5
          DEF Service!Leave, Store, Mortal, Present, Entitled, Calls

LEMMA LeaveLoopLeaves ==
    ASSUME SInv, NEW c \in Conns, LeaveLoop(c)
    PROVE  Service!Leave(c)
<1>1. reply[c] = NoReply /\ reply' = reply
  BY DEF SInv, ConnTypes, LeaveLoop
<1>2. reply' = [reply EXCEPT ![c] = NoReply]
  BY <1>1 DEF SInv, ConnTypes
<1>. QED  BY <1>2, CloseLeaves DEF LeaveLoop

LEMMA WriteDelivers ==
    ASSUME SInv, NEW c \in Conns, Written(c), phase[c] \in {"write", "blocked"}
    PROVE  Service!Deliver(c)
<1>1. \A d \in Conns \ {c} : Same(d)
  BY DEF SInv, ConnTypes, Written, Same
<1>2. UNCHANGED <<Store, Mortal, file>>
  BY StoreStays DEF Written, auth
<1>3. /\ phase'[c] = "scan" /\ inbox'[c] = inbox[c]
      /\ authenticated' = authenticated /\ reply[c] # NoReply
      /\ reply' = [reply EXCEPT ![c] = NoReply]
  BY DEF SInv, ConnTypes, Written
<1>4. \A d \in Conns : Present'[d] = Present[d] /\ Entitled'[d] = Entitled[d] /\ Calls'[d] = Calls[d]
  BY <1>1, <1>3 DEF Present, Entitled, Calls, Allowed, Same
<1>5. UNCHANGED <<Present, Entitled, Calls>>
  BY <1>4 DEF Present, Entitled, Calls
<1>. QED  BY <1>2, <1>3, <1>5 DEF Service!Deliver, Store, Mortal, Present, Entitled, Calls

LEMMA WriteEnds ==
    ASSUME SInv, NEW c \in Conns, Write(c) \/ Drain(c)
    PROVE  Service!Deliver(c) \/ Service!Leave(c)
<1>1. CASE WriteFails(c)
  BY <1>1, CloseLeaves DEF WriteFails
<1>2. CASE Written(c) /\ phase[c] \in {"write", "blocked"}
  BY <1>2, WriteDelivers
<1>. QED  BY <1>1, <1>2 DEF Write, Drain

LEMMA ScanIgnores ==
    ASSUME SInv, NEW c \in Conns, Scan(c)
    PROVE  Service!Ignore(c) \/ UNCHANGED Service!vars
<1>1. \A d \in Conns \ {c} : Same(d)
  BY DEF SInv, ConnTypes, Scan, Same
<1>2. UNCHANGED <<Store, Mortal, file, reply, authenticated>>
  BY StoreStays DEF Scan, auth
<1>3. /\ inbox[c] \in Seq(Commands) /\ inbox[c] # <<>> /\ phase[c] = "scan"
      /\ inbox'[c] = Tail(inbox[c])
  BY DEF SInv, ConnTypes, Scan
<1>4. phase'[c] \in {"scan", "process"}
  BY DEF SInv, ConnTypes, Scan
<1>5. \A d \in Conns : Present'[d] = Present[d] /\ Entitled'[d] = Entitled[d]
  BY <1>1, <1>2, <1>3, <1>4 DEF Present, Entitled, Allowed, Same
<1>6. UNCHANGED <<Present, Entitled>>
  BY <1>5 DEF Present, Entitled
<1>7. CASE Head(inbox[c]).cmd = "EMPTY"
  <2>1. Calls[c] = inbox[c] /\ Calls'[c] = Tail(inbox[c])
    BY <1>3, <1>7 DEF Scan, Calls
  <2>2. Calls' = [Calls EXCEPT ![c] = Tail(Calls[c])]
    BY <1>1, <2>1, ConnectionMoves
  <2>. QED  BY <1>2, <1>3, <1>6, <1>7, <2>1, <2>2
            DEF Service!Ignore, Store, Mortal, Present, Entitled, Calls
<1>8. CASE Head(inbox[c]).cmd # "EMPTY"
  <2>1. phase'[c] = "process" /\ line'[c] = Head(inbox[c])
    BY <1>8 DEF SInv, ConnTypes, Scan
  <2>2. <<Head(inbox[c])>> \o Tail(inbox[c]) = inbox[c]
    BY <1>3
  <2>3. \A d \in Conns : Calls'[d] = Calls[d]
    BY <1>1, <1>3, <2>1, <2>2 DEF Calls, Same
  <2>4. Calls' = Calls
    BY <2>3 DEF Calls
  <2>. QED  BY <1>2, <1>6, <2>4
            DEF Service!vars, Service!client, Store, Mortal, Present, Entitled, Calls
<1>. QED  BY <1>7, <1>8

\* The line of c is handled: a is its answer.
LEMMA RespondTakes ==
    ASSUME SInv, NEW c \in Conns, phase[c] = "process", NEW a \in Answers, Respond(c, a),
           \A d \in Conns \ {c} : authenticated'[d] = authenticated[d]
    PROVE  /\ line[c] \in Commands
           /\ Calls[c] # <<>> /\ Head(Calls[c]) = line[c] /\ reply[c] = NoReply
           /\ Calls' = [Calls EXCEPT ![c] = Tail(Calls[c])]
           /\ reply'[c] = a /\ reply'[c] # NoReply /\ reply' = [reply EXCEPT ![c] = reply'[c]]
           /\ UNCHANGED <<Present, file>>
           /\ Entitled' = [Entitled EXCEPT ![c] = Entitled'[c]]
           /\ Entitled'[c] = Allowed(c)' /\ Entitled[c] = Allowed(c)
<1>1. line[c] \in Commands /\ inbox[c] \in Seq(Commands) /\ reply[c] = NoReply
  BY NothingAssumption DEF SInv, ConnTypes
<1>2. \A d \in Conns \ {c} : Same(d)
  BY DEF SInv, ConnTypes, Respond, Same
<1>3. /\ phase'[c] = "write" /\ inbox'[c] = inbox[c] /\ reply'[c] = a
      /\ reply' = [reply EXCEPT ![c] = a]
  BY DEF SInv, ConnTypes, Respond
<1>4. Calls[c] = <<line[c]>> \o inbox[c] /\ Calls'[c] = inbox[c]
  BY <1>3 DEF Calls
<1>5. Calls[c] # <<>> /\ Head(Calls[c]) = line[c] /\ Calls'[c] = Tail(Calls[c])
  BY <1>1, <1>4, Cons
<1>6. Calls' = [Calls EXCEPT ![c] = Tail(Calls[c])]
  BY <1>2, <1>5, ConnectionMoves
<1>7. \A d \in Conns : Present'[d] = Present[d]
  BY <1>2, <1>3 DEF Present, Same
<1>8. Present' = Present /\ file' = file
  BY <1>7 DEF Present, Respond, auth
<1>9. Entitled' = [Entitled EXCEPT ![c] = Entitled'[c]]
  BY <1>2, ConnectionMoves
<1>10. Entitled'[c] = Allowed(c)' /\ Entitled[c] = Allowed(c)
  BY <1>3 DEF Entitled, Allowed
<1>. QED  BY <1>1, <1>3, <1>5, <1>6, <1>8, <1>9, <1>10, NothingAssumption

LEMMA AuthDoes ==
    ASSUME SInv, NEW c \in Conns, Auth(c)
    PROVE  Service!Do(c)
<1>. DEFINE ok == ~Guarded \/ line[c].password = file
<1>1. PICK a \in Answers : Respond(c, a) /\ a = IF ok THEN "AUTHENTICATED" ELSE "ERROR"
  <2>1. "AUTHENTICATED" \in Answers /\ "ERROR" \in Answers
    BY DEF Answers
  <2>. QED  BY <2>1 DEF Auth, Verifies
<1>2. phase[c] = "process" /\ line[c].cmd = "AUTH"
  BY DEF Auth
<1>3. /\ authenticated'[c] = (ok \/ authenticated[c])
      /\ \A d \in Conns \ {c} : authenticated'[d] = authenticated[d]
  BY DEF SInv, ConnTypes, Auth, Verifies
<1>4. /\ Calls[c] # <<>> /\ Head(Calls[c]) = line[c] /\ reply[c] = NoReply
      /\ Calls' = [Calls EXCEPT ![c] = Tail(Calls[c])]
      /\ reply'[c] = a /\ reply'[c] # NoReply /\ reply' = [reply EXCEPT ![c] = reply'[c]]
      /\ UNCHANGED <<Present, file>>
      /\ Entitled' = [Entitled EXCEPT ![c] = Entitled'[c]]
      /\ Entitled'[c] = Allowed(c)' /\ Entitled[c] = Allowed(c)
  BY <1>1, <1>2, <1>3, RespondTakes
<1>5. Entitled'[c] = (Entitled[c] \/ line[c].password = file)
  BY <1>3, <1>4 DEF Allowed, Guarded
<1>6. Entitled' = [Entitled EXCEPT ![c] = Entitled[c] \/ line[c].password = file]
  BY <1>4, <1>5
<1>7. UNCHANGED <<Store, Mortal>>
  BY StoreStays DEF Auth
<1>. QED  BY <1>1, <1>2, <1>4, <1>6, <1>7
          DEF Service!Do, Store, Mortal, Present, Entitled, Calls

LEMMA EntitledStays ==
    ASSUME NEW c \in Conns, UNCHANGED authenticated,
           Entitled' = [Entitled EXCEPT ![c] = Entitled'[c]],
           Entitled'[c] = Allowed(c)', Entitled[c] = Allowed(c)
    PROVE  Entitled' = Entitled
<1>1. Entitled'[c] = Entitled[c]
  BY DEF Allowed
<1>2. Entitled = [d \in Conns |-> Entitled[d]]
  BY SMTT(40) DEF Entitled
<1>. QED  BY <1>1, <1>2

LEMMA RefuseDoes ==
    ASSUME SInv, NEW c \in Conns, Refuse(c)
    PROVE  Service!Do(c)
<1>1. "ERROR" \in Answers /\ Respond(c, "ERROR")
  BY DEF Refuse, Answers
<1>2. /\ phase[c] = "process" /\ line[c].cmd # "AUTH" /\ authenticated' = authenticated
      /\ ~Allowed(c) \/ line[c].cmd = "MALFORMED"
  BY DEF Refuse
<1>3. /\ Calls[c] # <<>> /\ Head(Calls[c]) = line[c] /\ reply[c] = NoReply
      /\ Calls' = [Calls EXCEPT ![c] = Tail(Calls[c])]
      /\ reply'[c] = "ERROR" /\ reply'[c] # NoReply /\ reply' = [reply EXCEPT ![c] = reply'[c]]
      /\ UNCHANGED <<Present, file>>
      /\ Entitled' = [Entitled EXCEPT ![c] = Entitled'[c]]
      /\ Entitled'[c] = Allowed(c)' /\ Entitled[c] = Allowed(c)
  BY <1>1, <1>2, RespondTakes
<1>4. Entitled' = Entitled
  BY <1>2, <1>3, EntitledStays
<1>5. UNCHANGED <<Store, Mortal>>
  BY StoreStays DEF Refuse
<1>. QED  BY <1>2, <1>3, <1>4, <1>5
          DEF Service!Do, Service!Answered, Store, Mortal, Present, Entitled, Calls

LEMMA NothingStored ==
    ASSUME Inv, NEW k \in Keys
    PROVE  /\ Store[k] = NoItem <=> ~Visible(k)
           /\ Visible(k) => Store[k] = items[k].value /\ items[k].value \in Values
           /\ Stored(k) /\ ~Visible(k) => k \in Mortal
<1>1. Visible(k) => items[k].value \in Values
  BY DEF Inv, TypeOK, Visible, Stored, Item
<1>2. Store[k] = IF Visible(k) THEN items[k].value ELSE NoItem
  BY DEF Store
<1>3. Stored(k) /\ ~Visible(k) => items[k] \in heap /\ items[k].key = k
  <2>1. Stored(k) => items[k].exp \in Int /\ items[k].key = k
    BY ClockAssumption DEF Inv, TypeOK, Stored, Item
  <2>. QED  BY <2>1 DEF Inv, DeadlinesQueued, Visible, Expired
<1>. QED  BY <1>1, <1>2, <1>3, NothingAssumption DEF Mortal

\* A key whose item is as it was, at the same time, has the value it had.
LEMMA StoreOf ==
    ASSUME NEW k \in Keys, items'[k] = items[k], now' = now
    PROVE  Store'[k] = Store[k]
BY DEF Store, Visible, Stored, Expired

LEMMA StoreMoves ==
    ASSUME NEW k \in Keys, NEW v, Store'[k] = v, now' = now,
           \A l \in Keys \ {k} : items'[l] = items[l]
    PROVE  Store' = [Store EXCEPT ![k] = v]
<1>1. \A l \in Keys \ {k} : Store'[l] = Store[l]
  BY StoreOf
<1>2. Store = [l \in Keys |-> Store[l]] /\ Store' = [l \in Keys |-> Store'[l]]
  BY DEF Store
<1>. QED  BY <1>1, <1>2

\* The value that SET or SETNX stores is visible at once.
LEMMA PutStores ==
    ASSUME Inv, NEW k \in Keys, NEW v \in Values, NEW ttl \in -Half .. Half - 1,
           NEW id \in Ids, Put(k, v, ttl, id)
    PROVE  /\ Store' = [Store EXCEPT ![k] = v]
           /\ Mortal' = IF ttl > 0 THEN Mortal \cup {k} ELSE Mortal
<1>. DEFINE i == [id |-> id, key |-> k, value |-> v, exp |-> Expiration(ttl)]
<1>1. /\ items' = [items EXCEPT ![k] = i]
      /\ heap' = IF ttl > 0 THEN heap \cup {i} ELSE heap
      /\ now' = now
  BY DEF Put
<1>2. i.value = v /\ i.key = k /\ i.exp = Expiration(ttl) /\ i # NoItem
  BY ExpirationRange, NoItemAssumption DEF Inv, Item
<1>. HIDE DEF i
<1>3. now \in Int /\ now >= 0 /\ Half \in Nat /\ now < Half
  BY ClockAssumption DEF Inv, TypeOK
<1>4. ~(Expiration(ttl) > 0 /\ now > Expiration(ttl))
  BY <1>3 DEF Expiration, Wrap
<1>5. /\ items'[k] = i
      /\ \A l \in Keys \ {k} : items'[l] = items[l]
  BY <1>1 DEF Inv, TypeOK
<1>6. Store'[k] = v
  BY <1>1, <1>2, <1>4, <1>5 DEF Store, Visible, Stored, Expired
<1>7. Mortal' = IF ttl > 0 THEN Mortal \cup {k} ELSE Mortal
  BY <1>1, <1>2 DEF Mortal
<1>. QED  BY <1>1, <1>5, <1>6, <1>7, StoreMoves

\* A deleted key may keep the deadline of an older value.
LEMMA DeleteRemoves ==
    ASSUME Inv, NEW k \in Keys, Delete(k)
    PROVE  /\ Store' = [Store EXCEPT ![k] = NoItem]
           /\ Mortal' \in {Mortal, Mortal \ {k}}
           /\ Store[k] # NoItem \/ k \in Mortal
<1>1. /\ Stored(k) /\ items'[k] = NoItem /\ now' = now
      /\ \A l \in Keys \ {k} : items'[l] = items[l]
      /\ heap' = heap \/ heap' = heap \ {items[k]}
  BY DEF Delete, Inv, TypeOK
<1>2. Store'[k] = NoItem
  BY <1>1 DEF Store, Visible, Stored
<1>3. Store' = [Store EXCEPT ![k] = NoItem]
  BY <1>1, <1>2, StoreMoves
<1>4. items[k].key = k
  BY <1>1 DEF Inv, TypeOK
<1>5. \A l : l # k => (l \in Mortal' <=> l \in Mortal)
  BY <1>1, <1>4 DEF Mortal
<1>6. k \in Mortal' => k \in Mortal
  BY <1>1 DEF Mortal
<1>7. Mortal' \in {Mortal, Mortal \ {k}}
  <2>1. CASE k \in Mortal'
    BY <2>1, <1>5, <1>6
  <2>2. CASE k \notin Mortal'
    BY <2>2, <1>5
  <2>. QED  BY <2>1, <2>2
<1>. QED  BY <1>1, <1>3, <1>7, NothingStored

LEMMA FlushEmpties ==
    ASSUME FlushAll
    PROVE  Store' = [k \in Keys |-> NoItem] /\ Mortal' = {}
<1>1. Mortal' = {}
  BY DEF FlushAll, Mortal
<1>2. \A k \in Keys : Store'[k] = NoItem
  BY DEF FlushAll, Store, Visible, Stored
<1>3. Store' = [k \in Keys |-> Store'[k]]
  BY DEF Store
<1>. QED  BY <1>1, <1>2, <1>3

\* What the cleaner and the clock take away had a deadline.
LEMMA BackgroundExpires ==
    ASSUME SInv, Background
    PROVE  Service!Expire
<1>1. UNCHANGED <<file, Present, Entitled, Calls, reply>>
  BY DEF Background, conns, auth, Present, Entitled, Calls, Allowed
<1>2. Inv /\ now \in Int /\ now' \in Int /\ now' >= now
  BY ClockAssumption DEF SInv, StoreInv, Inv, TypeOK, Background, Cleanup, Tick
<1>3. Mortal' \subseteq Mortal
  BY DEF Background, Cleanup, Tick, Mortal
<1>4. ASSUME NEW k \in Keys
      PROVE  Store'[k] = IF k \in Mortal /\ Store'[k] = NoItem THEN NoItem ELSE Store[k]
  <2>1. CASE Cleanup
    <3>1. items'[k] = items[k] \/ (items'[k] = NoItem /\ k \in Mortal)
      BY <2>1 DEF Cleanup, Due, Mortal
    <3>2. items'[k] = NoItem => Store'[k] = NoItem
      BY DEF Store, Visible, Stored
    <3>3. items'[k] = items[k] => Store'[k] = Store[k]
      BY <2>1, StoreOf DEF Cleanup
    <3>. QED  BY <3>1, <3>2, <3>3
  <2>2. CASE Tick
    <3>1. items'[k] = items[k] /\ (Stored(k) => items[k].exp \in Int)
      BY <2>2, <1>2, ClockAssumption DEF Tick, Inv, TypeOK, Item, Stored
    <3>2. Visible(k)' => Visible(k)
      BY <3>1, <1>2 DEF Visible, Stored, Expired
    <3>3. Store'[k] = IF Visible(k)' THEN items[k].value ELSE NoItem
      BY <3>1 DEF Store
    <3>4. CASE Visible(k)'
      BY <3>2, <3>3, <3>4, <1>2, NothingStored, NothingAssumption
    <3>5. CASE ~Visible(k)'
      <4>1. CASE Stored(k)
        <5>1. items[k].exp # 0
          BY <3>1, <3>5, <4>1, ClockAssumption DEF Visible, Stored, Expired
        <5>2. items[k] \in heap /\ items[k].key = k
          BY <1>2, <4>1, <5>1 DEF Inv, DeadlinesQueued, TypeOK
        <5>. QED  BY <3>3, <3>5, <5>2 DEF Mortal
      <4>2. CASE ~Stored(k)
        BY <3>3, <3>5, <4>2, <1>2, NothingStored DEF Visible
      <4>. QED  BY <4>1, <4>2
    <3>. QED  BY <3>4, <3>5
  <2>. QED  BY <2>1, <2>2 DEF Background
<1>5. Store' = [k \in Keys |-> Store'[k]]
  BY DEF Store
<1>6. Store' = [k \in Keys |-> IF k \in Mortal /\ Store'[k] = NoItem THEN NoItem ELSE Store[k]]
  BY <1>4, <1>5
<1>. QED  BY <1>1, <1>3, <1>6
          DEF Service!Expire, Service!client, Store, Mortal, Present, Entitled, Calls

\* Each command does to the store what KeyService says, and answers it.
LEMMA ExecuteAnswers ==
    ASSUME SInv, NEW c \in Conns, NEW r \in Commands, Execute(c, r), NEW a, reply'[c] = a,
           \A b : Respond(c, b) => b = a
    PROVE  Service!Answered(r, a)
<1>1. Inv /\ (r.cmd \in {"SET", "SETNX", "GET", "DEL"} => r.key \in Keys)
  BY CommandFields DEF SInv, StoreInv
<1>2. CASE UNCHANGED vars /\ (\/ r.cmd = "SETNX" /\ Visible(r.key) /\ Respond(c, "NOT_SET")
                              \/ r.cmd = "GET" /\ Respond(c, IF Visible(r.key) THEN items[r.key].value
                                                             ELSE "NULL")
                              \/ r.cmd = "DEL" /\ ~Stored(r.key) /\ Respond(c, "NOT_FOUND")
                              \/ r.cmd = "KEYS" /\ Respond(c, {k \in Keys : Visible(k)}))
  <2>1. UNCHANGED <<Store, Mortal>>
    BY <1>2, StoreStays
  <2>2. CASE r.cmd = "SETNX" /\ Visible(r.key) /\ a = "NOT_SET"
    <3>1. Store[r.key] # NoItem
      BY <1>1, <2>2, NothingStored
    <3>. QED  BY <2>1, <2>2, <3>1 DEF Service!Answered, Store, Mortal
  <2>3. CASE r.cmd = "GET" /\ a = IF Visible(r.key) THEN items[r.key].value ELSE "NULL"
    <3>1. a = IF Store[r.key] = NoItem THEN "NULL" ELSE Store[r.key]
      BY <1>1, <2>3, NothingStored
    <3>. QED  BY <2>1, <2>3, <3>1 DEF Service!Answered, Store, Mortal
  <2>4. CASE r.cmd = "DEL" /\ ~Stored(r.key) /\ a = "NOT_FOUND"
    <3>1. Store[r.key] = NoItem
      BY <1>1, <2>4, NothingStored DEF Visible
    <3>. QED  BY <2>1, <2>4, <3>1 DEF Service!Answered, Store, Mortal
  <2>5. CASE r.cmd = "KEYS" /\ a = {k \in Keys : Visible(k)}
    <3>1. a = {k \in Keys : Store[k] # NoItem}
      BY <1>1, <2>5, NothingStored
    <3>. QED  BY <2>1, <2>5, <3>1 DEF Service!Answered, Store, Mortal
  <2>. QED  BY <1>2, <2>2, <2>3, <2>4, <2>5
<1>3. CASE /\ r.cmd \in {"SET", "SETNX"} /\ (r.cmd = "SETNX" => ~Visible(r.key))
           /\ FreshId \in Ids /\ Put(r.key, r.value, TtlOf(r), FreshId)
           /\ Respond(c, "OK")
  <2>1. r.value \in Values /\ r.ttl \in TtlArgs \cup {NoTtl} /\ a = "OK"
    BY <1>3, CommandFields
  <2>2. TtlOf(r) \in -Half .. Half - 1 /\ (r.ttl = NoTtl => TtlOf(r) = 0)
    BY <2>1, TtlRange DEF TtlOf
  <2>3. /\ Store' = [Store EXCEPT ![r.key] = r.value]
        /\ Mortal' = IF TtlOf(r) > 0 THEN Mortal \cup {r.key} ELSE Mortal
    BY <1>1, <1>3, <2>1, <2>2, PutStores
  <2>4. Mortal' \in {Mortal} \cup IF r.ttl = NoTtl THEN {} ELSE {Mortal \cup {r.key}}
    BY <2>2, <2>3
  <2>5. r.cmd = "SETNX" => Store[r.key] = NoItem
    BY <1>1, <1>3, NothingStored
  <2>. QED  BY <1>3, <2>1, <2>3, <2>4, <2>5 DEF Service!Answered, Store, Mortal
<1>4. CASE r.cmd = "DEL" /\ Delete(r.key) /\ Respond(c, "OK")
  <2>1. /\ Store' = [Store EXCEPT ![r.key] = NoItem]
        /\ Mortal' \in {Mortal, Mortal \ {r.key}}
        /\ Store[r.key] # NoItem \/ r.key \in Mortal
    BY <1>1, <1>4, DeleteRemoves
  <2>2. a = "OK"
    BY <1>4
  <2>. QED  BY <1>4, <2>1, <2>2 DEF Service!Answered, Store, Mortal
<1>5. CASE r.cmd = "FLUSHALL" /\ FlushAll /\ Respond(c, "OK")
  <2>1. Store' = [k \in Keys |-> NoItem] /\ Mortal' = {} /\ a = "OK"
    BY <1>5, FlushEmpties
  <2>. QED  BY <1>5, <2>1 DEF Service!Answered, Store, Mortal
<1>. QED  BY <1>2, <1>3, <1>4, <1>5 DEF Execute, Set, SetNX

LEMMA ProcessDoes ==
    ASSUME SInv, NEW c \in Conns, Process(c)
    PROVE  Service!Do(c)
<1>. DEFINE r == line[c]
<1>1. phase[c] = "process" /\ r.cmd # "AUTH" /\ Allowed(c) /\ authenticated' = authenticated
  BY DEF Process
<1>2. r \in Commands /\ Execute(c, r)
  BY <1>1, NothingAssumption DEF SInv, ConnTypes, Process
<1>3. PICK a \in Answers : Respond(c, a)
  BY SomeAnswer DEF SInv, StoreInv
<1>4. /\ Calls[c] # <<>> /\ Head(Calls[c]) = line[c] /\ reply[c] = NoReply
      /\ Calls' = [Calls EXCEPT ![c] = Tail(Calls[c])]
      /\ reply'[c] = a /\ reply'[c] # NoReply /\ reply' = [reply EXCEPT ![c] = reply'[c]]
      /\ UNCHANGED <<Present, file>>
      /\ Entitled' = [Entitled EXCEPT ![c] = Entitled'[c]]
      /\ Entitled'[c] = Allowed(c)' /\ Entitled[c] = Allowed(c)
  BY <1>1, <1>3, RespondTakes
<1>5. Entitled' = Entitled
  BY <1>1, <1>4, EntitledStays
<1>6. \A b : Respond(c, b) => b = a
  BY <1>4, SMTT(40) DEF Respond, SInv, ConnTypes
<1>7. Service!Answered(r, a)
  BY <1>2, <1>4, <1>6, ExecuteAnswers, SMTT(40)
<1>8. Service!Answered(r, reply'[c])
  BY <1>4, <1>7, ZenonT(60) DEF Service!Answered
<1>. QED  BY <1>1, <1>4, <1>5, <1>8
          DEF Service!Do, Store, Mortal, Present, Entitled, Calls

\* SetPassword may change what auth.dat verifies; the rest no client can see.
LEMMA FileChanges ==
    ASSUME SInv, \/ \E p \in Setters : Create(p) \/ Fill(p) \/ SetFails(p)
                 \/ \E s \in Shells : Change(s) \/ Quit(s)
    PROVE  Service!ChangePassword
<1>1. UNCHANGED <<vars, conns>>
  BY DEF Create, Fill, SetFails, Change, Quit
<1>2. file' \in Passwords \cup {NoPassword}
  BY DEF SInv, FileTypes, Create, Fill, SetFails, Change, Quit
<1>3. UNCHANGED <<Store, Mortal, Present, Entitled, Calls, reply>>
  BY <1>1, StoreStays DEF conns, Present, Entitled, Calls, Allowed
<1>. QED  BY <1>2, <1>3
          DEF Service!ChangePassword, Service!client, Store, Mortal, Present, Entitled, Calls

LEMMA StepIsPromised == SInv /\ [SNext]_svars => [Service!Next]_(Service!vars)
<1>. SUFFICES ASSUME SInv, [SNext]_svars
              PROVE  Service!Next \/ UNCHANGED Service!vars
  OBVIOUS
<1>1. CASE \/ \E p \in Setters : Create(p) \/ Fill(p) \/ SetFails(p)
           \/ \E s \in Shells : Change(s) \/ Quit(s)
  BY <1>1, FileChanges DEF Service!Next
<1>2. ASSUME NEW c \in Conns, HangUp(c) \/ Block(c)
      PROVE  UNCHANGED Service!vars
  <2>1. UNCHANGED <<vars, inbox, line, reply, authenticated, file>>
    BY <1>2 DEF HangUp, Block, auth
  <2>2. \A d \in Conns : /\ phase'[d] = "closed" <=> phase[d] = "closed"
                         /\ phase'[d] = "process" <=> phase[d] = "process"
    BY <1>2 DEF HangUp, Block, SInv, ConnTypes
  <2>3. UNCHANGED <<Store, Mortal, Present, Entitled, Calls>>
    BY <2>1, <2>2, StoreStays DEF Present, Entitled, Calls, Allowed
  <2>. QED  BY <2>1, <2>3
            DEF Service!vars, Service!client, Store, Mortal, Present, Entitled, Calls
<1>3. CASE \E c \in Conns : Accept(c) \/ Send(c) \/ HangUp(c) \/ Block(c)
  BY <1>2, <1>3, AcceptJoins, SendCalls DEF Service!Next
<1>4. CASE \E c \in Conns : Scan(c) \/ LeaveLoop(c) \/ Write(c) \/ Drain(c)
  BY <1>4, ScanIgnores, LeaveLoopLeaves, WriteEnds DEF Service!Next
<1>5. CASE \E c \in Conns : Auth(c) \/ Refuse(c) \/ Process(c)
  BY <1>5, AuthDoes, RefuseDoes, ProcessDoes DEF Service!Next
<1>6. CASE Background
  BY <1>6, BackgroundExpires DEF Service!Next
<1>7. CASE UNCHANGED svars
  <2>1. UNCHANGED <<vars, conns, file>>
    BY <1>7 DEF svars, auth
  <2>2. UNCHANGED <<Store, Mortal, Present, Entitled, Calls, reply>>
    BY <2>1, StoreStays DEF conns, Present, Entitled, Calls, Allowed
  <2>. QED  BY <2>1, <2>2
            DEF Service!vars, Service!client, Store, Mortal, Present, Entitled, Calls
<1>. QED  BY <1>1, <1>3, <1>4, <1>5, <1>6, <1>7 DEF SNext, Handle

LEMMA InitIsPromised == SInit => Service!Init
<1>. SUFFICES ASSUME SInit
              PROVE  /\ Store = [k \in Keys |-> NoItem] /\ Mortal = {}
                     /\ file = NoPassword
                     /\ Present = [c \in Conns |-> FALSE]
                     /\ Entitled = [c \in Conns |-> FALSE]
                     /\ Calls = [c \in Conns |-> <<>>]
                     /\ reply = [c \in Conns |-> NoReply]
  BY DEF Service!Init, Store, Mortal, Present, Entitled, Calls
<1>1. Store = [k \in Keys |-> NoItem] /\ Mortal = {}
  BY DEF SInit, Init, Store, Mortal, Visible, Stored
<1>2. \A c \in Conns : phase[c] = "closed" /\ inbox[c] = <<>>
  BY DEF SInit
<1>3. /\ Present = [c \in Conns |-> FALSE] /\ Entitled = [c \in Conns |-> FALSE]
      /\ Calls = [c \in Conns |-> <<>>]
  BY <1>2 DEF Present, Entitled, Calls
<1>. QED  BY <1>1, <1>3 DEF SInit

\* What KeyService promises a client is kept with any number of connections, whose
\* bursts are interleaved in any way: each command takes effect once, in its place
\* among the commands of its client, between its arrival and its answer, and none
\* before the password is shown (handleTextConnection, processCommandDirect,
\* handleAuth; SetPassword; Set, SetNX, Delete, Cleanup, FlushAll).
THEOREM SessionKeepsItsPromise == SSpec => ImplementsKeyService
BY InitIsPromised, StepIsPromised, SSafety, PTL
   DEF SSpec, ImplementsKeyService, Service!Spec
=============================================================================
