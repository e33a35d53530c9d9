------------------------------ MODULE Recovery ------------------------------
(***************************************************************************)
(* The cache with its persistence manager (src/cache/persistence.go): the  *)
(* commands Set, SetNX and Delete log, the channel and the goroutine that  *)
(* write them to the ACL file, the ATD snapshots, the steps of a stop,     *)
(* crashes, and the start that loads the snapshot and replays the log.     *)
(*                                                                         *)
(* The ACL file is its sequence of command lines and stays below the size  *)
(* that rotates it (AclLog has the files).  A line gives back the command  *)
(* it was written from: values are without the separators of the format.   *)
(* Lines are written whole; a snapshot may be cut off by a full disk.      *)
(***************************************************************************)
EXTENDS Cache, Sequences, SequencesExt

CONSTANTS ClientValues,  \* values as clients store them, their type known
          ChanCap,       \* capacity of commandChan (50000 in the code)
          MaxLog,        \* bound: commands in the log and the channel
          MaxHeap        \* bound: items in the heap when a client stores one

DataTypes == {"string", "array", "object"}

\* A value is its data and CacheItem.Type, which LoadAtd leaves empty.
Untyped(v) == [data |-> v.data, type |-> ""]

ASSUME ClientValuesAssumption ==
    /\ \A v \in ClientValues : v = [data |-> v.data, type |-> v.type] /\ v.type \in DataTypes
    /\ Values = ClientValues \cup {Untyped(v) : v \in ClientValues}

\* What is absent is not the entry of a snapshot.
ASSUME NoEntryAssumption == NoItem \notin [value : Values, exp : -Half .. Half - 1]

ASSUME BoundsAssumption == {ChanCap, MaxLog, MaxHeap} \subseteq Nat

\* The allocator always has another address, in the running process as at a start.
ASSUME AddressesAssumption ==
    /\ IsFiniteSet(Keys) /\ IsFiniteSet(Ids)
    /\ Cardinality(Keys) + MaxHeap <= Cardinality(Ids)
    /\ Cardinality(Keys) + MaxLog <= Cardinality(Ids)

VARIABLES up,    \* the process is running
          phase, \* how far pm.Stop is: "run" before it, "wait" when stopChan is
                 \* closed, "closed" when commandChan is, "saved" at its end
          proc,  \* the goroutine of processCommands is running
          chan,  \* pm.commandChan
          acl,   \* the lines of the file at aclPath
          atd,   \* the snapshot at atdPath: value and expiration of its keys
          lost,  \* history: keys of commands that never reached the ACL
          odd,   \* history: keys that saw anything but SET and DEL of a string
                 \* without ttl, a flush included
          cut    \* history: the snapshot at atdPath is not whole

stopping == <<up, phase, proc>>
pvars == <<stopping, chan, acl, atd, lost, odd, cut>>
allvars == <<vars, pvars>>

Cmd(type, k, v, ttl) == [type |-> type, key |-> k, value |-> v, ttl |-> ttl]

RInit == /\ Init
         /\ up = TRUE /\ phase = "run" /\ proc = TRUE
         /\ chan = <<>>
         /\ acl = <<>>
         /\ atd = [k \in Keys |-> NoItem]
         /\ lost = {}
         /\ odd = {}
         /\ cut = FALSE

----------------------------------------------------------------------------
(* Logging.  LogCommand is called under the lock of the cache, so the       *)
(* channel has the order of the operations.                                 *)

LogCommand(cmd) ==
    IF Len(chan) < ChanCap
    THEN chan' = Append(chan, cmd) /\ UNCHANGED lost
    ELSE lost' = lost \cup {cmd.key} /\ UNCHANGED chan

\* A plausible slip of LogCommand: it recovers from the panic on a closed channel.
RoomAlways == up /\ Len(acl) + Len(chan) < MaxLog /\ Cardinality(heap) < MaxHeap

\* The channel is open; what happens when it is not is Panic.
Room == /\ up /\ phase \in {"run", "wait"}
        /\ Len(acl) + Len(chan) < MaxLog
        /\ Cardinality(heap) < MaxHeap

FreshId == CHOOSE id \in Ids : id \notin InUse

MarkOdd(k, v, ttl) == odd' = IF v.type = "string" /\ ttl <= 0 THEN odd ELSE odd \cup {k}

LoggedSet(k, v, ttl) == /\ Room
                        /\ Set(k, v, ttl, FreshId)
                        /\ LogCommand(Cmd("SET", k, v, ttl))
                        /\ MarkOdd(k, v, ttl)
                        /\ UNCHANGED <<stopping, acl, atd, cut>>

\* A plausible slip of SetNX: the command is not logged.
SetNXUnlogged(k, v, ttl) == /\ Room
                            /\ SetNX(k, v, ttl, FreshId)
                            /\ odd' = odd \cup {k}
                            /\ UNCHANGED <<stopping, chan, acl, atd, lost, cut>>

\* Only the SETNX that stores its value is logged.
LoggedSetNX(k, v, ttl) == /\ Room
                          /\ SetNX(k, v, ttl, FreshId)
                          /\ LogCommand(Cmd("SETNX", k, v, ttl))
                          /\ odd' = odd \cup {k}
                          /\ UNCHANGED <<stopping, acl, atd, cut>>

\* DEL is logged whatever the type of the value was.
LoggedDelete(k) == /\ Room
                   /\ Delete(k)
                   /\ LogCommand(Cmd("DEL", k, NoItem, 0))
                   /\ UNCHANGED <<stopping, acl, atd, odd, cut>>

\* Neither Cleanup nor FlushAll is logged.
UnloggedCleanup == up /\ Cleanup /\ UNCHANGED pvars

UnloggedFlushAll == /\ up
                    /\ FlushAll
                    /\ odd' = Keys
                    /\ UNCHANGED <<stopping, chan, acl, atd, lost, cut>>

PassTime == Tick /\ UNCHANGED pvars

\* One turn of processCommands; a channel that was closed is read to its end.
WriteCommand == /\ up /\ proc
                /\ chan # <<>>
                /\ acl' = Append(acl, Head(chan))
                /\ chan' = Tail(chan)
                /\ UNCHANGED <<vars, stopping, atd, lost, odd, cut>>

\* SaveAtd skips what has expired; the rename makes the snapshot appear whole.
Snapshot == [k \in Keys |-> IF Visible(k)
                            THEN [value |-> items[k].value, exp |-> items[k].exp]
                            ELSE NoItem]

SaveAtd == /\ up
           /\ atd' = Snapshot
           /\ cut' = FALSE
           /\ UNCHANGED <<vars, stopping, chan, acl, lost, odd>>

\* The errors of Flush and Close are ignored: what the disk has no room for is
\* missing from the snapshot that the rename publishes.
SaveAtdCutOff ==
    /\ up
    /\ \E kept \in SUBSET {k \in Keys : Visible(k)} :
          atd' = [k \in Keys |-> IF k \in kept THEN Snapshot[k] ELSE NoItem]
    /\ cut' = TRUE
    /\ UNCHANGED <<vars, stopping, chan, acl, lost, odd>>

----------------------------------------------------------------------------
(* Loading.  The cache under construction is a record of its map and heap.  *)

EmptyCache == [items |-> [k \in Keys |-> NoItem], heap |-> {}]

\* The address of an item that a loader allocates.
NextId(c) == CHOOSE id \in Ids :
                 /\ \A i \in c.heap : i.id # id
                 /\ \A k \in Keys : c.items[k] # NoItem => c.items[k].id # id

\* A plausible slip of the loaders: CacheItem.key is left out, and Cleanup, which
\* deletes by it, would delete nothing.
LoadNoKey(c, k, v, exp, push) ==
    LET i == [id |-> NextId(c), key |-> NoItem, value |-> v, exp |-> exp]
    IN [items |-> [c.items EXCEPT ![k] = i],
        heap |-> IF push THEN c.heap \cup {i} ELSE c.heap]

Load(c, k, v, exp, push) ==
    LET i == [id |-> NextId(c), key |-> k, value |-> v, exp |-> exp]
    IN [items |-> [c.items EXCEPT ![k] = i],
        heap |-> IF push THEN c.heap \cup {i} ELSE c.heap]

\* The map that LoadAtd reads: an entry that has not expired becomes an item, at an
\* address of its own and without a type.
LoadedMap ==
    LET live == {k \in Keys : atd[k] # NoItem /\ ~(atd[k].exp > 0 /\ now > atd[k].exp)}
        address == CHOOSE f \in [live -> Ids] : IsInjective(f)
    IN [k \in Keys |-> IF k \in live
                       THEN [id |-> address[k], key |-> k,
                             value |-> Untyped(atd[k].value), exp |-> atd[k].exp]
                       ELSE NoItem]

\* A plausible slip of LoadAtd: the items it reads are not pushed on the heap.
LoadAtdUnqueued == [items |-> LoadedMap, heap |-> {}]

\* LoadAtd pushes the items with a positive deadline.
LoadAtd == [items |-> LoadedMap,
            heap |-> {i \in Range(LoadedMap) : i # NoItem /\ i.exp > 0}]

\* A plausible slip of LoadAcl: a DEL is replayed only over an untyped item.
ReplayDelUntyped(c, cmd) ==
    CASE cmd.type = "DEL" ->
           IF c.items[cmd.key] # NoItem /\ c.items[cmd.key].value.type = ""
           THEN [c EXCEPT !.items[cmd.key] = NoItem] ELSE c
      [] OTHER -> Load(c, cmd.key, cmd.value, Expiration(cmd.ttl), cmd.ttl > 0)

\* One line of LoadAcl: SET stores, with a deadline counted from now; SETNX
\* stores when the map has no such key, expired or not; DEL removes an item
\* whose type is string, and its deadline from the heap.
Replay(c, cmd) ==
    LET old == c.items[cmd.key]
    IN CASE cmd.type = "SET" \/ (cmd.type = "SETNX" /\ old = NoItem) ->
              Load(c, cmd.key, cmd.value, Expiration(cmd.ttl), cmd.ttl > 0)
         [] cmd.type = "DEL" /\ old # NoItem /\ old.value.type = "string" ->
              [items |-> [c.items EXCEPT ![cmd.key] = NoItem],
               heap |-> IF old.exp > 0 THEN c.heap \ {old} ELSE c.heap]
         [] OTHER -> c

\* What a start from the present files would load.
Recovered == FoldLeft(Replay, LoadAtd, acl)

----------------------------------------------------------------------------
(* Stop, crash and start.                                                   *)

Down == /\ up' = FALSE /\ phase' = "run" /\ proc' = TRUE
        /\ chan' = <<>>
        /\ lost' = lost \cup {chan[i].key : i \in 1 .. Len(chan)}
        /\ items' = EmptyCache.items
        /\ heap' = {}
        /\ stale' = [k \in Keys |-> {}]
        /\ UNCHANGED <<now, acl, atd, odd, cut>>

Crash == up /\ Down

\* Cache.Close, from the signal handler or at the end of the CLI.
Stop == /\ up /\ phase = "run"
        /\ phase' = "wait"
        /\ UNCHANGED <<vars, up, proc, chan, acl, atd, lost, odd, cut>>

\* processCommands sees stopChan closed, whatever commandChan still holds.
LeaveCommands == /\ up /\ phase # "run" /\ proc
                 /\ proc' = FALSE
                 /\ UNCHANGED <<vars, up, phase, chan, acl, atd, lost, odd, cut>>

\* Half a second later.
CloseCommands == /\ up /\ phase = "wait"
                 /\ phase' = "closed"
                 /\ UNCHANGED <<vars, up, proc, chan, acl, atd, lost, odd, cut>>

LastSave == /\ up /\ phase = "closed"
            /\ phase' = "saved"
            /\ atd' = Snapshot
            /\ cut' = FALSE
            /\ UNCHANGED <<vars, up, proc, chan, acl, lost, odd>>

\* os.Exit after Close.
Exit == up /\ phase = "saved" /\ Down

\* A command logged once commandChan is closed ends the process, and so does a
\* second Stop, at its first close, in any phase: the signal handler's beside
\* the one at the end of the CLI.
Panic == up /\ phase # "run" /\ Down

Restart == /\ ~up
           /\ up' = TRUE
           /\ LET loaded == Recovered
              IN /\ items' = loaded.items
                 /\ heap' = loaded.heap
                 /\ stale' = [k \in Keys |-> {i.exp : i \in {j \in loaded.heap :
                                               j.key = k /\ loaded.items[k] # j}}]
           /\ UNCHANGED <<now, phase, proc, chan, acl, atd, lost, odd, cut>>

RNext == \/ \E k \in Keys, v \in ClientValues, ttl \in TTLs : LoggedSet(k, v, ttl)
         \/ \E k \in Keys, v \in ClientValues, ttl \in TTLs : LoggedSetNX(k, v, ttl)
         \/ \E k \in Keys : LoggedDelete(k)
         \/ UnloggedCleanup
         \/ UnloggedFlushAll
         \/ PassTime
         \/ WriteCommand
         \/ SaveAtd
         \/ SaveAtdCutOff
         \/ Crash
         \/ Stop
         \/ LeaveCommands
         \/ CloseCommands
         \/ LastSave
         \/ Exit
         \/ Panic
         \/ Restart

RSpec == RInit /\ [][RNext]_allvars

----------------------------------------------------------------------------
(* Properties *)

\* Types of the persistence manager's state.
RTypeOK ==
    /\ TypeOK
    /\ up \in BOOLEAN /\ proc \in BOOLEAN /\ cut \in BOOLEAN
    /\ phase \in {"run", "wait", "closed", "saved"}
    /\ \A s \in {chan, acl} :
          s \in Seq([type : {"SET", "SETNX", "DEL"}, key : Keys, value : Values \cup {NoItem}, ttl : Int])
    /\ \A k \in Keys : atd[k] # NoItem => atd[k].value \in Values /\ atd[k].exp \in Int
    /\ lost \subseteq Keys /\ odd \subseteq Keys

\* Every command of the key is in the ACL file.
Written(k) == /\ k \notin lost
              /\ \A i \in 1 .. Len(chan) : chan[i].key # k

Data(i) == IF i = NoItem THEN NoItem ELSE i.value.data

\* A key that only knew SET and DEL of plain strings, and whose commands are all
\* in the log, comes back from a crash at this moment exactly as it is: present
\* with its value or absent, whichever older or cut-off snapshot the log is
\* replayed over.
PlainKeysRecoverExactly ==
    up => \A k \in Keys \ odd : Written(k) => Data(Recovered.items[k]) = Data(items[k])

\* Any key that a client can read and whose commands are all in the log is there
\* after a crash at this moment, if perhaps with a value it had before.  A snapshot
\* that was cut off may lack a key that only the snapshot had.
VisibleKeysSurvive ==
    up /\ ~cut => \A k \in Keys : Visible(k) /\ Written(k) => Recovered.items[k] # NoItem

\* Across restarts, every deadline that has not overflowed is in the heap, so
\* that what LoadAtd and LoadAcl restored can expire.
LoadedDeadlinesQueued ==
    \A k \in Keys : Stored(k) /\ items[k].exp > 0 => items[k] \in heap

\* When Stop returns, its snapshot has every value that clients can read, also those
\* they stored while it was waiting: after the snapshot nobody can store another
\* without ending the process.  The disk must not have cut the snapshot off.
LastSaveComplete ==
    up /\ phase = "saved" /\ ~cut =>
        \A k \in Keys : Visible(k) => /\ atd[k] # NoItem
                                      /\ atd[k].value = items[k].value
                                      /\ atd[k].exp = items[k].exp

\* "wait for all commands to be processed ... save one last time" (the comments of
\* Stop), "zero data loss" (docs/PERFORMANCE.md): when Stop returns, the next start
\* gives back every value that clients can read, unless the channel was full when
\* they stored it.  By then processCommands has left.
StopKeepsValues ==
    up /\ phase = "saved" /\ ~proc /\ ~cut =>
        \A k \in Keys \ lost : Visible(k) => Data(Recovered.items[k]) = Data(items[k])
=============================================================================
