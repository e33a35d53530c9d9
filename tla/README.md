# ant-cache: specification and proofs

TLA+ specifications of ant-cache, a TCP key-value cache in Go with time-to-live,
asynchronous persistence and a scaling goroutine pool. They model the parts of
`src/` whose correctness depends on order, time and failure, check them with TLC
on small instances, and prove their safety with TLAPS for every instance.

## 1. The system

| part | source | state it keeps | operations |
|---|---|---|---|
| in-memory store | `cache/cache.go` | `items` (map of `CacheItem`), `expirationHeap`, one mutex | Set, SetNX, Get, GetMultiple, Delete, Keys, GetAllKeys, FlushAll, Cleanup, BatchExecute, OptimizedSet |
| expiration heap | `cache/cache.go:77-113` and `container/heap` | array of item pointers, the field `index` of every item | Push, Pop, Remove, Swap |
| persistence manager | `cache/persistence.go` | `commandChan`, `stopChan`, `aclFileSize`; the files `cache.acl`, `cache.acl.<time>`, `cache.acl.merged`, `cache.atd` | LogCommand, processCommands, rotate, compact, SaveAtd, LoadAtd, LoadAcl, Start, Stop |
| pooled server | `tcpserver/pooled_goroutine_server.go` | `taskChan`, `workerCount`, live workers, `activeConnections`, `running`, `stopChan` | accept loop, SubmitTask, checkAndScale, scaleUp, scaleDown, worker, Stop |
| command handler | same file and `single_goroutine_server.go` | `authenticated` of a connection | AUTH and the commands |
| worker pool | `tcpserver/worker_pool.go` | worker queue, task queue, quit channels | dispatch, SubmitTask, Stop |
| authentication | `auth/auth.go` | the password file | SetPassword, VerifyPassword |
| parsing, CLI, configuration, `main` | `utils`, `cli`, `config`, `main.go` | none that lasts | start, signal handler, Close |
| cleaner, compression | not in the repository | - | `cleaner.Start` calls Cleanup; CompressValue, DecompressValue |

How they interact. Every connection, the CLI and the cleaner call the store, which
does each operation under `c.mu`. Set, SetNX and Delete call LogCommand while they
hold that lock, so the channel has the order of the operations; a full channel
drops the command. `processCommands` writes the channel to the ACL file under
`pm.mutex` and rotates the file when it is large; a ticker merges the rotated files
*without* that mutex; another ticker saves a snapshot (ATD). At a start the snapshot
is loaded and the ACL replayed over it. The accept loop hands connections to the
pool's workers through a channel and, every five seconds at most, grows or shrinks
the pool; it shrinks it by sending nil tasks.

What is hard in it, and what makes each part correct:

* *store*: an overwritten TTL value stays in the heap, Cleanup deletes by key,
  deadlines are int64 sums. Correct: every deadline is queued, `index` is the
  position, a value is lost only to a deadline, expired memory is reclaimed.
* *persistence*: dropped commands, commands that are not logged at all, a replay
  that does not follow the rules of the live operations, crashes between any two
  steps on files, two goroutines on the same files. Correct: the order of replay,
  nothing that reached the disk vanishes, what clients could read comes back.
* *pool*: the pool counts workers it has asked to leave, decides on figures that
  are old when they are used, and must neither lose its last worker nor pass its
  limits. Correct: the count, the limits, accepted connections are served, Stop
  returns, connections are counted once.
* *worker pool*: a goroutine per task, offers that outlive the worker that made them,
  timers, Stop beside tasks in flight. Correct: a task is run and answered at most
  once, and always while the pool is open; Stop ends every worker.
* *sessions*: clients that pipeline lines, hang up with lines unread and answers
  unwritten, keys that expire under them, a password file that several processes
  rewrite in two steps. Correct: each command takes effect at most once, in order,
  only for a client that showed the password; a connection ends unless its client
  stops reading and stays; nobody is locked out without a cause.

## 2. Modules

| module | models | composed with |
|---|---|---|
| `Cache` | the store; each operation is one action, as in the code it holds the lock throughout. The heap is the set of its items | |
| `ExpirationHeap` | the heap's array and index fields, and the functions of `container/heap`, as operators | |
| `HeapMachine` | any sequence of Push, Pop, Remove on one heap | `ExpirationHeap` |
| `HeapCache` | the store on the real heap, with batches and the item pool; implements `Cache` | `ExpirationHeap`, `Cache` |
| `Recovery` | the store with channel, ACL, ATD, crash, panic, the steps of Stop, start | extends `Cache` |
| `AclLog` | rotation and merge of the ACL files, one action per file operation, with failures | |
| `GoroutinePool` | accept loop, pool, workers, Stop | |
| `TaskService` | what a task pool promises: refuse, or run once and answer | |
| `WorkerPool` | `worker_pool.go`: submitters, dispatcher and its goroutines, workers, Stop; implements `TaskService` | `TaskService` |
| `KeyService` | what a server promises each client: its commands take effect one at a time, in order, at most once, for whom they may | |
| `Session` | accept loop, connection goroutines, commands over the store, AUTH, the password file and the processes that write it; implements `KeyService` | extends `Cache`, `KeyService` |
| `CacheProofs`, `RecoveryProofs`, `GoroutinePoolProofs`, `WorkerPoolProofs`, `SessionProofs`, `AclLogProofs` | theorems about the module of that name | extend it and TLAPS; `RecoveryProofs` and `SessionProofs` also `CacheProofs` |
| `HeapProofs` | theorems about `ExpirationHeap`, `HeapMachine` and `HeapCache` | extends `HeapCache`, `HeapMachine` and TLAPS; an instance of `CacheProofs` |
| `SequenceLemmas` | lemmas: how often a value occurs in a sequence; what `FoldLeft` preserves | instances in the proofs |
| `MC*` | the values of the constants for TLC | |

`TaskService` and `KeyService` are specifications of promises and stand for no lines of
code. Operators named "plausible slip" in the comments are variants that no action
uses; they are the mutated forms of `PROJECT.json`, and show that a property does
fail when the code goes wrong in that way.

### Correspondence with the code

`Cache`. A `CacheItem` is a record with the identity `id` of its pointer. `exp` is
`Expiration`; `Wrap` is the int64 of the sum `now + ttl`, with `Half` for 2^63.
`Put` is the common tail of Set and SetNX; `Cleanup` is the whole loop: the items
that are due leave the heap, and their *keys* leave the map. `stale` is a history
variable: for each key, the deadlines of values that left the map while their
item stayed in the heap. Reads change nothing and are the operators `Expired` and
`Visible`. FlushAll, Delete of a missing key and a SetNX that answers NOT_SET do
what the code does, the last two nothing.

`Replace` and `Evict` are what OptimizedSet and the SET and GET of BatchExecute do to
the store; a batch's DEL is a Delete. Replace takes the old item out of the heap only
when its Expiration is above 0, as the code does; a wrapped deadline stays queued and
is recorded in `stale`. That the code then gives that item to a pool is `HeapCache`'s.
`CarefulSpec` are clients that never set a key over a value with a deadline (a theorem's,
section 4).

`HeapCache` replaces the set by the array; Delete goes by `index`, Cleanup by the
first element. A new item has `index = 0` and one without ttl keeps it, so the
test `Expiration > 0` in Delete is what protects the heap's first element. `pool` is
`itemPool`: `PutPooled` and `OptimizedSet` draw an item from it or, as sync.Pool may,
from the allocator. A batch holds the lock from `BatchBegin` to its last `BatchStep`
and reads the clock once, so `Tick` and everybody else wait. The address of a new
item is chosen by CHOOSE among the free ones; addresses are interchangeable. `PlainSpec`
is the store without batches and OptimizedSet, which is what the servers call: the pool
then stays empty.
The loops of `container/heap` and of Cleanup are folds of one turn (`UpTurn`, `DownTurn`,
`SweepTurn`) over the array, since each ends within as many turns as the array is long;
a turn after the end of the loop changes nothing. The proofs show that this is enough:
`UpOrders` and `DownOrders` that the heap is in order after that many turns,
`SweepTakesDue` that nothing due is left.

`Recovery`. A command line gives back its command. `LogCommand` drops when the
channel is full. `Snapshot` is the loop of SaveAtd; it appears at once, as the
rename does; `SaveAtdCutOff` publishes a part of it, since the errors of Flush and
Close are ignored. `LoadAtd` makes `LoadedMap` of the snapshot's entries that have not
expired, each at an address of its own, and leaves their type empty (`Untyped`); `Replay`
is one line of LoadAcl, `Recovered` the result of a start from the present files: the properties
ask at every state what a start after a crash *now* would give. Stop is `Stop`
(close stopChan), `CloseCommands` (half a second later), `LastSave`, `Exit`, with
`LeaveCommands` and clients in between; `Panic` is a send on the closed channel or a
second Close. The last save is taken to reach its rename, and the merge after it is
AclLog's. `lost`, `odd` and `cut` are history variables: keys with a command that never
reached the file, keys that saw anything but SET and DEL of strings without ttl,
and whether the snapshot is a cut-off one.

`AclLog`. A name of the directory leads to an inode, so that the writer's open file
keeps its identity when a rename takes its name away. The writer is `Take`,
`Rotate`, `Open`, `Write` (`pm.mutex` makes them one writer), the merge `Glob`,
`Read` (one file), `CreateMerged`, `FillMerged`, `RemoveOne`, `RenameMerged`, `Stat`, with
`ReadFails`, `FillFails` (the disk is full after some lines) and `RemoveFails`.
SETNX is merged as SET is. A command dropped by a full channel leaves no trace, so
`Log` only models those that are queued. `exposed` is a history variable: the very
commands that the four windows of the code put at risk, namely a command written
after the merge has read its file, the file a second rotation in the same second
renames over, a file the merge could not open, and the files read beside the
`.merged` leftover of an interrupted merge (the pattern matches it, so the merge
removes its own result). Commands outside `exposed` must be on disk. `filepath.Glob`
sorts what it finds by name, which `Rank` does for the names of rotated files.

`GoroutinePool`. Workers are counted (`starting`, `idle`, one per served
connection); `activeWorkers` of the code is the number of goroutines that have
begun, not of busy ones. `TooSoon` is the five-second interval, taken as a choice;
`fast` is the comparison of the average task time with a millisecond, true until
a task has ended, a choice afterwards. `checkAndScale` is three steps (`Observe`,
`ScaleUp`, `ScaleDown`) between which workers go on. `main.go` never calls Stop of
the server; it is modelled as the operation the type offers. When `taskChan` and
`stopChan` are both ready, either case of the worker's select may be taken.

`WorkerPool`. A channel without a buffer is one step of both ends: `HandOver` is the
goroutine's send and the worker's receive, `StopAll` Stop's send and the dispatcher's
receive, `Quit` the send of Worker.Stop's goroutine and the worker's receive. `handing`
are the goroutines of dispatch, with the worker whose channel they hold. A
worker's answer finds room, since each of a task's two channels has a place and
is sent to once; `OnePlaceEach` checks exactly that. `quit` workers leave their last
offer behind: a goroutine that takes it waits for ever, with its task.

`Session`. A line is a record of what ParseCommandWithQuotes makes of it; SETS, SETX
and their NX forms are SET and SETNX of other values; a wrong number of arguments, a
ttl that does not parse or an unknown command is `MALFORMED`. The connection goroutine
is `Scan` (an empty line is skipped), one of `Auth`, `Refuse`, `Process`, then `Write`;
the store's operation holds its lock throughout, so it is one step. `LeaveLoop` is the
end of Scan: the client has closed or was silent for 30 seconds, and what it sent is
read; or the next line has more than 1 MB (`NextTooLong`), and the lines after it stay
unread. conn.Write has no deadline: it may wait for a client that does not read (`Block`),
until the client reads (`Drain`) or has gone (`WriteFails`). A client sends bursts (`Send`) without waiting for answers and may
hang up at any time; lines already sent are still carried out, unless a write
fails first. `file` is what auth.dat verifies: `Create` empties it, `Fill` writes it,
`SetFails` and `Quit` leave it half way; the server does it once before it listens,
each shell at its start and by AUTH change. `ParseTTL` is the int64 product. The
refinement maps a connection's calls to the line in work and those unread, its
answer to the response not yet written; `asked` and `broken` are history variables.

## 3. Runs

| run | asks | result |
|---|---|---|
| `cache` | TypeOK, DeadlinesQueued, StaleAccounted, LossHasADeadline, ExpiredReclaimed (expired memory is given back though Cleanup only looks at the top) | hold |
| `cache_loss` | KeptUntilDue: docs/COMMANDS.md, SETNX as a rate limiter | **violated** |
| `heap_machine` | HeapOrdered, IndexCorrect, OneMemberPerStep | hold |
| `heap_cache` | IndexReachesItem, PooledIsUnreachable, ImplementsCache (refinement) | hold |
| `recovery` | RTypeOK, PlainKeysRecoverExactly, VisibleKeysSurvive, LoadedDeadlinesQueued, LastSaveComplete | hold |
| `recovery_values` | StopKeepsValues: the comments of Stop, docs/PERFORMANCE.md "Zero data loss" | **violated** |
| `acl` | TypeOK, ReplayOrder, LatestSetOnDisk | hold |
| `acl_del` | EveryLatestSetOnDisk: docs/PERFORMANCE.md, "Zero data loss" | **violated** |
| `pool` | TypeOK, WorkersAccounted, PoolWithinLimits, ConnectionsAccounted, AcceptedIsServed, StopReturns | hold |
| `pool_growth` | GrowsOnlyWhenBusy: the comment in checkAndScale | **violated** |
| `worker_pool` | TypeOK, OneOfferEach, OnePlaceEach, ImplementsService (refinement, with its liveness), StopEndsWorkers | hold |
| `session` | STypeOK, LockoutExplained, TtlAsAsked, ImplementsKeyService (refinement), ConnectionsEnd | hold |

The violated ones, in words:

* `cache_loss`: SETNX k with ttl 2 at 0; at 3 it has expired and SETNX takes it again;
  Cleanup pops the item of the first SETNX and deletes k, the new lease included.
  `LossHasADeadline` says how far this goes: only an older deadline of the *same*
  key can do it; and the theorem `KeptIfDeletedFirst`, that nothing but setting a key over
  a value with a deadline causes it.
* `recovery_values`: SET k a is in the log, SET k b in the channel; Stop closes
  `stopChan` and processCommands, whose select may take either case, leaves. The last
  snapshot has b (`LastSaveComplete`), and the next start replays a over it. The same
  property fails another way: SET k a, FLUSHALL (not logged), SETNX k b (logged), and
  the replay skips the SETNX. `VisibleKeysSurvive` says how far this goes: the key is
  there, its value may be an older one.
* `acl_del`: DEL k, SET k, a merge: the older DEL replaces the SET.
* `pool_growth`: live workers are compared as if they were busy, so an idle pool grows.

What holds, where one might doubt it: `WorkersAccounted` although `scaleDown` counts nil
tasks it may not have sent; `OnePlaceEach` although a goroutine may wait for ever;
`ImplementsKeyService` although lines are pipelined, since nothing of a connection is
shared but the store and the password file. `ConnectionsEnd` names the one way in which a
connection holds its goroutine, or its worker, for ever: a client that stops reading in the
middle of an answer and stays connected, since only the read deadline is ever set.

What `LatestSetOnDisk` does not say: it is about *some* file, not the one LoadAcl reads,
which is `cache.acl` alone: between a rotation and the next merge a start after a crash
reads less, and has the rest from a snapshot or not at all. And it excuses the commands
in `exposed`: it shows that the four windows are the only ways to lose such a command from
the disk, not that they are closed. No property here covers these losses; the
hazards of `PROJECT.json` name them.

### Bounds

* `cache`: two keys, one value, three addresses, ttls 0, 1, 2 and 7 with Half = 8 and the
  clock at 0..3: 1 + 7 overflows, 0 + 7 does not. Two keys suffice to see a key
  touched through another; three addresses leave an overwritten item next to two
  stored ones. No symmetry, which is not sound for liveness. The clock stops at 3,
  which every ttl but 7 reaches; a value with ttl 7 put after time 0 is due at once.
* `cache_loss`: the clients of the documented rate limiter only: SETNX with one ttl and
  DEL, without SET, so that the counterexample uses nothing the example does not.
* `heap_machine`: six items and three deadlines: six is the least length at which Remove
  can put an item under a parent that is later than it, so that it must rise (the
  mutant that only sinks is found at that length).
* `heap_cache`: two keys, three addresses, ttls 0..2, batches of two operations. Nothing
  overflows here (Half = 8). With a ttl that does, OptimizedSet and a batch's SET test
  `Expiration > 0`, leave the replaced item in the heap and pool it all the same; the
  next item drawn from the pool is filled inside the heap, and neither
  `PooledIsUnreachable` nor the refinement holds. Nothing in the repository calls the
  two; for the operations it does call (`PlainSpec`), overflow included, the refinement is
  proved.
* `recovery`: one key, two strings, a channel of one, logs of three commands, one item in
  the heap when a client stores (two in `recovery_values`), ttls 0 and 1, clock 0..2.
  One key is enough: replay treats keys independently, and the channel, which they
  share, is full after one command. Three commands are what the scenarios need: a
  value, what replaces it, a third that meets the replay. The log is not emptied at
  a restart, so several restarts over the same log are included.
* `acl`: two interchangeable keys, three commands, a file limit of one line, two seconds,
  one crash, one failing file operation: a rotation before every command but the
  first. `acl_del`: one key, four commands.
* `pool`: a pool of two whose divisors (2 for the code's 4, 4 and 8, which are constants
  of the module) let it shrink to one and grow to four, a channel of four that nil
  tasks and three connections fill. `pool_growth`: a pool of four with the code's
  divisors.
* `worker_pool`: three tasks, two workers, a queue of one, two callers of Stop: both
  workers busy, a task queued and none left to submit; the queue full and a timeout.
* `session`: two connections, one shell beside the server, one key, two values, two
  passwords of which one is configured, a clock of 0..2 with Half = 8, so that a lease of
  one unit expires and is replaced before any cleanup, and a ttl whose product (3 of a
  unit of 4) wraps to -4. Clients send two of four bursts: AUTH and a lease; AUTH with
  another password and a SET whose ttl wraps; an empty line, a GET, a line that is too
  long and a GET behind it; KEYS, DEL and FLUSHALL. More bursts multiply states, not
  cases: a connection shares only store and file.

`CHECK_DEADLOCK FALSE` is set where the system may stop: `AclLog`, `WorkerPool` and
`Session`, whose commands, tasks and bursts are bounded and used up, and
`GoroutinePool`, where everything stops after Stop. The other runs check deadlock.

### Fairness

* `Cache!FairSpec`: weak fairness of Cleanup and Tick. `cleaner.Start` runs in
  a goroutine for the life of the process (`main.go:170`) and calls Cleanup at an
  interval; Cleanup waits for nothing but the mutex. Clients have no fairness.
* `GoroutinePool!FairSpec`: weak fairness of the workers' steps (goroutines that can run
  are run; Go's select picks among ready cases at random, so it does not
  prefer one for ever), of the close of `stopChan` by a Stop that has begun, and
  of the end of each served connection. The last is an assumption about clients, which
  the code does not enforce: each sends finitely many lines and reads its answers or
  goes. The 30 second deadline ends one that is silent; nothing ends one that talks for
  ever or never reads (`ConnectionsEnd`), and either keeps its worker: one of them holds
  up Stop, which waits for all workers, and one per worker holds up the queue. Accepts,
  checks and scaling have none.
* `WorkerPool!FairSpec`: weak fairness of the dispatcher, its goroutines, the timers,
  ProcessTask (taken to end) and a Stop the dispatcher can receive; strong fairness of
  `Quit`, since the worker's select has it among its ready cases again and again
  and chooses at random. Clients need not submit or stop.
* `Session!FairSSpec`: weak fairness of each connection's goroutine (`Handle`). While it
  waits in Scan the 30 second read deadline, set at the start and before each
  line's processing, makes LeaveLoop possible and necessary. Clients, shells, the clock
  and the cleaner have none; in particular nothing makes a client read (`Drain`).

## 4. Proofs

Checked by tlapm, for every value of the constants that meets the named ASSUMEs of
the module concerned and nothing else.

### The store: `CacheProofs`

Assumes `ClockAssumption`, `TTLAssumption`, `NoItemAssumption`: the clock's bound below
Half, ttls within int64, NoItem not an item.

* `Safety`: `Spec => []Inv` with `Inv == TypeOK /\ DeadlinesQueued /\ StaleAccounted /\ ItemsDistinct`;
  `TypeCorrect`, `EveryDeadlineQueued` and `HeapAccounted` are its parts. `ItemsDistinct` is
  there for the induction only: in `Cache` it holds because a new item's address is free.
* `NoLossWithoutADeadline`: the action property LossHasADeadline of the run `cache`.
* `KeptIfDeletedFirst`: under `CarefulSpec`, and if no `now + ttl` reaches Half, a value stays
  until Delete, FlushAll or its own deadline. With `cache_loss` it locates the cause of the
  early loss: setting a key over a value with a deadline, and nothing else. The clients
  it speaks of leave nothing in the heap (`NothingLeft`), so that LossHasADeadline has no
  older deadline to blame.

DeadlinesQueued alone is not inductive: Delete and Cleanup take
*items* out of the heap, and to know that the item of another key is not among them
one needs that items are told apart by key and identity (TypeOK for "stored under
its own key", ItemsDistinct). StaleAccounted needs DeadlinesQueued, to know that the
item that a Set replaces *was* in the heap, so that its deadline becomes a left-over
one, and ItemsDistinct with the freshness of addresses, to know that the new item is
not one of the old. The four together are inductive: `InitInv`, one lemma per
action (`PutInv`, `DeleteInv`, `CleanupInv`, `ReplaceInv`, `EvictInv`, `FlushAllInv`,
`TickInv`), `NextInv`. The loss property follows from `LossOfOneStep`: only Delete,
Evict, Cleanup and FlushAll can empty a key, Evict at its deadline, and a Cleanup that
empties k popped an item of k that by StaleAccounted is either the stored one or
recorded in `stale`.

### The heap, and the store on it: `HeapProofs`

The operators of `ExpirationHeap`, for any addresses, integer deadlines and heaps of any
length, without further assumptions:

* `PushAdds`, `PopRemovesFirst`, `RemoveTakesOut`: from a heap in order with right index
  fields each gives one again, with exactly the one item added or taken out and no
  field of any item changed but `index`. While an item rises, the order is whole except
  between it and its parent, and its parent is not later than its children (`UpOrders`);
  while it sinks, whole except below it (`DownOrders`). heap.Remove puts the last
  item in the middle of the array: it sinks, or, if it is not later than its children
  (`DownStays`), it rises.
* `FirstIsEarliest`: order between parents and children makes the first item the earliest.

`HeapMachine`, for any integer deadlines (`DeadlinesAssumption`): `AlwaysHeapOrdered`, `IndexAlwaysCorrect`,
`AlwaysOneMemberPerStep`.

`HeapCache`, from `StoreAssumption` (as in `Cache`, and addresses that are not NoItem):

* `PlainImplementsCache`: `PlainSpec => ImplementsCache`, deadlines that wrap included;
  `StoreLosesOnlyToDeadlines`: with it the loss property of `CacheProofs` holds of the array.
* With batches and OptimizedSet, under the hypothesis `NoOverflow` that no `now + ttl` reaches
  Half: `IndexAlwaysReachesItem`, `PooledAlwaysUnreachable`, `AlwaysImplementsCache` and
  `PooledStoreLosesOnlyToDeadlines`.

`HeapInv` says that the array is a heap (`GoodHeap`: order and indices), that a stored item is
under its own key and queued exactly if it has a deadline, and that pooled items are
neither stored nor queued. The refinement compares what one sees of map and array
before and after a step (`View`): a filled item is new to both (`FillView`), a removed
one is gone from both and no other field shows a change (`TakeOutView`), and the items
left behind in the array (`Left`) are those that `stale` records. For Cleanup, `Swept`
holds after each turn (what was popped was due, and its keys, no others, are gone);
the loop ends with an empty heap or a first item that is not due, and by
`FirstIsEarliest` none is.

`NoOverflow` cannot be dropped for OptimizedSet and a batch's SET (section 3, bounds of
`heap_cache`). The code does not enforce it; it means ttls under some 230 years.
`HeapInv` has it as the condition of one part: deadlines are then never negative. Without
the pool the other parts are inductive by themselves: an item whose deadline wrapped stays
in the array when its key goes, and as its address is not reused no index is wrong.

### Recovery: `RecoveryProofs`

Assumes those of `Cache`, with `ClientValuesAssumption` and `NoEntryAssumption` (what values,
items and snapshot entries are), `BoundsAssumption` (naturals) and `AddressesAssumption`: keys
and addresses are finite, and there are as many addresses as keys and heap items, or
keys and log lines. The last stands for an allocator that does not run out.

* `RecoveryTypeCorrect`, `LoadedDeadlinesAlwaysQueued`, from `BaseInv`. A start folds `Replay`
  over the log; `LoadedWith(n)` is what holds of the cache under construction after n
  lines: types, its deadlines in its heap, and no more addresses used than keys and n,
  so that the next line finds a free one. `ReplayMaintains` carries it through the fold.
* `LastSaveAlwaysComplete`, from `SaveInv`: once it is saved nothing is put any more.
* `VisibleKeysAlwaysSurvive`, from `SurviveInv`. Whether a replay keeps a key depends only on
  the *types* on the way: a SETNX tests presence, a DEL the type. `Retype` replays those
  alone, and a start is compared with two such replays (`Related`): of a key that the
  snapshot has, untyped, and of one it has not. The first ends present for every
  stored key (`StoredSurvives`), the second for every visible one that the present
  snapshot has not with the same deadline (`VisibleSurvives`): an entry of
  the snapshot that has expired is not loaded, and then the log alone must have the key.
* `PlainKeysAlwaysRecover`, from `PlainInv`. Store and replay both follow the last command of
  the key (`StoreFollowsLog`, `PlainReplay`). For a replayed DEL to delete, the value it meets
  must have its type, which a snapshot does not give it, so a SET must precede it in the
  log (`DelFollowsSet`). `NoDeadline` keeps Cleanup away from the key.

### The pooled server: `GoroutinePoolProofs`

Assumes `PoolAssumption` (sizes), `DivisorsAssumption` (positive), `NoConnAssumption`.

* `PoolTypeCorrect` (the channel's capacity included), `WorkersAlwaysAccounted` (workerCount is the live workers less the
  nil tasks in the channel), `PoolStaysWithinLimits`, `ConnectionsAlwaysAccounted`.

`PoolInv` adds what the accept loop knows between its steps. `scaleDown` subtracts the
workers it wants to be rid of from the count although the channel may have no room for
that many nils. `SeenFresh` says that the channel has not grown past the length the
loop saw, since only the loop sends to it: then the nils all fit, and count and
live workers go apart by no more than the nils. `CountWithinLimits` bounds the count, which
only the loop changes; `OpenedFinite` lets the connections be counted.
The lemmas of `SequenceLemmas` say what Append and Tail do to the number of nils.

### The worker pool: `WorkerPoolProofs`

Assumes `NoneAssumption`, `QueueCapAssumption`, `WorkersAssumption`.

* `WorkerPoolTypeCorrect`, `TasksInOnePlace`, `WorkersOfferOnce`.
* `PoolServesTasks`: every behaviour's steps are steps or stutters of `TaskService`, the
  safety part of `ImplementsService`.

A task is in the queue, in a dispatcher's goroutine or in a worker; that it is in
one place only is inductive once a worker has a task exactly while it is busy (`BusyHasTask`)
and makes one offer exactly while it waits or has quit (`OneOffer`): otherwise a second
`HandOver` to the same worker would replace the task it has.

### Sessions: `SessionProofs`

Assumes those of `Cache`, with `TtlArgsAssumption`, `PasswordAssumption`, `BurstsAssumption` and
`NothingAssumption` (what is not a reply, a password or an address is none of them).

* `SessionTypeCorrect`; `TtlAlwaysAsAsked`: a stored value has the deadline its client
  asked for, whenever that deadline fits into an int64.
* `SessionKeepsItsPromise`: the safety part of the refinement to `KeyService`.
* `LockoutAlwaysExplained`. The strengthening `LockoutInv` adds that what
  a process is about to write is a password (`SettingIsPassword`: it is what makes
  Fill heal the file) and that `spc` is a function (so that a step of one process
  leaves another's `fill` as it is). One lemma per action that touches auth.dat; all
  others leave `auth` and `listening` unchanged (`LockoutUnchanged`).

### The ACL files: `AclLogProofs`

Assumes `SizesAssumption`, `BoundsAssumption`.

* `LogTypeCorrect`, `LogReplaysInOrder`, `LatestSetStaysOnDisk`.

`OrderInv`: commands grow older from the clock over the channel (`ChannelAges`) and the
writer (`WriterAge`) to whatever is written, and within each file (`FilesOrdered`); the map of a merge
has one command per key (`MergeMap`), so that what it writes is in order whatever order
Go's map is read in. `KeepInv`
follows the latest SET of each key through rotation and merge: `LatestKept` says for every
phase of the merge where the command is, in two places where the next step may remove
one (`Kept`). For the merge's map to keep it, nothing written may be younger
(`LatestYoungest`) and no DEL of its key may be about (`DeletesKnown`); the steps on one file
must not touch another (`InodesDistinct`); and the list of files still to read and to remove
must have the shape Glob gave it, `.merged` last (`MergeShape`).

The merge is a `FoldLeft` over lines. TLAPS has no induction theorem whose operator
can be instantiated, so `SequenceLemmas` goes round it: `NatSetInduction` is induction for a
*set* of naturals, proved from `LeastNat`, and `FoldLeftInvariant` says that a family of
sets that holds the base and is closed under one step holds the fold. The operator
folded is a CONSTANT of the module, which a proof instantiates.

### Only model-checked

The liveness properties (`ExpiredReclaimed`, `AcceptedIsServed`, `StopReturns`,
`StopEndsWorkers`, `ConnectionsEnd`) and the liveness of `ImplementsService`: TLAPS proves
none under fairness. Every safety property of a passing run is proved, those of batches
under `NoOverflow`.

## 5. Not modelled

* Compression and the cleaner's loop: their packages are not in the repository. A
  value decompresses to what was compressed; Cleanup is called again and again.
* The bytes of the ATD and of the ACL lines (lengths of 16 bits, separators, lines longer
  than the scanner takes): listed under the hazards; values are atoms here.
* The merge that Stop runs when the periodic one has not ended: two merges of the model's
  size are beyond TLC. Failures of the writer's own open and write, a snapshot that
  fails before its rename, disk errors of the start.
* Two processes on the same log and snapshot (a shell beside a server); Session has
  what they do to auth.dat.
* The cache commands of the CLI, which call the store as a connection does; prompts;
  AUTH setup (auth.dat exists by then); flags and configuration; statistics; Stop of
  the single-goroutine server, which nothing calls; the hashing of passwords.

## 6. Plan

Done: `Cache` and its proofs, `ExpirationHeap`, `HeapMachine`, `HeapCache` (with batches
and the item pool), `Recovery` (with the steps of Stop, panics, cut-off snapshots),
`AclLog` (with failures), `GoroutinePool`, `WorkerPool` with `TaskService`, `Session` with
`KeyService`; the theorems about all of them, the heap's array and its refinement to `Cache` included.

A second merge in `AclLog` would need a smaller model of the writer beside it.
