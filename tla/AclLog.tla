------------------------------- MODULE AclLog -------------------------------
(***************************************************************************)
(* The ACL files of src/cache/persistence.go: the goroutine that appends   *)
(* commands and rotates the file, the goroutine that merges the rotated    *)
(* files back, which takes no lock, errors of the merge's file operations, *)
(* and crashes at any step.                                                *)
(*                                                                         *)
(* A name of the directory leads to an inode with its lines, or to none    *)
(* (ino = 0).  A file is read in one step.  The merge run by Stop is the   *)
(* same code and is not modelled next to the periodic one.                 *)
(***************************************************************************)
EXTENDS Integers, FiniteSets, SequencesExt

CONSTANTS Keys,
          MaxFileSize,  \* maxAclFileSize (10 MB in the code), in lines
          ChanCap,      \* capacity of commandChan
          MaxCmds,      \* bound: commands ever logged
          MaxSec,       \* bound: the clock of the rotation names, in seconds
          MaxCrashes,   \* bound: crashes
          MaxFails      \* bound: file operations of the merge that fail

ASSUME SizesAssumption == MaxFileSize \in Nat \ {0} /\ ChanCap \in Nat \ {0}
ASSUME BoundsAssumption == MaxCmds \in Nat /\ {MaxSec, MaxCrashes, MaxFails} \subseteq Nat

\* Names: the current file, the merged file, and acl.<second>.
Acl == "acl"
Merged == "merged"
Rotated(sec) == <<"acl", sec>>
Names == {<<n>> : n \in {Acl, Merged}} \cup {Rotated(s) : s \in 0 .. MaxSec}
AclName == <<Acl>>
MergedName == <<Merged>>

VARIABLES chan,      \* pm.commandChan
          nextTs,    \* the clock of the commands' time stamps
          files,     \* the directory: for each name an inode and its lines
          size,      \* pm.aclFileSize, in lines
          wpc,       \* where writeCommandToAcl stands
          wcmd,      \* the command it writes
          handle,    \* the inode it opened
          cpc,       \* where compactAclFiles stands
          matches,   \* names found by Glob and still to be removed
          toRead,    \* names of allFiles still to be read
          commands,  \* the map `commands`, as the set of its commands
          sec, crashes, fails,
          latest,    \* history: for each key, the last command written
          deleted,   \* history: keys with a DEL
          exposed    \* history: the commands that were in a file, or written to
                     \* it, while the code was about to replace or remove it

writer == <<size, wpc, wcmd, handle>>
compactor == <<cpc, matches, toRead, commands>>
env == <<nextTs, sec, crashes, fails, deleted>>
vars == <<chan, files, writer, compactor, env, latest, exposed>>

NoFile == [ino |-> 0, lines |-> <<>>]
NoCmd == [ts |-> 0, type |-> "none", key |-> "none"]

Exists(n) == files[n].ino # 0

\* An inode number that no name and no open handle uses.
FreshIno == CHOOSE i \in 1 .. Cardinality(Names) + 2 :
                i # handle /\ \A n \in Names : files[n].ino # i

Init == /\ chan = <<>> /\ nextTs = 1
        /\ files = [n \in Names |-> NoFile]
        /\ size = 0 /\ wpc = "idle" /\ wcmd = NoCmd /\ handle = 0
        /\ cpc = "idle" /\ matches = <<>> /\ toRead = <<>> /\ commands = {}
        /\ sec = 0 /\ crashes = 0 /\ fails = 0
        /\ latest = [k \in Keys |-> NoCmd]
        /\ deleted = {} /\ exposed = {}

\* LogCommand, called under the lock of the cache: time stamps in channel order.
Log(k, type) ==
    /\ nextTs <= MaxCmds
    /\ Len(chan) < ChanCap
    /\ chan' = Append(chan, [ts |-> nextTs, type |-> type, key |-> k])
    /\ nextTs' = nextTs + 1
    /\ deleted' = IF type = "DEL" THEN deleted \cup {k} ELSE deleted
    /\ UNCHANGED <<files, writer, compactor, sec, crashes, fails, latest, exposed>>

----------------------------------------------------------------------------
Lines(n) == ToSet(files[n].lines)

(* writeCommandToAcl, under pm.mutex, which the merge does not take.        *)

Take == /\ wpc = "idle" /\ chan # <<>>
        /\ wcmd' = Head(chan)
        /\ chan' = Tail(chan)
        /\ wpc' = IF size >= MaxFileSize THEN "rotate" ELSE "open"
        /\ UNCHANGED <<files, size, handle, compactor, env, latest, exposed>>

\* A merge that has found its own leftover and a file of this name will remove both.
LosesRotated(n) == {n, MergedName} \subseteq ToSet(matches)

\* rotateAclFile: rename the current file to a name with the second in it, over
\* any file of that name; a failing rename leaves everything as it is.
Rotate == /\ wpc = "rotate"
          /\ wpc' = "open"
          /\ IF Exists(AclName)
             THEN /\ files' = [files EXCEPT ![Rotated(sec)] = files[AclName],
                                            ![AclName] = NoFile]
                  /\ size' = 0
                  /\ exposed' = exposed \cup Lines(Rotated(sec))
                                   \cup IF LosesRotated(Rotated(sec)) THEN Lines(AclName)
                                        ELSE {}
             ELSE UNCHANGED <<files, size, exposed>>
          /\ UNCHANGED <<chan, wcmd, handle, compactor, env, latest>>

Open == /\ wpc = "open"
        /\ wpc' = "write"
        /\ IF Exists(AclName)
           THEN handle' = files[AclName].ino /\ UNCHANGED files
           ELSE /\ handle' = FreshIno
                /\ files' = [files EXCEPT ![AclName] = [ino |-> FreshIno, lines |-> <<>>]]
        /\ UNCHANGED <<chan, size, wcmd, compactor, env, latest, exposed>>

\* The line goes to the inode that was opened, under whatever name it is now; the
\* merge will not see it if it has read the file, and will replace the file.
Write == /\ wpc = "write"
         /\ files' = [n \in Names |->
                        IF files[n].ino = handle
                        THEN [files[n] EXCEPT !.lines = Append(@, wcmd)]
                        ELSE files[n]]
         /\ size' = size + 1
         /\ latest' = [latest EXCEPT ![wcmd.key] = wcmd]
         /\ wpc' = "idle" /\ wcmd' = NoCmd /\ handle' = 0
         /\ exposed' = IF \/ cpc # "idle" /\ AclName \notin ToSet(toRead)
                          \/ \A n \in Names : files[n].ino # handle
                       THEN exposed \cup {wcmd} ELSE exposed
         /\ UNCHANGED <<chan, compactor, env>>

----------------------------------------------------------------------------
(* compactAclFiles, called by the ticker.                                   *)

\* Glob's result is sorted: digits come before "merged".
Rank(n) == IF n = MergedName THEN MaxSec + 1 ELSE n[2]

\* A plausible slip: a pattern without the dot finds the current file as well.
FoundAll == {n \in Names : Exists(n)}

Found == {n \in Names \ {AclName} : Exists(n)}

Sorted(s) == \A i, j \in DOMAIN s : i < j => Rank(s[i]) < Rank(s[j])

\* The pattern also finds the merged file of an interrupted merge, and the merge
\* will remove its own result with it.
Glob == /\ cpc = "idle"
        /\ Found # {}
        /\ \E s \in SetToSeqs(Found) :
              Sorted(s) /\ matches' = s /\ toRead' = <<AclName>> \o s
        /\ commands' = {}
        /\ cpc' = "read"
        /\ exposed' = IF Exists(MergedName)
                      THEN exposed \cup UNION {Lines(n) : n \in Found}
                      ELSE exposed
        /\ UNCHANGED <<chan, files, writer, env, latest>>

\* A plausible slip of the merge: every command is kept.
KeepAll(cmds, c) == cmds \cup {c}

\* A plausible slip of the merge: the oldest command of a key is kept.
KeepOldest(cmds, c) ==
    IF \E d \in cmds : d.key = c.key /\ d.ts < c.ts THEN cmds
    ELSE {d \in cmds : d.key # c.key} \cup {c}

\* The merge strategy, for one line: a DEL replaces what the map has for the
\* key, a SET never replaces a DEL, and replaces an older SET.
Merge(cmds, c) ==
    LET same == {d \in cmds : d.key = c.key}
        others == {d \in cmds : d.key # c.key}
    IN IF \/ same = {}
          \/ c.type = "DEL"
          \/ \A d \in same : d.type # "DEL" /\ c.ts > d.ts
       THEN others \cup {c}
       ELSE cmds

Read == /\ cpc = "read" /\ toRead # <<>>
        /\ commands' = FoldLeft(Merge, commands, files[Head(toRead)].lines)
        /\ toRead' = Tail(toRead)
        /\ UNCHANGED <<chan, files, writer, cpc, matches, env, latest, exposed>>

CanFail == fails < MaxFails /\ fails' = fails + 1

\* A file that cannot be opened is skipped; it is removed or replaced all the same.
ReadFails == /\ cpc = "read" /\ toRead # <<>>
             /\ CanFail
             /\ toRead' = Tail(toRead)
             /\ exposed' = exposed \cup Lines(Head(toRead))
             /\ UNCHANGED <<chan, files, writer, cpc, matches, commands, nextTs, sec,
                            crashes, deleted, latest>>

\* os.Create: an existing file of that name is emptied.
CreateMerged ==
    /\ cpc = "read" /\ toRead = <<>>
    /\ files' = [files EXCEPT ![MergedName] =
                   [ino |-> IF Exists(MergedName) THEN @.ino ELSE FreshIno, lines |-> <<>>]]
    /\ cpc' = "fill"
    /\ UNCHANGED <<chan, writer, matches, toRead, commands, env, latest, exposed>>

\* The map is written in the order of its iteration, which is any order.
FillMerged == /\ cpc = "fill"
              /\ \E s \in SetToSeqs(commands) :
                    files' = [files EXCEPT ![MergedName].lines = s]
              /\ commands' = {}
              /\ cpc' = "remove"
              /\ UNCHANGED <<chan, writer, matches, toRead, env, latest, exposed>>

\* The disk is full after some of the lines: the merge ends and leaves its file.
FillFails == /\ cpc = "fill"
             /\ CanFail
             /\ \E part \in SUBSET commands : \E s \in SetToSeqs(part) :
                   files' = [files EXCEPT ![MergedName].lines = s]
             /\ commands' = {} /\ matches' = <<>>
             /\ cpc' = "idle"
             /\ UNCHANGED <<chan, writer, toRead, nextTs, sec, crashes, deleted, latest,
                            exposed>>

\* A file that cannot be removed stays, next to the merged one.
RemoveFails == /\ cpc = "remove" /\ matches # <<>>
               /\ CanFail
               /\ matches' = Tail(matches)
               /\ UNCHANGED <<chan, files, writer, cpc, toRead, commands, nextTs, sec,
                              crashes, deleted, latest, exposed>>

RemoveOne == /\ cpc = "remove" /\ matches # <<>>
             /\ files' = [files EXCEPT ![Head(matches)] = NoFile]
             /\ matches' = Tail(matches)
             /\ UNCHANGED <<chan, writer, cpc, toRead, commands, env, latest, exposed>>

\* The rename fails, and the function returns, when the merged file is gone.
RenameMerged ==
    /\ cpc = "remove" /\ matches = <<>>
    /\ IF Exists(MergedName)
       THEN /\ files' = [files EXCEPT ![AclName] = files[MergedName],
                                      ![MergedName] = NoFile]
            /\ cpc' = "stat"
       ELSE cpc' = "idle" /\ UNCHANGED files
    /\ UNCHANGED <<chan, writer, matches, toRead, commands, env, latest, exposed>>

Stat == /\ cpc = "stat"
        /\ size' = Len(files[AclName].lines)
        /\ cpc' = "idle"
        /\ UNCHANGED <<chan, files, wpc, wcmd, handle, matches, toRead, commands,
                       env, latest, exposed>>

----------------------------------------------------------------------------
\* The process dies and starts again: aclFileSize starts at 0.
Crash == /\ crashes < MaxCrashes
         /\ crashes' = crashes + 1
         /\ chan' = <<>>
         /\ size' = 0 /\ wpc' = "idle" /\ wcmd' = NoCmd /\ handle' = 0
         /\ cpc' = "idle" /\ matches' = <<>> /\ toRead' = <<>> /\ commands' = {}
         /\ UNCHANGED <<files, nextTs, sec, fails, deleted, latest, exposed>>

SecondPasses == /\ sec < MaxSec
                /\ sec' = sec + 1
                /\ UNCHANGED <<chan, files, writer, compactor, nextTs, crashes, fails,
                               latest, deleted, exposed>>

Next == \/ \E k \in Keys, type \in {"SET", "DEL"} : Log(k, type)
        \/ Take \/ Rotate \/ Open \/ Write
        \/ Glob \/ Read \/ CreateMerged \/ FillMerged \/ RemoveOne \/ RenameMerged \/ Stat
        \/ ReadFails \/ FillFails \/ RemoveFails
        \/ Crash
        \/ SecondPasses

Spec == Init /\ [][Next]_vars

----------------------------------------------------------------------------
(* Properties *)

Command == [ts : Nat, type : {"SET", "DEL"}, key : Keys]

\* Type correctness: the channel stays within its capacity, what the files hold and
\* the merge collects are commands, and the merge never has the current file among
\* those it will remove.
TypeOK == /\ chan \in Seq(Command) /\ Len(chan) <= ChanCap
          /\ nextTs \in 1 .. MaxCmds + 1
          /\ files \in [Names -> [ino : Nat, lines : Seq(Command)]]
          /\ size \in Nat /\ handle \in Nat
          /\ wpc \in {"idle", "rotate", "open", "write"}
          /\ wcmd \in IF wpc = "idle" THEN {NoCmd} ELSE Command
          /\ cpc \in {"idle", "read", "fill", "remove", "stat"}
          /\ matches \in Seq(Names \ {AclName}) /\ toRead \in Seq(Names)
          /\ commands \subseteq Command
          /\ sec \in 0 .. MaxSec /\ crashes \in 0 .. MaxCrashes /\ fails \in 0 .. MaxFails
          /\ latest \in [Keys -> Command \cup {NoCmd}]
          /\ deleted \subseteq Keys /\ exposed \subseteq Command

OnDisk == UNION {Lines(n) : n \in Names}

\* Whatever rotations, merges and crashes came before, LoadAcl, which goes by
\* the order of the lines and not by their time stamps, replays the commands of
\* each key in the order they were executed.
ReplayOrder ==
    LET s == files[AclName].lines
    IN \A i, j \in 1 .. Len(s) : i < j /\ s[i].key = s[j].key => s[i].ts < s[j].ts

\* Rotations, merges, their failures and crashes at any of their steps lose no value
\* but through four windows: the last SET of a key that was never deleted is in one
\* of the files unless it was in a file that a second rotation in the same second
\* replaced, that the merge could not open, or that a merge read beside the leftover
\* of an interrupted one, or was written after the merge had read the file.  It says
\* nothing of the file LoadAcl reads: a merge brings there what it finds in the others.
LatestSetOnDisk ==
    \A k \in Keys \ deleted : latest[k].type = "SET" => latest[k] \in OnDisk \cup exposed

\* "Zero data loss" (docs/PERFORMANCE.md): outside these windows the last command of
\* a key, when it is a SET, is in one of the files, whether the key was deleted
\* before or not.
EveryLatestSetOnDisk ==
    \A k \in Keys : latest[k].type = "SET" => latest[k] \in OnDisk \cup exposed
=============================================================================
