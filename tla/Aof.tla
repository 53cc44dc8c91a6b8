-------------------------------- MODULE Aof --------------------------------
(***************************************************************************)
(* The append only file of a Redis instance (aof.c): the buffer of         *)
(* commands, the base and incremental files, the manifest that lists them, *)
(* the rewrite that replaces them, CONFIG SET appendonly, crashes and the  *)
(* load at the next start.                                                 *)
(*                                                                         *)
(* A command is a number and takes two bytes, so that a write to a file    *)
(* may stop in the middle of one.  The main thread is sequential; where a  *)
(* handler changes the disk in several steps, pc says how far it is, and   *)
(* only a crash comes between.                                             *)
(***************************************************************************)
EXTENDS Integers, SequencesExt

CONSTANTS MaxCmd,          \* bound: the commands executed
          MaxSeq,          \* bound: the sequence number of a file
          MaxFault,        \* bound: crashes, failed calls and switches of
                           \* appendonly
          OffRewrites,     \* BGREWRITEAOF is also given while the AOF is off
          WriteOutcomes,   \* of a failed write(2): "none", nothing is left of
                           \* it, "part", ftruncate(2) fails as well
          PersistOutcomes  \* of a failed write of the manifest: "early",
                           \* before rename(2), "late", in the fsync after it

VARIABLES always,   \* appendfsync is always (otherwise everysec)
          mem,      \* the commands that made the data set
          buf,      \* aof_buf
          file,     \* the files of the AOF directory that exist
          disk,     \* the manifest on disk
          man,      \* aof_manifest
          temp,     \* temp_am, between two steps of a handler
          fd,       \* the file aof_fd is open on
          child,    \* the data set the rewrite child writes out
          state,    \* aof_state, or "down"
          pc,       \* where the main thread is inside a handler
          error,    \* aof_last_write_status
          acked,    \* the commands whose reply was sent
          cmds, faults      \* what the bounds count

vars == <<always, mem, buf, file, disk, man, temp, fd, child, state, pc, error,
          acked, cmds, faults>>

NoFile == <<"none", 0>>
TempIncr == <<"temp", 0>>
Base(k) == <<"base", k>>
Incr(k) == <<"incr", k>>
NoChild == [on |-> FALSE, data |-> <<>>]
NoManifest == [base |-> 0, incr |-> <<>>, hist |-> {}, baseSeq |-> 0, incrSeq |-> 0]
Unloadable == <<-1>>

Bytes(c) == <<<<c, 1>>, <<c, 2>>>>
AllBytes(s) == FlattenSeq([i \in DOMAIN s |-> Bytes(s[i])])

-----------------------------------------------------------------------------
(* Loading.                                                                *)

\* The complete commands of a file, and how its end looks to
\* loadSingleAppendOnlyFile.
Commands(b) == [i \in 1 .. Len(b) \div 2 |-> b[2 * i][1]]
WellFormed(b) == SubSeq(b, 1, 2 * (Len(b) \div 2)) = AllBytes(Commands(b))
Truncated(b) == Len(b) % 2 = 1

\* The files to load, in order.
Listed(m) == (IF m.base = 0 THEN <<>> ELSE <<Base(m.base)>>)
             \o [i \in DOMAIN m.incr |-> Incr(m.incr[i])]

\* loadAppendOnlyFiles, on files whose bytes are content: a file that is
\* missing, or is truncated and not the last, is fatal.
Loaded(m, content) ==
    LET names == Listed(m)
    IN  IF \E i \in DOMAIN names :
             \/ names[i] \notin DOMAIN content
             \/ ~WellFormed(content[names[i]])
             \/ Truncated(content[names[i]]) /\ i # Len(names)
          THEN Unloadable
          ELSE FlattenSeq([i \in DOMAIN names |-> Commands(content[names[i]])])

\* What the page cache holds, and what a power failure leaves.
Cached == [f \in DOMAIN file |-> file[f].data]
Durable == [f \in DOMAIN file |-> SubSeq(file[f].data, 1, file[f].synced)]

-----------------------------------------------------------------------------
(* Files and the manifest.                                                 *)

NewFile(f, bytes, synced) ==
    [g \in DOMAIN file \cup {f} |->
       IF g = f THEN [data |-> bytes, synced |-> synced] ELSE file[g]]
Unlinked(fs) == [g \in DOMAIN file \ fs |-> file[g]]
Renamed(f, g) == [h \in (DOMAIN file \ {f}) \cup {g} |->
                    IF h = g THEN file[f] ELSE file[h]]

\* getNewBaseFileNameAndMarkPreAsHistory.
NewBase(m) == [m EXCEPT !.base = m.baseSeq + 1, !.baseSeq = @ + 1,
                        !.hist = @ \cup (IF m.base = 0 THEN {}
                                         ELSE {Base(m.base)})]

\* getNewIncrAofName.
NewIncr(m) == [m EXCEPT !.incr = Append(@, m.incrSeq + 1), !.incrSeq = @ + 1]

\* Mutant: the incremental file being written goes with the others.
AllIncrHistory(m) ==
    [m EXCEPT !.incr = <<>>,
              !.hist = @ \cup {Incr(m.incr[i]) : i \in DOMAIN m.incr}]

\* markRewrittenIncrAofAsHistory: all but the one being written.
RewrittenIncrHistory(m) ==
    IF m.incr = <<>> THEN m
    ELSE LET kept == IF fd = NoFile THEN <<>> ELSE <<Last(m.incr)>>
         IN  [m EXCEPT !.incr = kept,
                       !.hist = @ \cup {Incr(k) : k \in ToSet(m.incr) \ ToSet(kept)}]

\* aofLoadManifestFromFile: the sequence numbers are those of the files that
\* are still in use.
Read(m) == [m EXCEPT !.baseSeq = m.base,
                     !.incrSeq = IF m.incr = <<>> THEN 0 ELSE Last(m.incr)]

Fault == faults < MaxFault /\ faults' = faults + 1
Idle == pc = "idle" /\ state # "down"

Init ==
    /\ always \in BOOLEAN
    /\ mem = <<>>
    /\ buf = <<>>
    /\ file = [f \in {} |-> NoFile]
    /\ disk = NoManifest
    /\ man = NoManifest
    /\ temp = NoManifest
    /\ fd = NoFile
    /\ child = NoChild
    /\ state = "down"
    /\ pc = "idle"
    /\ error = FALSE
    /\ acked = {}
    /\ cmds = 0
    /\ faults = 0

-----------------------------------------------------------------------------
(* Commands, the flush before the event loop sleeps, and the replies.      *)

\* writeCommandsDeniedByDiskError
WritesDenied == error /\ state # "off"

\* A write command: feedAppendOnlyFile.
Command ==
    /\ Idle
    /\ ~WritesDenied
    /\ cmds < MaxCmd
    /\ cmds' = cmds + 1
    /\ mem' = Append(mem, cmds')
    /\ buf' = IF state = "on" \/ (state = "wait" /\ child.on)
                THEN buf \o Bytes(cmds') ELSE buf
    /\ UNCHANGED <<always, file, disk, man, temp, fd, child, state, pc, error,
                   acked, faults>>

\* The open file after bytes were appended to it.  An unlinked one is lost.
Appended(bytes) ==
    IF fd \notin DOMAIN file THEN file
    ELSE [file EXCEPT ![fd] =
            [data |-> @.data \o bytes,
             synced |-> IF always THEN Len(@.data) + Len(bytes) ELSE @.synced]]

\* flushAppendOnlyFile, when write(2) and fsync(2) succeed.
FlushOk ==
    /\ file' = Appended(buf)
    /\ buf' = <<>>
    /\ error' = FALSE
    /\ UNCHANGED faults

\* flushAppendOnlyFile, when write(2) fails and the policy is everysec: the
\* commands stay in the buffer.
FlushFails ==
    /\ ~always
    /\ buf # <<>>
    /\ Fault
    /\ error' = TRUE
    /\ \E k \in IF "part" \in WriteOutcomes THEN 0 .. Len(buf) - 1 ELSE {0} :
         /\ file' = Appended(SubSeq(buf, 1, k))
         /\ buf' = SubSeq(buf, k + 1, Len(buf))

Flush ==
    /\ Idle
    /\ state # "off"
    /\ buf # <<>>
    /\ FlushOk \/ FlushFails
    /\ UNCHANGED <<always, mem, disk, man, temp, fd, child, state, pc, acked,
                   cmds>>

\* The replies are sent after the flush; with everysec the flush may have
\* failed, or have been put off while an fsync is in progress.
Reply ==
    /\ Idle
    /\ always => (state = "off" \/ buf = <<>>)
    /\ acked' = ToSet(mem)
    /\ acked' # acked
    /\ UNCHANGED <<always, mem, buf, file, disk, man, temp, fd, child, state,
                   pc, error, cmds, faults>>

-----------------------------------------------------------------------------
(* The rewrite: rewriteAppendOnlyFileBackground and                        *)
(* openNewIncrAofForAppend.                                                *)

\* CONFIG SET appendonly yes: a child that runs is stopped, and the file is
\* rewritten at once.
startAppendOnly ==
    /\ state = "off"
    /\ state' = "wait"
    /\ child' = NoChild

\* The rewrite flushes the buffer, whether or not that succeeds.
RewriteFlush ==
    /\ Idle
    /\ man.baseSeq < MaxSeq
    /\ man.incrSeq < MaxSeq
    /\ \/ /\ ~child.on
          /\ state = "off" => OffRewrites
          /\ UNCHANGED <<state, child>>
       \/ startAppendOnly
    /\ IF state = "off" \/ buf = <<>>
         THEN UNCHANGED <<file, buf, error, faults>>
         ELSE FlushOk \/ FlushFails
    /\ pc' = "open"
    /\ UNCHANGED <<always, mem, disk, man, temp, fd, acked, cmds>>

\* The new incremental file is created, under a temporary name while the AOF
\* waits for its first rewrite.
RewriteOpen ==
    /\ pc = "open"
    /\ CASE state = "off" ->
              /\ pc' = "fork"
              /\ UNCHANGED <<temp, file, fd>>
         [] state = "wait" ->
              /\ pc' = "fork"
              /\ file' = NewFile(TempIncr, <<>>, 0)
              /\ fd' = TempIncr
              /\ UNCHANGED temp
         [] state = "on" ->
              /\ pc' = "openPersist"
              /\ temp' = NewIncr(man)
              /\ file' = NewFile(Incr(temp'.incrSeq), <<>>, 0)
              /\ UNCHANGED fd
    /\ UNCHANGED <<always, mem, buf, disk, man, child, state, error, acked,
                   cmds, faults>>

RewritePersist ==
    /\ pc = "openPersist"
    /\ pc' = "fork"
    /\ disk' = temp
    /\ man' = temp
    /\ fd' = Incr(temp.incrSeq)
    /\ UNCHANGED <<always, mem, buf, file, temp, child, state, error, acked,
                   cmds, faults>>

\* The manifest cannot be persisted: nothing in memory changes.
RewritePersistFails ==
    /\ pc = "openPersist"
    /\ Fault
    /\ pc' = "idle"
    /\ \E k \in PersistOutcomes : disk' = IF k = "late" THEN temp ELSE disk
    /\ UNCHANGED <<always, mem, buf, file, man, temp, fd, child, state, error,
                   acked, cmds>>

Fork ==
    /\ pc = "fork"
    /\ pc' = "idle"
    /\ child' = [on |-> TRUE, data |-> mem]
    /\ UNCHANGED <<always, mem, buf, file, disk, man, temp, fd, state, error,
                   acked, cmds, faults>>

-----------------------------------------------------------------------------
(* The end of the rewrite: backgroundRewriteDoneHandler.                   *)

\* Its cleanup part, after a failure: an AOF that waits for its first rewrite
\* starts over.
Cleanup(files) ==
    /\ child' = NoChild
    /\ pc' = "idle"
    /\ IF state = "wait"
         THEN buf' = <<>> /\ file' = Unlinked(files \cup {TempIncr})
         ELSE UNCHANGED buf /\ file' = Unlinked(files)
    /\ UNCHANGED <<always, mem, disk, man, temp, fd, state, error, acked, cmds>>

\* The child failed, or was killed.
RewriteFailed == Idle /\ child.on /\ Fault /\ Cleanup({})

\* The file the child wrote and synced becomes the new base.
RenameBase ==
    /\ Idle
    /\ child.on
    /\ temp' = NewBase(man)
    /\ file' = NewFile(Base(temp'.base), AllBytes(child.data),
                       2 * Len(child.data))
    /\ pc' = IF state = "wait" THEN "renameIncr" ELSE "donePersist"
    /\ UNCHANGED <<always, mem, buf, disk, man, fd, child, state, error, acked,
                   cmds, faults>>

\* The commands since the fork went to the temporary file.
RenameIncr ==
    /\ pc = "renameIncr"
    /\ pc' = "donePersist"
    /\ temp' = NewIncr(temp)
    /\ file' = Renamed(TempIncr, Incr(temp'.incrSeq))
    /\ fd' = Incr(temp'.incrSeq)
    /\ UNCHANGED <<always, mem, buf, disk, man, child, state, error, acked,
                   cmds, faults>>

\* Mutant: the history files are removed before the manifest is persisted.
DonePersistLate ==
    /\ pc = "donePersist"
    /\ temp' = RewrittenIncrHistory(temp)
    /\ man' = temp'
    /\ file' = Unlinked(man'.hist)
    /\ pc' = "persistAgain"
    /\ UNCHANGED <<always, mem, buf, disk, fd, child, state, error, acked,
                   cmds, faults>>

DonePersist ==
    /\ pc = "donePersist"
    /\ temp' = RewrittenIncrHistory(temp)
    /\ disk' = temp'
    /\ man' = temp'
    /\ pc' = "delHistory"
    /\ UNCHANGED <<always, mem, buf, file, fd, child, state, error, acked,
                   cmds, faults>>

\* The new files are removed again.
DonePersistFails ==
    /\ pc = "donePersist"
    /\ Fault
    /\ \E k \in PersistOutcomes :
         disk' = IF k = "late" THEN RewrittenIncrHistory(temp) ELSE disk
    /\ child' = NoChild
    /\ pc' = "idle"
    /\ IF state = "wait"
         THEN /\ buf' = <<>>
              /\ file' = Unlinked({Base(temp.base), Incr(temp.incrSeq), TempIncr})
         ELSE /\ UNCHANGED buf
              /\ file' = Unlinked({Base(temp.base)})
    /\ UNCHANGED <<always, mem, man, temp, fd, state, error, acked, cmds>>

\* aofDelHistoryFiles: the files, then the manifest without them.
DelHistory ==
    /\ pc = "delHistory"
    /\ file' = Unlinked(man.hist)
    /\ man' = [man EXCEPT !.hist = {}]
    /\ pc' = "persistAgain"
    /\ UNCHANGED <<always, mem, buf, disk, temp, fd, child, state, error,
                   acked, cmds, faults>>

\* Whether that succeeds is not looked at.
PersistAgain ==
    /\ pc = "persistAgain"
    /\ \/ disk' = man /\ UNCHANGED faults
       \/ Fault /\ \E k \in PersistOutcomes : disk' = IF k = "late" THEN man ELSE disk
    /\ child' = NoChild
    /\ state' = IF state = "wait" THEN "on" ELSE state
    /\ pc' = "idle"
    /\ UNCHANGED <<always, mem, buf, file, man, temp, fd, error, acked, cmds>>

-----------------------------------------------------------------------------
(* CONFIG SET appendonly no, crashes and starts.                           *)

\* stopAppendOnly: the buffer is flushed and synced, and the child killed.
StopAppendOnly ==
    /\ Idle
    /\ state # "off"
    /\ Fault
    /\ file' = Appended(buf)
    /\ buf' = <<>>
    /\ error' = FALSE
    /\ fd' = NoFile
    /\ state' = "off"
    /\ child' = NoChild
    /\ UNCHANGED <<always, mem, disk, man, temp, pc, acked, cmds>>

\* The process dies, perhaps in the middle of a flush; with a power failure
\* what was not synced is lost too.  A failed write with appendfsync always
\* ends here as well.
Crash ==
    /\ state # "down"
    /\ Fault
    /\ \E k \in IF pc = "idle" /\ state # "off" THEN 0 .. Len(buf) ELSE {0} :
         LET written == IF fd \in DOMAIN file
                          THEN [file EXCEPT ![fd].data = @ \o SubSeq(buf, 1, k)]
                          ELSE file
         IN  \/ file' = written
             \/ /\ always
                /\ file' = [f \in DOMAIN file |->
                              [data |-> Durable[f], synced |-> file[f].synced]]
    /\ state' = "down"
    /\ pc' = "idle"
    /\ buf' = <<>>
    /\ fd' = NoFile
    /\ child' = NoChild
    /\ error' = FALSE
    /\ UNCHANGED <<always, mem, disk, man, temp, acked, cmds>>

\* The start with appendonly yes: aofLoadManifestFromDisk, loadDataFromDisk
\* (which cuts a truncated last file), aofOpenIfNeededOnServerStart and
\* aofDelHistoryFiles.  A data set that cannot be loaded stops it.
Start ==
    LET d == Read(disk)
        m == IF d.base = 0 /\ d.incr = <<>> THEN NewBase(d) ELSE d
        n == IF m.incr = <<>> THEN NewIncr(m) ELSE m
        data == Loaded(disk, Cached)
        whole(f) == IF f \in DOMAIN file THEN 2 * (Len(file[f].data) \div 2) ELSE 0
        old(f) == IF f \in DOMAIN file THEN SubSeq(file[f].data, 1, whole(f))
                  ELSE <<>>
        last == Incr(Last(n.incr))
    IN  /\ state = "down"
        /\ data # Unloadable
        /\ n.baseSeq <= MaxSeq /\ n.incrSeq <= MaxSeq
        /\ mem' = data
        /\ acked' = acked \cap ToSet(data)
        /\ man' = [n EXCEPT !.hist = {}]
        /\ disk' = man'
        /\ file' = [f \in (DOMAIN file \cup {Base(n.base), last}) \ n.hist |->
                      CASE f = last -> [data |-> old(f), synced |-> whole(f)]
                        [] f \in DOMAIN file /\ f # last -> file[f]
                        [] OTHER -> [data |-> <<>>, synced |-> 0]]
        /\ fd' = last
        /\ state' = "on"
        /\ UNCHANGED <<always, buf, temp, child, pc, error, cmds, faults>>

Next ==
    \/ Command \/ Flush \/ Reply
    \/ RewriteFlush \/ RewriteOpen \/ RewritePersist \/ RewritePersistFails
    \/ Fork
    \/ RewriteFailed \/ RenameBase \/ RenameIncr \/ DonePersist
    \/ DonePersistFails \/ DelHistory \/ PersistAgain
    \/ StopAppendOnly \/ Crash \/ Start

Spec == Init /\ [][Next]_vars

-----------------------------------------------------------------------------
(* Properties.                                                             *)

Once(s) == FoldLeft(LAMBDA t, c : IF c \in ToSet(t) THEN t ELSE Append(t, c),
                    <<>>, s)

\* Whatever the moment of a crash of the process, the files the manifest on
\* disk lists can be loaded and give, commands met twice apart, a state the
\* data set was in; while the AOF is on, they and the buffer give all of it.
FilesAreLoadable ==
    state # "down" =>
        LET data == Once(Loaded(disk, Cached))
        IN  /\ IsPrefix(data, Once(mem))
            /\ state = "on" => \A c \in ToSet(mem) :
                 c \in ToSet(data) \/ c \in {buf[i][1] : i \in DOMAIN buf}

\* With appendfsync always and the AOF on, a power failure at any moment
\* loses no command whose reply was sent.
AckedIsDurable ==
    always /\ state = "on" => acked \subseteq ToSet(Loaded(disk, Durable))

=============================================================================
