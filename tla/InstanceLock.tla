---------------------------- MODULE InstanceLock ----------------------------
(***************************************************************************)
(* The same-host instance guard: acquireInstanceLock, the stale-lock       *)
(* breaker with its `.break' mutex, and the release on exit or signal.     *)
(*                                                                         *)
(* A boot is one encoder process and its one acquisition; it stands for    *)
(* its own random token.  The steps are single file-system calls, which    *)
(* processes interleave; a process can be killed between any two of them,  *)
(* its files stay, and its pid goes to whoever asks next.                  *)
(***************************************************************************)
EXTENDS Naturals

CONSTANTS
    Boots, Pids,
    CommandOf,      \* boot -> its command line
    OldEncoder,     \* a running encoder of a release that wrote no token
    Stranger,       \* a process that is no encoder
    OldCommand, StrangerCommand, Unreadable,
    Nobody, NoFile, Blank,
    Readable,       \* FALSE where /proc cannot be read
    MutexWaitPasses, RecheckPasses, BreakPasses

EncoderCommands == {CommandOf[b] : b \in Boots} \cup {OldCommand}

Record(pid, cmd, token) == [pid |-> pid, cmd |-> cmd, token |-> token]

\* What older releases wrote: a bare pid, or a record without a token.
LegacyRecords == {Record(p, cmd, Nobody) : p \in Pids, cmd \in {Unreadable, OldCommand}}

Records == LegacyRecords \cup {Record(p, CommandOf[b], b) : p \in Pids, b \in Boots}

ASSUME InstanceLockAssumption ==
    /\ OldEncoder \notin {Stranger, Nobody}
    /\ NoFile # Blank
    /\ {OldEncoder, Stranger, Nobody} \cap Boots = {}
    /\ {NoFile, Blank} \cap (Boots \cup Records) = {}
    /\ {StrangerCommand, Unreadable} \cap EncoderCommands = {}
    /\ MutexWaitPasses \in Nat \ {0}
    /\ {RecheckPasses, BreakPasses} \subseteq Nat
    /\ Readable \in BOOLEAN

VARIABLES
    table,      \* the system's processes: pid -> who runs under it
    hardLinks,  \* whether the lock's mount can hard-link
    lock,       \* the lock file: NoFile, Blank (created, not written), or a record
    mutex,      \* the .break file: NoFile, Blank, or the token written to it
    pc,         \* where each boot stands
    errand,     \* what a boot wants the mutex for: "link" or "verify"
    then,       \* where it goes once it has let go of the mutex
    seen,       \* the lock file as readLockHolderSettled last read it
    tries,      \* passes of the current bounded wait
    pass        \* passes of the acquisition loop

files == <<lock, mutex>>
local == <<errand, then, seen, tries, pass>>
vars == <<table, hardLinks, files, pc, local>>

Command(x) ==
    CASE x = OldEncoder -> OldCommand
      [] x = Stranger   -> StrangerCommand
      [] OTHER          -> CommandOf[x]

PidOf(b) == CHOOSE p \in Pids : table[p] = b

OwnRecord(b) == Record(PidOf(b), CommandOf[b], b)

Legible(text) == text \notin {NoFile, Blank}

Starting == {"await", "mark", "link", "write", "letGo", "read", "judge", "identify", "verify", "unlink"}
Running == Starting \cup {"serving", "releasing", "leaving"}
Stopped == {"refused", "wedged", "outpaced", "gone", "dead"}

\* The lock may be a leftover of an older encoder, or that encoder may run.
Init ==
    /\ hardLinks \in BOOLEAN
    /\ mutex = NoFile
    /\ \/ /\ lock = NoFile
          /\ table = [p \in Pids |-> Nobody]
       \/ \E old \in LegacyRecords, who \in {Nobody, Stranger, OldEncoder} :
             /\ lock = old
             /\ table = [q \in Pids |-> IF q = old.pid THEN who ELSE Nobody]
    /\ pc = [b \in Boots |-> "off"]
    /\ errand = [b \in Boots |-> "link"]
    /\ then = [b \in Boots |-> "read"]
    /\ seen = [b \in Boots |-> NoFile]
    /\ tries = [b \in Boots |-> 0]
    /\ pass = [b \in Boots |-> 0]

-----------------------------------------------------------------------------

\* b's process is over, whatever the reason.
End(b, how) ==
    /\ pc' = [pc EXCEPT ![b] = how]
    /\ table' = [p \in Pids |-> IF table[p] = b THEN Nobody ELSE table[p]]

Goto(b, where) == pc' = [pc EXCEPT ![b] = where] /\ UNCHANGED table

\* Fault variant: publishLock does not take the mutex.
StartUnguarded(b) ==
    /\ pc[b] = "off"
    /\ \E p \in Pids : table[p] = Nobody /\ table' = [table EXCEPT ![p] = b]
    /\ pc' = [pc EXCEPT ![b] = "link"]
    /\ UNCHANGED <<hardLinks, files, local>>

\* acquireInstanceLock: its first pass goes for the mutex, to publish.
Start(b) ==
    /\ pc[b] = "off"
    /\ \E p \in Pids : table[p] = Nobody /\ table' = [table EXCEPT ![p] = b]
    /\ pc' = [pc EXCEPT ![b] = "await"]
    /\ UNCHANGED <<hardLinks, files, local>>

\* acquireBreakMutex, the open with 'wx'.
CreateMutex(b) ==
    /\ pc[b] = "await" /\ mutex = NoFile
    /\ mutex' = Blank
    /\ Goto(b, "mark")
    /\ UNCHANGED <<hardLinks, lock, local>>

\* Fault variant: the mutex is waited for without a bound.
AwaitMutexForever(b) ==
    /\ pc[b] = "await" /\ mutex # NoFile
    /\ UNCHANGED vars

\* acquireBreakMutex, EEXIST: sleep and try again, a bounded number of times.
AwaitMutex(b) ==
    /\ pc[b] = "await" /\ mutex # NoFile
    /\ IF tries[b] + 1 < MutexWaitPasses
       THEN /\ tries' = [tries EXCEPT ![b] = @ + 1]
            /\ UNCHANGED <<table, pc>>
       ELSE End(b, "wedged") /\ UNCHANGED tries
    /\ UNCHANGED <<hardLinks, files, errand, then, seen, pass>>

\* acquireBreakMutex, the write of the token.
MarkMutex(b) ==
    /\ pc[b] = "mark"
    /\ mutex' = b
    /\ tries' = [tries EXCEPT ![b] = 0]
    /\ Goto(b, errand[b])
    /\ UNCHANGED <<hardLinks, lock, errand, then, seen, pass>>

\* publishLock: the finished record appears in one step, or EEXIST.
LinkRecord(b) ==
    /\ pc[b] = "link" /\ hardLinks
    /\ lock' = IF lock = NoFile THEN OwnRecord(b) ELSE lock
    /\ then' = [then EXCEPT ![b] = IF lock = NoFile THEN "serving" ELSE "read"]
    /\ Goto(b, "letGo")
    /\ UNCHANGED <<hardLinks, mutex, errand, seen, tries, pass>>

\* publishLock without hard links: the name first, the record after it.
CreateLock(b) ==
    /\ pc[b] = "link" /\ ~hardLinks
    /\ lock' = IF lock = NoFile THEN Blank ELSE lock
    /\ then' = [then EXCEPT ![b] = IF lock = NoFile THEN "serving" ELSE "read"]
    /\ Goto(b, IF lock = NoFile THEN "write" ELSE "letGo")
    /\ UNCHANGED <<hardLinks, mutex, errand, seen, tries, pass>>

\* The write goes to the file that was created, if that still has the name.
WriteLock(b) ==
    /\ pc[b] = "write"
    /\ lock' = IF lock = Blank THEN OwnRecord(b) ELSE lock
    /\ Goto(b, "letGo")
    /\ UNCHANGED <<hardLinks, mutex, local>>

\* Fault variant: the mutex is kept when the publication threw EEXIST.
LetGoOnSuccess(b) ==
    /\ pc[b] = "letGo"
    /\ mutex' = IF mutex = b /\ then[b] # "read" THEN NoFile ELSE mutex
    /\ IF then[b] = "outpaced" THEN End(b, "outpaced") ELSE Goto(b, then[b])
    /\ UNCHANGED <<hardLinks, lock, local>>

\* releaseBreakMutex, in the finally of withStaleBreakMutex.
LetGo(b) ==
    /\ pc[b] = "letGo"
    /\ mutex' = IF mutex = b THEN NoFile ELSE mutex
    /\ IF then[b] = "outpaced" THEN End(b, "outpaced") ELSE Goto(b, then[b])
    /\ UNCHANGED <<hardLinks, lock, local>>

\* readLockHolderSettled: an illegible lock is read again before it is judged.
ReadHolder(b) ==
    /\ pc[b] = "read"
    /\ seen' = [seen EXCEPT ![b] = lock]
    /\ IF ~Legible(lock) /\ tries[b] < RecheckPasses
       THEN tries' = [tries EXCEPT ![b] = @ + 1] /\ UNCHANGED <<table, pc>>
       ELSE tries' = [tries EXCEPT ![b] = 0] /\ Goto(b, "judge")
    /\ UNCHANGED <<hardLinks, files, errand, then, pass>>

\* acquireInstanceLock: is the pid in the record alive, and not our own?
JudgeHolder(b) ==
    /\ pc[b] = "judge"
    /\ IF Legible(seen[b]) /\ table[seen[b].pid] \notin {Nobody, b}
       THEN Goto(b, "identify") /\ UNCHANGED errand
       ELSE Goto(b, "await") /\ errand' = [errand EXCEPT ![b] = "verify"]
    /\ UNCHANGED <<hardLinks, files, then, seen, tries, pass>>

\* describePid: nothing to read when the process is gone by now.
Described(p) == IF Readable /\ table[p] # Nobody THEN Command(table[p]) ELSE Unreadable

\* Fault variant: a live pid is the holder, whatever it runs.
NeverReused(rec) == FALSE

\* refuseLiveEncoder: the pid number belongs to some other program by now.
Reused(rec) ==
    LET live == Described(rec.pid)
    IN  /\ live # Unreadable
        /\ IF rec.cmd = Unreadable THEN live \notin EncoderCommands ELSE live # rec.cmd

\* refuseLiveEncoder: a matching identity, or none to compare, is a conflict.
IdentifyHolder(b) ==
    /\ pc[b] = "identify"
    /\ IF Reused(seen[b])
       THEN Goto(b, "await") /\ errand' = [errand EXCEPT ![b] = "verify"]
       ELSE End(b, "refused") /\ UNCHANGED errand
    /\ UNCHANGED <<hardLinks, files, then, seen, tries, pass>>

\* Fault variant: the lock is broken unread.
BreakUnverified(b) ==
    /\ pc[b] = "verify"
    /\ then' = [then EXCEPT ![b] = IF pass[b] >= BreakPasses THEN "outpaced" ELSE "await"]
    /\ errand' = [errand EXCEPT ![b] = "link"]
    /\ pass' = [pass EXCEPT ![b] = @ + 1]
    /\ Goto(b, "unlink")
    /\ UNCHANGED <<hardLinks, files, seen, tries>>

\* breakStaleLock: read the lock again under the mutex; only the very text that
\* was judged stale is removed.
VerifyStale(b) ==
    /\ pc[b] = "verify"
    /\ then' = [then EXCEPT ![b] = IF pass[b] >= BreakPasses THEN "outpaced" ELSE "await"]
    /\ errand' = [errand EXCEPT ![b] = "link"]
    /\ pass' = [pass EXCEPT ![b] = @ + 1]
    /\ Goto(b, IF lock # NoFile /\ lock = seen[b] THEN "unlink" ELSE "letGo")
    /\ UNCHANGED <<hardLinks, files, seen, tries>>

UnlinkStale(b) ==
    /\ pc[b] = "unlink"
    /\ lock' = NoFile
    /\ Goto(b, "letGo")
    /\ UNCHANGED <<hardLinks, mutex, local>>

\* lockReleaser on exit or signal: read the lock, and if it is ours ...
ReadOwnLock(b) ==
    /\ pc[b] = "serving"
    /\ Goto(b, IF Legible(lock) /\ lock.token = b THEN "releasing" ELSE "leaving")
    /\ UNCHANGED <<hardLinks, files, local>>

\* ... remove it; the process dies of the signal a moment later.
UnlinkOwnLock(b) ==
    /\ pc[b] = "releasing"
    /\ lock' = NoFile
    /\ Goto(b, "leaving")
    /\ UNCHANGED <<hardLinks, mutex, local>>

Leave(b) ==
    /\ pc[b] = "leaving"
    /\ End(b, "gone")
    /\ UNCHANGED <<hardLinks, files, local>>

Kill(b) ==
    /\ pc[b] \in Running
    /\ End(b, "dead")
    /\ UNCHANGED <<hardLinks, files, local>>

\* The rest of the host: other programs come and go, the old encoder dies, and the
\* operator clears a mutex nobody will, as the error message says.
StrangerStarts ==
    /\ \E p \in Pids : table[p] = Nobody /\ table' = [table EXCEPT ![p] = Stranger]
    /\ UNCHANGED <<hardLinks, files, pc, local>>

StrangerEnds ==
    /\ \E p \in Pids : table[p] = Stranger /\ table' = [table EXCEPT ![p] = Nobody]
    /\ UNCHANGED <<hardLinks, files, pc, local>>

OldEncoderDies ==
    /\ \E p \in Pids : table[p] = OldEncoder /\ table' = [table EXCEPT ![p] = Nobody]
    /\ UNCHANGED <<hardLinks, files, pc, local>>

OperatorClearsMutex ==
    /\ mutex # NoFile /\ \A b \in Boots : pc[b] \notin Starting
    /\ mutex' = NoFile
    /\ UNCHANGED <<table, hardLinks, lock, pc, local>>

Acquire(b) ==
    \/ CreateMutex(b) \/ AwaitMutex(b) \/ MarkMutex(b) \/ LinkRecord(b) \/ CreateLock(b) \/ WriteLock(b)
    \/ LetGo(b) \/ ReadHolder(b) \/ JudgeHolder(b) \/ IdentifyHolder(b) \/ VerifyStale(b) \/ UnlinkStale(b)

Release(b) == ReadOwnLock(b) \/ UnlinkOwnLock(b) \/ Leave(b)

Next ==
    \/ \E b \in Boots : Start(b) \/ Acquire(b) \/ Release(b) \/ Kill(b)
    \/ StrangerStarts \/ StrangerEnds \/ OldEncoderDies \/ OperatorClearsMutex

Spec == Init /\ [][Next]_vars

\* A live process is scheduled until it serves: the acquisition is synchronous.
FairSpec == Spec /\ \A b \in Boots : WF_vars(Acquire(b))

-----------------------------------------------------------------------------

Locks == {NoFile, Blank} \cup Records

\* The types, and the bounds of the two loops: no boot breaks locks more often
\* than BREAK_PASSES allows (stale_lock_breaker.js:55).
TypeOK ==
    /\ table \in [Pids -> Boots \cup {Nobody, Stranger, OldEncoder}]
    /\ hardLinks \in BOOLEAN
    /\ lock \in Locks
    /\ seen \in [Boots -> Locks]
    /\ mutex \in {NoFile, Blank} \cup Boots
    /\ pc \in [Boots -> {"off"} \cup Running \cup Stopped]
    /\ errand \in [Boots -> {"link", "verify"}]
    /\ then \in [Boots -> {"serving", "read", "await", "outpaced"}]
    /\ tries \in [Boots -> 0 .. (MutexWaitPasses + RecheckPasses)]
    /\ pass \in [Boots -> 0 .. (BreakPasses + 1)]

Holding(b) == pc[b] \in {"serving", "releasing"}

OldEncoderRuns == \E p \in Pids : table[p] = OldEncoder

\* Two encoders never serve one host: acquireInstanceLock lets a boot through
\* only while no other boot, and no running encoder of an older release, holds
\* the lock (lines 287-315).  Breaking a lock that was judged some time ago is
\* what could let two through.
OneHolder ==
    /\ \A b, c \in Boots : Holding(b) /\ Holding(c) => b = c
    /\ OldEncoderRuns => \A b \in Boots : ~Holding(b)

\* Whoever serves is the one the lock file names: no breaker and no exiting
\* instance ever removes the lock of a live owner (the two windows that the
\* comments at single_instance_guard.js:148-149 and 254-257 speak of).
HolderNamedInLock == \A b \in Boots : Holding(b) => lock = OwnRecord(b)

\* One encoder to a host, and the lock file says which: the two facts hold each
\* other up, and both need the lock, the mutex and the pids to be of their types.
OneNamedHolder == TypeOK /\ OneHolder /\ HolderNamedInLock

UnderMutex == {"mark", "link", "write", "verify", "unlink", "letGo"}

\* The break mutex outlives only a process that was killed while it held it: a
\* boot that loses, is refused or is outpaced leaves no .break file behind to
\* stop every later boot (stale_lock_breaker.js:40-44).
NoAbandonedMutex ==
    mutex \in Boots => pc[mutex] \in UnderMutex \cup {"dead"}

\* A boot is never left hanging: with the lock, the mutex and the pids in
\* whatever state, it serves or gives up (the bounds of acquireBreakMutex,
\* readLockHolderSettled and breakStaleLock together).
Settles == \A b \in Boots : (pc[b] \in Starting) ~> (pc[b] \notin Starting)

Alone(b) == ~OldEncoderRuns /\ \A c \in Boots \ {b} : pc[c] \notin Running

\* The wedge the guard was rewritten for does not return: an encoder restarted
\* alone serves, whatever lock an earlier one left and whoever got its pid
\* since.  The one exception is a pid that vanishes between isPidAlive and
\* describePid, where refuseLiveEncoder errs on the safe side.
RestartServes ==
    \A b \in Boots :
        (pc[b] = "await" /\ pass[b] = 0 /\ errand[b] = "link" /\ mutex = NoFile /\ Alone(b) /\ Readable)
            ~> \/ Holding(b) \/ pc[b] = "dead" \/ ~Alone(b)
               \/ pc[b] = "refused" /\ table[seen[b].pid] = Nobody

\* No start is in vain: every boot ends in an answer, and one that has the host to
\* itself ends in serving.
BootsServeOrEnd == Settles /\ RestartServes
=============================================================================
