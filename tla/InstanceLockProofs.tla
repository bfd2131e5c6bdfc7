------------------------- MODULE InstanceLockProofs -------------------------
(***************************************************************************)
(* Proofs about InstanceLock, for any boots, pids and bounds of the loops. *)
(*                                                                         *)
(* OneNamedHolder is not inductive: a breaker acts on what it read and     *)
(* judged several steps ago.  What carries it is that a judgement cannot   *)
(* go bad: a boot leaves its record once, when it has its right to serve,  *)
(* so a record whose writer is gone stays stale for ever (Stale), and one  *)
(* whose writer runs still names its pid and command (Signed).  The mutex  *)
(* keeps the lock as the breaker verified it until it is removed.          *)
(***************************************************************************)
EXTENDS InstanceLock, TLAPS

Runs(b) == pc[b] \in Running

\* Nobody runs under two pids, and those who have one run.
PidsExact ==
    /\ \A p, q \in Pids : table[p] = table[q] /\ table[p] \in Boots => p = q
    /\ \A b \in Boots : Runs(b) <=> \E p \in Pids : table[p] = b

\* The mutex is the one boot's that works under it.
MutexExact ==
    /\ \A b \in Boots : pc[b] = "mark" => mutex = Blank
    /\ \A b \in Boots : pc[b] \in UnderMutex \ {"mark"} => mutex = b
    /\ \A b, c \in Boots : pc[b] = "mark" /\ pc[c] = "mark" => b = c

\* b has put its record in place.
Published(b) ==
    \/ pc[b] \in {"serving", "releasing", "leaving", "gone", "dead"}
    \/ pc[b] = "letGo" /\ then[b] = "serving"

\* A boot that runs can be told by the record it has left.
Signed(rec) ==
    \A b \in Boots : Legible(rec) /\ rec.token = b =>
        /\ Published(b)
        /\ Runs(b) => table[rec.pid] = b

\* Nobody who could own this record runs, now or later.
Stale(rec) ==
    Legible(rec) => /\ rec.token \in Boots => ~Runs(rec.token)
                    /\ rec.token = Nobody => table[rec.pid] # OldEncoder

\* b has judged the lock it saw, and goes to break it.
Judged(b) ==
    \/ pc[b] \in {"await", "mark"} /\ errand[b] = "verify"
    \/ pc[b] \in {"verify", "unlink"}

Owner(b) == Legible(lock) /\ lock.token = b

\* The lock at the steps where somebody relies on it.
LockExact ==
    /\ \A b \in Boots : Holding(b) \/ (pc[b] = "letGo" /\ then[b] = "serving") => Owner(b)
    /\ \A b \in Boots : pc[b] = "write" => lock = Blank /\ then[b] = "serving"
    /\ \A b \in Boots : pc[b] = "unlink" =>
          lock \in {NoFile, seen[b]} /\ then[b] \in {"await", "outpaced"}
    /\ \A p \in Pids : table[p] = OldEncoder => Owner(Nobody) /\ lock.pid = p

\* A boot begins with publishing, and so it does after a break, or it is out of
\* passes and has nothing left to do but let go.
PassesCounted ==
    /\ \A b \in Boots : pc[b] = "off" => errand[b] = "link"
    /\ \A b \in Boots : pc[b] \in {"unlink", "letGo"} /\ then[b] = "await" => errand[b] = "link"
    /\ \A b \in Boots : pass[b] > BreakPasses =>
          \/ pc[b] \in Stopped
          \/ pc[b] \in {"unlink", "letGo"} /\ then[b] = "outpaced"

Judgements == \A b \in Boots : Signed(seen[b]) /\ (Judged(b) => Stale(seen[b]))

LockInv ==
    /\ TypeOK
    /\ PidsExact
    /\ MutexExact
    /\ Signed(lock)
    /\ Judgements
    /\ LockExact
    /\ PassesCounted
    /\ NoAbandonedMutex

-----------------------------------------------------------------------------
(* Records, and the one a boot writes.                                      *)

\* A lock that can be read is a record of an old release or of a boot.
LEMMA RecordFields ==
  ASSUME NEW rec \in Locks, Legible(rec)
  PROVE  /\ rec \in Records /\ rec.pid \in Pids
         /\ \/ rec.token = Nobody /\ rec.cmd \in {Unreadable, OldCommand}
            \/ rec.token \in Boots /\ rec.cmd = CommandOf[rec.token]
  BY DEF Locks, Legible, Records, LegacyRecords, Record

\* A record is never an empty or missing file.
LEMMA RecordsLegible ==
  ASSUME NEW rec \in Records
  PROVE  rec \in Locks /\ Legible(rec)
  BY InstanceLockAssumption DEF Locks, Legible

\* What publishLock writes names the process that writes it.
LEMMA OwnRecordFields ==
  ASSUME PidsExact, NEW b \in Boots, Runs(b)
  PROVE  /\ OwnRecord(b) \in Records
         /\ OwnRecord(b).token = b
         /\ table[OwnRecord(b).pid] = b
<1>1. PidOf(b) \in Pids /\ table[PidOf(b)] = b
  BY DEF PidOf, PidsExact
<1>. QED
  BY <1>1 DEF OwnRecord, Record, Records

\* A step that neither starts a writer nor moves one that runs, and that revives
\* no old encoder, leaves every record as it was judged.
LEMMA JudgementsLast ==
  ASSUME TypeOK, NEW rec \in Locks, Signed(rec),
         \A c \in Boots : Published(c) =>
            Published(c)' /\ (Runs(c)' => Runs(c) /\ \A p \in Pids : table[p] = c => table'[p] = c),
         \A p \in Pids : table'[p] = OldEncoder => table[p] = OldEncoder
  PROVE  Signed(rec)' /\ (Stale(rec) => Stale(rec)')
<1>1. Signed(rec)'
  BY RecordFields DEF Signed, Legible
<1>2. ASSUME Stale(rec) PROVE Stale(rec)'
  BY <1>2, RecordFields DEF Stale, Signed, Legible
<1>. QED
  BY <1>1, <1>2

-----------------------------------------------------------------------------
(* Every step keeps the invariant, one part of it at a time.                 *)

\* The types, and the passes of the acquisition loop.
LEMMA TypeStep ==
  ASSUME LockInv, [Next]_vars
  PROVE  TypeOK' /\ PassesCounted'
<1>. USE DEF LockInv, Running, Starting, Stopped, Goto, End, files, local, TypeOK, Locks,
        PassesCounted, PidsExact, LockExact, Runs
<1>1. ASSUME NEW b \in Boots, Start(b)
      PROVE  TypeOK' /\ PassesCounted'
  BY <1>1, InstanceLockAssumption DEF Start
<1>2. ASSUME NEW b \in Boots, CreateMutex(b) \/ AwaitMutex(b) \/ MarkMutex(b)
      PROVE  TypeOK' /\ PassesCounted'
  BY <1>2, InstanceLockAssumption DEF CreateMutex, AwaitMutex, MarkMutex
<1>3. ASSUME NEW b \in Boots, LinkRecord(b) \/ CreateLock(b) \/ WriteLock(b)
      PROVE  TypeOK' /\ PassesCounted'
  BY <1>3, InstanceLockAssumption, OwnRecordFields, RecordsLegible DEF LinkRecord, CreateLock,
     WriteLock
<1>4. ASSUME NEW b \in Boots, LetGo(b)
      PROVE  TypeOK' /\ PassesCounted'
  BY <1>4, InstanceLockAssumption DEF LetGo
<1>5. ASSUME NEW b \in Boots, ReadHolder(b) \/ JudgeHolder(b)
      PROVE  TypeOK' /\ PassesCounted'
  BY <1>5, InstanceLockAssumption DEF ReadHolder, JudgeHolder
<1>6. ASSUME NEW b \in Boots, IdentifyHolder(b)
      PROVE  TypeOK' /\ PassesCounted'
  BY <1>6, InstanceLockAssumption DEF IdentifyHolder
<1>7. ASSUME NEW b \in Boots, VerifyStale(b) \/ UnlinkStale(b)
      PROVE  TypeOK' /\ PassesCounted'
  BY <1>7, InstanceLockAssumption DEF VerifyStale, UnlinkStale
<1>8. ASSUME NEW b \in Boots, ReadOwnLock(b) \/ UnlinkOwnLock(b) \/ Leave(b) \/ Kill(b)
      PROVE  TypeOK' /\ PassesCounted'
  BY <1>8, InstanceLockAssumption DEF ReadOwnLock, UnlinkOwnLock, Leave, Kill
<1>9. CASE StrangerStarts \/ StrangerEnds \/ OldEncoderDies \/ OperatorClearsMutex
  BY <1>9, InstanceLockAssumption DEF StrangerStarts, StrangerEnds, OldEncoderDies,
     OperatorClearsMutex
<1>10. CASE UNCHANGED vars
  BY <1>10 DEF vars
<1>. QED
  BY <1>1, <1>2, <1>3, <1>4, <1>5, <1>6, <1>7, <1>8, <1>9, <1>10 DEF Next, Acquire, Release

\* A process gets a free pid and gives back the one it has.
LEMMA PidsStep ==
  ASSUME LockInv, [Next]_vars
  PROVE  PidsExact'
<1>. USE DEF LockInv, Running, Starting, Stopped, Goto, End, files, local, TypeOK, PidsExact, Runs
<1>1. ASSUME NEW b \in Boots, Start(b)
      PROVE  PidsExact'
  BY <1>1, InstanceLockAssumption DEF Start
<1>2. ASSUME NEW b \in Boots, CreateMutex(b) \/ AwaitMutex(b) \/ MarkMutex(b)
      PROVE  PidsExact'
  BY <1>2, InstanceLockAssumption DEF CreateMutex, AwaitMutex, MarkMutex
<1>3. ASSUME NEW b \in Boots, LinkRecord(b) \/ CreateLock(b) \/ WriteLock(b)
      PROVE  PidsExact'
  BY <1>3, InstanceLockAssumption DEF LinkRecord, CreateLock, WriteLock
<1>4. ASSUME NEW b \in Boots, LetGo(b)
      PROVE  PidsExact'
  BY <1>4, InstanceLockAssumption DEF LetGo
<1>5. ASSUME NEW b \in Boots, ReadHolder(b) \/ JudgeHolder(b)
      PROVE  PidsExact'
  BY <1>5, InstanceLockAssumption DEF ReadHolder, JudgeHolder
<1>6. ASSUME NEW b \in Boots, IdentifyHolder(b)
      PROVE  PidsExact'
  BY <1>6, InstanceLockAssumption DEF IdentifyHolder
<1>7. ASSUME NEW b \in Boots, VerifyStale(b) \/ UnlinkStale(b)
      PROVE  PidsExact'
  BY <1>7, InstanceLockAssumption DEF VerifyStale, UnlinkStale
<1>8. ASSUME NEW b \in Boots, ReadOwnLock(b) \/ UnlinkOwnLock(b) \/ Leave(b) \/ Kill(b)
      PROVE  PidsExact'
  BY <1>8, InstanceLockAssumption DEF ReadOwnLock, UnlinkOwnLock, Leave, Kill
<1>9. CASE StrangerStarts \/ StrangerEnds \/ OldEncoderDies \/ OperatorClearsMutex
  BY <1>9, InstanceLockAssumption DEF StrangerStarts, StrangerEnds, OldEncoderDies,
     OperatorClearsMutex
<1>10. CASE UNCHANGED vars
  BY <1>10 DEF vars
<1>. QED
  BY <1>1, <1>2, <1>3, <1>4, <1>5, <1>6, <1>7, <1>8, <1>9, <1>10 DEF Next, Acquire, Release

\* Only the holder of the mutex lets go of it, and none leaves without.
LEMMA MutexStep ==
  ASSUME LockInv, [Next]_vars
  PROVE  MutexExact' /\ NoAbandonedMutex'
<1>. USE DEF LockInv, Running, Starting, Stopped, Goto, End, files, local, TypeOK, MutexExact,
        NoAbandonedMutex, UnderMutex
<1>1. ASSUME NEW b \in Boots, Start(b)
      PROVE  MutexExact' /\ NoAbandonedMutex'
  BY <1>1, InstanceLockAssumption DEF Start
<1>2. ASSUME NEW b \in Boots, CreateMutex(b) \/ AwaitMutex(b) \/ MarkMutex(b)
      PROVE  MutexExact' /\ NoAbandonedMutex'
  BY <1>2, InstanceLockAssumption DEF CreateMutex, AwaitMutex, MarkMutex
<1>3. ASSUME NEW b \in Boots, LinkRecord(b) \/ CreateLock(b) \/ WriteLock(b)
      PROVE  MutexExact' /\ NoAbandonedMutex'
  BY <1>3, InstanceLockAssumption DEF LinkRecord, CreateLock, WriteLock
<1>4. ASSUME NEW b \in Boots, LetGo(b)
      PROVE  MutexExact' /\ NoAbandonedMutex'
  BY <1>4, InstanceLockAssumption DEF LetGo
<1>5. ASSUME NEW b \in Boots, ReadHolder(b) \/ JudgeHolder(b)
      PROVE  MutexExact' /\ NoAbandonedMutex'
  BY <1>5, InstanceLockAssumption DEF ReadHolder, JudgeHolder
<1>6. ASSUME NEW b \in Boots, IdentifyHolder(b)
      PROVE  MutexExact' /\ NoAbandonedMutex'
  BY <1>6, InstanceLockAssumption DEF IdentifyHolder
<1>7. ASSUME NEW b \in Boots, VerifyStale(b) \/ UnlinkStale(b)
      PROVE  MutexExact' /\ NoAbandonedMutex'
  BY <1>7, InstanceLockAssumption DEF VerifyStale, UnlinkStale
<1>8. ASSUME NEW b \in Boots, ReadOwnLock(b) \/ UnlinkOwnLock(b) \/ Leave(b) \/ Kill(b)
      PROVE  MutexExact' /\ NoAbandonedMutex'
  BY <1>8, InstanceLockAssumption DEF ReadOwnLock, UnlinkOwnLock, Leave, Kill
<1>9. CASE StrangerStarts \/ StrangerEnds \/ OldEncoderDies \/ OperatorClearsMutex
  BY <1>9, InstanceLockAssumption DEF StrangerStarts, StrangerEnds, OldEncoderDies,
     OperatorClearsMutex
<1>10. CASE UNCHANGED vars
  BY <1>10 DEF vars
<1>. QED
  BY <1>1, <1>2, <1>3, <1>4, <1>5, <1>6, <1>7, <1>8, <1>9, <1>10 DEF Next, Acquire, Release

\* The record in the lock is of a boot that may serve, under its own pid.
LEMMA SignedStep ==
  ASSUME LockInv, [Next]_vars
  PROVE  Signed(lock)'
<1>. USE DEF LockInv, Running, Starting, Stopped, Goto, End, files, local, TypeOK, PidsExact,
        Signed, Published, LockExact, MutexExact, Owner, Legible, Runs, UnderMutex
<1>1. ASSUME NEW b \in Boots, Start(b)
      PROVE  Signed(lock)'
  BY <1>1, InstanceLockAssumption, RecordFields DEF Start
<1>2. ASSUME NEW b \in Boots, CreateMutex(b) \/ AwaitMutex(b) \/ MarkMutex(b)
      PROVE  Signed(lock)'
  BY <1>2, InstanceLockAssumption, RecordFields DEF CreateMutex, AwaitMutex, MarkMutex
<1>3. ASSUME NEW b \in Boots, LinkRecord(b) \/ CreateLock(b) \/ WriteLock(b)
      PROVE  Signed(lock)'
  BY <1>3, InstanceLockAssumption, RecordFields, OwnRecordFields, RecordsLegible DEF LinkRecord,
     CreateLock, WriteLock
<1>4. ASSUME NEW b \in Boots, LetGo(b)
      PROVE  Signed(lock)'
  BY <1>4, InstanceLockAssumption, RecordFields DEF LetGo
<1>5. ASSUME NEW b \in Boots, ReadHolder(b) \/ JudgeHolder(b)
      PROVE  Signed(lock)'
  BY <1>5, InstanceLockAssumption, RecordFields DEF ReadHolder, JudgeHolder
<1>6. ASSUME NEW b \in Boots, IdentifyHolder(b)
      PROVE  Signed(lock)'
  BY <1>6, InstanceLockAssumption, RecordFields DEF IdentifyHolder
<1>7. ASSUME NEW b \in Boots, VerifyStale(b) \/ UnlinkStale(b)
      PROVE  Signed(lock)'
  BY <1>7, InstanceLockAssumption, RecordFields DEF VerifyStale, UnlinkStale
<1>8. ASSUME NEW b \in Boots, ReadOwnLock(b) \/ UnlinkOwnLock(b) \/ Leave(b) \/ Kill(b)
      PROVE  Signed(lock)'
  BY <1>8, InstanceLockAssumption, RecordFields DEF ReadOwnLock, UnlinkOwnLock, Leave, Kill
<1>9. CASE StrangerStarts \/ StrangerEnds \/ OldEncoderDies \/ OperatorClearsMutex
  BY <1>9, InstanceLockAssumption, RecordFields DEF StrangerStarts, StrangerEnds, OldEncoderDies,
     OperatorClearsMutex
<1>10. CASE UNCHANGED vars
  BY <1>10 DEF vars
<1>. QED
  BY <1>1, <1>2, <1>3, <1>4, <1>5, <1>6, <1>7, <1>8, <1>9, <1>10 DEF Next, Acquire, Release

\* What was judged stale stays stale until it is acted on.
LEMMA JudgementStep ==
  ASSUME LockInv, [Next]_vars
  PROVE  Judgements'
<1>. USE DEF LockInv, Running, Starting, Stopped, Goto, End, files, local, TypeOK, PidsExact,
        Judgements
<1>1. ASSUME NEW b \in Boots, Start(b)
      PROVE  Judgements'
  <2>1. pc[b] = "off" /\ pc' = [pc EXCEPT ![b] = "await"] /\ UNCHANGED <<errand, then, seen>>
    BY <1>1 DEF Start
  <2>2. PICK p \in Pids : table[p] = Nobody /\ table' = [table EXCEPT ![p] = b]
    BY <1>1 DEF Start
  <2>3. \A c \in Boots : Published(c) =>
           Published(c)' /\ (Runs(c)' => Runs(c) /\ \A q \in Pids : table[q] = c => table'[q] = c)
    BY <2>1, <2>2, InstanceLockAssumption DEF Published, Runs
  <2>4. \A q \in Pids : table'[q] = OldEncoder => table[q] = OldEncoder
    BY <2>2, InstanceLockAssumption
  <2>5. \A c \in Boots : Signed(seen[c])' /\ (Stale(seen[c]) => Stale(seen[c])')
    BY <2>1, <2>3, <2>4, JudgementsLast
  <2>6. \A c \in Boots : Judged(c)' => Judged(c)
    BY <2>1 DEF Judged, PassesCounted
  <2>. QED
    BY <2>1, <2>5, <2>6
<1>2. ASSUME NEW b \in Boots, CreateMutex(b) \/ AwaitMutex(b) \/ MarkMutex(b)
      PROVE  Judgements'
  BY <1>2, InstanceLockAssumption, RecordFields DEF Judged, Stale, Signed, Published, Owner,
     Legible, Runs, Locks, CreateMutex, AwaitMutex, MarkMutex
<1>3. ASSUME NEW b \in Boots, LinkRecord(b) \/ CreateLock(b) \/ WriteLock(b)
      PROVE  Judgements'
  BY <1>3, InstanceLockAssumption, RecordFields, OwnRecordFields, RecordsLegible DEF Judged,
     Stale, Signed, Published, Owner, Legible, Runs, Locks, LinkRecord, CreateLock, WriteLock
<1>4. ASSUME NEW b \in Boots, LetGo(b)
      PROVE  Judgements'
  <2>1. /\ pc[b] = "letGo" /\ UNCHANGED <<errand, then, seen>>
        /\ pc' = [pc EXCEPT ![b] = then[b]]
        /\ \/ UNCHANGED table
           \/ /\ then[b] = "outpaced"
              /\ table' = [p \in Pids |-> IF table[p] = b THEN Nobody ELSE table[p]]
    BY <1>4 DEF LetGo
  <2>2. \A c \in Boots : Published(c) =>
           Published(c)' /\ (Runs(c)' => Runs(c) /\ \A q \in Pids : table[q] = c => table'[q] = c)
    BY <2>1 DEF Published, Runs
  <2>3. \A q \in Pids : table'[q] = OldEncoder => table[q] = OldEncoder
    BY <2>1, InstanceLockAssumption
  <2>4. \A c \in Boots : Signed(seen[c])' /\ (Stale(seen[c]) => Stale(seen[c])')
    BY <2>1, <2>2, <2>3, JudgementsLast
  <2>5. \A c \in Boots : Judged(c)' => Judged(c)
    BY <2>1 DEF Judged, PassesCounted
  <2>. QED
    BY <2>1, <2>4, <2>5
<1>5. ASSUME NEW b \in Boots, ReadHolder(b) \/ JudgeHolder(b)
      PROVE  Judgements'
  BY <1>5, InstanceLockAssumption, RecordFields DEF Judged, Stale, Signed, Published, Owner,
     Legible, Runs, Locks, ReadHolder, JudgeHolder
<1>6. ASSUME NEW b \in Boots, IdentifyHolder(b)
      PROVE  Judgements'
  <2>1. seen' = seen /\ pc[b] = "identify"
    BY <1>6 DEF IdentifyHolder
  <2>2. /\ \A c \in Boots : Published(c) =>
           Published(c)' /\ (Runs(c)' => Runs(c) /\ \A q \in Pids : table[q] = c => table'[q] = c)
        /\ \A q \in Pids : table'[q] = OldEncoder => table[q] = OldEncoder
    BY <1>6, InstanceLockAssumption DEF IdentifyHolder, Published, Runs
  <2>3. \A c \in Boots : Signed(seen[c])' /\ (Stale(seen[c]) => Stale(seen[c])')
    BY <2>1, <2>2, JudgementsLast
  <2>4. ASSUME Reused(seen[b]), Legible(seen[b]) PROVE Stale(seen[b])
    <3>1. /\ seen[b].pid \in Pids
          /\ \/ seen[b].token = Nobody /\ seen[b].cmd \in {Unreadable, OldCommand}
             \/ seen[b].token \in Boots /\ seen[b].cmd = CommandOf[seen[b].token]
      BY <2>4, RecordFields
    <3>2. ASSUME seen[b].token \in Boots, Runs(seen[b].token) PROVE FALSE
      <4>1. table[seen[b].pid] = seen[b].token /\ seen[b].cmd = CommandOf[seen[b].token]
        BY <2>4, <3>1, <3>2, InstanceLockAssumption DEF Signed
      <4>. QED
        BY <2>4, <3>2, <4>1, InstanceLockAssumption DEF Reused, Described, Command, EncoderCommands
    <3>3. ASSUME seen[b].token = Nobody, table[seen[b].pid] = OldEncoder PROVE FALSE
      BY <2>4, <3>1, <3>3, InstanceLockAssumption DEF Reused, Described, Command, EncoderCommands
    <3>. QED
      BY <3>2, <3>3 DEF Stale
  <2>5. \A c \in Boots : c # b /\ Judged(c)' => Judged(c)
    BY <1>6 DEF IdentifyHolder, Judged
  <2>6. Judged(b)' => Reused(seen[b])
    BY <1>6 DEF IdentifyHolder, Judged
  <2>7. \A c \in Boots : Judged(c)' => Stale(seen[c])
    BY <2>4, <2>5, <2>6 DEF Stale
  <2>. QED
    BY <2>1, <2>3, <2>7
<1>7. ASSUME NEW b \in Boots, VerifyStale(b) \/ UnlinkStale(b)
      PROVE  Judgements'
  BY <1>7, InstanceLockAssumption, RecordFields DEF Judged, Stale, Signed, Published, Owner,
     Legible, Runs, Locks, VerifyStale, UnlinkStale
<1>8. ASSUME NEW b \in Boots, ReadOwnLock(b) \/ UnlinkOwnLock(b) \/ Leave(b) \/ Kill(b)
      PROVE  Judgements'
  BY <1>8, InstanceLockAssumption, RecordFields DEF Judged, Stale, Signed, Published, Owner,
     Legible, Runs, Locks, ReadOwnLock, UnlinkOwnLock, Leave, Kill
<1>9. CASE StrangerStarts \/ StrangerEnds \/ OldEncoderDies \/ OperatorClearsMutex
  BY <1>9, InstanceLockAssumption, RecordFields DEF Judged, Stale, Signed, Published, Owner,
     Legible, Runs, Locks, StrangerStarts, StrangerEnds, OldEncoderDies, OperatorClearsMutex
<1>10. CASE UNCHANGED vars
  BY <1>10 DEF Judged, Stale, Signed, Published, Owner, Legible, Runs, Locks, vars
<1>. QED
  BY <1>1, <1>2, <1>3, <1>4, <1>5, <1>6, <1>7, <1>8, <1>9, <1>10 DEF Next, Acquire, Release

\* The lock is the owner's while it serves, and as the breaker found it until it is removed.
LEMMA LockStep ==
  ASSUME LockInv, [Next]_vars
  PROVE  LockExact'
<1>. USE DEF LockInv, Running, Starting, Stopped, Goto, End, files, local, TypeOK, PidsExact,
        MutexExact, LockExact, Judgements, Judged, Stale, Signed, Published, Owner, Holding,
        Legible, Runs, UnderMutex
<1>1. ASSUME NEW b \in Boots, Start(b)
      PROVE  LockExact'
  BY <1>1, InstanceLockAssumption, RecordFields DEF Start
<1>2. ASSUME NEW b \in Boots, CreateMutex(b) \/ AwaitMutex(b) \/ MarkMutex(b)
      PROVE  LockExact'
  BY <1>2, InstanceLockAssumption, RecordFields DEF CreateMutex, AwaitMutex, MarkMutex
<1>3. ASSUME NEW b \in Boots, LinkRecord(b) \/ CreateLock(b) \/ WriteLock(b)
      PROVE  LockExact'
  BY <1>3, InstanceLockAssumption, RecordFields, OwnRecordFields, RecordsLegible DEF LinkRecord,
     CreateLock, WriteLock
<1>4. ASSUME NEW b \in Boots, LetGo(b)
      PROVE  LockExact'
  BY <1>4, InstanceLockAssumption, RecordFields DEF LetGo
<1>5. ASSUME NEW b \in Boots, ReadHolder(b) \/ JudgeHolder(b)
      PROVE  LockExact'
  BY <1>5, InstanceLockAssumption, RecordFields DEF ReadHolder, JudgeHolder
<1>6. ASSUME NEW b \in Boots, IdentifyHolder(b)
      PROVE  LockExact'
  BY <1>6, InstanceLockAssumption, RecordFields DEF IdentifyHolder
<1>7. ASSUME NEW b \in Boots, VerifyStale(b) \/ UnlinkStale(b)
      PROVE  LockExact'
  BY <1>7, InstanceLockAssumption, RecordFields DEF VerifyStale, UnlinkStale
<1>8. ASSUME NEW b \in Boots, ReadOwnLock(b) \/ UnlinkOwnLock(b) \/ Leave(b) \/ Kill(b)
      PROVE  LockExact'
  BY <1>8, InstanceLockAssumption, RecordFields DEF ReadOwnLock, UnlinkOwnLock, Leave, Kill
<1>9. CASE StrangerStarts \/ StrangerEnds \/ OldEncoderDies \/ OperatorClearsMutex
  BY <1>9, InstanceLockAssumption, RecordFields DEF StrangerStarts, StrangerEnds, OldEncoderDies,
     OperatorClearsMutex
<1>10. CASE UNCHANGED vars
  BY <1>10 DEF vars
<1>. QED
  BY <1>1, <1>2, <1>3, <1>4, <1>5, <1>6, <1>7, <1>8, <1>9, <1>10 DEF Next, Acquire, Release

-----------------------------------------------------------------------------
(* The theorems.                                                            *)

\* A host before the first boot.
LEMMA InitiallyExact == Init => LockInv
<1>. SUFFICES ASSUME Init PROVE LockInv
  OBVIOUS
<1>. USE InstanceLockAssumption DEF Init
<1>1. TypeOK /\ PassesCounted /\ NoAbandonedMutex
  BY DEF TypeOK, PassesCounted, NoAbandonedMutex, Locks, Records, Running, Starting, Stopped
<1>2. PidsExact /\ MutexExact
  BY DEF PidsExact, MutexExact, Runs, Running, Starting, UnderMutex
<1>3. lock \in LegacyRecords => Legible(lock) /\ lock.token = Nobody /\ lock.pid \in Pids
  BY DEF LegacyRecords, Records, Record, Legible
<1>4. Signed(lock) /\ Judgements
  BY <1>3 DEF Signed, Judgements, Judged, Legible
<1>5. LockExact
  BY <1>3 DEF LockExact, Owner, Holding
<1>. QED
  BY <1>1, <1>2, <1>4, <1>5 DEF LockInv

\* The invariant holds of every behaviour.
LEMMA AlwaysExact == Spec => []LockInv
<1>1. LockInv /\ [Next]_vars => LockInv'
  BY TypeStep, PidsStep, MutexStep, SignedStep, JudgementStep, LockStep DEF LockInv
<1>. QED
  BY <1>1, InitiallyExact, PTL DEF Spec

\* The invariant is strong enough for what is promised.
LEMMA ExactNamesHolder == LockInv => OneNamedHolder
<1>. SUFFICES ASSUME LockInv PROVE OneNamedHolder
  OBVIOUS
<1>1. \A b \in Boots : Holding(b) => Owner(b) /\ lock \in Records /\ Runs(b)
  BY RecordFields DEF LockInv, LockExact, Owner, Holding, Runs, Running, TypeOK
<1>2. ASSUME NEW b \in Boots, Holding(b) PROVE lock = OwnRecord(b)
  <2>1. lock.token = b /\ lock.pid \in Pids /\ table[lock.pid] = b /\ lock.cmd = CommandOf[b]
    BY <1>1, <1>2, RecordFields, InstanceLockAssumption DEF LockInv, Signed, Owner, TypeOK
  <2>2. PidOf(b) = lock.pid
    BY <2>1 DEF PidOf, LockInv, PidsExact
  <2>. QED
    BY <1>1, <1>2, <2>1, <2>2 DEF OwnRecord, Records, LegacyRecords, Record
<1>3. OneHolder
  BY <1>1, InstanceLockAssumption DEF OneHolder, OldEncoderRuns, Owner, LockInv, LockExact
<1>. QED
  BY <1>2, <1>3 DEF OneNamedHolder, HolderNamedInLock, LockInv

\* At most one encoder serves a host, none beside an encoder of an older
\* release, and the lock file names it, however many boots race, are killed at
\* any file-system call and have their pids reused: acquireInstanceLock with
\* breakStaleLock and the release, on a mount with hard links or without.
THEOREM OneEncoderPerHost == Spec => []OneNamedHolder
<1>. QED
  BY AlwaysExact, ExactNamesHolder, PTL

\* A .break file is left only by a boot that was killed under it; refusal, a
\* lost race and the end of the passes all go through withStaleBreakMutex's
\* finally.
THEOREM MutexIsGivenBack == Spec => []NoAbandonedMutex
<1>1. LockInv => NoAbandonedMutex
  BY DEF LockInv
<1>. QED
  BY <1>1, AlwaysExact, PTL
=============================================================================
