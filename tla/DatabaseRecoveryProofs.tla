----------------------- MODULE DatabaseRecoveryProofs -----------------------
(***************************************************************************)
(* What is proved of the offline helper for any pages, uses, sizes, limits *)
(* and number of crashes: a page that is marked as applied is in the       *)
(* database, and the helper keeps the promise of RecoverableDatabase.      *)
(*                                                                         *)
(* The argument: the newest complete backup can always be read, a run that *)
(* has taken a backup and finds Cursor closed has seen nobody use the      *)
(* database since, and while Cursor is open the database is its memory.    *)
(***************************************************************************)
EXTENDS DatabaseRecovery, SequenceTheorems, WellFoundedInduction, TLAPS

Greatest(S, m) == m \in S /\ \A k \in S : k <= m

(* The files: metadata is written for whole archives only, and the newest  *)
(* complete backup can be read.                                            *)
FilesInv ==
    /\ \A b \in Ids : backups[b].meta => backups[b].ok /\ (backups[b].zip \/ ~backups[b].plain)
    /\ Complete # {} => \E m \in Complete : Greatest(Complete, m) /\ Readable(m)

(* What a run has done when it is at its next step.                        *)
RunInv ==
    /\ pc = "idle" => pin = {}
    /\ pin # {} => Complete # {}
    /\ pc \in {"replay", "retain", "settled", "committed", "mark"} => pin # {}
    /\ pc \in {"recover", "replay", "restore"} /\ mode = "restore" => request # 0
    /\ pc \in {"restore", "prepare"} => mode = "restore"
    /\ pc \in {"pages", "backup", "retain", "committed", "mark"} => mode = "apply"
    /\ pc \in {"backup", "retain", "settled"} /\ mode = "apply" =>
           \E p \in Page : applying.page = {p}
    /\ pc \in {"recover", "replay", "settled"} => mode # "none"
    /\ pc = "retain" => Len(backups) \in pin \cap Complete \cap Plain
    /\ pc = "prune" =>
           \E n \in Candidates :
              /\ Greatest(Candidates, n)
              /\ backups[n].ok /\ backups[n].zip /\ backups[n].meta

(* The backup an open journal of a restore names can still be read.        *)
RestoreInv ==
    /\ Open(restoring.status) => restoring.source # 0
    /\ pc = "replay" => Open(restoring.status) /\ Readable(restoring.source)
    /\ pc = "prepare" \/ (pc = "settled" /\ mode = "restore") =>
           Open(restoring.status) /\ Readable(restoring.source)

(* The database against Cursor's memory, the backups and the queue.        *)
DataInv ==
    /\ cursor = "open" => memory = db
    /\ cursor = "closed" /\ pin # {} => ~used
    /\ pc \in {"committed", "mark"} => applying.page \subseteq db
    /\ ~restored => Page \ queue \subseteq db

IInv == TypeOK /\ FilesInv /\ RunInv /\ RestoreInv /\ DataInv

-----------------------------------------------------------------------------
(* Numbers and backups.                                                    *)

(* The greatest element of a set of numbers is its Max.                    *)
LEMMA MaxIs ==
    ASSUME NEW S, S \subseteq Nat, NEW m, Greatest(S, m)
    PROVE  Max(S) = m
<1>1. \A x \in S : (\A y \in S : x >= y) => x = m
  BY DEF Greatest
<1>2. m \in S /\ \A y \in S : m >= y
  BY DEF Greatest
<1> QED BY <1>1, <1>2 DEF Max

(* A bounded set of numbers has a greatest element.                        *)
LEMMA HasGreatest ==
    ASSUME NEW n \in Nat, NEW S, S \subseteq 0..n, S # {}
    PROVE  \E m \in S : Greatest(S, m)
<1> DEFINE T == {x \in 0..n : n - x \in S}
           R == OpToRel(<, Nat)
<1>1. T \subseteq Nat
  OBVIOUS
<1>2. T # {}
  <2>1. PICK k \in S : k \in 0..n
    OBVIOUS
  <2>2. n - k \in 0..n /\ n - (n - k) = k
    BY <2>1
  <2> QED BY <2>1, <2>2
<1>3. IsWellFoundedOn(R, Nat)
  BY NatLessThanWellFounded
<1>4. \A y, x \in Nat : y < x => <<y, x>> \in R
  BY DEF OpToRel
<1>5. PICK x \in T : \A y \in T : ~ (<<y, x>> \in R)
  <2> HIDE DEF T, R
  <2> QED BY <1>1, <1>2, <1>3, WFMin
<1>6. \A y \in T : ~ (y < x)
  <2> HIDE DEF T, R
  <2> QED BY <1>1, <1>4, <1>5
<1>7. n - x \in S /\ x \in 0..n
  OBVIOUS
<1>8. ASSUME NEW k \in S PROVE k <= n - x
  <2>1. n - k \in 0..n /\ n - (n - k) = k /\ k \in 0..n
    OBVIOUS
  <2>2. n - k \in T
    BY <2>1
  <2> QED BY <1>6, <1>7, <2>1, <2>2
<1> QED BY <1>7, <1>8 DEF Greatest

(* The backups are numbered from 1.                                        *)
LEMMA BackupTypes ==
    ASSUME TypeOK
    PROVE  /\ Len(backups) \in Nat /\ Ids = 1..Len(backups)
           /\ \A b \in Ids : backups[b] \in BackupFile
  BY LenProperties, ElementOfSeq DEF TypeOK, Ids

(* What is said of the backups stays true as long as they stay as they are.*)
LEMMA SameFiles ==
    ASSUME UNCHANGED backups
    PROVE  /\ Ids' = Ids /\ Complete' = Complete /\ Plain' = Plain
           /\ \A b : Readable(b)' <=> Readable(b)
           /\ Contents' = Contents /\ Latest' = Latest
           /\ FilesInv => FilesInv'
<1>1. Ids' = Ids
  BY DEF Ids
<1>2. Complete' = Complete /\ Plain' = Plain
  BY <1>1 DEF Complete, Plain
<1>3. \A b : Readable(b)' <=> Readable(b)
  BY DEF Readable
<1>4. Contents' = Contents
  BY <1>1, <1>3 DEF Contents
<1>5. Latest' = Latest
  BY <1>2 DEF Latest
<1>6. FilesInv => FilesInv'
  BY <1>1, <1>2, <1>3 DEF FilesInv
<1> QED BY <1>1, <1>2, <1>3, <1>4, <1>5, <1>6

(* The newest complete backup is the latest copy.                          *)
LEMMA LatestIs ==
    ASSUME TypeOK, NEW m, Greatest(Complete, m)
    PROVE  Latest = backups[m].content
<1>1. Complete \subseteq Nat /\ m \in Complete
  BY BackupTypes DEF Complete, Greatest
<1> QED BY <1>1, MaxIs DEF Latest

(* A backup that is added whole is the latest and can be read.             *)
LEMMA AddedWhole ==
    ASSUME TypeOK, FilesInv, NEW b \in BackupFile, b.ok, b.plain, ~b.meta,
           backups' = Append(backups, b), TypeOK'
    PROVE  /\ Len(backups') = Len(backups) + 1
           /\ Ids \subseteq Ids' /\ \A i \in Ids : backups'[i] = backups[i]
           /\ \A i \in Ids : Readable(i) => Readable(i)'
           /\ Len(backups') \in Complete' /\ Len(backups') \in Plain'
           /\ Contents' = Contents \cup {b.content}
           /\ Latest' = b.content
           /\ FilesInv'
<1>0. Len(backups) \in Nat
  BY BackupTypes
<1> PICK n \in Nat : n = Len(backups) + 1
  BY <1>0
<1>1. /\ Len(backups') = n /\ Ids = 1..Len(backups) /\ Ids' = 1..n
      /\ Len(backups) \in Nat
      /\ \A i \in Ids : backups'[i] = backups[i]
      /\ backups'[n] = b
  <2>1. Len(backups') = n /\ \A i \in 1..Len(backups) : backups'[i] = backups[i]
    BY AppendProperties DEF TypeOK
  <2>2. backups'[n] = b
    BY AppendProperties DEF TypeOK
  <2>3. Len(backups) \in Nat /\ Ids = 1..Len(backups)
    BY BackupTypes
  <2>4. Ids' = 1..Len(backups')
    BY LenProperties DEF TypeOK, Ids
  <2> QED BY <2>1, <2>2, <2>3, <2>4
<1>2. Ids' = Ids \cup {n} /\ n \notin Ids
  BY <1>1
<1>3. /\ \A i \in Ids : Readable(i)' <=> Readable(i)
      /\ Readable(n)'
  BY <1>1 DEF Readable
<1>4. Complete' = Complete \cup {n} /\ n \in Plain'
  BY <1>1, <1>2 DEF Complete, Plain
<1>5. Contents' = Contents \cup {b.content}
  BY <1>1, <1>2, <1>3 DEF Contents
<1>6. Greatest(Complete, n)'
  BY <1>1, <1>4 DEF Greatest, Complete
<1>7. Latest' = b.content
  <2>1. Complete' \subseteq Nat /\ Complete' # {}
    BY <1>1, <1>4 DEF Complete
  <2>2. Max(Complete') = n
    BY <1>6, <2>1, MaxIs DEF Greatest
  <2> QED BY <1>1, <2>1, <2>2 DEF Latest
<1>8. FilesInv'
  BY <1>1, <1>2, <1>3, <1>4, <1>6 DEF FilesInv
<1> QED BY <1>1, <1>2, <1>3, <1>4, <1>5, <1>7, <1>8

(* A piece of a backup changes nothing that can be restored.               *)
LEMMA AddedPiece ==
    ASSUME TypeOK, FilesInv, NEW b \in BackupFile, ~b.ok, ~b.meta,
           backups' = Append(backups, b), TypeOK'
    PROVE  /\ Len(backups') = Len(backups) + 1
           /\ Ids \subseteq Ids' /\ Complete' = Complete
           /\ Contents' = Contents /\ Latest' = Latest
           /\ FilesInv'
<1>0. Len(backups) \in Nat
  BY BackupTypes
<1> PICK n \in Nat : n = Len(backups) + 1
  BY <1>0
<1>1. /\ Len(backups') = n /\ Ids = 1..Len(backups) /\ Ids' = 1..n
      /\ Len(backups) \in Nat
      /\ \A i \in Ids : backups'[i] = backups[i]
      /\ backups'[n] = b
  <2>1. Len(backups') = n /\ \A i \in 1..Len(backups) : backups'[i] = backups[i]
    BY AppendProperties DEF TypeOK
  <2>2. backups'[n] = b
    BY AppendProperties DEF TypeOK
  <2>3. Len(backups) \in Nat /\ Ids = 1..Len(backups)
    BY BackupTypes
  <2>4. Ids' = 1..Len(backups')
    BY LenProperties DEF TypeOK, Ids
  <2> QED BY <2>1, <2>2, <2>3, <2>4
<1>2. Ids' = Ids \cup {n} /\ n \notin Ids
  BY <1>1
<1>3. (\A i \in Ids : Readable(i)' <=> Readable(i)) /\ ~Readable(n)'
  BY <1>1 DEF Readable
<1>4. Complete' = Complete /\ Complete \subseteq Ids
  BY <1>1, <1>2 DEF Complete
<1>5. Contents' = Contents
  BY <1>1, <1>2, <1>3 DEF Contents
<1>6. Latest' = Latest
  <2>1. CASE Complete = {}
    BY <2>1, <1>4 DEF Latest
  <2>2. CASE Complete # {}
    <3>1. PICK m \in Complete : Greatest(Complete, m)
      BY <2>2 DEF FilesInv
    <3>2. Complete \subseteq Nat
      BY <1>1, <1>4
    <3>3. Max(Complete) = m
      BY <3>1, <3>2, MaxIs
    <3> QED BY <1>1, <1>4, <3>1, <3>3 DEF Latest
  <2> QED BY <2>1, <2>2
<1>7. FilesInv'
  BY <1>1, <1>2, <1>3, <1>4 DEF FilesInv
<1> QED BY <1>1, <1>2, <1>4, <1>5, <1>6, <1>7

(* Renaming, ageing, archiving and removing files leaves their contents.   *)
LEMMA Reworked ==
    ASSUME TypeOK, FilesInv, TypeOK', Len(backups') = Len(backups),
           \A b \in Ids : /\ backups'[b].content = backups[b].content
                          /\ backups'[b].ok = backups[b].ok
    PROVE  Ids' = Ids /\ Complete' = Complete /\ Latest' = Latest
<1>1. Ids' = Ids /\ Ids \subseteq Nat
  BY LenProperties, BackupTypes DEF TypeOK, Ids
<1>2. Complete' = Complete /\ Complete \subseteq Ids
  BY <1>1 DEF Complete
<1>3. Latest' = Latest
  <2>1. CASE Complete = {}
    BY <2>1, <1>2 DEF Latest
  <2>2. CASE Complete # {}
    <3>1. PICK m \in Complete : Greatest(Complete, m)
      BY <2>2 DEF FilesInv
    <3>2. Max(Complete) = m
      BY <1>1, <1>2, <3>1, MaxIs
    <3> QED BY <1>2, <3>1, <3>2 DEF Latest
  <2> QED BY <2>1, <2>2
<1> QED BY <1>1, <1>2, <1>3

-----------------------------------------------------------------------------
(* Each step keeps the invariant.  First the user's.                       *)

(* A session writes the database and its memory alike.                     *)
LEMMA WorksKeeps ==
    ASSUME IInv, NEW u \in Use, Works(u)
    PROVE  IInv'
<1>1. UNCHANGED backups
  BY DEF Works
<1>2. TypeOK'
  BY <1>1, BackupTypes DEF IInv, TypeOK, Ids, Works, user, run, journals
<1>3. FilesInv'
  BY <1>1, SameFiles DEF IInv
<1>4. RunInv'
  BY <1>1, SameFiles DEF IInv, TypeOK, RunInv, Candidates, Works, user, run, journals
<1>5. RestoreInv'
  BY <1>1
     DEF IInv, TypeOK, RunInv, RestoreInv, Readable, Open, Works, user, run, journals
<1>6. DataInv'
  BY <1>1 DEF IInv, TypeOK, RunInv, DataInv, Works, user, run, journals
<1> QED BY <1>2, <1>3, <1>4, <1>5, <1>6 DEF IInv

(* Cursor loads the database into its memory.                              *)
LEMMA OpenCursorKeeps ==
    ASSUME IInv, OpenCursor
    PROVE  IInv'
<1>1. UNCHANGED backups
  BY DEF OpenCursor
<1>2. TypeOK'
  BY <1>1, BackupTypes
     DEF IInv, TypeOK, Ids, OpenCursor, Faults, Fault, user, run, journals
<1>3. FilesInv'
  BY <1>1, SameFiles DEF IInv
<1>4. RunInv'
  BY <1>1, SameFiles
     DEF IInv, TypeOK, RunInv, Candidates, OpenCursor, Faults, Fault, user, run,
          journals
<1>5. RestoreInv'
  BY <1>1
     DEF IInv, TypeOK, RunInv, RestoreInv, Readable, Open, OpenCursor, Faults, Fault,
          user, run, journals
<1>6. DataInv'
  BY <1>1
     DEF IInv, TypeOK, RunInv, DataInv, OpenCursor, Faults, Fault, user, run, journals
<1> QED BY <1>2, <1>3, <1>4, <1>5, <1>6 DEF IInv

(* Cursor writes its memory back.                                          *)
LEMMA CloseCursorKeeps ==
    ASSUME IInv, CloseCursor
    PROVE  IInv'
<1>1. UNCHANGED backups
  BY DEF CloseCursor
<1>2. TypeOK'
  BY <1>1, BackupTypes DEF IInv, TypeOK, Ids, CloseCursor, user, run, journals
<1>3. FilesInv'
  BY <1>1, SameFiles DEF IInv
<1>4. RunInv'
  BY <1>1, SameFiles
     DEF IInv, TypeOK, RunInv, Candidates, CloseCursor, user, run, journals
<1>5. RestoreInv'
  BY <1>1
     DEF IInv, TypeOK, RunInv, RestoreInv, Readable, Open, CloseCursor, user, run,
          journals
<1>6. DataInv'
  BY <1>1 DEF IInv, TypeOK, RunInv, DataInv, CloseCursor, user, run, journals
<1> QED BY <1>2, <1>3, <1>4, <1>5, <1>6 DEF IInv

(* The user asks for a backup that can be read.                            *)
LEMMA AskRestoreKeeps ==
    ASSUME IInv, NEW b \in Ids, AskRestore(b)
    PROVE  IInv'
<1>1. UNCHANGED backups
  BY DEF AskRestore
<1>2. TypeOK'
  BY <1>1, BackupTypes DEF IInv, TypeOK, Ids, AskRestore, user, run, journals
<1>3. FilesInv'
  BY <1>1, SameFiles DEF IInv
<1>4. RunInv'
  BY <1>1, SameFiles
     DEF IInv, TypeOK, RunInv, Candidates, AskRestore, user, run, journals
<1>5. RestoreInv'
  BY <1>1
     DEF IInv, TypeOK, RunInv, RestoreInv, Readable, Open, AskRestore, user, run,
          journals
<1>6. DataInv'
  BY <1>1 DEF IInv, TypeOK, RunInv, DataInv, AskRestore, user, run, journals
<1> QED BY <1>2, <1>3, <1>4, <1>5, <1>6 DEF IInv

(* A run begins with nobody in the database.                               *)
LEMMA StartKeeps ==
    ASSUME IInv, NEW m \in {"apply", "restore"}, Start(m)
    PROVE  IInv'
<1>1. UNCHANGED backups
  BY DEF Start
<1>2. TypeOK'
  BY <1>1, BackupTypes DEF IInv, TypeOK, Ids, Start, user, run, journals
<1>3. FilesInv'
  BY <1>1, SameFiles DEF IInv
<1>4. RunInv'
  BY <1>1, SameFiles DEF IInv, TypeOK, RunInv, Candidates, Start, user, run, journals
<1>5. RestoreInv'
  BY <1>1
     DEF IInv, TypeOK, RunInv, RestoreInv, Readable, Open, Start, user, run, journals
<1>6. DataInv'
  BY <1>1 DEF IInv, TypeOK, RunInv, DataInv, Start, user, run, journals
<1> QED BY <1>2, <1>3, <1>4, <1>5, <1>6 DEF IInv

(* A run that dies forgets only what it knew.                              *)
LEMMA CrashKeeps ==
    ASSUME IInv, Crash
    PROVE  IInv'
<1>1. UNCHANGED backups
  BY DEF Crash
<1>2. TypeOK'
  BY <1>1, BackupTypes DEF IInv, TypeOK, Ids, Crash, Fault, Idle, user, run, journals
<1>3. FilesInv'
  BY <1>1, SameFiles DEF IInv
<1>4. RunInv'
  BY <1>1, SameFiles
     DEF IInv, TypeOK, RunInv, Candidates, Crash, Fault, Idle, user, run, journals
<1>5. RestoreInv'
  BY <1>1
     DEF IInv, TypeOK, RunInv, RestoreInv, Readable, Open, Crash, Fault, Idle, user,
          run, journals
<1>6. DataInv'
  BY <1>1 DEF IInv, TypeOK, RunInv, DataInv, Crash, Fault, Idle, user, run, journals
<1> QED BY <1>2, <1>3, <1>4, <1>5, <1>6 DEF IInv

(* A run that finds Cursor open ends.                                      *)
LEMMA ReopenedKeeps ==
    ASSUME IInv, Reopened
    PROVE  IInv'
<1>1. UNCHANGED backups
  BY DEF Reopened
<1>2. TypeOK'
  BY <1>1, BackupTypes DEF IInv, TypeOK, Ids, Reopened, Idle, user, run, journals
<1>3. FilesInv'
  BY <1>1, SameFiles DEF IInv
<1>4. RunInv'
  BY <1>1, SameFiles
     DEF IInv, TypeOK, RunInv, Candidates, Reopened, Idle, user, run, journals
<1>5. RestoreInv'
  BY <1>1
     DEF IInv, TypeOK, RunInv, RestoreInv, Readable, Open, Reopened, Idle, user, run,
          journals
<1>6. DataInv'
  BY <1>1 DEF IInv, TypeOK, RunInv, DataInv, Reopened, Idle, user, run, journals
<1> QED BY <1>2, <1>3, <1>4, <1>5, <1>6 DEF IInv

-----------------------------------------------------------------------------
(* Then the steps of a run that leave the files alone.                     *)

(* An interrupted restore is finished, or has failed.                      *)
LEMMA ReplayKeeps ==
    ASSUME IInv, NEW ok \in BOOLEAN, Replay(ok)
    PROVE  IInv'
<1>1. UNCHANGED backups
  BY DEF Replay
<1>2. TypeOK'
  BY <1>1, BackupTypes
     DEF IInv, TypeOK, Ids, Statuses, RunInv, RestoreInv, BackupFile, Contents, Open,
          Replay, Faults, Fault, None, user, run, journals
<1>3. FilesInv'
  BY <1>1, SameFiles DEF IInv
<1>4. RunInv'
  BY <1>1, SameFiles DEF IInv, TypeOK, RunInv, RestoreInv, Open, Replay, user, run
<1>5. RestoreInv'
  BY <1>1
     DEF IInv, TypeOK, RunInv, RestoreInv, Readable, Open, Replay, Faults, Fault,
          None, user, run, journals
<1>6. DataInv'
  <2>1. CASE ok
    BY <2>1 DEF IInv, TypeOK, RunInv, DataInv, Replay, user
  <2>2. CASE ~ok
    BY <2>2 DEF IInv, TypeOK, RunInv, DataInv, Replay, user
  <2> QED BY <2>1, <2>2
<1> QED BY <1>2, <1>3, <1>4, <1>5, <1>6 DEF IInv

(* The journal of an interrupted apply is closed.                          *)
LEMMA RecoverApplyKeeps ==
    ASSUME IInv, RecoverApply
    PROVE  IInv'
<1>1. UNCHANGED backups
  BY DEF RecoverApply
<1>2. TypeOK'
  BY <1>1, BackupTypes
     DEF IInv, TypeOK, Ids, Statuses, RunInv, RestoreInv, Open, RecoverApply, Journal,
          Recovered, user, run, journals
<1>3. FilesInv'
  BY <1>1, SameFiles DEF IInv
<1>4. RunInv'
  BY <1>1, SameFiles
     DEF IInv, TypeOK, RunInv, RestoreInv, Open, RecoverApply, Journal, Recovered,
          user, run, journals
<1>5. RestoreInv'
  BY <1>1
     DEF IInv, TypeOK, RunInv, RestoreInv, Readable, Open, RecoverApply, Journal,
          Recovered, user, run, journals
<1>6. DataInv'
  BY <1>1
     DEF IInv, TypeOK, RunInv, DataInv, RecoverApply, Journal, Recovered, user, run,
          journals
<1> QED BY <1>2, <1>3, <1>4, <1>5, <1>6 DEF IInv

(* A restore begins with a backup that can be read.                        *)
LEMMA RestoreBeginsKeeps ==
    ASSUME IInv, NEW ok \in BOOLEAN, RestoreBegins(ok)
    PROVE  IInv'
<1>1. UNCHANGED backups
  BY DEF RestoreBegins
<1>2. TypeOK'
  <2>1. CASE ok /\ Readable(request)
    <3>1. restoring' = [status |-> "preparing", source |-> request, fresh |-> TRUE]
      BY <2>1 DEF RestoreBegins
    <3>2. request \in 0..Len(backups)
      BY DEF IInv, TypeOK
    <3>3. restoring' \in [status : Statuses, source : 0..Len(backups), fresh : BOOLEAN]
      BY <3>1, <3>2 DEF Statuses
    <3> QED BY <1>1, <2>1, <3>3 DEF IInv, TypeOK, Ids, RestoreBegins, user
  <2>2. CASE ~(ok /\ Readable(request))
    BY <1>1, <2>2, BackupTypes DEF IInv, TypeOK, Ids, RestoreBegins, Idle, user
  <2> QED BY <2>1, <2>2
<1>3. FilesInv'
  BY <1>1, SameFiles DEF IInv
<1>4. RunInv'
  BY <1>1, SameFiles
     DEF IInv, TypeOK, RunInv, RestoreInv, Open, RestoreBegins, Idle, Faults, Fault,
          user, run, journals
<1>5. RestoreInv'
  BY <1>1
     DEF IInv, TypeOK, RunInv, RestoreInv, Readable, Open, RestoreBegins, Idle,
          Faults, Fault, user, run, journals
<1>6. DataInv'
  BY <1>1
     DEF IInv, TypeOK, RunInv, DataInv, RestoreBegins, Idle, Faults, Fault, user, run,
          journals
<1> QED BY <1>2, <1>3, <1>4, <1>5, <1>6 DEF IInv

(* The database becomes what the backup holds.                             *)
LEMMA RestoreTablesKeeps ==
    ASSUME IInv, NEW ok \in BOOLEAN, RestoreTables(ok)
    PROVE  IInv'
<1>1. UNCHANGED backups
  BY DEF RestoreTables
<1>2. TypeOK'
  <2>1. restoring' \in [status : Statuses, source : 0..Len(backups), fresh : BOOLEAN]
    BY DEF IInv, TypeOK, Statuses, RestoreTables
  <2>2. db' \subseteq Page \cup Use
    <3>1. restoring.source \in Ids
      BY BackupTypes DEF IInv, TypeOK, RestoreInv, RestoreTables
    <3> QED BY <3>1, BackupTypes DEF IInv, TypeOK, BackupFile, RestoreTables
  <2>3. /\ request' = 0 /\ pin' \in {pin, {}} /\ pc' \in {"archive", "idle"}
        /\ mode' \in {mode, "none"} /\ restored' \in {restored, TRUE}
    BY DEF RestoreTables, Idle
  <2>4. 0 \in 0..Len(backups)
    BY BackupTypes DEF IInv
  <2> QED BY <1>1, <2>1, <2>2, <2>3, <2>4 DEF IInv, TypeOK, Ids, RestoreTables, user
<1>3. FilesInv'
  BY <1>1, SameFiles DEF IInv
<1>4. RunInv'
  BY <1>1, SameFiles
     DEF IInv, TypeOK, RunInv, RestoreInv, Open, RestoreTables, Idle, Faults, Fault,
          user, run, journals
<1>5. RestoreInv'
  BY <1>1
     DEF IInv, TypeOK, RunInv, RestoreInv, Readable, Open, RestoreTables, Idle,
          Faults, Fault, user, run, journals
<1>6. DataInv'
  BY <1>1
     DEF IInv, TypeOK, RunInv, DataInv, RestoreTables, Idle, Faults, Fault, user, run,
          journals
<1> QED BY <1>2, <1>3, <1>4, <1>5, <1>6 DEF IInv

(* A page is taken from the queue.                                         *)
LEMMA TakePageKeeps ==
    ASSUME IInv, NEW p \in Page, TakePage(p)
    PROVE  IInv'
<1>1. UNCHANGED backups
  BY DEF TakePage
<1>2. TypeOK'
  BY <1>1, BackupTypes
     DEF IInv, TypeOK, Ids, Statuses, RunInv, RestoreInv, Open, TakePage, user, run,
          journals
<1>3. FilesInv'
  BY <1>1, SameFiles DEF IInv
<1>4. RunInv'
  BY <1>1, SameFiles
     DEF IInv, TypeOK, RunInv, RestoreInv, Open, TakePage, user, run, journals
<1>5. RestoreInv'
  BY <1>1
     DEF IInv, TypeOK, RunInv, RestoreInv, Readable, Open, TakePage, user, run,
          journals
<1>6. DataInv'
  BY <1>1 DEF IInv, TypeOK, RunInv, DataInv, TakePage, user, run, journals
<1> QED BY <1>2, <1>3, <1>4, <1>5, <1>6 DEF IInv

(* The run has its backup, or ends.                                        *)
LEMMA SessionReusedKeeps ==
    ASSUME IInv, SessionReused
    PROVE  IInv'
<1>1. UNCHANGED backups
  BY DEF SessionReused
<1>2. TypeOK'
  BY <1>1, BackupTypes
     DEF IInv, TypeOK, Ids, Statuses, RunInv, RestoreInv, Open, SessionReused, Idle,
          Journal, user, run, journals
<1>3. FilesInv'
  BY <1>1, SameFiles DEF IInv
<1>4. RunInv'
  BY <1>1, SameFiles
     DEF IInv, TypeOK, RunInv, RestoreInv, Open, SessionReused, Idle, Journal, user,
          run, journals
<1>5. RestoreInv'
  BY <1>1
     DEF IInv, TypeOK, RunInv, RestoreInv, Readable, Open, SessionReused, Idle,
          Journal, user, run, journals
<1>6. DataInv'
  BY <1>1
     DEF IInv, TypeOK, RunInv, DataInv, SessionReused, Idle, Journal, user, run,
          journals
<1> QED BY <1>2, <1>3, <1>4, <1>5, <1>6 DEF IInv

(* The page is written as a whole, or not at all.                          *)
LEMMA TransactionKeeps ==
    ASSUME IInv, NEW ok \in BOOLEAN, Transaction(ok)
    PROVE  IInv'
<1>1. UNCHANGED backups
  BY DEF Transaction
<1>2. TypeOK'
  BY <1>1, BackupTypes
     DEF IInv, TypeOK, Ids, Statuses, RunInv, RestoreInv, Open, Transaction, MayBegin,
          Idle, Journal, Faults, Fault, user, run, journals
<1>3. FilesInv'
  BY <1>1, SameFiles DEF IInv
<1>4. RunInv'
  BY <1>1, SameFiles
     DEF IInv, TypeOK, RunInv, RestoreInv, Open, Transaction, MayBegin, Idle, Journal,
          Faults, Fault, user, run, journals
<1>5. RestoreInv'
  BY <1>1
     DEF IInv, TypeOK, RunInv, RestoreInv, Readable, Open, Transaction, MayBegin,
          Idle, Journal, Faults, Fault, user, run, journals
<1>6. DataInv'
  BY <1>1
     DEF IInv, TypeOK, RunInv, DataInv, Transaction, MayBegin, Idle, Journal, Faults,
          Fault, user, run, journals
<1> QED BY <1>2, <1>3, <1>4, <1>5, <1>6 DEF IInv

(* The journal says so.                                                    *)
LEMMA CommittedKeeps ==
    ASSUME IInv, Committed
    PROVE  IInv'
<1>1. UNCHANGED backups
  BY DEF Committed
<1>2. TypeOK'
  BY <1>1, BackupTypes
     DEF IInv, TypeOK, Ids, Statuses, RunInv, RestoreInv, Open, Committed, Journal,
          user, run, journals
<1>3. FilesInv'
  BY <1>1, SameFiles DEF IInv
<1>4. RunInv'
  BY <1>1, SameFiles
     DEF IInv, TypeOK, RunInv, RestoreInv, Open, Committed, Journal, user, run,
          journals
<1>5. RestoreInv'
  BY <1>1
     DEF IInv, TypeOK, RunInv, RestoreInv, Readable, Open, Committed, Journal, user,
          run, journals
<1>6. DataInv'
  BY <1>1 DEF IInv, TypeOK, RunInv, DataInv, Committed, Journal, user, run, journals
<1> QED BY <1>2, <1>3, <1>4, <1>5, <1>6 DEF IInv

(* Only then is the page marked.                                           *)
LEMMA MarkAppliedKeeps ==
    ASSUME IInv, MarkApplied
    PROVE  IInv'
<1>1. UNCHANGED backups
  BY DEF MarkApplied
<1>2. TypeOK'
  BY <1>1, BackupTypes
     DEF IInv, TypeOK, Ids, Statuses, RunInv, RestoreInv, Open, MarkApplied, Journal,
          user, run, journals
<1>3. FilesInv'
  BY <1>1, SameFiles DEF IInv
<1>4. RunInv'
  BY <1>1, SameFiles
     DEF IInv, TypeOK, RunInv, RestoreInv, Open, MarkApplied, Journal, user, run,
          journals
<1>5. RestoreInv'
  BY <1>1
     DEF IInv, TypeOK, RunInv, RestoreInv, Readable, Open, MarkApplied, Journal, user,
          run, journals
<1>6. DataInv'
  BY <1>1 DEF IInv, TypeOK, RunInv, DataInv, MarkApplied, Journal, user, run, journals
<1> QED BY <1>2, <1>3, <1>4, <1>5, <1>6 DEF IInv

(* The run goes on to its backups.                                         *)
LEMMA PagesDoneKeeps ==
    ASSUME IInv, PagesDone
    PROVE  IInv'
<1>1. UNCHANGED backups
  BY DEF PagesDone
<1>2. TypeOK'
  BY <1>1, BackupTypes
     DEF IInv, TypeOK, Ids, Statuses, RunInv, RestoreInv, Open, PagesDone, user, run,
          journals
<1>3. FilesInv'
  BY <1>1, SameFiles DEF IInv
<1>4. RunInv'
  BY <1>1, SameFiles
     DEF IInv, TypeOK, RunInv, RestoreInv, Open, PagesDone, user, run, journals
<1>5. RestoreInv'
  BY <1>1
     DEF IInv, TypeOK, RunInv, RestoreInv, Readable, Open, PagesDone, user, run,
          journals
<1>6. DataInv'
  BY <1>1 DEF IInv, TypeOK, RunInv, DataInv, PagesDone, user, run, journals
<1> QED BY <1>2, <1>3, <1>4, <1>5, <1>6 DEF IInv

(* One archive is left and the run ends.                                   *)
LEMMA PrunedKeeps ==
    ASSUME IInv, Pruned
    PROVE  IInv'
<1>1. UNCHANGED backups
  BY DEF Pruned, Finished
<1>2. TypeOK'
  BY <1>1, BackupTypes
     DEF IInv, TypeOK, Ids, Statuses, RunInv, RestoreInv, Open, Pruned, Finished,
          Idle, user, run, journals
<1>3. FilesInv'
  BY <1>1, SameFiles DEF IInv
<1>4. RunInv'
  BY <1>1, SameFiles
     DEF IInv, TypeOK, RunInv, RestoreInv, Open, Pruned, Finished, Idle, user, run,
          journals
<1>5. RestoreInv'
  BY <1>1
     DEF IInv, TypeOK, RunInv, RestoreInv, Readable, Open, Pruned, Finished, Idle,
          user, run, journals
<1>6. DataInv'
  BY <1>1 DEF IInv, TypeOK, RunInv, DataInv, Pruned, Finished, Idle, user, run, journals
<1> QED BY <1>2, <1>3, <1>4, <1>5, <1>6 DEF IInv

-----------------------------------------------------------------------------
(* And the steps that add, age, archive or remove a file.                  *)

(* A file that is added: the invariant of the files and the types.         *)
LEMMA AddsTypes ==
    ASSUME TypeOK, NEW b \in BackupFile, backups' = Append(backups, b)
    PROVE  /\ backups' \in Seq(BackupFile) /\ Len(backups') = Len(backups) + 1
           /\ Len(backups) \in Nat /\ Ids' = Ids \cup {Len(backups')}
           /\ 0..Len(backups) \subseteq 0..Len(backups')
<1>1. /\ backups' \in Seq(BackupFile) /\ Len(backups') = Len(backups) + 1
      /\ Len(backups) \in Nat /\ Ids = 1..Len(backups)
  BY AppendProperties, BackupTypes DEF TypeOK
<1>2. Ids' = 1..Len(backups')
  BY <1>1, LenProperties DEF Ids
<1> QED BY <1>1, <1>2

(* A file that is changed in place.                                        *)
LEMMA ReworkTypes ==
    ASSUME TypeOK, NEW files, files \in [Ids -> BackupFile]
    PROVE  files \in Seq(BackupFile) /\ Len(files) = Len(backups) /\ DOMAIN files = Ids
<1>1. Len(backups) \in Nat /\ Ids = 1..Len(backups)
  BY BackupTypes
<1>2. files \in Seq(BackupFile)
  BY <1>1, SeqDef
<1> QED BY <1>1, <1>2, LenProperties

(* A backup of the database as it is.                                      *)
LEMMA BackupType ==
    ASSUME TypeOK, NEW kind \in {"state", "pre"}, NEW size \in Sizes
    PROVE  /\ Backup(kind, size) \in BackupFile
           /\ Backup(kind, size).ok /\ Backup(kind, size).plain
           /\ ~Backup(kind, size).meta /\ Backup(kind, size).content = db
           /\ LET piece == [Backup(kind, size) EXCEPT !.ok = FALSE]
              IN  piece \in BackupFile /\ ~piece.ok /\ ~piece.meta
  BY DEF TypeOK, Backup, BackupFile

(* A backup that is left in pieces is no backup.                           *)
LEMMA PartialBackupKeeps ==
    ASSUME IInv, NEW kind \in {"state", "pre"}, NEW size \in Sizes, PartialBackup(kind, size)
    PROVE  IInv'
<1> DEFINE b == [Backup(kind, size) EXCEPT !.ok = FALSE]
<1>0. b \in BackupFile /\ ~b.ok /\ ~b.meta /\ backups' = Append(backups, b)
  BY BackupType DEF IInv, PartialBackup, Adds
<1>1. /\ pc' = "idle" /\ mode' = "none" /\ pin' = {} /\ request' \in {0, request}
      /\ UNCHANGED <<db, user, queue, journals, restored, used>>
  BY DEF PartialBackup, Adds
<1> HIDE DEF b
<1>2. TypeOK'
  BY <1>0, <1>1, AddsTypes DEF IInv, TypeOK, user, journals
<1>3. FilesInv'
  BY <1>0, <1>2, AddedPiece DEF IInv
<1>4. RunInv'
  BY <1>1 DEF RunInv
<1>5. RestoreInv'
  BY <1>1 DEF IInv, RestoreInv, journals
<1>6. DataInv'
  BY <1>1 DEF IInv, DataInv, user
<1> QED BY <1>2, <1>3, <1>4, <1>5, <1>6 DEF IInv

(* A run takes a backup that holds what the database holds.                *)
LEMMA TakesBackup ==
    ASSUME IInv, NEW kind \in {"state", "pre"}, NEW size \in Sizes, NEW next,
           Adds(Backup(kind, size), next), pin' = pin \cup {Len(backups')},
           next \in {"replay", "settled", "retain"},
           UNCHANGED <<db, user, queue, request, mode, restored>>, used' = FALSE,
           applying' = applying,
           restoring' \in [status : Statuses, source : {restoring.source}, fresh : BOOLEAN],
           IF next = "retain" THEN restoring' = restoring ELSE Open(restoring'.status),
           next = "replay" => Readable(restoring.source) /\ restoring.source # 0 /\ pc = "recover",
           next = "settled" => pc = "prepare",
           next = "retain" => pc = "backup"
    PROVE  IInv' /\ Contents' = Contents \cup {db} /\ Latest' = db
<1> DEFINE b == Backup(kind, size)
<1>0. /\ b \in BackupFile /\ b.ok /\ b.plain /\ ~b.meta /\ b.content = db
      /\ backups' = Append(backups, b) /\ pc' = next
  BY BackupType DEF IInv, Adds
<1> HIDE DEF b
<1>2. TypeOK'
  BY <1>0, AddsTypes DEF IInv, TypeOK, user
<1>3. /\ FilesInv' /\ Len(backups') \in Complete' \cap Plain'
      /\ Contents' = Contents \cup {db} /\ Latest' = db
      /\ \A i \in Ids : Readable(i) => Readable(i)'
  BY <1>0, <1>2, AddedWhole DEF IInv
<1>4. RunInv'
  BY <1>0, <1>3 DEF IInv, TypeOK, RunInv
<1>5. RestoreInv'
  <2>1. restoring'.source = restoring.source
    OBVIOUS
  <2>2. CASE next = "retain"
    BY <1>0, <2>2 DEF IInv, TypeOK, RunInv, RestoreInv
  <2>3. CASE next # "retain"
    <3>1. restoring.source \in Ids /\ Readable(restoring.source)
      BY <2>3, BackupTypes DEF IInv, TypeOK, RestoreInv
    <3>2. PICK i \in Ids : i = restoring.source
      BY <3>1
    <3>3. Readable(i)' /\ i \in Ids
      BY <1>3, <3>1, <3>2
    <3>4. Readable(restoring.source)'
      BY <2>1, <3>2, <3>3 DEF Readable
    <3>5. restoring'.source # 0 /\ Open(restoring'.status)
      BY <2>1, <2>3, <3>1, BackupTypes DEF IInv
    <3> QED BY <1>0, <3>4, <3>5 DEF RestoreInv
  <2> QED BY <2>2, <2>3
<1>6. DataInv'
  BY <1>0 DEF IInv, DataInv, user
<1> QED BY <1>2, <1>3, <1>4, <1>5, <1>6 DEF IInv

(* A snapshot, as RecoverableDatabase has it.                              *)
Snapshots == Contents' = Contents \cup {db} /\ Latest' = db /\ used' = FALSE /\ db' = db

(* An interrupted restore is taken up behind a new backup, or is given up. *)
LEMMA RecoverRestoreKeeps ==
    ASSUME IInv, NEW ok \in BOOLEAN, NEW size \in Sizes, RecoverRestore(ok, size)
    PROVE  IInv' /\ (Snapshots \/ UNCHANGED <<backups, db, used>>)
<1> DEFINE source == restoring.source
<1>1. /\ pc = "recover" /\ Open(restoring.status)
      /\ UNCHANGED <<db, user, queue, request, applying, mode, restored>>
  BY DEF RecoverRestore
<1>2. CASE ~Readable(source) \/ ~restoring.fresh \/ ~ok
  <2>1. /\ restoring' = [restoring EXCEPT !.status = "failed"]
        /\ UNCHANGED <<backups, pc, pin, used>>
    BY <1>2 DEF RecoverRestore
  <2>2. TypeOK'
    BY <1>1, <2>1 DEF IInv, TypeOK, Ids, Statuses, user
  <2>3. FilesInv'
    BY <2>1, SameFiles DEF IInv
  <2>4. RunInv'
    BY <1>1, <2>1, SameFiles DEF IInv, RunInv
  <2>5. RestoreInv'
    BY <1>1, <2>1 DEF IInv, TypeOK, RestoreInv, Open
  <2>6. DataInv'
    BY <1>1, <2>1 DEF IInv, DataInv, user
  <2> QED BY <1>1, <2>1, <2>2, <2>3, <2>4, <2>5, <2>6 DEF IInv
<1>3. CASE ~(~Readable(source) \/ ~restoring.fresh \/ ~ok)
  <2>1. /\ Adds(Backup("pre", size), "replay")
        /\ pin' = pin \cup {Len(backups')} /\ used' = FALSE
        /\ restoring' = restoring /\ Readable(restoring.source)
    BY <1>3 DEF RecoverRestore
  <2>2. restoring' \in [status : Statuses, source : {restoring.source}, fresh : BOOLEAN]
    BY <2>1 DEF IInv, TypeOK
  <2>3. restoring.source # 0
    BY <1>1 DEF IInv, RestoreInv
  <2>4. UNCHANGED <<db, user, queue, request, mode, restored>> /\ applying' = applying
    BY <1>1
  <2>5. IInv' /\ Contents' = Contents \cup {db} /\ Latest' = db
    BY <1>1, <2>1, <2>2, <2>3, <2>4, TakesBackup
  <2> QED BY <2>1, <2>4, <2>5 DEF Snapshots
<1> QED BY <1>2, <1>3

(* A restore takes its backup.                                             *)
LEMMA RestoreBackupKeeps ==
    ASSUME IInv, NEW size \in Sizes, RestoreBackup(size)
    PROVE  IInv' /\ Snapshots
<1>1. /\ pc = "prepare" /\ Adds(Backup("pre", size), "settled")
      /\ pin' = pin \cup {Len(backups')} /\ used' = FALSE
      /\ restoring' = [restoring EXCEPT !.status = "applying"]
      /\ UNCHANGED <<db, user, queue, request, mode, restored>> /\ applying' = applying
  BY DEF RestoreBackup
<1>2. /\ restoring' \in [status : Statuses, source : {restoring.source}, fresh : BOOLEAN]
      /\ Open(restoring'.status)
  BY <1>1 DEF IInv, TypeOK, Statuses, Open
<1>3. IInv' /\ Contents' = Contents \cup {db} /\ Latest' = db
  BY <1>1, <1>2, TakesBackup
<1> QED BY <1>1, <1>3 DEF Snapshots

(* A run of pages takes one backup for all of them.                        *)
LEMMA SessionBackupKeeps ==
    ASSUME IInv, NEW size \in Sizes, SessionBackup(size)
    PROVE  IInv' /\ Snapshots
<1>1. /\ pc = "backup" /\ Adds(Backup("state", size), "retain")
      /\ pin' = pin \cup {Len(backups')} /\ used' = FALSE /\ restoring' = restoring
      /\ UNCHANGED <<db, user, queue, request, mode, restored>> /\ applying' = applying
  BY DEF SessionBackup, journals
<1>2. restoring' \in [status : Statuses, source : {restoring.source}, fresh : BOOLEAN]
  BY <1>1 DEF IInv, TypeOK
<1>3. IInv' /\ Contents' = Contents \cup {db} /\ Latest' = db
  BY <1>1, <1>2, TakesBackup
<1> QED BY <1>1, <1>3 DEF Snapshots

(* Time goes by: the files are older.                                      *)
LEMMA ElapseKeeps ==
    ASSUME IInv, NEW month \in BOOLEAN, Elapse(month)
    PROVE  IInv' /\ Contents' = Contents /\ Latest' = Latest
<1>1. /\ pc = "idle" /\ restoring' = [restoring EXCEPT !.fresh = FALSE]
      /\ backups' = [b \in Ids |-> [backups[b] EXCEPT !.old = @ \/ month]]
      /\ UNCHANGED <<db, user, queue, request, applying, run, restored, used>>
  BY DEF Elapse
<1>2. /\ \A b \in Ids : /\ backups'[b].content = backups[b].content
                        /\ backups'[b].ok = backups[b].ok
                        /\ backups'[b].plain = backups[b].plain
                        /\ backups'[b].zip = backups[b].zip
                        /\ backups'[b].meta = backups[b].meta
      /\ backups' \in [Ids -> BackupFile]
  <2>1. \A b \in Ids : [backups[b] EXCEPT !.old = @ \/ month] \in BackupFile
    BY BackupTypes DEF IInv, BackupFile
  <2>2. \A b \in Ids : backups[b] \in BackupFile
    BY BackupTypes DEF IInv
  <2> QED BY <1>1, <2>1, <2>2 DEF BackupFile
<1>3. backups' \in Seq(BackupFile) /\ Len(backups') = Len(backups) /\ Ids' = Ids
  BY <1>2, ReworkTypes DEF IInv, Ids
<1>4. TypeOK'
  BY <1>1, <1>3 DEF IInv, TypeOK, user, run
<1>5. Complete' = Complete /\ Latest' = Latest
  BY <1>2, <1>3, <1>4, Reworked DEF IInv
<1>6. (\A b \in Ids : Readable(b)' <=> Readable(b)) /\ Complete \subseteq Ids
  BY <1>2, <1>3 DEF Readable, Complete
<1>7. FilesInv'
  BY <1>2, <1>3, <1>5, <1>6 DEF IInv, FilesInv
<1>8. RunInv'
  BY <1>1, <1>5 DEF IInv, RunInv, run
<1>9. RestoreInv'
  BY <1>1 DEF IInv, TypeOK, RestoreInv, run
<1>10. DataInv'
  BY <1>1 DEF IInv, DataInv, user, run
<1>11. Contents' = Contents
  BY <1>2, <1>3, <1>6 DEF Contents
<1> QED BY <1>4, <1>5, <1>7, <1>8, <1>9, <1>10, <1>11 DEF IInv

(* The latest copy can be restored.                                        *)
LEMMA LatestReadable ==
    ASSUME TypeOK, FilesInv, Complete # {}
    PROVE  Latest \in Contents
<1>1. PICK m \in Complete : Greatest(Complete, m) /\ Readable(m)
  BY DEF FilesInv
<1>2. Latest = backups[m].content
  BY <1>1, LatestIs
<1>3. m \in Ids
  BY DEF Complete
<1> QED BY <1>1, <1>2, <1>3 DEF Contents

(* Files were archived or removed, but not the latest copy.                *)
Forgets == Contents' \subseteq Contents /\ Latest' = Latest /\ Latest \in Contents'

(* Retention removes files, and never the backup the run has just made.    *)
LEMMA RetentionKeeps ==
    ASSUME IInv, Retention
    PROVE  IInv' /\ Forgets
<1>1. /\ pc = "retain" /\ pc' = "settled" /\ mode = "apply"
      /\ applying' = [applying EXCEPT !.status = "applying"]
      /\ UNCHANGED <<db, user, queue, request, restoring, mode, pin, restored, used>>
  BY DEF Retention, Journal, IInv, RunInv
<1>2. PICK gone \in {Plain \ Retained, {}} :
          backups' = [b \in Ids |-> IF b \in gone THEN [backups[b] EXCEPT !.plain = FALSE]
                                    ELSE backups[b]]
  BY DEF Retention
<1>3. Len(backups) \in pin \cap Complete \cap Plain
  BY <1>1 DEF IInv, RunInv
<1>4. Len(backups) \notin gone
  BY <1>3 DEF Retained, Exempt
<1>5. /\ \A b \in Ids : /\ backups'[b].content = backups[b].content
                        /\ backups'[b].ok = backups[b].ok
                        /\ backups'[b].plain => backups[b].plain
                        /\ backups'[b].zip = backups[b].zip
                        /\ backups'[b].meta = backups[b].meta
                        /\ b \notin gone => backups'[b] = backups[b]
      /\ backups' \in [Ids -> BackupFile]
  <2>1. \A b \in Ids : [backups[b] EXCEPT !.plain = FALSE] \in BackupFile
    BY BackupTypes DEF IInv, BackupFile
  <2>2. \A b \in Ids : backups[b] \in BackupFile
    BY BackupTypes DEF IInv
  <2> QED BY <1>2, <2>1, <2>2 DEF BackupFile
<1>6. backups' \in Seq(BackupFile) /\ Len(backups') = Len(backups) /\ Ids' = Ids
  BY <1>5, ReworkTypes DEF IInv, Ids
<1>7. TypeOK'
  <2>1. applying' \in [status : Statuses, page : SUBSET Page]
    BY <1>1 DEF IInv, TypeOK, Statuses
  <2> QED BY <1>1, <1>6, <2>1 DEF IInv, TypeOK, user
<1>8. Complete' = Complete /\ Latest' = Latest
  BY <1>5, <1>6, <1>7, Reworked DEF IInv
<1>9. \A b \in Ids : Readable(b)' => Readable(b)
  BY <1>5 DEF Readable
<1>10. PICK n \in Ids : n = Len(backups)
  BY <1>3 DEF Complete
<1>11. Greatest(Complete, n) /\ n \in Complete /\ Readable(n)'
  <2>1. Ids = 1..Len(backups) /\ Len(backups) \in Nat
    BY BackupTypes DEF IInv
  <2>2. Greatest(Complete, n) /\ n \in Complete
    BY <1>3, <1>10, <2>1 DEF Greatest, Complete
  <2>3. backups'[n] = backups[n] /\ backups[n].ok /\ backups[n].plain
    BY <1>3, <1>4, <1>5, <1>10 DEF Complete, Plain
  <2> QED BY <2>2, <2>3 DEF Readable
<1>12. FilesInv'
  <2>1. \A b \in Ids' : backups'[b].meta =>
            backups'[b].ok /\ (backups'[b].zip \/ ~backups'[b].plain)
    BY <1>5, <1>6 DEF IInv, FilesInv
  <2>2. Greatest(Complete', n) /\ n \in Complete'
    BY <1>8, <1>11
  <2> QED BY <1>11, <2>1, <2>2 DEF FilesInv, Greatest
<1>13. RunInv'
  BY <1>1, <1>8 DEF IInv, TypeOK, RunInv
<1>14. RestoreInv'
  BY <1>1 DEF IInv, TypeOK, RestoreInv
<1>15. DataInv'
  BY <1>1 DEF IInv, DataInv, user
<1>16. Contents' \subseteq Contents
  BY <1>5, <1>6, <1>9 DEF Contents
<1>17. Latest \in Contents'
  <2>1. Latest = backups[n].content
    BY <1>11, LatestIs DEF IInv
  <2> QED BY <1>5, <1>6, <1>11, <2>1 DEF Contents
<1> QED BY <1>7, <1>8, <1>12, <1>13, <1>14, <1>15, <1>16, <1>17 DEF IInv, Forgets

(* The candidates are archives and backups of this computer.               *)
LEMMA NewestIs ==
    ASSUME TypeOK, Candidates # {}
    PROVE  Newest \in Candidates /\ Greatest(Candidates, Newest)
<1>1. Candidates \subseteq 0..Len(backups) /\ Len(backups) \in Nat
  BY BackupTypes DEF Candidates
<1>2. PICK m \in Candidates : Greatest(Candidates, m)
  BY <1>1, HasGreatest
<1>3. Candidates \subseteq Nat
  BY <1>1
<1>4. Max(Candidates) = m
  BY <1>2, <1>3, MaxIs
<1> QED BY <1>2, <1>4 DEF Newest

(* The newest candidate becomes an archive, and then gets its metadata.    *)
LEMMA ArchiveKeeps ==
    ASSUME IInv, Archive
    PROVE  IInv' /\ Contents' = Contents /\ Latest' = Latest
<1>1. pc = "archive" /\ cursor = "closed"
  BY DEF Archive
<1>2. CASE Deferred
  <2>1. Idle /\ UNCHANGED <<db, user, queue, backups, request, journals, restored, used>>
    BY <1>2 DEF Archive, Finished
  <2>2. TypeOK'
    BY <2>1 DEF IInv, TypeOK, Ids, Idle, user, journals
  <2>3. FilesInv'
    BY <2>1, SameFiles DEF IInv
  <2>4. RunInv' /\ RestoreInv' /\ DataInv'
    BY <2>1 DEF IInv, RunInv, RestoreInv, DataInv, Idle, user, journals
  <2> QED BY <2>1, <2>2, <2>3, <2>4, SameFiles DEF IInv
<1>3. CASE ~Deferred
  <2>1. PICK n \in Candidates : n = Newest /\ Greatest(Candidates, n)
    BY <1>3, NewestIs DEF Deferred, IInv
  <2>2. n \in Ids /\ backups[n].ok /\ backups[n] \in BackupFile
    BY <1>3, <2>1, BackupTypes DEF Deferred, Candidates, IInv
  <2>3. UNCHANGED <<db, user, queue, request, journals, mode, pin, restored, used>>
    BY <1>3 DEF Archive
  <2>4. \/ /\ backups[n].zip /\ pc' = "prune"
           /\ backups' = [backups EXCEPT ![n].meta = TRUE]
        \/ /\ ~backups[n].zip /\ pc' = "archive"
           /\ backups' = [backups EXCEPT ![n].zip = TRUE]
    BY <1>1, <1>3, <2>1 DEF Archive
  <2>5. backups \in [Ids -> BackupFile]
    BY BackupTypes, LenProperties DEF IInv, TypeOK, Ids
  <2>6. /\ backups' \in [Ids -> BackupFile]
        /\ \A b \in Ids : /\ backups'[b].content = backups[b].content
                          /\ backups'[b].ok = backups[b].ok
                          /\ backups'[b].plain = backups[b].plain
                          /\ backups'[b].kind = backups[b].kind
                          /\ b # n => backups'[b] = backups[b]
        /\ backups'[n].zip
        /\ IF pc' = "prune" THEN backups'[n].meta ELSE backups'[n].meta = backups[n].meta
    <3>1. [backups[n] EXCEPT !.meta = TRUE] \in BackupFile
      BY <2>2 DEF BackupFile
    <3>2. [backups[n] EXCEPT !.zip = TRUE] \in BackupFile
      BY <2>2 DEF BackupFile
    <3>3. CASE pc' = "prune"
      <4>1. backups' = [backups EXCEPT ![n] = [backups[n] EXCEPT !.meta = TRUE]]
        BY <2>2, <2>4, <2>5, <3>3 DEF BackupFile
      <4>2. backups[n].zip
        BY <2>4, <3>3
      <4> QED BY <2>2, <2>5, <3>1, <3>3, <4>1, <4>2 DEF BackupFile
    <3>4. CASE pc' # "prune"
      <4>1. backups' = [backups EXCEPT ![n] = [backups[n] EXCEPT !.zip = TRUE]]
        BY <2>2, <2>4, <2>5, <3>4 DEF BackupFile
      <4> QED BY <2>2, <2>5, <3>2, <3>4, <4>1 DEF BackupFile
    <3> QED BY <3>3, <3>4
  <2>7. backups' \in Seq(BackupFile) /\ Len(backups') = Len(backups) /\ Ids' = Ids
    BY <2>6, ReworkTypes DEF IInv, Ids
  <2>8. TypeOK'
    BY <2>3, <2>4, <2>7 DEF IInv, TypeOK, user, journals
  <2>9. Complete' = Complete /\ Latest' = Latest
    BY <2>6, <2>7, <2>8, Reworked DEF IInv
  <2>10. \A b \in Ids : Readable(b)' <=> Readable(b)
    <3>1. backups[n].plain \/ (backups[n].zip /\ backups[n].meta)
      BY <2>1 DEF Candidates
    <3> QED BY <2>2, <2>6, <3>1 DEF Readable
  <2>11. Contents' = Contents
    BY <2>6, <2>7, <2>10 DEF Contents
  <2>12. FilesInv'
    <3>1. \A b \in Ids' : backups'[b].meta =>
            backups'[b].ok /\ (backups'[b].zip \/ ~backups'[b].plain)
      BY <2>2, <2>6, <2>7 DEF IInv, FilesInv
    <3>2. Complete \subseteq Ids
      BY DEF Complete
    <3>3. Complete # {} => \E m \in Complete : Greatest(Complete, m) /\ Readable(m)'
      BY <2>10, <3>2 DEF IInv, FilesInv
    <3> QED BY <2>9, <3>1, <3>3 DEF FilesInv, Greatest
  <2>13. Candidates' = Candidates
    <3>1. \A b \in Ids : b # n => (b \in Candidates' <=> b \in Candidates)
      BY <2>3, <2>6, <2>7 DEF Candidates
    <3>2. n \in Candidates'
      BY <2>1, <2>2, <2>3, <2>4, <2>6, <2>7 DEF Candidates
    <3>3. Candidates \subseteq Ids /\ Candidates' \subseteq Ids
      BY <2>7 DEF Candidates
    <3> QED BY <2>1, <3>1, <3>2, <3>3
  <2>14. RunInv'
    <3>1. pc' = "prune" => /\ Greatest(Candidates', n) /\ n \in Candidates'
                           /\ backups'[n].ok /\ backups'[n].zip /\ backups'[n].meta
      BY <2>1, <2>2, <2>6, <2>13
    <3> QED BY <2>3, <2>4, <2>9, <3>1 DEF IInv, RunInv, Greatest
  <2>15. RestoreInv'
    BY <2>3, <2>4 DEF IInv, RestoreInv, journals
  <2>16. DataInv'
    BY <2>3, <2>4 DEF IInv, DataInv, user
  <2> QED BY <2>8, <2>9, <2>11, <2>12, <2>14, <2>15, <2>16 DEF IInv
<1> QED BY <1>2, <1>3

(* One file goes, and the newest archive stays.                            *)
LEMMA PruneKeeps ==
    ASSUME IInv, NEW b \in Ids, Prune(b)
    PROVE  IInv' /\ (Forgets \/ UNCHANGED <<Contents, Latest>>)
<1>1. /\ pc = "prune" /\ b \in Candidates
      /\ UNCHANGED <<db, user, queue, request, journals, run, restored, used>>
  BY DEF Prune
<1>2. PICK n \in Candidates : /\ Greatest(Candidates, n)
                              /\ backups[n].ok /\ backups[n].zip /\ backups[n].meta
  BY <1>1 DEF IInv, RunInv
<1>3. n = Newest /\ n \in Ids
  <2>1. Candidates \subseteq Nat
    BY BackupTypes DEF IInv, Candidates
  <2> QED BY <1>2, <2>1, MaxIs DEF Newest, Candidates
<1>4. \/ /\ b # n
         /\ backups' = [backups EXCEPT ![b].plain = FALSE, ![b].zip = FALSE]
      \/ /\ b = n
         /\ backups' = [backups EXCEPT ![b].plain = FALSE]
  BY <1>3 DEF Prune
<1>5. backups \in [Ids -> BackupFile]
  BY BackupTypes, LenProperties DEF IInv, TypeOK, Ids
<1>6. /\ backups' \in [Ids -> BackupFile]
      /\ \A c \in Ids : c # b => backups'[c] = backups[c]
      /\ backups'[b].content = backups[b].content
      /\ backups'[b].ok = backups[b].ok /\ backups'[b].meta = backups[b].meta
      /\ backups'[b].kind = backups[b].kind
      /\ ~backups'[b].plain
      /\ backups'[n].zip /\ backups'[n].ok /\ backups'[n].meta
      /\ backups'[b].zip => backups[b].zip
  <2>1. CASE b # n
    <3>1. [backups[b] EXCEPT !.plain = FALSE, !.zip = FALSE] \in BackupFile
      BY BackupTypes DEF IInv, BackupFile
    <3>2. backups' = [backups EXCEPT ![b] = [backups[b] EXCEPT !.plain = FALSE, !.zip = FALSE]]
      BY <1>4, <1>5, <2>1 DEF BackupFile
    <3> QED BY <1>2, <1>3, <1>5, <2>1, <3>1, <3>2 DEF BackupFile
  <2>2. CASE b = n
    <3>1. [backups[b] EXCEPT !.plain = FALSE] \in BackupFile
      BY BackupTypes DEF IInv, BackupFile
    <3>2. backups' = [backups EXCEPT ![b] = [backups[b] EXCEPT !.plain = FALSE]]
      BY <1>4, <1>5, <2>2 DEF BackupFile
    <3> QED BY <1>2, <1>3, <1>5, <2>2, <3>1, <3>2 DEF BackupFile
  <2> QED BY <2>1, <2>2
<1>7. backups' \in Seq(BackupFile) /\ Len(backups') = Len(backups) /\ Ids' = Ids
  BY <1>6, ReworkTypes DEF IInv, Ids
<1>8. TypeOK'
  BY <1>1, <1>7 DEF IInv, TypeOK, user, run, journals
<1>9. Complete' = Complete /\ Latest' = Latest
  BY <1>6, <1>7, <1>8, Reworked DEF IInv
<1>10. (\A c \in Ids : Readable(c)' => Readable(c)) /\ \A c \in Ids : c # b => (Readable(c)' <=> Readable(c))
  BY <1>6 DEF Readable
<1>11. n \in Complete /\ Readable(n)'
  BY <1>2, <1>3, <1>6 DEF Complete, Readable
<1>12. PICK m \in Complete : Greatest(Complete, m) /\ Readable(m)
  BY <1>11 DEF IInv, FilesInv
<1>13. Readable(m)' /\ m \in Ids
  <2>1. CASE m = b
    <3>1. m <= n /\ n <= m /\ m \in Nat /\ n \in Nat
      BY <1>1, <1>2, <1>3, <1>11, <1>12, <2>1, BackupTypes DEF IInv, Greatest
    <3> QED BY <1>3, <1>11, <3>1
  <2>2. CASE m # b
    BY <1>10, <1>12, <2>2 DEF Complete
  <2> QED BY <2>1, <2>2
<1>14. FilesInv'
  <2>1. \A c \in Ids' : backups'[c].meta =>
            backups'[c].ok /\ (backups'[c].zip \/ ~backups'[c].plain)
    BY <1>6, <1>7 DEF IInv, FilesInv
  <2> QED BY <1>9, <1>12, <1>13, <2>1 DEF FilesInv, Greatest
<1>15. Candidates' \subseteq Candidates /\ n \in Candidates'
  BY <1>1, <1>2, <1>3, <1>6, <1>7 DEF Candidates, run
<1>16. RunInv'
  <2>1. Greatest(Candidates', n)
    BY <1>2, <1>15 DEF Greatest
  <2>2. backups'[n].ok /\ backups'[n].zip /\ backups'[n].meta
    BY <1>6
  <2>3. pc' = "prune" /\ pin' = pin
    BY <1>1 DEF run
  <2> QED BY <1>9, <1>15, <2>1, <2>2, <2>3 DEF IInv, RunInv, Greatest
<1>17. RestoreInv'
  BY <1>1 DEF IInv, RestoreInv, journals, run
<1>18. DataInv'
  BY <1>1 DEF IInv, DataInv, user, run
<1>19. Contents' \subseteq Contents
  <2>1. \A c \in Ids : backups'[c].content = backups[c].content
    BY <1>6
  <2> QED BY <1>7, <1>10, <2>1 DEF Contents
<1>20. Latest \in Contents'
  <2>1. Latest = backups[m].content
    BY <1>12, LatestIs DEF IInv
  <2>2. backups'[m].content = backups[m].content
    BY <1>6, <1>13
  <2> QED BY <1>7, <1>13, <2>1, <2>2 DEF Contents
<1> QED BY <1>8, <1>9, <1>14, <1>16, <1>17, <1>18, <1>19, <1>20 DEF IInv, Forgets

-----------------------------------------------------------------------------
(* The invariant holds initially and of every step.                        *)

LEMMA InitKeeps == Init => IInv
<1> SUFFICES ASSUME Init PROVE IInv
  OBVIOUS
<1>1. Ids = {} /\ Len(backups) = 0 /\ backups \in Seq(BackupFile)
  BY EmptySeq DEF Init, Ids
<1>2. TypeOK
  <2>1. applying \in [status : Statuses, page : SUBSET Page]
    BY DEF Init, NoPage, Statuses
  <2>2. restoring \in [status : Statuses, source : 0..Len(backups), fresh : BOOLEAN]
    BY <1>1 DEF Init, None, Statuses
  <2>3. /\ db = {} /\ memory = {} /\ cursor = "open" /\ queue = Page /\ request = 0
        /\ pin = {} /\ pc = "idle" /\ mode = "none" /\ restored = FALSE /\ used = TRUE
        /\ 0 \in 0..Len(backups)
    BY <1>1 DEF Init
  <2> QED BY <1>1, <2>1, <2>2, <2>3 DEF TypeOK
<1>3. FilesInv
  BY <1>1 DEF FilesInv, Complete
<1>4. RunInv /\ RestoreInv /\ DataInv
  BY DEF Init, RunInv, RestoreInv, DataInv, None, Open
<1> QED BY <1>2, <1>3, <1>4 DEF IInv

LEMMA NextKeeps == IInv /\ [Next]_vars => IInv'
<1> SUFFICES ASSUME IInv, [Next]_vars PROVE IInv'
  OBVIOUS
<1>1. ASSUME NEW u \in Use, Works(u) PROVE IInv'
  BY <1>1, WorksKeeps
<1>2. CASE OpenCursor \/ CloseCursor
  BY <1>2, OpenCursorKeeps, CloseCursorKeeps
<1>3. ASSUME NEW b \in Ids, AskRestore(b) PROVE IInv'
  BY <1>3, AskRestoreKeeps
<1>4. ASSUME NEW month \in BOOLEAN, Elapse(month) PROVE IInv'
  BY <1>4, ElapseKeeps
<1>5. ASSUME NEW m \in {"apply", "restore"}, Start(m) PROVE IInv'
  BY <1>5, StartKeeps
<1>6. CASE Crash \/ Reopened
  BY <1>6, CrashKeeps, ReopenedKeeps
<1>7. ASSUME NEW kind \in {"state", "pre"}, NEW size \in Sizes, PartialBackup(kind, size)
      PROVE  IInv'
  BY <1>7, PartialBackupKeeps
<1>8. ASSUME NEW size \in Sizes, NEW ok \in BOOLEAN, RecoverRestore(ok, size) PROVE IInv'
  BY <1>8, RecoverRestoreKeeps
<1>9. ASSUME NEW size \in Sizes, RestoreBackup(size) \/ SessionBackup(size) PROVE IInv'
  BY <1>9, RestoreBackupKeeps, SessionBackupKeeps
<1>10. CASE Retention
  BY <1>10, RetentionKeeps
<1>11. ASSUME NEW ok \in BOOLEAN,
              Replay(ok) \/ RestoreBegins(ok) \/ RestoreTables(ok) \/ Transaction(ok)
       PROVE  IInv'
  BY <1>11, ReplayKeeps, RestoreBeginsKeeps, RestoreTablesKeeps, TransactionKeeps
<1>12. CASE RecoverApply
  BY <1>12, RecoverApplyKeeps
<1>13. ASSUME NEW p \in Page, TakePage(p) PROVE IInv'
  BY <1>13, TakePageKeeps
<1>14. CASE SessionReused \/ Committed \/ MarkApplied \/ PagesDone
  BY <1>14, SessionReusedKeeps, CommittedKeeps, MarkAppliedKeeps, PagesDoneKeeps
<1>15. CASE Archive
  BY <1>15, ArchiveKeeps
<1>16. ASSUME NEW b \in Ids, Prune(b) PROVE IInv'
  BY <1>16, PruneKeeps
<1>17. CASE Pruned
  BY <1>17, PrunedKeeps
<1>18. CASE UNCHANGED vars
  <2>1. TypeOK'
    BY <1>18 DEF IInv, TypeOK, Ids, vars, user, run, journals
  <2>2. FilesInv'
    BY <1>18, SameFiles DEF IInv, vars
  <2>3. Candidates' = Candidates
    BY <1>18 DEF Candidates, Ids, vars, run
  <2>4. RunInv'
    BY <1>18, <2>3, SameFiles DEF IInv, RunInv, vars, run, journals
  <2>5. RestoreInv' /\ DataInv'
    BY <1>18 DEF IInv, RestoreInv, DataInv, Readable, vars, user, run, journals
  <2> QED BY <2>1, <2>2, <2>4, <2>5 DEF IInv
<1> QED
  BY <1>1, <1>2, <1>3, <1>4, <1>5, <1>6, <1>7, <1>8, <1>9, <1>10, <1>11, <1>12,
     <1>13, <1>14, <1>15, <1>16, <1>17, <1>18 DEF Next

LEMMA Invariance == Spec => []IInv
<1> QED BY InitKeeps, NextKeeps, PTL DEF Spec

(* THEOREM.  The state of the helper and its files is always well formed.  *)
THEOREM TypeCorrect == Spec => []TypeOK
<1>1. IInv => TypeOK
  BY DEF IInv
<1> QED BY <1>1, Invariance, PTL

(* THEOREM.  A page that is no longer queued is in the database, as long   *)
(* as no restore has rewound it: the helper marks after it has written,    *)
(* and never writes under an open Cursor.                                  *)
THEOREM MarkedWritten == Spec => []MarkedIsWritten
<1>1. IInv => MarkedIsWritten
  BY DEF IInv, DataInv, MarkedIsWritten
<1> QED BY <1>1, Invariance, PTL

-----------------------------------------------------------------------------
(* The two journals.                                                       *)

(* They are never open at once: a run closes what it finds before it opens *)
(* its own.  So a restore never comes between a committed page and the     *)
(* recovery that verifies it.                                              *)
JournalsInv ==
    /\ Open(applying.status) => ~Open(restoring.status)
    /\ pc \in {"restore", "prepare"} \/ (pc = "settled" /\ mode = "restore") =>
           ~Open(applying.status)
    /\ pc \in {"pages", "backup", "retain", "committed", "mark"}
           \/ (pc = "settled" /\ mode = "apply") => ~Open(restoring.status)
    /\ applying.status = "committed" => applying.page \subseteq db

(* The journal of an apply is closed as verified with its page written.    *)
VerifiedIsWritten ==
    applying.status # "verified" /\ applying'.status = "verified" => applying.page \subseteq db'

LEMMA JournalsKeep ==
    ASSUME IInv, JournalsInv, [Next]_vars
    PROVE  JournalsInv' /\ VerifiedIsWritten
<1> USE DEF Open
<1>0. /\ DataInv /\ RunInv /\ RestoreInv
      /\ pc \in {"committed", "mark"} => applying.page \subseteq db
      /\ applying \in [status : Statuses, page : SUBSET Page] /\ restoring.status \in Statuses
      /\ cursor = "open" => memory = db
  BY DEF IInv, DataInv, TypeOK
<1>1. ASSUME NEW u \in Use, Works(u)
      PROVE  JournalsInv' /\ VerifiedIsWritten
  BY <1>0, <1>1 DEF JournalsInv, VerifiedIsWritten, Works, run, journals
<1>2. CASE OpenCursor
  BY <1>0, <1>2 DEF JournalsInv, VerifiedIsWritten, OpenCursor, run, journals
<1>3. CASE CloseCursor
  BY <1>0, <1>3 DEF JournalsInv, VerifiedIsWritten, CloseCursor, run, journals
<1>4. ASSUME NEW b \in Ids, AskRestore(b)
      PROVE  JournalsInv' /\ VerifiedIsWritten
  BY <1>0, <1>4 DEF JournalsInv, VerifiedIsWritten, AskRestore, run, journals
<1>5. ASSUME NEW month \in BOOLEAN, Elapse(month)
      PROVE  JournalsInv' /\ VerifiedIsWritten
  BY <1>0, <1>5 DEF JournalsInv, VerifiedIsWritten, Elapse, run
<1>6. ASSUME NEW m \in {"apply", "restore"}, Start(m)
      PROVE  JournalsInv' /\ VerifiedIsWritten
  BY <1>0, <1>6 DEF JournalsInv, VerifiedIsWritten, Start, journals
<1>7. CASE Crash \/ Reopened
  BY <1>0, <1>7 DEF JournalsInv, VerifiedIsWritten, Crash, Reopened, Idle, journals
<1>8. ASSUME NEW kind \in {"state", "pre"}, NEW size \in Sizes, PartialBackup(kind, size)
      PROVE  JournalsInv' /\ VerifiedIsWritten
  BY <1>0, <1>8 DEF JournalsInv, VerifiedIsWritten, PartialBackup, Adds, journals
<1>9. ASSUME NEW size \in Sizes, NEW ok \in BOOLEAN, RecoverRestore(ok, size)
      PROVE  JournalsInv' /\ VerifiedIsWritten
  BY <1>0, <1>9 DEF JournalsInv, VerifiedIsWritten, RecoverRestore, Adds
<1>10. ASSUME NEW size \in Sizes, RestoreBackup(size)
      PROVE  JournalsInv' /\ VerifiedIsWritten
  BY <1>0, <1>10 DEF JournalsInv, VerifiedIsWritten, RestoreBackup, Adds, RunInv
<1>11. ASSUME NEW size \in Sizes, SessionBackup(size)
      PROVE  JournalsInv' /\ VerifiedIsWritten
  BY <1>0, <1>11 DEF JournalsInv, VerifiedIsWritten, SessionBackup, Adds, journals
<1>12. CASE Retention
  BY <1>0, <1>12 DEF JournalsInv, VerifiedIsWritten, Retention, Journal, RunInv
<1>13. ASSUME NEW ok \in BOOLEAN, Replay(ok)
      PROVE  JournalsInv' /\ VerifiedIsWritten
  BY <1>0, <1>13 DEF JournalsInv, VerifiedIsWritten, Replay, None, RestoreInv
<1>14. ASSUME NEW ok \in BOOLEAN, RestoreBegins(ok)
      PROVE  JournalsInv' /\ VerifiedIsWritten
  BY <1>0, <1>14 DEF JournalsInv, VerifiedIsWritten, RestoreBegins, Idle
<1>15. ASSUME NEW ok \in BOOLEAN, RestoreTables(ok)
      PROVE  JournalsInv' /\ VerifiedIsWritten
  BY <1>0, <1>15 DEF JournalsInv, VerifiedIsWritten, RestoreTables, Idle
<1>16. ASSUME NEW ok \in BOOLEAN, Transaction(ok)
      PROVE  JournalsInv' /\ VerifiedIsWritten
  BY <1>0, <1>16
     DEF JournalsInv, VerifiedIsWritten, Transaction, MayBegin, Idle, Journal
<1>17. CASE RecoverApply
  BY <1>0, <1>17
     DEF JournalsInv, VerifiedIsWritten, RecoverApply, Journal, Recovered, RunInv,
          TypeOK, IInv
<1>18. ASSUME NEW p \in Page, TakePage(p)
      PROVE  JournalsInv' /\ VerifiedIsWritten
  BY <1>0, <1>18 DEF JournalsInv, VerifiedIsWritten, TakePage
<1>19. CASE SessionReused
  BY <1>0, <1>19
     DEF JournalsInv, VerifiedIsWritten, SessionReused, Idle, Journal, RunInv
<1>20. CASE Committed
  BY <1>0, <1>20 DEF JournalsInv, VerifiedIsWritten, Committed, Journal
<1>21. CASE MarkApplied
  BY <1>0, <1>21 DEF JournalsInv, VerifiedIsWritten, MarkApplied, Journal
<1>22. CASE PagesDone
  BY <1>0, <1>22 DEF JournalsInv, VerifiedIsWritten, PagesDone, journals
<1>23. CASE Archive
  BY <1>0, <1>23 DEF JournalsInv, VerifiedIsWritten, Archive, Finished, Idle, journals
<1>24. ASSUME NEW b \in Ids, Prune(b)
      PROVE  JournalsInv' /\ VerifiedIsWritten
  BY <1>0, <1>24 DEF JournalsInv, VerifiedIsWritten, Prune, run, journals
<1>25. CASE Pruned
  BY <1>0, <1>25 DEF JournalsInv, VerifiedIsWritten, Pruned, Finished, Idle, journals
<1>26. CASE UNCHANGED vars
  BY <1>0, <1>26 DEF JournalsInv, VerifiedIsWritten, vars, run, journals
<1> HIDE DEF Open
<1> QED
  BY <1>1, <1>2, <1>3, <1>4, <1>5, <1>6, <1>7, <1>8, <1>9, <1>10, <1>11, <1>12, <1>13,
       <1>14, <1>15, <1>16, <1>17, <1>18, <1>19, <1>20, <1>21, <1>22, <1>23, <1>24,
       <1>25, <1>26
     DEF Next

(* THEOREM.  A journal of an apply is closed as verified only when its page*)
(* is in the database, also by a run that recovers what another left.      *)
THEOREM JournalIsTrue == Spec => JournalTrue
<1>1. Init => JournalsInv
  BY DEF Init, JournalsInv, NoPage, None, Open
<1>2. IInv /\ JournalsInv /\ [Next]_vars => JournalsInv' /\ [VerifiedIsWritten]_vars
  BY JournalsKeep
<1>3. Spec => []JournalsInv
  BY <1>1, <1>2, Invariance, PTL DEF Spec
<1> QED BY <1>2, <1>3, Invariance, PTL DEF Spec, JournalTrue, VerifiedIsWritten

-----------------------------------------------------------------------------
(* The promise.                                                            *)

(* What a step of RecoverableDatabase does to its variables.               *)
LEMMA PromiseSteps ==
    /\ Promise!vars = <<db, Contents, Latest, ~used>>
    /\ \A u \in Use : db' = db \cup {u} /\ used' /\ UNCHANGED <<Contents, Latest>> => Promise!Next
    /\ Snapshots => Promise!Next
    /\ Forgets /\ UNCHANGED <<db, used>> => Promise!Next
    /\ \A content \in SUBSET (Page \cup Use) :
          /\ ~used /\ Latest \in Contents
          /\ (\E p \in Page : content = db \cup {p}) \/ content \in Contents
          /\ db' = content /\ UNCHANGED <<Contents, Latest, used>>
          => Promise!Next
<1>1. Promise!vars = <<db, Contents, Latest, ~used>>
  BY DEF Promise!vars
<1>2. ASSUME NEW u \in Use, db' = db \cup {u}, used', UNCHANGED <<Contents, Latest>>
      PROVE  Promise!Next
  BY <1>2 DEF Promise!Next, Promise!Uses
<1>3. Snapshots => Promise!Next
  BY DEF Promise!Next, Promise!Snapshot, Snapshots
<1>4. Forgets /\ UNCHANGED <<db, used>> => Promise!Next
  BY DEF Promise!Next, Promise!Forget, Forgets
<1>5. ASSUME NEW content \in SUBSET (Page \cup Use),
             ~used /\ Latest \in Contents,
             (\E p \in Page : content = db \cup {p}) \/ content \in Contents,
             db' = content /\ UNCHANGED <<Contents, Latest, used>>
      PROVE  Promise!Next
  BY <1>5 DEF Promise!Next, Promise!Write
<1> QED BY <1>1, <1>2, <1>3, <1>4, <1>5

LEMMA PromiseStutters ==
    UNCHANGED <<db, Contents, Latest, used>> => UNCHANGED Promise!vars
  BY DEF Promise!vars

(* Every step of the helper is a step of the promise or none.              *)
LEMMA StepPromised ==
    ASSUME IInv, IInv', [Next]_vars
    PROVE  [Promise!Next]_(Promise!vars)
<1> DEFINE Kept == [Promise!Next]_(Promise!vars)
<1> SUFFICES Kept
  OBVIOUS
<1>0. TypeOK /\ FilesInv /\ RunInv /\ RestoreInv /\ DataInv
  BY DEF IInv
<1>1. ASSUME UNCHANGED <<db, backups, used>> PROVE Kept
  BY <1>1, SameFiles, PromiseStutters
<1>2. ASSUME NEW u \in Use, Works(u) PROVE Kept
  <2>1. db' = db \cup {u} /\ used' /\ UNCHANGED backups
    BY <1>0, <1>2 DEF Works, DataInv
  <2> QED BY <2>1, SameFiles, PromiseSteps
<1>3. ASSUME NEW content \in SUBSET (Page \cup Use),
             pin # {} /\ cursor = "closed",
             (\E p \in Page : content = db \cup {p}) \/ content \in Contents,
             db' = content /\ UNCHANGED <<backups, used>>
      PROVE  Kept
  <2>1. ~used /\ Latest \in Contents
    BY <1>0, <1>3, LatestReadable DEF DataInv, RunInv
  <2>2. UNCHANGED <<Contents, Latest>>
    BY <1>3, SameFiles
  <2> QED BY <1>3, <2>1, <2>2, PromiseSteps
<1>4. ASSUME restoring.source # 0, Readable(restoring.source)
      PROVE  /\ backups[restoring.source].content \in Contents
             /\ backups[restoring.source].content \in SUBSET (Page \cup Use)
  <2>1. restoring.source \in Ids
    BY <1>0, <1>4, BackupTypes DEF TypeOK
  <2> QED BY <1>0, <1>4, <2>1, BackupTypes DEF Contents, BackupFile
<1>5. CASE OpenCursor
  BY <1>1, <1>5 DEF OpenCursor
<1>6. CASE CloseCursor
  BY <1>0, <1>1, <1>6 DEF CloseCursor, DataInv
<1>7. ASSUME NEW b \in Ids, AskRestore(b) PROVE Kept
  BY <1>1, <1>7 DEF AskRestore
<1>8. ASSUME NEW month \in BOOLEAN, Elapse(month) PROVE Kept
  <2>1. UNCHANGED <<db, used>>
    BY <1>8 DEF Elapse
  <2> QED BY <1>8, <2>1, ElapseKeeps, PromiseStutters
<1>9. ASSUME NEW m \in {"apply", "restore"}, Start(m) PROVE Kept
  BY <1>1, <1>9 DEF Start
<1>10. CASE Crash \/ Reopened
  BY <1>1, <1>10 DEF Crash, Reopened
<1>11. ASSUME NEW kind \in {"state", "pre"}, NEW size \in Sizes, PartialBackup(kind, size)
       PROVE  Kept
  <2> DEFINE b == [Backup(kind, size) EXCEPT !.ok = FALSE]
  <2>1. b \in BackupFile /\ ~b.ok /\ ~b.meta /\ backups' = Append(backups, b)
    BY <1>0, <1>11, BackupType DEF PartialBackup, Adds
  <2>2. UNCHANGED <<db, used>>
    BY <1>11 DEF PartialBackup
  <2> HIDE DEF b
  <2>3. TypeOK'
    BY DEF IInv
  <2>4. UNCHANGED <<Contents, Latest>>
    BY <1>0, <2>1, <2>3, AddedPiece
  <2> QED BY <2>2, <2>4, PromiseStutters
<1>12. ASSUME NEW size \in Sizes, NEW ok \in BOOLEAN, RecoverRestore(ok, size) PROVE Kept
  BY <1>1, <1>12, RecoverRestoreKeeps, PromiseSteps
<1>13. ASSUME NEW size \in Sizes, RestoreBackup(size) \/ SessionBackup(size) PROVE Kept
  BY <1>13, RestoreBackupKeeps, SessionBackupKeeps, PromiseSteps
<1>14. CASE Retention
  <2>1. UNCHANGED <<db, used>>
    BY <1>14 DEF Retention
  <2> QED BY <1>14, <2>1, RetentionKeeps, PromiseSteps
<1>15. ASSUME NEW ok \in BOOLEAN, Replay(ok) PROVE Kept
  <2>1. CASE ok
    <3>1. /\ restoring.source # 0 /\ Readable(restoring.source) /\ pin # {}
          /\ cursor = "closed" /\ db' = backups[restoring.source].content
          /\ UNCHANGED <<backups, used>>
      BY <1>0, <1>15, <2>1 DEF Replay, RunInv, RestoreInv
    <3> QED BY <1>3, <1>4, <3>1
  <2>2. CASE ~ok
    BY <1>1, <1>15, <2>2 DEF Replay
  <2> QED BY <2>1, <2>2
<1>16. ASSUME NEW ok \in BOOLEAN, RestoreBegins(ok) PROVE Kept
  BY <1>1, <1>16 DEF RestoreBegins
<1>17. ASSUME NEW ok \in BOOLEAN, RestoreTables(ok) PROVE Kept
  <2>1. CASE ok
    <3>1. /\ restoring.source # 0 /\ Readable(restoring.source) /\ pin # {}
          /\ cursor = "closed" /\ db' = backups[restoring.source].content
          /\ UNCHANGED <<backups, used>>
      BY <1>0, <1>17, <2>1 DEF RestoreTables, RunInv, RestoreInv
    <3> QED BY <1>3, <1>4, <3>1
  <2>2. CASE ~ok
    BY <1>1, <1>17, <2>2 DEF RestoreTables
  <2> QED BY <2>1, <2>2
<1>18. ASSUME NEW ok \in BOOLEAN, Transaction(ok) PROVE Kept
  <2>1. CASE ok
    <3>1. PICK p \in Page : applying.page = {p}
      BY <1>0, <1>18 DEF Transaction, RunInv
    <3>2. /\ pin # {} /\ cursor = "closed" /\ db' = db \cup {p} /\ UNCHANGED <<backups, used>>
      BY <1>0, <1>18, <2>1, <3>1 DEF Transaction, MayBegin, RunInv
    <3>3. db \cup {p} \in SUBSET (Page \cup Use)
      BY <1>0 DEF TypeOK
    <3> QED BY <1>3, <3>2, <3>3
  <2>2. CASE ~ok
    BY <1>1, <1>18, <2>2 DEF Transaction
  <2> QED BY <2>1, <2>2
<1>19. CASE RecoverApply
  BY <1>1, <1>19 DEF RecoverApply
<1>20. ASSUME NEW p \in Page, TakePage(p) PROVE Kept
  BY <1>1, <1>20 DEF TakePage
<1>21. CASE SessionReused \/ Committed \/ MarkApplied \/ PagesDone
  BY <1>1, <1>21 DEF SessionReused, Committed, MarkApplied, PagesDone
<1>22. CASE Archive
  <2>1. UNCHANGED <<db, used>>
    BY <1>22 DEF Archive, Finished
  <2> QED BY <1>22, <2>1, ArchiveKeeps, PromiseStutters
<1>23. ASSUME NEW b \in Ids, Prune(b) PROVE Kept
  <2>1. UNCHANGED <<db, used>>
    BY <1>23 DEF Prune
  <2> QED BY <1>23, <2>1, PruneKeeps, PromiseSteps, PromiseStutters
<1>24. CASE Pruned
  BY <1>1, <1>24 DEF Pruned, Finished
<1>25. CASE UNCHANGED vars
  BY <1>1, <1>25 DEF vars
<1> HIDE DEF Kept
<1> QED
  BY <1>2, <1>5, <1>6, <1>7, <1>8, <1>9, <1>10, <1>11, <1>12, <1>13, <1>14, <1>15,
       <1>16,
     <1>17, <1>18, <1>19, <1>20, <1>21, <1>22, <1>23, <1>24, <1>25 DEF Next

(* THEOREM.  The database changes as a whole or not at all, never before a *)
(* copy of what the user had is complete, and the newest copy can always be*)
(* restored, whatever crashes, retention and pruning do to the files.      *)
THEOREM DatabaseIsRecoverable == Spec => Recoverable
<1>1. Init => Promise!Init
  <2> SUFFICES ASSUME Init PROVE Promise!Init
    OBVIOUS
  <2>1. Ids = {} /\ db = {} /\ used = TRUE
    BY DEF Init, Ids
  <2> QED BY <2>1 DEF Promise!Init, Contents, Latest, Complete
<1>2. IInv /\ IInv' /\ [Next]_vars => [Promise!Next]_(Promise!vars)
  BY StepPromised
<1> QED BY <1>1, <1>2, Invariance, PTL DEF Spec, Recoverable, Promise!Spec
=============================================================================
