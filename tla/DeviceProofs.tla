---------------------------- MODULE DeviceProofs ----------------------------
(***************************************************************************)
(* What is proved of the machines of one computer that MCDevice puts side  *)
(* by side, for any number of windows, repositories, claims and writes.    *)
(***************************************************************************)
EXTENDS MCDevice, WellFoundedInduction, TLAPS

-----------------------------------------------------------------------------
(* Connection.                                                             *)

RepoOrNone == Repo \cup {None}

Opening == [root : RepoOrNone, current : BOOLEAN]

ConnectionTypeInv ==
    /\ config \in [Process -> RepoOrNone] /\ held \in [Process -> RepoOrNone]
    /\ key \in [Process -> RepoOrNone] /\ target \in [Process -> RepoOrNone]
    /\ cycle \in [Process -> RepoOrNone] /\ stored \in RepoOrNone
    /\ opening \in [Process -> Opening]
    /\ op \in [Process -> {"idle", "install", "store", "rejoin", "leave", "forget", "clear"}]

(* The user runs one command at a time; a repository that is reported, or  *)
(* about to be reported, as left has its marker.                           *)
MarkersInv ==
    /\ left \subseteq markers
    /\ \A w \in Process :
           /\ op[w] \in {"forget", "clear"} => target[w] \in markers
           /\ \A v \in Process : op[v] # "idle" /\ op[w] # "idle" => v = w

ConnectionInv == ConnectionTypeInv /\ KeyIsWhole /\ MarkersInv

-----------------------------------------------------------------------------
(* ApplyClaim.                                                             *)

(* Claims are numbered; those at work are numbered apart.                  *)
ClaimRecord == [nonce : Nat, by : Process \cup {"dead"}, fresh : BOOLEAN]

ClaimTypeInv ==
    /\ claimFile \in ClaimRecord
    /\ step \in [Process -> {"idle", "prepare", "launch", "release"}]
    /\ nonce \in [Process -> Nat] /\ active \in [Process -> Nat] /\ veto \in [Process -> Nat]
    /\ issued \in Nat /\ waiting \subseteq 1..issued
    /\ claimFile.nonce <= issued

NoncesInv ==
    \A h \in Process :
        /\ nonce[h] <= issued /\ veto[h] <= issued
        /\ step[h] # "idle" => nonce[h] > 0 /\ nonce[h] \notin waiting
        /\ \A g \in Process :
               /\ step[h] # "idle" /\ g # h => nonce[g] # nonce[h]
               /\ step[h] # "idle" => veto[g] # nonce[h]
               /\ g # h /\ veto[h] # 0 => veto[g] # veto[h]

(* The claim of a window that launches, or of a helper that waits, is in   *)
(* the file and fresh.                                                     *)
ClaimInv ==
    /\ \A h \in Process :
           step[h] = "launch" =>
               /\ claimFile = [nonce |-> nonce[h], by |-> h, fresh |-> TRUE]
               /\ active[h] = nonce[h]
    /\ \A n \in waiting :
           /\ claimFile.nonce = n /\ claimFile.fresh /\ claimFile.by \in Process
           /\ veto[claimFile.by] = n /\ active[claimFile.by] = n

(* The file names the window whose claim it is, and that window knows it.  *)
OwnersInv ==
    /\ claimFile.fresh => /\ claimFile.nonce > 0
                          /\ claimFile.by \in Process => active[claimFile.by] = claimFile.nonce
    /\ \A h \in Process : claimFile.nonce \in {nonce[h], veto[h]} \ {0} => claimFile.by = h

ApplyInv == ClaimTypeInv /\ NoncesInv /\ ClaimInv /\ OwnersInv

-----------------------------------------------------------------------------
(* LocalState.                                                             *)

Record == [id : Nat, value : Value, failed : BOOLEAN]
RecordOrNone == Record \cup {None}

StateTypeInv ==
    /\ file \in RecordOrNone /\ writes \in Nat /\ owner \in Process \cup {None}
    /\ memory \in [Process -> RecordOrNone] /\ digest \in [Process -> RecordOrNone]
    /\ sight \in [Process -> Nat] /\ ready \subseteq Process /\ ids \in Nat
    /\ at \in [Process -> {"closed", "idle", "initialize", "refresh", "work", "failed"}]
    /\ saved \in Value /\ readable = TRUE

(* Until the file is first written nobody has read anything.               *)
FirstInv ==
    file = None => /\ saved = FirstValue /\ ready = {}
                   /\ \A p \in Process : digest[p] = None

(* Who is in a cycle holds the lock; who has last seen the file as it is   *)
(* has its digest, and works on it.                                        *)
SightInv ==
    \A p \in Process :
        /\ at[p] \in {"initialize", "refresh", "work", "failed"} => owner = p
        /\ at[p] \in {"refresh", "work", "failed"} => p \in ready
        /\ p \in ready => memory[p] \in Record
        /\ sight[p] <= writes
        /\ p \in ready /\ sight[p] = writes => digest[p] = file
        /\ at[p] = "work" => sight[p] = writes

StateInv == StateTypeInv /\ FirstInv /\ SightInv /\ FileIsWhatWasSaved

-----------------------------------------------------------------------------
(* WorkspaceRows.                                                          *)

HeaderOf(places, columns) == [workspace : places, value : Value, column : columns]

HeadersIn(sch, places) ==
    CASE sch = "none" -> {None}
      [] sch = "plain" -> {None} \cup HeaderOf(places, {None})
      [] sch = "full" -> {None} \cup HeaderOf(places, {None} \cup Value)

AreRows(r, sch, places) ==
    /\ r = [spot \in R!Spot |-> r[spot]]
    /\ r["item"] \in {None} \cup Value /\ r["layout"] \in {None} \cup Value
    /\ r["header"] \in HeadersIn(sch, places)

(* A snapshot is of the source, under the name that all computers know.    *)
IsSnapshot(e) ==
    /\ e = [rows |-> e.rows, schema |-> schema["source"]]
    /\ AreRows(e.rows, schema["source"], {"canonical", "other"})

RowsTypeInv ==
    /\ schema \in [R!Side -> R!Schema] /\ rowWrites \in Nat
    /\ db = [s \in R!Side |-> db[s]]
    /\ \A s \in R!Side : AreRows(db[s], schema[s], {s, "other"})
    /\ capture = [at |-> capture.at, attempt |-> capture.attempt,
                  content |-> capture.content, changed |-> capture.changed]
    /\ capture.at = "captured" => IsSnapshot(capture.content)
    /\ event # None => IsSnapshot(event)

(* A helper works with the snapshot published, which does not change any   *)
(* more; what it has checked last is that the backup is the one sealed.    *)
RowsInv ==
    /\ RowsTypeInv
    /\ capture.at # "idle" => event = None
    /\ merge # "idle" => event # None /\ ~R!Unsupported
    /\ merge = "checked" => backup # None /\ R!Seen(backup) = sealed

-----------------------------------------------------------------------------
(* A step is one of one machine, and leaves the others as they are.        *)
LEMMA OneMoves ==
    ASSUME [MCNext]_allVars
    PROVE  /\ C!Next \/ UNCHANGED connectionVars
           /\ A!Next \/ UNCHANGED claimVars
           /\ S!Next \/ UNCHANGED stateVars
           /\ R!Next \/ UNCHANGED rowVars
           /\ Q!Next \/ UNCHANGED scanVars
BY DEF MCNext, Only, allVars

-----------------------------------------------------------------------------
(* Connection: the steps.                                                  *)

LEMMA OpeningsAre ==
    /\ \A r \in RepoOrNone : [root |-> r, current |-> TRUE] \in Opening
    /\ C!NoOpen \in Opening
    /\ \A o \in Opening : o.root \in RepoOrNone /\ [o EXCEPT !.current = FALSE] \in Opening
BY DEF Opening, RepoOrNone, C!NoOpen

LEMMA ConnectionInit == MCInit => ConnectionInv
BY OpeningsAre
   DEF MCInit, C!Init, ConnectionInv, ConnectionTypeInv, MarkersInv, RepoOrNone,
       KeyIsWhole, C!KeyIsWhole

LEMMA ConnectionStays == ConnectionInv /\ UNCHANGED connectionVars => ConnectionInv'
BY DEF connectionVars, ConnectionInv, ConnectionTypeInv, MarkersInv, RepoOrNone,
       KeyIsWhole, C!KeyIsWhole

LEMMA OutdatedIs ==
    ASSUME opening \in [Process -> Opening], NEW w \in Process, C!Outdate(w)
    PROVE  opening' \in [Process -> Opening]
BY OpeningsAre DEF C!Outdate

LEMMA ConnectionSteps ==
    ASSUME ConnectionInv, C!Next
    PROVE  ConnectionInv'
<1> USE DEF ConnectionInv, ConnectionTypeInv, MarkersInv, KeyIsWhole,
            C!KeyIsWhole, C!shared
<1>1. ASSUME NEW w \in Process, C!BeginOpen(w)
      PROVE  ConnectionInv'
  BY <1>1, OpeningsAre DEF RepoOrNone, C!BeginOpen, C!Asks
<1>2. ASSUME NEW w \in Process, NEW ok \in BOOLEAN, C!FinishOpen(w, ok)
      PROVE  ConnectionInv'
  BY <1>2, OpeningsAre DEF RepoOrNone, C!FinishOpen, C!Relevant
<1>3. ASSUME NEW w \in Process, C!StandDown(w)
      PROVE  ConnectionInv'
  BY <1>3, OutdatedIs DEF RepoOrNone, C!StandDown
<1>4. ASSUME NEW w \in Process, C!BeginCycle(w)
      PROVE  ConnectionInv'
  BY <1>4 DEF RepoOrNone, C!BeginCycle
<1>5. ASSUME NEW w \in Process, C!EndCycle(w)
      PROVE  ConnectionInv'
  BY <1>5 DEF RepoOrNone, C!EndCycle
<1>6. ASSUME NEW w \in Process, C!Reconnect(w)
      PROVE  ConnectionInv'
  BY <1>6, OpeningsAre DEF RepoOrNone, C!Reconnect
<1>7. ASSUME NEW w \in Process, C!Reload(w)
      PROVE  ConnectionInv'
  BY <1>7, OpeningsAre DEF RepoOrNone, C!Reload
<1>8. ASSUME NEW w \in Process, NEW r \in Repo, NEW ok \in BOOLEAN, C!SetupOpens(w, r, ok)
      PROVE  ConnectionInv'
  BY <1>8, OutdatedIs DEF RepoOrNone, C!SetupOpens, C!Command, C!UserIsFree
<1>9. ASSUME NEW w \in Process, C!SetupInstalls(w)
      PROVE  ConnectionInv'
  BY <1>9 DEF RepoOrNone, C!SetupInstalls
<1>10. ASSUME NEW w \in Process, C!SetupStores(w)
      PROVE  ConnectionInv'
  BY <1>10 DEF RepoOrNone, C!SetupStores
<1>11. ASSUME NEW w \in Process, C!SetupRejoins(w)
      PROVE  ConnectionInv'
  BY <1>11 DEF RepoOrNone, C!SetupRejoins
<1>12. ASSUME NEW w \in Process, C!DisconnectBegins(w)
      PROVE  ConnectionInv'
  BY <1>12, OutdatedIs DEF RepoOrNone, C!DisconnectBegins, C!Command, C!UserIsFree
<1>13. ASSUME NEW w \in Process, C!DisconnectMarks(w)
      PROVE  ConnectionInv'
  BY <1>13 DEF RepoOrNone, C!DisconnectMarks, C!Leaving
<1>14. ASSUME NEW w \in Process, C!ForgetKey(w)
      PROVE  ConnectionInv'
  BY <1>14 DEF RepoOrNone, C!ForgetKey
<1>15. ASSUME NEW w \in Process, C!ForgetPath(w)
      PROVE  ConnectionInv'
  BY <1>15 DEF RepoOrNone, C!ForgetPath
<1> QED
  BY <1>1, <1>2, <1>3, <1>4, <1>5, <1>6, <1>7, <1>8, <1>9, <1>10, <1>11, <1>12, <1>13,
       <1>14, <1>15
     DEF C!Next

LEMMA ConnectionInvariance == MCSpec => []ConnectionInv
<1>1. ConnectionInv /\ [MCNext]_allVars => ConnectionInv'
  BY OneMoves, ConnectionSteps, ConnectionStays
<1> QED BY <1>1, ConnectionInit, PTL DEF MCSpec

(* Overlapping opens, Setup, Disconnect and windows that stand down leave  *)
(* no window with a repository open and no key, or another one's.          *)
THEOREM KeysAreWhole == MCSpec => []KeyIsWhole
BY ConnectionInvariance, PTL DEF ConnectionInv

(* After Disconnect has reported that synchronization has stopped, no      *)
(* window of the computer begins a cycle in that repository until Setup    *)
(* connects it again.                                                      *)
THEOREM WindowsStandDown == MCSpec => C!StandsDown
<1> DEFINE Stands == \A w \in Process :
               cycle[w] = None /\ cycle'[w] # None => cycle'[w] \notin left
<1>1. ASSUME ConnectionInv, C!Next
      PROVE  Stands
  <2> SUFFICES ASSUME NEW v \in Process, cycle[v] = None, cycle'[v] # None
               PROVE  cycle'[v] \notin left
    OBVIOUS
  <2>1. left \subseteq markers /\ cycle \in [Process -> RepoOrNone]
    BY <1>1 DEF ConnectionInv, MarkersInv, ConnectionTypeInv
  <2>2. cycle' # cycle
    OBVIOUS
  <2>3. PICK w \in Process : \/ C!BeginCycle(w) \/ C!EndCycle(w) \/ C!Reload(w)
    BY <1>1, <2>2, SMTT(30)
       DEF C!Next, C!BeginOpen, C!FinishOpen, C!StandDown, C!Reconnect, C!SetupOpens,
           C!SetupInstalls, C!SetupStores, C!SetupRejoins, C!DisconnectBegins,
           C!DisconnectMarks, C!ForgetKey, C!ForgetPath
  <2> QED BY <2>1, <2>3 DEF C!BeginCycle, C!LeftElsewhere, C!EndCycle, C!Reload
<1>2. ConnectionInv /\ [MCNext]_allVars => [Stands]_(C!vars)
  BY <1>1, OneMoves DEF connectionVars, C!vars, C!shared
<1> QED BY <1>2, ConnectionInvariance, PTL DEF MCSpec, C!StandsDown

-----------------------------------------------------------------------------
(* ApplyClaim: the steps.                                                  *)

LEMMA ClaimsInit == MCInit => ApplyInv
BY DEF MCInit, A!Init, A!NoFile, ClaimRecord, ApplyInv, ClaimTypeInv, NoncesInv,
     ClaimInv, OwnersInv

LEMMA ClaimsStay == ApplyInv /\ UNCHANGED claimVars => ApplyInv'
BY DEF claimVars, ApplyInv, ClaimTypeInv, NoncesInv, ClaimInv, OwnersInv

(* What a claim file says.                                                 *)
LEMMA StampIs ==
    ASSUME NEW h \in Process, NEW n \in Nat, A!Stamp(h, n)
    PROVE  /\ claimFile' \in ClaimRecord
           /\ claimFile' = [nonce |-> n, by |-> h, fresh |-> TRUE]
           /\ claimFile'.nonce = n /\ claimFile'.by = h /\ claimFile'.fresh
BY DEF A!Stamp, ClaimRecord

LEMMA ClaimIs ==
    ASSUME NEW c \in ClaimRecord, NEW b \in BOOLEAN
    PROVE  /\ [c EXCEPT !.fresh = b] \in ClaimRecord
           /\ [c EXCEPT !.fresh = b].nonce = c.nonce /\ [c EXCEPT !.fresh = b].by = c.by
           /\ [c EXCEPT !.fresh = b].fresh = b
BY DEF ClaimRecord

LEMMA DeadIs ==
    ASSUME NEW c \in ClaimRecord
    PROVE  /\ [c EXCEPT !.by = "dead"] \in ClaimRecord
           /\ [c EXCEPT !.by = "dead"].nonce = c.nonce /\ [c EXCEPT !.by = "dead"].by = "dead"
           /\ [c EXCEPT !.by = "dead"].fresh = c.fresh
BY DEF ClaimRecord

LEMMA NoFileIs ==
    /\ A!NoFile \in ClaimRecord
    /\ A!NoFile.nonce = 0 /\ A!NoFile.by = "dead" /\ ~A!NoFile.fresh
BY DEF A!NoFile, ClaimRecord

LEMMA ClaimSteps ==
    ASSUME ApplyInv, A!Next
    PROVE  ApplyInv'
<1> USE DEF ApplyInv, ClaimTypeInv, NoncesInv, ClaimInv, OwnersInv
<1>1. ASSUME NEW h \in Process, NEW restore \in BOOLEAN, A!Begin(h, restore)
      PROVE  ApplyInv'
  <2>1. A!Stamp(h, issued') /\ issued' = issued + 1 /\ waiting = {}
    BY <1>1 DEF A!Begin
  <2> QED BY <1>1, <2>1, StampIs DEF A!Begin
<1>2. ASSUME NEW h \in Process, A!Prepared(h)
      PROVE  ApplyInv'
  BY <1>2, StampIs DEF A!Prepared, A!Superseded
<1>3. ASSUME NEW h \in Process, A!Abandons(h)
      PROVE  ApplyInv'
  BY <1>3 DEF A!Abandons
<1>4. ASSUME NEW h \in Process, A!Released(h)
      PROVE  ApplyInv'
  BY <1>4, NoFileIs DEF A!Released, A!Clear
<1>5. ASSUME NEW h \in Process, A!Launched(h)
      PROVE  ApplyInv'
  <2>1. nonce[h] \in 1..issued /\ nonce[h] # 0 /\ nonce[h] \notin waiting
    BY <1>5 DEF A!Launched
  <2>a. claimFile.nonce = nonce[h]
    BY <1>5 DEF A!Launched
  <2>b. waiting = {} /\ waiting' = {nonce[h]}
    BY <1>5, <2>1, <2>a, ZenonT(40) DEF A!Launched
  <2>2. ClaimTypeInv' /\ ClaimInv'
    BY <1>5, <2>1, <2>b DEF A!Launched
  <2>3. NoncesInv'
    BY <1>5, <2>1, <2>b DEF A!Launched
  <2>4. OwnersInv'
    BY <1>5, <2>1, <2>b DEF A!Launched
  <2> QED BY <2>2, <2>3, <2>4
<1>6. ASSUME NEW h \in Process, A!QuitVetoed(h)
      PROVE  ApplyInv'
  BY <1>6, NoFileIs DEF A!QuitVetoed, A!Clear
<1>7. ASSUME NEW h \in Process, NEW n \in reports, A!Consumed(h, n)
      PROVE  ApplyInv'
  BY <1>7, NoFileIs, DeviceAssumption DEF A!Consumed, A!ClearUnlessForeign
<1>8. ASSUME NEW n \in waiting, A!Reported(n)
      PROVE  ApplyInv'
  BY <1>8 DEF A!Reported
<1>9. ASSUME A!AgesOut
      PROVE  ApplyInv'
  <2>1. claimFile \in ClaimRecord /\ claimFile' = [claimFile EXCEPT !.fresh = FALSE]
    BY <1>9 DEF A!AgesOut
  <2>2. /\ claimFile' \in ClaimRecord
        /\ claimFile'.nonce = claimFile.nonce /\ claimFile'.by = claimFile.by
        /\ claimFile'.fresh = FALSE
    BY ONLY <2>1, ClaimIs
  <2>3. waiting = {} /\ \A h \in Process : step[h] # "launch"
    BY <1>9 DEF A!AgesOut
  <2> QED BY <1>9, <2>2, <2>3 DEF A!AgesOut
<1>10. ASSUME NEW gone \in (SUBSET Process) \ {{}}, A!Dies(gone)
      PROVE  ApplyInv'
  <2>1. gone \subseteq Process
    OBVIOUS
  <2>2. claimFile \in ClaimRecord
    OBVIOUS
  <2>3. /\ claimFile' \in ClaimRecord /\ claimFile'.nonce = claimFile.nonce
        /\ claimFile'.by = (IF claimFile.by \in gone THEN "dead" ELSE claimFile.by)
        /\ claimFile'.fresh = claimFile.fresh
        /\ claimFile.by \notin gone => claimFile' = claimFile
    <3>1. claimFile' = IF claimFile.by \in gone THEN [claimFile EXCEPT !.by = "dead"]
                       ELSE claimFile
      BY <1>10 DEF A!Dies
    <3>2. LET c == [claimFile EXCEPT !.by = "dead"] IN
          c \in ClaimRecord /\ c.nonce = claimFile.nonce /\ c.by = "dead"
          /\ c.fresh = claimFile.fresh
      BY ONLY <2>2, DeadIs
    <3>3. CASE claimFile.by \in gone
      BY ONLY <3>1, <3>2, <3>3
    <3>4. CASE claimFile.by \notin gone
      BY ONLY <3>1, <3>4, <2>2
    <3> QED BY ONLY <3>3, <3>4
  <2>4. ClaimTypeInv' /\ NoncesInv'
    BY <1>10, <2>1, <2>3 DEF A!Dies
  <2>5. ClaimInv'
    <3>1. ASSUME NEW h \in Process, step'[h] = "launch"
          PROVE  claimFile' = [nonce |-> nonce'[h], by |-> h, fresh |-> TRUE]
                 /\ active'[h] = nonce'[h]
      <4>1. h \notin gone /\ step[h] = "launch" /\ nonce'[h] = nonce[h] /\ active'[h] = active[h]
        BY <3>1, <1>10 DEF A!Dies
      <4>2. claimFile = [nonce |-> nonce[h], by |-> h, fresh |-> TRUE] /\ active[h] = nonce[h]
        BY <4>1
      <4>3. claimFile.by = h
        BY ONLY <4>2
      <4> QED BY ONLY <4>1, <4>2, <4>3, <2>3
    <3>2. ASSUME NEW n \in waiting'
          PROVE  /\ claimFile'.nonce = n /\ claimFile'.fresh /\ claimFile'.by \in Process
                 /\ veto'[claimFile'.by] = n /\ active'[claimFile'.by] = n
      <4>1. n \in waiting /\ gone # Process
        BY <3>2, <1>10 DEF A!Dies
      <4>2. claimFile.by \in Process \ gone
        BY <4>1, <1>10 DEF A!Dies
      <4> QED BY <4>1, <4>2, <2>3, <1>10 DEF A!Dies
    <3> QED BY ONLY <3>1, <3>2 DEF ClaimInv
  <2>6. OwnersInv'
    BY <1>10, <2>1, <2>3, DeviceAssumption DEF A!Dies
  <2> QED BY <2>4, <2>5, <2>6
<1> QED
  BY <1>1, <1>2, <1>3, <1>4, <1>5, <1>6, <1>7, <1>8, <1>9, <1>10 DEF A!Next

LEMMA ClaimInvariance == MCSpec => []ApplyInv
<1>1. ApplyInv /\ [MCNext]_allVars => ApplyInv'
  BY OneMoves, ClaimSteps, ClaimsStay
<1> QED BY <1>1, ClaimsInit, PTL DEF MCSpec

(* However late veto timers fire, results are consumed, preparations end   *)
(* and windows die: two helpers never wait for the same quit.              *)
THEOREM OneHelper == MCSpec => []OneHelperWaits
<1>1. ApplyInv => OneHelperWaits
  BY DEF ApplyInv, ClaimInv, OneHelperWaits, A!OneHelperWaits
<1> QED BY <1>1, ClaimInvariance, PTL

(* The fresh claim of a live window is erased or replaced by that window   *)
(* only, when its quit was vetoed or its command lets go of it.            *)
THEOREM ClaimsAreTheirOwners == MCSpec => A!ClaimIsItsOwners
<1> DEFINE Lets == \/ veto[claimFile.by] = claimFile.nonce
                   \/ nonce[claimFile.by] = claimFile.nonce /\ step[claimFile.by] = "release"
           Owned == claimFile.fresh /\ claimFile.by # "dead" /\ claimFile'.nonce # claimFile.nonce
                    => Lets
<1>1. ASSUME ApplyInv, A!Next
      PROVE  Owned
  <2> SUFFICES ASSUME claimFile.fresh, claimFile.by # "dead",
                      claimFile'.nonce # claimFile.nonce
               PROVE  Lets
    OBVIOUS
  <2> USE DEF ApplyInv, ClaimTypeInv, NoncesInv, OwnersInv
  <2>1. claimFile \in ClaimRecord /\ claimFile.by \in Process /\ claimFile.nonce > 0
        /\ active[claimFile.by] = claimFile.nonce
    BY <1>1 DEF ClaimRecord
  <2>2. ASSUME NEW h \in Process, A!Prepared(h)
        PROVE  FALSE
    BY <1>1, <2>1, <2>2, StampIs DEF A!Prepared, A!Superseded
  <2>3. ASSUME NEW h \in Process, A!Released(h)
        PROVE  Lets
    BY <1>1, <2>1, <2>3 DEF A!Released, A!Clear
  <2>4. ASSUME NEW h \in Process, A!QuitVetoed(h)
        PROVE  Lets
    BY <1>1, <2>1, <2>4 DEF A!QuitVetoed, A!Clear
  <2>5. ASSUME NEW h \in Process, NEW n \in reports, A!Consumed(h, n)
        PROVE  FALSE
    BY <2>1, <2>5 DEF A!Consumed, A!ClearUnlessForeign
  <2>6. ASSUME NEW h \in Process
        PROVE  /\ \A restore \in BOOLEAN : ~A!Begin(h, restore)
               /\ ~A!Abandons(h) /\ ~A!Launched(h)
    BY DEF A!Begin, A!Abandons, A!Launched
  <2>7. /\ \A n \in waiting : ~A!Reported(n)
        /\ ~A!AgesOut
    <3>1. LET c == [claimFile EXCEPT !.fresh = FALSE] IN c.nonce = claimFile.nonce
      BY <2>1, ClaimIs
    <3> QED BY <3>1 DEF A!Reported, A!AgesOut
  <2>8. ASSUME NEW gone \in (SUBSET Process) \ {{}}, A!Dies(gone)
        PROVE  FALSE
    <3>1. claimFile' = claimFile \/ claimFile' = [claimFile EXCEPT !.by = "dead"]
      BY <2>8 DEF A!Dies
    <3> QED BY <3>1, <2>1, DeadIs
  <2> QED BY <1>1, <2>2, <2>3, <2>4, <2>5, <2>6, <2>7, <2>8 DEF A!Next
<1>2. ApplyInv /\ [MCNext]_allVars => [Owned]_(A!vars)
  BY <1>1, OneMoves DEF claimVars, A!vars
<1> QED BY <1>2, ClaimInvariance, PTL DEF MCSpec, A!ClaimIsItsOwners

-----------------------------------------------------------------------------
(* LocalState: the steps.                                                  *)

(* What stands for no file is not a record, and the first value is one.    *)
LEMMA RecordsAre ==
    /\ None \notin Record /\ FirstValue \in Value
    /\ \A i \in Nat : S!State(i, FirstValue, FALSE) \in Record
    /\ S!State(0, FirstValue, FALSE).value = FirstValue
    /\ \A r \in Record, v \in Value :
           S!State(r.id, v, FALSE) \in Record /\ S!State(r.id, v, FALSE).value = v
    /\ \A r \in Record : [r EXCEPT !.failed = TRUE] \in Record
                         /\ [r EXCEPT !.failed = TRUE].value = r.value
    /\ \A r \in Record : r.value \in Value
<1>1. None \notin Record /\ FirstValue \in Value
  BY DeviceAssumption DEF Record, FirstValue
<1> QED BY <1>1 DEF Record, S!State

LEMMA StateInit == MCInit => StateInv
<1> SUFFICES ASSUME MCInit PROVE StateInv
  OBVIOUS
<1>1. (file \in Record /\ file.value = FirstValue) \/ file = None
  BY RecordsAre, ZenonT(40) DEF MCInit, S!Init
<1>2. /\ writes = 0 /\ readable = TRUE /\ owner = None /\ ready = {} /\ ids = 1
      /\ memory = [p \in Process |-> None] /\ digest = [p \in Process |-> None]
      /\ sight = [p \in Process |-> 0] /\ at = [p \in Process |-> "closed"]
      /\ saved = FirstValue
  BY DEF MCInit, S!Init
<1>3. StateTypeInv
  BY <1>1, <1>2, RecordsAre DEF StateTypeInv, RecordOrNone
<1>4. FirstInv /\ SightInv
  BY <1>2 DEF FirstInv, SightInv
<1>5. FileIsWhatWasSaved
  BY <1>1, <1>2 DEF FileIsWhatWasSaved, S!FileIsWhatWasSaved
<1> QED BY <1>3, <1>4, <1>5 DEF StateInv

LEMMA StateStays == StateInv /\ UNCHANGED stateVars => StateInv'
BY DEF stateVars, StateInv, StateTypeInv, FirstInv, SightInv,
       FileIsWhatWasSaved, S!FileIsWhatWasSaved

(* A new state is a record of its own, with nothing in it.                 *)
LEMMA UnpersistedIs ==
    ASSUME ids \in Nat
    PROVE  S!unpersisted \in Record /\ S!unpersisted.value = FirstValue
BY RecordsAre DEF S!unpersisted, S!State, Record

(* Who loads or creates the file works on what is in it.                   *)
LEMMA OpenedIs ==
    ASSUME StateInv, NEW p \in Process, S!loadOrCreate(p)
    PROVE  /\ file' \in Record /\ file'.value = saved /\ writes' \in Nat /\ ids' \in Nat
           /\ \/ file # None /\ file' = file /\ writes' = writes
              \/ file = None /\ writes' = writes + 1
           /\ memory' = [memory EXCEPT ![p] = file'] /\ digest' = [digest EXCEPT ![p] = file']
           /\ sight' = [sight EXCEPT ![p] = writes']
<1>1. CASE file = None
  <2>1. S!unpersisted \in Record /\ S!unpersisted.value = saved
    BY <1>1, UnpersistedIs DEF StateInv, StateTypeInv, FirstInv
  <2>2. digest[p] = None
    BY <1>1 DEF StateInv, FirstInv
  <2> QED
    BY <1>1, <2>1, <2>2, RecordsAre DEF S!loadOrCreate, S!save, StateInv, StateTypeInv
<1>2. CASE file # None
  <2>1. file \in Record
    BY <1>2 DEF StateInv, StateTypeInv, RecordOrNone
  <2> QED
    BY <1>2, <2>1 DEF S!loadOrCreate, S!load, S!remember, StateInv, StateTypeInv,
                      FileIsWhatWasSaved, S!FileIsWhatWasSaved
<1> QED BY <1>1, <1>2

LEMMA StateSteps ==
    ASSUME StateInv, S!Next
    PROVE  StateInv'
<1> USE RecordsAre
    DEF StateInv, StateTypeInv, FirstInv, SightInv, RecordOrNone, S!goto,
        FileIsWhatWasSaved, S!FileIsWhatWasSaved
<1>1. ASSUME NEW p \in Process, S!OpenDeferred(p)
      PROVE  StateInv'
  <2>1. S!unpersisted \in Record
    BY UnpersistedIs
  <2> QED BY <1>1, <2>1 DEF S!OpenDeferred
<1>2. ASSUME NEW p \in Process, S!Open(p)
      PROVE  StateInv'
  BY <1>2, OpenedIs DEF S!Open
<1>3. ASSUME NEW p \in Process, S!Begin(p)
      PROVE  StateInv'
  BY <1>3, NoneAssumption DEF S!Begin
<1>4. ASSUME NEW p \in Process, S!Initialize(p)
      PROVE  StateInv'
  <2>1. CASE S!loadOrCreate(p) /\ p \notin ready /\ ready' = ready \cup {p}
             /\ S!goto(p, "refresh")
    BY <1>4, <2>1, OpenedIs DEF S!Initialize
  <2>2. CASE p \in ready /\ S!goto(p, "refresh")
             /\ UNCHANGED <<file, writes, memory, digest, sight, ready, ids>>
    BY <1>4, <2>2 DEF S!Initialize
  <2> QED BY <1>4, <2>1, <2>2 DEF S!Initialize
<1>5. ASSUME NEW p \in Process, S!Refresh(p)
      PROVE  StateInv'
  BY <1>5 DEF S!Refresh, S!load, S!remember
<1>6. ASSUME NEW p \in Process, NEW v \in Value, S!Work(p, v)
      PROVE  StateInv'
  BY <1>6 DEF S!Work
<1>7. ASSUME NEW p \in Process, S!Save(p)
      PROVE  StateInv'
  BY <1>7 DEF S!Save, S!save
<1>8. ASSUME NEW p \in Process, S!Finish(p) \/ S!Fail(p) \/ S!CommandFails(p)
      PROVE  StateInv'
  BY <1>8, ZenonT(40) DEF S!Finish, S!Fail, S!CommandFails
<1>9. ASSUME NEW p \in Process, S!RecordError(p)
      PROVE  StateInv'
  <2>1. file # None /\ file \in Record /\ readable = TRUE /\ file.value = saved
    BY <1>9 DEF S!RecordError
  <2>2. PICK r \in Record : r = [file EXCEPT !.failed = TRUE] /\ r.value = saved
    BY <2>1
  <2>3. /\ file' \in Record /\ file'.value = saved /\ writes' \in Nat
        /\ (file' = file /\ writes' = writes) \/ writes' = writes + 1
        /\ memory' = [memory EXCEPT ![p] = file'] /\ digest' = [digest EXCEPT ![p] = file']
        /\ sight' = [sight EXCEPT ![p] = writes']
    <3>1. writes \in Nat /\ r \in Record /\ r.value = saved
      BY <2>2
    <3>2. /\ memory' = [memory EXCEPT ![p] = r]
          /\ IF file = r THEN S!remember(p) /\ UNCHANGED <<file, writes>>
             ELSE /\ file' = r /\ writes' = writes + 1
                  /\ digest' = [digest EXCEPT ![p] = r]
                  /\ sight' = [sight EXCEPT ![p] = writes + 1]
      BY ONLY <1>9, <2>1, <2>2 DEF S!RecordError
    <3>3. CASE file = r
      BY ONLY <3>1, <3>2, <3>3, <2>1 DEF S!remember
    <3>4. CASE file # r
      BY ONLY <3>1, <3>2, <3>4
    <3> QED BY ONLY <3>3, <3>4
  <2> QED BY <1>9, <2>1, <2>3 DEF S!RecordError
<1>10. ASSUME NEW p \in Process, S!Dies(p)
      PROVE  StateInv'
  BY <1>10 DEF S!Dies
<1>11. ~S!Blocks
  BY DEF S!Blocks
<1> QED
  BY <1>1, <1>2, <1>3, <1>4, <1>5, <1>6, <1>7, <1>8, <1>9, <1>10, <1>11 DEF S!Next

LEMMA StateInvariance == MCSpec => []StateInv
<1>1. StateInv /\ [MCNext]_allVars => StateInv'
  BY OneMoves, StateSteps, StateStays
<1> QED BY <1>1, StateInit, PTL DEF MCSpec

(* The state file of a repository holds what was last saved on purpose,    *)
(* whichever window opens, dies, fails or refreshes in between.            *)
THEOREM FileIsSaved == MCSpec => []FileIsWhatWasSaved
BY StateInvariance, PTL DEF StateInv

-----------------------------------------------------------------------------
(* WorkspaceRows: the steps.                                               *)

(* What a header is, and what is left of it under another workspace.       *)
LEMMA HeadersAre ==
    /\ R!Headers("source") = HeadersIn(schema["source"], {"source", "other"})
    /\ R!Headers("target") = HeadersIn(schema["target"], {"target", "other"})
BY DEF R!Headers, R!Header, HeadersIn, HeaderOf

LEMMA NamedIs ==
    ASSUME NEW sch \in R!Schema,
           NEW row \in HeadersIn(sch, {"source", "other"})
    PROVE  R!Named(row, "source", "canonical") \in HeadersIn(sch, {"canonical", "other"})
BY DEF R!Named, HeadersIn, HeaderOf, R!Schema

(* Rows remain rows when one of them is replaced.                          *)
LEMMA HeaderReplaced ==
    ASSUME NEW r, NEW sch, NEW places, NEW others, AreRows(r, sch, places),
           NEW to \in HeadersIn(sch, others)
    PROVE  AreRows([r EXCEPT !["header"] = to], sch, others)
BY DEF AreRows, R!Spot

LEMMA ItemReplaced ==
    ASSUME NEW r, NEW sch, NEW places, AreRows(r, sch, places), NEW to \in {None} \cup Value
    PROVE  /\ AreRows([r EXCEPT !["item"] = to], sch, places)
           /\ AreRows([r EXCEPT !["layout"] = to], sch, places)
BY DEF AreRows, R!Spot

LEMMA SnapshotIs ==
    ASSUME NEW r, AreRows(r, schema["source"], {"canonical", "other"})
    PROVE  IsSnapshot([rows |-> r, schema |-> schema["source"]])
BY DEF IsSnapshot

LEMMA CapturedIs ==
    ASSUME RowsTypeInv
    PROVE  IsSnapshot(R!capture("source", "canonical", TRUE))
<1> DEFINE own == db["source"]
           named == R!Named(own["header"], "source", "canonical")
<1>1. AreRows(own, schema["source"], {"source", "other"}) /\ schema["source"] \in R!Schema
  BY DEF RowsTypeInv, R!Side
<1>2. named \in HeadersIn(schema["source"], {"canonical", "other"})
  BY <1>1, NamedIs DEF AreRows
<1>3. R!capture("source", "canonical", TRUE)
      = [rows |-> [own EXCEPT !["header"] = named], schema |-> schema["source"]]
  BY DEF R!capture
<1>4. AreRows([own EXCEPT !["header"] = named], schema["source"], {"canonical", "other"})
  BY <1>1, <1>2, HeaderReplaced
<1> QED BY <1>3, <1>4, SnapshotIs

(* What travels of a snapshot.                                             *)
LEMMA PortableIs ==
    ASSUME NEW e, IsSnapshot(e)
    PROVE  /\ IsSnapshot(R!Portable(e))
           /\ R!Portable(e).rows["item"] = e.rows["item"]
           /\ R!Portable(e).rows["header"] = e.rows["header"]
           /\ R!Portable(e).rows["layout"] = None
<1>1. PICK r : r = e.rows /\ AreRows(r, schema["source"], {"canonical", "other"})
  BY DEF IsSnapshot
<1>2. PICK s : s = [r EXCEPT !["layout"] = None]
  OBVIOUS
<1>3. /\ AreRows(s, schema["source"], {"canonical", "other"})
      /\ s["item"] = r["item"] /\ s["header"] = r["header"] /\ s["layout"] = None
  BY <1>1, <1>2, ItemReplaced DEF AreRows, R!Spot
<1>4. R!Portable(e) = [rows |-> s, schema |-> schema["source"]]
  BY <1>1, <1>2 DEF R!Portable, IsSnapshot
<1> QED BY <1>1, <1>3, <1>4, SnapshotIs

(* The header that arrives, and where.                                     *)
Arrived(sent, from, own) ==
    LET to == R!Named(sent, "canonical", "target")
        kept == IF own = None THEN None ELSE own.column
    IN  IF from = "full" THEN to ELSE [to EXCEPT !.column = kept]

LEMMA ArrivesAs ==
    ASSUME NEW from \in R!Schema, NEW into \in R!Schema,
           NEW sent \in HeadersIn(from, {"canonical", "other"}), sent # None,
           NEW own \in HeadersIn(into, {"target", "other"}),
           into # "none", into = "plain" => sent.column = None
    PROVE  LET got == Arrived(sent, from, own) IN
           /\ got \in HeadersIn(into, {"target", "other"})
           /\ got.value = sent.value
           /\ sent.column # None => got.column = sent.column
           /\ R!Pointed(got, "target") <=> R!Pointed(sent, "canonical")
<1>0. PICK to, kept, got :
          /\ to = R!Named(sent, "canonical", "target")
          /\ kept = (IF own = None THEN None ELSE own.column)
          /\ got = (IF from = "full" THEN to ELSE [to EXCEPT !.column = kept])
          /\ got = Arrived(sent, from, own)
  BY DEF Arrived
<1>1. /\ sent \in HeaderOf({"canonical", "other"}, {None} \cup Value)
      /\ from = "plain" => sent.column = None
      /\ from # "none"
  BY DEF HeadersIn, HeaderOf, R!Schema
<1>2. /\ to \in HeaderOf({"target", "other"}, {None} \cup Value)
      /\ to.value = sent.value /\ to.column = sent.column
      /\ to.workspace = "target" <=> sent.workspace = "canonical"
  BY <1>0, <1>1 DEF R!Named, HeaderOf
<1>3. kept \in {None} \cup Value /\ (into = "plain" => kept = None)
  BY <1>0 DEF HeadersIn, HeaderOf, R!Schema
<1>4. /\ got \in HeaderOf({"target", "other"}, {None} \cup Value)
      /\ got.value = to.value /\ got.workspace = to.workspace
      /\ got.column = IF from = "full" THEN to.column ELSE kept
  BY <1>0, <1>2, <1>3 DEF HeaderOf
<1>5. got \in HeadersIn(into, {"target", "other"})
  BY <1>1, <1>2, <1>3, <1>4 DEF HeadersIn, HeaderOf, R!Schema
<1>6. got # None
  <2>1. got \in [workspace : {"source", "target", "canonical", "other"},
                   value : Value, column : {None} \cup Value]
    BY <1>4 DEF HeaderOf
  <2> QED BY <2>1, DeviceAssumption
<1> QED BY <1>0, <1>1, <1>2, <1>4, <1>5, <1>6 DEF R!Pointed, R!Schema

(* What the helper's transaction writes.                                   *)
LEMMA MergedIs ==
    ASSUME RowsTypeInv, event # None, ~R!Unsupported
    PROVE  LET rows_ == [spot \in R!Spot |-> R!Merged(spot)]
               sent == event.rows["header"]
           IN  /\ AreRows(rows_, schema["target"], {"target", "other"})
               /\ rows_["layout"] = db["target"]["layout"]
               /\ sent # None =>
                      /\ rows_["header"].value = sent.value
                      /\ sent.column # None => rows_["header"].column = sent.column
                      /\ R!Pointed(rows_["header"], "target") <=> R!Pointed(sent, "canonical")
<1>1. PICK e : e = R!Portable(event)
  OBVIOUS
<1>2. /\ IsSnapshot(e) /\ e.rows["item"] = event.rows["item"]
      /\ e.rows["header"] = event.rows["header"] /\ e.rows["layout"] = None
      /\ event.schema = schema["source"]
  BY <1>1, PortableIs DEF RowsTypeInv, IsSnapshot
<1>3. PICK own : own = db["target"] /\ AreRows(own, schema["target"], {"target", "other"})
  BY DEF RowsTypeInv, R!Side
<1>4. PICK sent : /\ sent = event.rows["header"] /\ sent = e.rows["header"]
                  /\ sent \in HeadersIn(schema["source"], {"canonical", "other"})
  BY <1>2 DEF IsSnapshot, AreRows
<1>5. schema["source"] \in R!Schema /\ schema["target"] \in R!Schema
  BY DEF RowsTypeInv, R!Side
<1>6. sent # None => schema["target"] # "none"
                     /\ (schema["target"] = "plain" => sent.column = None)
  BY <1>1, <1>4 DEF R!Unsupported, R!Incoming
<1>7. /\ R!Merged("item") \in {None} \cup Value
      /\ R!Merged("layout") = own["layout"]
  BY <1>1, <1>2, <1>3 DEF R!Merged, R!Incoming, AreRows, IsSnapshot
<1>8. PICK got : got = Arrived(sent, schema["source"], own["header"])
  OBVIOUS
<1>9. R!Merged("header") = IF sent = None THEN own["header"] ELSE got
  BY <1>1, <1>2, <1>3, <1>4, <1>8 DEF R!Merged, R!Incoming, Arrived
<1>10. sent # None =>
          /\ got \in HeadersIn(schema["target"], {"target", "other"})
          /\ got.value = sent.value
          /\ sent.column # None => got.column = sent.column
          /\ R!Pointed(got, "target") <=> R!Pointed(sent, "canonical")
  BY <1>3, <1>4, <1>5, <1>6, <1>8, ArrivesAs DEF AreRows
<1>11. R!Merged("header") \in HeadersIn(schema["target"], {"target", "other"})
  BY <1>3, <1>9, <1>10 DEF AreRows
<1> QED BY <1>3, <1>4, <1>7, <1>9, <1>10, <1>11 DEF AreRows, R!Spot

LEMMA RowsInit == MCInit => RowsInv
<1> SUFFICES ASSUME MCInit PROVE RowsInv
  OBVIOUS
<1>1. R!Init
  BY DEF MCInit
<1>2. R!First \in Value
  BY DeviceAssumption DEF R!First
<1>3. PICK r : r = [item |-> None, layout |-> R!First, header |-> None]
  OBVIOUS
<1>4. ASSUME NEW s \in R!Side
      PROVE  AreRows(r, schema[s], {s, "other"})
  <2>1. schema[s] \in R!Schema
    BY <1>1 DEF R!Init
  <2> QED BY <1>2, <1>3, <2>1 DEF AreRows, R!Spot, HeadersIn, R!Schema
<1>5. db = [s \in R!Side |-> r]
  BY <1>1, <1>3 DEF R!Init
<1>6. /\ schema \in [R!Side -> R!Schema] /\ rowWrites = 0 /\ capture = R!Idle /\ event = None /\ merge = "idle"
      /\ db = [s \in R!Side |-> db[s]] /\ \A s \in R!Side : db[s] = r
  BY <1>1, <1>5 DEF R!Init
<1> QED BY <1>4, <1>6 DEF RowsInv, RowsTypeInv, R!Idle

LEMMA RowsStay == RowsInv /\ UNCHANGED rowVars => RowsInv'
BY DEF rowVars, RowsInv, RowsTypeInv, IsSnapshot, R!Unsupported, R!Incoming, R!Portable,
       R!Seen, R!WithHeaders, R!Target, R!capture

(* What depends on the snapshot and on the schema only.                    *)
LEMMA SnapshotStays ==
    ASSUME UNCHANGED <<schema, event>>
    PROVE  /\ R!Unsupported' = R!Unsupported
           /\ \A e : IsSnapshot(e)' <=> IsSnapshot(e)
           /\ \A f : R!Seen(f)' = R!Seen(f)
BY DEF R!Unsupported, R!Incoming, R!Portable, IsSnapshot, R!Seen, R!WithHeaders,
     R!Target,
       R!capture

LEMMA RowsSteps ==
    ASSUME RowsInv, R!Next
    PROVE  RowsInv'
<1>1. ASSUME NEW s \in R!Side, NEW spot \in R!Spot, R!Write(s, spot)
      PROVE  RowsInv'
  <2>1. PICK row \in IF spot = "header" THEN R!Headers(s) ELSE {None} \cup Value :
            db' = [db EXCEPT ![s][spot] = row]
    BY <1>1 DEF R!Write
  <2>2. AreRows(db[s], schema[s], {s, "other"}) /\ db = [v \in R!Side |-> db[v]]
    BY DEF RowsInv, RowsTypeInv
  <2>3. AreRows([db[s] EXCEPT ![spot] = row], schema[s], {s, "other"})
    BY <2>2, HeadersAre, HeaderReplaced, ItemReplaced DEF R!Side, R!Spot
  <2>4. /\ db' = [v \in R!Side |-> db'[v]]
        /\ \A v \in R!Side : AreRows(db'[v], schema[v], {v, "other"})
    BY <2>1, <2>2, <2>3 DEF RowsInv, RowsTypeInv
  <2>5. /\ UNCHANGED <<schema, event, merge, backup, sealed>> /\ rowWrites' = rowWrites + 1
        /\ capture' = capture \/ capture' = [capture EXCEPT !.changed = TRUE]
    BY <1>1 DEF R!Write, R!applyVars
  <2>6. /\ capture'.at = capture.at /\ capture'.content = capture.content
        /\ capture' = [at |-> capture'.at, attempt |-> capture'.attempt,
                       content |-> capture'.content, changed |-> capture'.changed]
    BY <2>5 DEF RowsInv, RowsTypeInv
  <2> QED BY <2>4, <2>5, <2>6, SnapshotStays DEF RowsInv, RowsTypeInv
<1>2. ASSUME R!Observe
      PROVE  RowsInv'
  BY <1>2, SnapshotStays DEF R!Observe, R!applyVars, RowsInv, RowsTypeInv
<1>3. ASSUME R!Capture
      PROVE  RowsInv'
  <2>1. IsSnapshot(R!capture("source", "canonical", TRUE))
    BY CapturedIs DEF RowsInv
  <2> QED
    BY <1>3, <2>1, SnapshotStays DEF R!Capture, R!applyVars, RowsInv, RowsTypeInv
<1>4. ASSUME R!Publish
      PROVE  RowsInv'
  <2>1. IsSnapshot(capture.content) /\ event = None /\ merge = "idle"
    BY <1>4 DEF R!Publish, RowsInv, RowsTypeInv
  <2>2. IsSnapshot(R!Portable(capture.content))
    BY <2>1, PortableIs
  <2>3. /\ UNCHANGED <<db, schema, rowWrites, merge, backup, sealed>>
        /\ capture' = [R!Idle EXCEPT !.attempt = capture.attempt]
        /\ event' \in {event, R!Portable(capture.content), capture.content}
    BY <1>4 DEF R!Publish, R!applyVars
  <2>4. event' # None => IsSnapshot(event)'
    BY <2>1, <2>2, <2>3 DEF IsSnapshot
  <2>5. /\ capture'.at = "idle"
        /\ capture' = [at |-> capture'.at, attempt |-> capture'.attempt,
                       content |-> capture'.content, changed |-> capture'.changed]
    BY <2>3 DEF R!Idle
  <2> QED BY <2>1, <2>3, <2>4, <2>5 DEF RowsInv, RowsTypeInv
<1>5. ASSUME R!Start \/ R!Backup \/ R!Verify \/ R!Retain \/ R!Recheck \/ R!GiveUp
      PROVE  RowsInv'
  <2>1. UNCHANGED <<db, schema, rowWrites, capture, event>>
    BY <1>5 DEF R!Start, R!Backup, R!Verify, R!Retain, R!Recheck, R!GiveUp, R!scanVars
  <2>2. RowsTypeInv'
    BY <2>1, SnapshotStays DEF RowsInv, RowsTypeInv
  <2>3. merge' # "idle" => event # None /\ ~R!Unsupported
    BY <1>5 DEF R!Start, R!Backup, R!Verify, R!Retain, R!Recheck, R!GiveUp, RowsInv
  <2>4. merge' = "checked" => /\ backup # None /\ R!Seen(backup) = sealed
                              /\ UNCHANGED <<backup, sealed>>
    BY <1>5 DEF R!Start, R!Backup, R!Verify, R!Retain, R!Recheck, R!GiveUp
  <2> QED BY <2>1, <2>2, <2>3, <2>4, SnapshotStays DEF RowsInv
<1>6. ASSUME R!Commit
      PROVE  RowsInv'
  <2>1. AreRows([spot \in R!Spot |-> R!Merged(spot)], schema["target"], {"target", "other"})
    BY <1>6, MergedIs DEF R!Commit, RowsInv
  <2>2. db' = [db EXCEPT !["target"] = [spot \in R!Spot |-> R!Merged(spot)]]
        /\ merge' = "idle" /\ UNCHANGED <<schema, rowWrites, capture, event, backup, sealed>>
    BY <1>6 DEF R!Commit, R!scanVars
  <2> QED BY <2>1, <2>2, SnapshotStays DEF RowsInv, RowsTypeInv, R!Side
<1> QED BY <1>1, <1>2, <1>3, <1>4, <1>5, <1>6 DEF R!Next

LEMMA RowsInvariance == MCSpec => []RowsInv
<1>1. RowsInv /\ [MCNext]_allVars => RowsInv'
  BY OneMoves, RowsSteps, RowsStay
<1> QED BY <1>1, RowsInit, PTL DEF MCSpec

(* When the transaction begins, the rows it may touch are those of the     *)
(* backup.                                                                 *)
LEMMA BackupIsTarget ==
    ASSUME RowsInv, merge = "checked", R!Target = sealed
    PROVE  /\ backup # None /\ backup["item"] = db["target"]["item"]
           /\ R!WithHeaders => backup["header"] = db["target"]["header"]
<1> DEFINE own == db["target"]
           named == R!Named(own["header"], "target", "target")
<1>1. backup # None /\ R!Seen(backup) = R!Target
  BY DEF RowsInv
<1>2. AreRows(own, schema["target"], {"target", "other"}) /\ schema["target"] \in R!Schema
  BY DEF RowsInv, RowsTypeInv, R!Side
<1>3. R!Target.rows = [own EXCEPT !["header"] = IF R!WithHeaders THEN named ELSE None]
  BY DEF R!Target, R!capture
<1>4. R!Seen(backup).rows
      = [backup EXCEPT !["header"] = IF R!WithHeaders THEN backup["header"] ELSE None]
  BY DEF R!Seen
<1>5. PICK m, n, b, h : /\ m = own /\ n = named /\ b = backup
                        /\ h = (IF R!WithHeaders THEN backup["header"] ELSE None)
  OBVIOUS
<1>6. [b EXCEPT !["header"] = h] = [m EXCEPT !["header"] = IF R!WithHeaders THEN n ELSE None]
  BY <1>1, <1>3, <1>4, <1>5
<1>7. m = [spot \in R!Spot |-> m[spot]] /\ m["header"] \in HeadersIn(schema["target"], {"target", "other"})
  BY <1>2, <1>5 DEF AreRows
<1>8. n = m["header"]
  <2>1. CASE m["header"] = None
    BY <2>1, <1>5 DEF R!Named
  <2>2. CASE m["header"] # None
    <3>1. m["header"] \in [workspace : {"target", "other"}, value : Value, column : {None} \cup Value]
      BY <1>2, <1>7, <2>2 DEF HeadersIn, HeaderOf, R!Schema
    <3> QED BY <1>5, <2>2, <3>1 DEF R!Named
  <2> QED BY <2>1, <2>2
<1>9. DOMAIN b = {"item", "layout", "header"}
  <2>1. DOMAIN [b EXCEPT !["header"] = h] = DOMAIN b
    OBVIOUS
  <2>2. DOMAIN m = R!Spot
    BY <1>7
  <2> QED BY <1>6, <2>1, <2>2 DEF R!Spot
<1>10. b["item"] = m["item"]
  <2>1. [b EXCEPT !["header"] = h]["item"] = b["item"]
    BY <1>9
  <2>2. [m EXCEPT !["header"] = IF R!WithHeaders THEN n ELSE None]["item"] = m["item"]
    BY <1>7 DEF R!Spot
  <2> QED BY <1>6, <2>1, <2>2
<1>11. ASSUME R!WithHeaders
       PROVE  b["header"] = m["header"]
  <2>1. [b EXCEPT !["header"] = h]["header"] = b["header"]
    BY <1>5, <1>9, <1>11
  <2>2. [m EXCEPT !["header"] = IF R!WithHeaders THEN n ELSE None]["header"] = m["header"]
    BY <1>7, <1>8, <1>11 DEF R!Spot
  <2> QED BY <1>6, <2>1, <2>2
<1> QED BY <1>1, <1>5, <1>10, <1>11

(* What the helper writes into a workspace's database takes nothing that   *)
(* its backup does not give back, although Cursor may write between the    *)
(* preflight, the backup and the transaction, and brings the header that   *)
(* was published to the workspace it is for.                               *)
THEOREM WritesAreUndoable == MCSpec => WriteIsUndoable
<1> DEFINE Undoable ==
        db'["target"] # db["target"] /\ rowWrites' = rowWrites =>
          /\ \A spot \in R!Spot :
                db'["target"][spot] # db["target"][spot] =>
                    spot # "layout" /\ backup # None /\ backup[spot] = db["target"][spot]
          /\ LET sent == event.rows.header
                 got == db'["target"].header
             IN  sent # None => /\ got.value = sent.value
                                /\ sent.column # None => got.column = sent.column
                                /\ R!Pointed(got, "target") <=> R!Pointed(sent, "canonical")
<1>1. ASSUME RowsInv, R!Next
      PROVE  Undoable
  <2>1. CASE db' = db \/ rowWrites' # rowWrites
    BY <2>1
  <2>2. CASE R!Commit
    <3>1. /\ merge = "checked" /\ R!Target = sealed /\ event # None /\ ~R!Unsupported
          /\ RowsTypeInv
      BY <1>1, <2>2 DEF R!Commit, R!Unchanged, RowsInv
    <3>2. PICK after : after = [spot \in R!Spot |-> R!Merged(spot)]
      OBVIOUS
    <3>3. db'["target"] = after
      BY <2>2, <3>1, <3>2 DEF R!Commit, RowsTypeInv, R!Side
    <3>4. /\ after["layout"] = db["target"]["layout"]
          /\ event.rows["header"] # None =>
                /\ after["header"].value = event.rows["header"].value
                /\ event.rows["header"].column # None
                   => after["header"].column = event.rows["header"].column
                /\ R!Pointed(after["header"], "target")
                   <=> R!Pointed(event.rows["header"], "canonical")
      BY <3>1, <3>2, MergedIs
    <3>5. /\ backup # None /\ backup["item"] = db["target"]["item"]
          /\ R!WithHeaders => backup["header"] = db["target"]["header"]
      BY <1>1, <3>1, BackupIsTarget
    <3>6. ASSUME ~R!WithHeaders
          PROVE  after["header"] = db["target"]["header"]
      <4>1. IsSnapshot(event) /\ event.schema = "none" /\ schema["source"] = "none"
        BY <3>1, <3>6 DEF RowsTypeInv, IsSnapshot, R!WithHeaders
      <4>2. event.rows["header"] = None
        BY <4>1 DEF IsSnapshot, AreRows, HeadersIn
      <4>3. R!Portable(event).rows["header"] = None
        BY <4>1, <4>2, PortableIs
      <4> QED BY <3>2, <4>3 DEF R!Merged, R!Incoming, R!Spot
    <3> QED BY <3>3, <3>4, <3>5, <3>6 DEF R!Spot
  <2>3. ASSUME NEW s \in R!Side, NEW spot \in R!Spot, R!Write(s, spot)
        PROVE  rowWrites' # rowWrites
    BY <1>1, <2>3 DEF R!Write, RowsInv, RowsTypeInv
  <2>4. ASSUME \/ R!Observe \/ R!Capture \/ R!Publish \/ R!Start \/ R!Backup \/ R!Verify
               \/ R!Retain \/ R!Recheck \/ R!GiveUp
        PROVE  db' = db
    BY <2>4 DEF R!Observe, R!Capture, R!Publish, R!Start, R!Backup, R!Verify, R!Retain,
                R!Recheck, R!GiveUp
  <2> QED BY <1>1, <2>1, <2>2, <2>3, <2>4 DEF R!Next
<1>2. RowsInv /\ [MCNext]_allVars => [Undoable]_(R!vars)
  BY <1>1, OneMoves DEF rowVars, R!vars
<1> QED BY <1>2, RowsInvariance, PTL DEF MCSpec, WriteIsUndoable, R!WriteIsUndoable
-----------------------------------------------------------------------------
(* ChatScan.                                                               *)
(*                                                                         *)
(* The argument: a sweep that has met one fingerprint only has met the     *)
(* database as it is, so each chat that it has passed is as it is known    *)
(* (Listed, by its row; Counted, by its number of messages), and what is   *)
(* known of a chat is of its past (PastAt).  A commit changes the          *)
(* fingerprint, and every such claim with it.                              *)

ScanContent == [head : Nat, first : Nat, last : Nat, body : Nat]
ScanEntry == [content : ScanContent, head : Nat]
SweepSet == [cursor : 0..Chats, again : BOOLEAN, fp : Nat]
ReadSet == [at : {"idle", "opened", "listed", "read"}, fp : Nat, due : BOOLEAN,
            chat : Q!Chat \cup {None}, head : Nat, verified : Q!Chat \cup {None},
            audited : BOOLEAN,
            outcome : {"none", "missing", "lost", "same", "new", "large", "unreadable"}]

ScanTypeInv ==
    /\ generation \in Nat /\ born \subseteq Q!Chat
    /\ rows \in [Q!Chat -> ScanContent \cup {None}]
    /\ recorded \in [Q!Chat -> ScanEntry \cup {None}]
    /\ pending \in [Q!Chat -> ScanEntry \cup {None}]
    /\ oversized \in [Q!Chat -> ScanEntry \cup {None}]
    /\ header \in SweepSet \cup {None} /\ audit \in SweepSet \cup {None}
    /\ audited \in 0..generation \cup {None} /\ settled \in 0..generation \cup {None}
    /\ result \in Q!Chat \cup {None} /\ due \in BOOLEAN
    /\ read \in ReadSet

(* What is known of a chat is of its past.                                 *)
Past(e, c) ==
    e # None =>
        /\ c \in born /\ e.head <= e.content.head /\ 1 <= e.content.first
        /\ rows[c] # None => /\ e.content.head <= rows[c].head
                             /\ e.content.last <= rows[c].last
PastAt(c) ==
    /\ rows[c] # None => /\ c \in born /\ rows[c].head <= generation
                         /\ 1 <= rows[c].first /\ rows[c].first <= rows[c].last + 1
    /\ Past(recorded[c], c) /\ Past(pending[c], c) /\ Past(oversized[c], c)
    /\ recorded[c] # None => Q!Count(recorded[c].content) <= Limit
    /\ oversized[c] # None => Q!Count(oversized[c].content) > Limit
PastInv == \A c \in Q!Chat : PastAt(c)

(* The scan under way.                                                     *)
ReadInv ==
    /\ read.at \in {"opened", "listed"} =>
           /\ result = None /\ read.outcome = "none"
           /\ \A c \in Q!Chat : pending[c] # None => ~Q!Holds(c, pending[c])
    /\ read.at = "listed" =>
           /\ read.chat # None /\ read.chat \in born
           /\ rows[read.chat] # None => read.head <= rows[read.chat].head
    /\ read.at = "read" =>
           /\ read.outcome # "none" => read.chat # None
           /\ result = IF read.outcome = "new" THEN read.chat ELSE None
           /\ read.outcome = "large" => /\ pending[read.chat] # None
                                        /\ Q!Count(pending[read.chat].content) > Limit
    /\ result # None => pending[result] # None /\ Q!Count(pending[result].content) <= Limit

(* The generations of the sweeps, and the next rows of a scan.             *)
SweepInv ==
    /\ header # None => header.fp <= generation
    /\ audit # None => audit.fp <= generation
    /\ read.at # "idle" =>
           /\ header # None /\ header.fp = read.fp /\ read.fp <= generation
           /\ audit # None => audit.fp = read.fp
           /\ audit = None => audited = read.fp
           /\ settled = None
    /\ settled # None => audited = settled
    /\ read.at \in {"listed", "read"} /\ read.fp = generation =>
           /\ \A c \in Q!Chat : c > header.cursor /\ rows[c] # None
                                => read.chat # None /\ c >= read.chat
           /\ audit # None /\ ~read.audited => \A c \in Q!Chat : c > audit.cursor => rows[c] = None

(* A chat of which something is claimed.                                   *)
Kept(c) == rows[c] # None /\ rows[c].body # 0 /\ rows[c].first = 1 /\ c # unreadable

Known(c) ==
    \/ recorded[c] # None /\ recorded[c].content = rows[c]
    \/ pending[c] # None /\ pending[c].content = rows[c]
    \/ oversized[c] # None /\ oversized[c].content = rows[c]
Listed(c) ==
    \/ Known(c)
    \/ pending[c] = None /\ Q!Reference(c) # None /\ Q!Reference(c).head = Q!Head(c)
Counted(c) ==
    \/ Known(c) \/ c \in counted \/ (pending[c] # None /\ ~Q!Holds(c, pending[c]))
    \/ Q!Reference(c) = None \/ Q!Reference(c).head # Q!Head(c)
    \/ Q!Count(Q!Reference(c).content) = Q!Count(rows[c])

Swept(s, c) == s # None /\ ~s.again /\ s.fp = generation /\ c <= s.cursor
HeaderSwept(c) == Swept(header, c) \/ (header = None /\ settled = generation)
AuditSwept(c) == Swept(audit, c) \/ (audit = None /\ audited = generation)

Read(c) ==
    /\ Listed(c) /\ read.outcome \notin {"unreadable", "lost", "missing"}
    /\ oversized[c] # None => c \in current
    /\ read.outcome = "large" => pending[c] # None /\ pending[c].content = rows[c]
CoveredAt(c) ==
    /\ HeaderSwept(c) => Listed(c)
    /\ AuditSwept(c) => Counted(c)
    /\ Swept(header, c) /\ oversized[c] # None => c \in current
    /\ c = read.chat /\ read.fp = generation /\ read.at = "read" => Read(c)
CoveredInv == \A c \in Q!Chat : Kept(c) => CoveredAt(c)

ResultInv ==
    /\ result # None
    /\ \/ read.at # "idle" /\ read.fp = generation
       \/ \E c \in Q!Chat : HeaderSwept(c) \/ AuditSwept(c)
    => pending[result].content = rows[result]

ScanInv == ScanTypeInv /\ PastInv /\ ReadInv /\ SweepInv /\ CoveredInv /\ ResultInv

LEMMA ScanHasLeast ==
    ASSUME NEW them, them \subseteq Nat, them # {}
    PROVE  \E m \in them : \A k \in them : m <= k
<1> DEFINE D == OpToRel(<, Nat)
<1>1. IsWellFoundedOn(D, Nat)
  BY NatLessThanWellFounded
<1>2. \A y, x \in Nat : y < x => <<y, x>> \in D
  BY DEF OpToRel
<1>3. PICK x \in them : \A y \in them : ~ (<<y, x>> \in D)
  <2> HIDE DEF D
  <2> QED BY <1>1, WFMin
<1> HIDE DEF D
<1>4. \A y \in them : ~ (y < x)
  BY <1>2, <1>3
<1> QED BY <1>3, <1>4

(* The next row is the first after the cursor, or there is none.           *)
LEMMA NextRowIs ==
    ASSUME NEW cursor, ScanAssumption
    PROVE  \/ /\ Q!NextRow(cursor) = None
              /\ \A d \in Q!Chat : d > cursor => rows[d] = None
           \/ /\ Q!NextRow(cursor) \in Q!Chat /\ Q!NextRow(cursor) > cursor
              /\ rows[Q!NextRow(cursor)] # None
              /\ \A d \in Q!Chat : d > cursor /\ rows[d] # None => Q!NextRow(cursor) <= d
<1> DEFINE rest == {c \in Q!Chat : c > cursor /\ rows[c] # None}
<1>1. CASE rest = {}
  <2>1. Q!NextRow(cursor) = None
    BY <1>1 DEF Q!NextRow
  <2> QED BY <1>1, <2>1
<1>2. CASE rest # {}
  <2>1. rest \subseteq Nat
    BY DEF Q!Chat, ScanAssumption
  <2>2. \E m \in rest : \A k \in rest : m <= k
    <3> HIDE DEF rest
    <3> QED BY <1>2, <2>1, ScanHasLeast
  <2>3. Q!NextRow(cursor) = CHOOSE c \in rest : \A d \in rest : c <= d
    BY <1>2 DEF Q!NextRow
  <2>4. Q!NextRow(cursor) \in rest /\ \A d \in rest : Q!NextRow(cursor) <= d
    <3> HIDE DEF rest
    <3> QED BY <2>2, <2>3
  <2> QED BY <2>4
<1> QED BY <1>1, <1>2

LEMMA RecordsAreNot ==
    ASSUME ScanAssumption
    PROVE  /\ None \notin ScanContent /\ None \notin ScanEntry /\ None \notin SweepSet
           /\ None \notin Nat /\ Q!Chat \subseteq Nat /\ None \notin Q!Chat
BY DEF ScanAssumption, ScanContent, ScanEntry, SweepSet, Q!Chat

(* At first nothing is remembered but the projections.                     *)
LEMMA ScanInit ==
    ASSUME Q!Init, ScanAssumption
    PROVE  ScanInv
<1>1. PICK sh : sh = Q!Short /\ sh = [head |-> 0, first |-> 1, last |-> 1, body |-> 1]
  BY DEF Q!Short
<1>2. PICK en : en = [content |-> sh, head |-> 0]
  OBVIOUS
<1>3. sh \in ScanContent /\ en \in ScanEntry /\ en # None
  <2>1. sh \in ScanContent
    BY <1>1 DEF ScanContent
  <2>2. en \in ScanEntry
    BY <1>2, <2>1 DEF ScanEntry
  <2> QED BY <2>1, <2>2, RecordsAreNot
<1>4. /\ rows \in [Q!Chat -> {None, sh}] /\ generation = 0
      /\ born = {c \in Q!Chat : rows[c] # None}
      /\ recorded \in [Q!Chat -> {None, en}]
      /\ \A c \in Q!Chat : recorded[c] # None => rows[c] # None
      /\ settled = None /\ pending = Q!Nothing /\ oversized = Q!Nothing
      /\ header = None /\ audit = None /\ audited = None /\ due = TRUE
      /\ read = Q!Idle /\ result = None
  BY <1>1, <1>2 DEF Q!Init
<1>5. Q!Nothing \in [Q!Chat -> ScanEntry \cup {None}] /\ \A c \in Q!Chat : Q!Nothing[c] = None
  BY DEF Q!Nothing
<1>6. Q!Idle \in ReadSet /\ Q!Idle.at = "idle"
  BY DEF Q!Idle, ReadSet
<1>7. ScanTypeInv
  BY <1>3, <1>4, <1>5, <1>6 DEF ScanTypeInv
<1>8. PastInv
  <2> SUFFICES ASSUME NEW c \in Q!Chat
               PROVE  PastAt(c)
    BY DEF PastInv
  <2>1. rows[c] \in {None, sh} /\ recorded[c] \in {None, en}
    BY <1>4
  <2>2. Q!Count(sh) = 1 /\ Limit >= 1
    BY <1>1 DEF Q!Count, ScanAssumption
  <2>3. /\ en.head = 0 /\ en.content = sh /\ sh.head = 0 /\ sh.first = 1 /\ sh.last = 1
    BY <1>1, <1>2
  <2>4. rows[c] # None => c \in born
    BY <1>4
  <2>5. recorded[c] # None => rows[c] = sh /\ recorded[c] = en
    BY <1>4, <2>1
  <2> QED BY <1>4, <1>5, <2>1, <2>2, <2>3, <2>4, <2>5 DEF PastAt, Past, ScanAssumption
<1>9. ReadInv /\ ResultInv
  BY <1>4, <1>6 DEF ReadInv, ResultInv
<1>10. SweepInv
  BY <1>4, <1>6 DEF SweepInv
<1>11. CoveredInv
  <2>1. settled # generation /\ audited # generation
    BY <1>4, RecordsAreNot
  <2> QED BY <1>4, <1>6, <2>1 DEF CoveredInv, CoveredAt, HeaderSwept, AuditSwept, Swept
<1> QED BY <1>7, <1>8, <1>9, <1>10, <1>11 DEF ScanInv

(* A commit of Cursor's changes the fingerprint, and no claim is left.     *)
LEMMA CommitScan ==
    ASSUME ScanInv, NEW c \in Q!Chat, NEW v \in ScanContent \cup {None}, ScanAssumption,
           v # None => /\ v.head <= generation + 1 /\ 1 <= v.first /\ v.first <= v.last + 1,
           v # None => c \notin born \/ (rows[c] # None /\ rows[c].head <= v.head
                                        /\ rows[c].last <= v.last),
           rows' = [rows EXCEPT ![c] = v], generation' = generation + 1, born' = born \cup {c},
           UNCHANGED <<recorded, Q!adapterVars, read, result, unreadable>>
    PROVE  ScanInv'
<1>1. UNCHANGED <<recorded, swapped, settled, pending, counted, oversized, current, header, audit,
                  audited, deep, due, read, result, unreadable>>
  BY DEF Q!adapterVars, Q!memory, Q!sweepVars
<1>2. ScanTypeInv
  BY DEF ScanInv
<1>3. generation \in Nat /\ generation' \in Nat /\ generation < generation'
  BY <1>2 DEF ScanTypeInv
<1>4. ScanTypeInv'
  <2>1. 0..generation \subseteq 0..generation'
    BY <1>3
  <2> QED BY <1>1, <1>2, <1>3, <2>1 DEF ScanTypeInv
<1>5. /\ rows'[c] = v
      /\ \A d \in Q!Chat : d # c => rows'[d] = rows[d]
  BY <1>2 DEF ScanTypeInv
<1>6. PastInv'
  <2> SUFFICES ASSUME NEW d \in Q!Chat
               PROVE  PastAt(d)'
    BY DEF PastInv
  <2>1. PastAt(d)
    BY DEF ScanInv, PastInv
  <2>2. CASE d # c
    <3>1. rows[d] # None => rows[d].head \in Nat
      BY <1>2 DEF ScanTypeInv, ScanContent
    <3> QED BY <1>1, <1>3, <1>5, <2>1, <2>2, <3>1 DEF PastAt, Past
  <2>3. CASE d = c
    <3>1. ASSUME NEW e \in ScanEntry, Past(e, c)
          PROVE  Past(e, c)'
      <4>1. /\ c \in born /\ e.head <= e.content.head /\ 1 <= e.content.first
            /\ rows[c] # None => /\ e.content.head <= rows[c].head
                                 /\ e.content.last <= rows[c].last
        BY <3>1, RecordsAreNot DEF Past
      <4>2. e.content.head \in Nat /\ e.content.last \in Nat
        BY DEF ScanEntry, ScanContent
      <4>3. v # None => /\ rows[c].head \in Nat /\ rows[c].last \in Nat
                        /\ v.head \in Nat /\ v.last \in Nat
        BY <1>2, <4>1 DEF ScanTypeInv, ScanContent
      <4> QED BY <1>5, <4>1, <4>2, <4>3 DEF Past
    <3>2. /\ recorded[c] \in ScanEntry \cup {None} /\ pending[c] \in ScanEntry \cup {None}
          /\ oversized[c] \in ScanEntry \cup {None}
      BY <1>2 DEF ScanTypeInv
    <3>3. Past(recorded[c], c) => Past(recorded[c], c)'
      BY <1>1, <3>1, <3>2 DEF Past
    <3>4. Past(pending[c], c) => Past(pending[c], c)'
      BY <1>1, <3>1, <3>2 DEF Past
    <3>5. Past(oversized[c], c) => Past(oversized[c], c)'
      BY <1>1, <3>1, <3>2 DEF Past
    <3> QED BY <1>1, <1>3, <1>5, <2>1, <2>3, <3>3, <3>4, <3>5 DEF PastAt
  <2> QED BY <2>2, <2>3
<1>7. ReadInv'
  <2>1. read.at = "listed" /\ rows'[read.chat] # None => read.head <= rows'[read.chat].head
    <3> SUFFICES ASSUME read.at = "listed", rows'[read.chat] # None
                 PROVE  read.head <= rows'[read.chat].head
      OBVIOUS
    <3>1. /\ read.chat \in Q!Chat /\ read.chat \in born /\ read.head \in Nat
          /\ rows[read.chat] # None => read.head <= rows[read.chat].head
      BY <1>2 DEF ScanInv, ReadInv, ScanTypeInv, ReadSet
    <3>2. CASE read.chat # c
      BY <1>5, <3>1, <3>2
    <3>3. CASE read.chat = c
      <4>1. rows[c].head \in Nat /\ v.head \in Nat /\ rows[c].head <= v.head
        BY <1>2, <1>5, <3>1, <3>3 DEF ScanTypeInv, ScanContent
      <4> QED BY <1>5, <3>1, <3>3, <4>1
    <3> QED BY <3>2, <3>3
  <2> QED BY <1>1, <2>1 DEF ScanInv, ReadInv, Q!Holds
<1>8. /\ header # None => header.fp \in Nat /\ header.fp <= generation /\ header.fp # generation'
      /\ audit # None => audit.fp \in Nat /\ audit.fp <= generation /\ audit.fp # generation'
      /\ settled # generation' /\ audited # generation'
      /\ read.at # "idle" => read.fp <= generation /\ read.fp # generation' /\ read.fp \in Nat
  BY <1>2, <1>3, RecordsAreNot DEF ScanInv, SweepInv, ScanTypeInv, SweepSet, ReadSet
<1>9. SweepInv'
  BY <1>1, <1>3, <1>8 DEF ScanInv, SweepInv
<1>10. \A d \in Q!Chat : ~HeaderSwept(d)' /\ ~AuditSwept(d)' /\ ~Swept(header, d)'
  BY <1>1, <1>8 DEF HeaderSwept, AuditSwept, Swept
<1>11. CoveredInv'
  BY <1>1, <1>8, <1>10 DEF CoveredInv, CoveredAt
<1>12. ResultInv'
  BY <1>1, <1>8, <1>10 DEF ResultInv
<1> QED BY <1>4, <1>6, <1>7, <1>9, <1>11, <1>12 DEF ScanInv

(* What is too large is not what is published.                             *)
LEMMA LargeIsNotHeld ==
    ASSUME ScanInv, NEW c \in Q!Chat, ScanAssumption
    PROVE  ~Q!Holds(c, oversized[c])
<1> SUFFICES ASSUME oversized[c] # None, recorded[c] # None,
                    recorded[c].content = oversized[c].content
             PROVE  FALSE
  BY DEF Q!Holds
<1>1. PICK e \in ScanEntry : e = recorded[c] /\ e.content = oversized[c].content
  BY DEF ScanInv, ScanTypeInv
<1>2. Q!Count(e.content) <= Limit /\ Q!Count(e.content) > Limit
  BY <1>1 DEF ScanInv, PastInv, PastAt
<1>3. PastAt(c)
  BY DEF ScanInv, PastInv
<1>4. e.content \in ScanContent /\ Limit \in Nat
  BY DEF ScanEntry, ScanAssumption
<1>5. Q!Count(e.content) \in Int
  BY <1>4 DEF Q!Count, ScanContent
<1> QED BY <1>2, <1>4, <1>5

(* A scan begins: the acknowledged is forgotten, and the sweeps resume.    *)
LEMMA BeginScan ==
    ASSUME ScanInv, Q!Begin, ScanAssumption
    PROVE  ScanInv'
<1>1. /\ read.at = "idle" /\ result = None /\ settled' = None /\ pending' = Q!Unacknowledged
      /\ oversized' = [c \in Q!Chat |-> IF Q!Holds(c, oversized[c]) THEN None ELSE oversized[c]]
      /\ audit' = IF audit = None /\ audited = generation THEN None ELSE Q!Resumed(audit)
      /\ header' = Q!Resumed(header) /\ current' = IF header = None THEN {} ELSE current
      /\ read' = [Q!Idle EXCEPT !.at = "opened", !.fp = generation, !.due = due]
      /\ UNCHANGED <<rows, born, generation, recorded, counted, audited, due, result, unreadable>>
  BY DEF Q!Begin, Q!Fingerprint, Q!cursorVars
<1>2. ScanTypeInv
  BY DEF ScanInv
<1>3. /\ read' \in ReadSet /\ read'.at = "opened" /\ read'.fp = generation
      /\ read'.outcome = "none"
  <2>1. read' = [at |-> "opened", fp |-> generation, due |-> due, chat |-> None, head |-> 0,
                 verified |-> None, audited |-> FALSE, outcome |-> "none"]
    BY <1>1 DEF Q!Idle
  <2>2. generation \in Nat /\ due \in BOOLEAN
    BY <1>2 DEF ScanTypeInv
  <2> QED BY <2>1, <2>2 DEF ReadSet
<1>4. oversized' = oversized
  <2>1. oversized' = [c \in Q!Chat |-> oversized[c]]
    BY <1>1, LargeIsNotHeld
  <2> QED BY <1>2, <2>1 DEF ScanTypeInv
<1>5. ASSUME NEW c \in Q!Chat
      PROVE  \/ pending'[c] = pending[c] /\ ~Q!Holds(c, pending[c])
             \/ /\ pending'[c] = None /\ pending[c] # None /\ recorded[c] # None
                /\ recorded[c].content = pending[c].content
  BY <1>1 DEF Q!Unacknowledged, Q!Acknowledged, Q!Holds
<1>6. ASSUME NEW s \in SweepSet \cup {None}
      PROVE  /\ Q!Resumed(s) \in SweepSet /\ Q!Resumed(s).fp = generation
             /\ \A c \in Q!Chat : ~Q!Resumed(s).again /\ c <= Q!Resumed(s).cursor
                                  => s # None /\ ~s.again /\ s.fp = generation /\ c <= s.cursor
  <2>1. generation \in Nat /\ 0 \in 0..Chats
    BY <1>2 DEF ScanTypeInv, ScanAssumption
  <2>2. CASE s = None
    <3>1. Q!Resumed(s) = [cursor |-> 0, again |-> FALSE, fp |-> generation]
      BY <2>2 DEF Q!Resumed, Q!Sweep, Q!Fingerprint
    <3>2. \A c \in Q!Chat : ~(c <= 0)
      BY DEF Q!Chat, ScanAssumption
    <3> QED BY <2>1, <3>1, <3>2 DEF SweepSet
  <2>3. CASE s # None
    <3>1. s \in SweepSet
      BY <2>3
    <3>2. PICK ag \in BOOLEAN : ag = (s.again \/ s.fp # generation)
      OBVIOUS
    <3>3. Q!Resumed(s) = [s EXCEPT !.again = ag, !.fp = generation]
      BY <2>3, <3>2 DEF Q!Resumed, Q!Fingerprint
    <3>4. /\ Q!Resumed(s) \in SweepSet /\ Q!Resumed(s).fp = generation
          /\ Q!Resumed(s).again = ag /\ Q!Resumed(s).cursor = s.cursor
      BY <2>1, <3>1, <3>3 DEF SweepSet
    <3> QED BY <2>3, <3>2, <3>4
  <2> QED BY <2>2, <2>3
<1>7. /\ header' \in SweepSet /\ header'.fp = generation /\ header' # None
      /\ \A c \in Q!Chat : Swept(header, c)' => Swept(header, c)
  <2>1. header \in SweepSet \cup {None}
    BY <1>2 DEF ScanTypeInv
  <2> QED BY <1>1, <1>6, <2>1, RecordsAreNot DEF Swept
<1>8. /\ audit' \in SweepSet \cup {None}
      /\ audit' = None => audit = None /\ audited = generation
      /\ audit' # None => audit'.fp = generation
      /\ \A c \in Q!Chat : Swept(audit, c)' => Swept(audit, c)
  <2>1. audit \in SweepSet \cup {None}
    BY <1>2 DEF ScanTypeInv
  <2>2. CASE audit = None /\ audited = generation
    BY <1>1, <2>2 DEF Swept
  <2>3. CASE ~(audit = None /\ audited = generation)
    <3>1. audit' = Q!Resumed(audit)
      BY <1>1, <2>3
    <3> QED BY <1>1, <1>6, <2>1, <3>1, RecordsAreNot DEF Swept
  <2> QED BY <2>2, <2>3
<1>9. ScanTypeInv'
  <2>1. pending' \in [Q!Chat -> ScanEntry \cup {None}]
    BY <1>1, <1>2 DEF Q!Unacknowledged, ScanTypeInv
  <2> QED BY <1>1, <1>2, <1>3, <1>4, <1>7, <1>8, <2>1 DEF ScanTypeInv
<1>10. PastInv'
  BY <1>1, <1>4, <1>5 DEF ScanInv, PastInv, PastAt, Past
<1>11. ReadInv'
  BY <1>1, <1>3, <1>5 DEF ReadInv, Q!Holds
<1>12. SweepInv'
  <2>1. generation \in Nat
    BY <1>2 DEF ScanTypeInv
  <2> QED BY <1>1, <1>3, <1>7, <1>8, <2>1 DEF SweepInv
<1>13. CoveredInv'
  <2> SUFFICES ASSUME NEW c \in Q!Chat, Kept(c)'
               PROVE  CoveredAt(c)'
    BY DEF CoveredInv
  <2>1. CoveredAt(c)
    BY <1>1 DEF ScanInv, CoveredInv, Kept
  <2>2. /\ Q!Reference(c)' = Q!Reference(c) /\ Q!Head(c)' = Q!Head(c)
        /\ Q!Count(rows[c])' = Q!Count(rows[c])
        /\ Q!Count(Q!Reference(c).content)' = Q!Count(Q!Reference(c).content)
    BY <1>1, <1>4 DEF Q!Reference, Q!Head, Q!Count
  <2>3. Known(c) => Known(c)'
    BY <1>1, <1>4, <1>5 DEF Known
  <2>4. Listed(c) => Listed(c)'
    BY <1>5, <2>2, <2>3 DEF Listed
  <2>5. Counted(c) => Counted(c)'
    BY <1>1, <1>5, <2>2, <2>3 DEF Counted, Q!Holds
  <2>6. HeaderSwept(c)' => Swept(header, c)
    BY <1>7 DEF HeaderSwept
  <2>7. AuditSwept(c)' => AuditSwept(c)
    BY <1>1, <1>8 DEF AuditSwept
  <2>8. Swept(header, c) => current' = current
    BY <1>1 DEF Swept
  <2>9. Swept(header, c)' => Swept(header, c)
    BY <1>7
  <2> QED BY <1>3, <1>4, <2>1, <2>4, <2>5, <2>6, <2>7, <2>8, <2>9 DEF CoveredAt, HeaderSwept
<1>14. ResultInv'
  BY <1>1 DEF ResultInv
<1> QED BY <1>9, <1>10, <1>11, <1>12, <1>13, <1>14 DEF ScanInv

(* The next rows of the sweeps are listed.                                 *)
LEMMA ListScan ==
    ASSUME ScanInv, Q!List, ScanAssumption
    PROVE  ScanInv'
<1>20. PICK c, a, v :
          /\ c = Q!NextRow(header.cursor)
          /\ a = IF audit = None THEN None ELSE Q!NextRow(audit.cursor)
          /\ v = IF read.due THEN Q!NextRow(deep) ELSE None
  OBVIOUS
<1>21. PICK must : must = (c # None /\ Q!Must(c, v))
  OBVIOUS
<1>22. v \in Q!Chat \cup {None}
  BY <1>20, NextRowIs
<1>23. /\ read.at = "opened"
       /\ counted' = counted \cup {d \in {a} : Q!Miscounted(d)}
       /\ read' = [read EXCEPT !.at = IF must THEN "listed" ELSE "read",
                               !.chat = c, !.head = IF must THEN Q!Head(c) ELSE 0,
                               !.verified = v, !.audited = (a # None)]
       /\ audit' = IF a = None THEN audit ELSE [audit EXCEPT !.cursor = a]
       /\ current' = current \cup {d \in {c} \ {None} : ~must /\ oversized[d] # None}
  BY <1>20, <1>21 DEF Q!List, Q!Must, Q!Head
<1>1. /\ read.at = "opened"
      /\ c = Q!NextRow(header.cursor)
      /\ a = IF audit = None THEN None ELSE Q!NextRow(audit.cursor)
      /\ v \in Q!Chat \cup {None}
      /\ must = (c # None /\ Q!Must(c, v))
      /\ counted' = counted \cup {d \in {a} : Q!Miscounted(d)}
      /\ read' = [read EXCEPT !.at = IF must THEN "listed" ELSE "read",
                              !.chat = c, !.head = IF must THEN Q!Head(c) ELSE 0,
                              !.verified = v, !.audited = (a # None)]
      /\ audit' = IF a = None THEN audit ELSE [audit EXCEPT !.cursor = a]
      /\ current' = current \cup {d \in {c} \ {None} : ~must /\ oversized[d] # None}
  BY <1>20, <1>21, <1>22, <1>23
<1>2. UNCHANGED <<rows, born, generation, recorded, settled, pending, oversized, header,
                  audited, due, result, unreadable>>
  BY DEF Q!List, Q!cursorVars
<1>3. ScanTypeInv
  BY DEF ScanInv
<1>4. \/ /\ c = None /\ \A d \in Q!Chat : d > header.cursor => rows[d] = None
      \/ /\ c \in Q!Chat /\ c > header.cursor /\ rows[c] # None
         /\ \A d \in Q!Chat : d > header.cursor /\ rows[d] # None => c <= d
  BY <1>1, NextRowIs
<1>5. \/ a = None /\ audit' = audit
         /\ (audit # None => \A d \in Q!Chat : d > audit.cursor => rows[d] = None)
      \/ /\ a \in Q!Chat /\ audit # None /\ audit' = [audit EXCEPT !.cursor = a]
         /\ rows[a] # None /\ a > audit.cursor
         /\ \A d \in Q!Chat : d > audit.cursor /\ rows[d] # None => a <= d
  <2>1. CASE audit = None
    BY <1>1, <2>1
  <2>2. CASE audit # None
    BY <1>1, <2>2, NextRowIs, RecordsAreNot
  <2> QED BY <2>1, <2>2
<1>6. /\ audit' \in SweepSet \cup {None} /\ (audit' = None <=> audit = None)
      /\ audit # None => audit'.fp = audit.fp /\ audit'.again = audit.again
      /\ a # None => audit'.cursor = a
  <2>1. audit \in SweepSet \cup {None}
    BY <1>3 DEF ScanTypeInv
  <2>2. CASE a = None
    BY <1>5, <2>1, <2>2, RecordsAreNot
  <2>3. CASE a # None
    <3>1. a \in 0..Chats /\ audit \in SweepSet /\ audit' = [audit EXCEPT !.cursor = a]
      BY <1>5, <2>1, <2>3 DEF Q!Chat, ScanAssumption
    <3>2. audit' \in SweepSet /\ audit'.fp = audit.fp /\ audit'.again = audit.again
          /\ audit'.cursor = a
      BY <3>1 DEF SweepSet
    <3> QED BY <3>1, <3>2, RecordsAreNot
  <2> QED BY <2>2, <2>3
<1>7. c # None => rows[c] \in ScanContent /\ Q!Head(c) \in Nat /\ Q!Head(c) = rows[c].head
  <2>1. c # None => rows[c] \in ScanContent
    BY <1>3, <1>4 DEF ScanTypeInv
  <2> QED BY <2>1 DEF Q!Head, ScanContent
<1>8. /\ read' \in ReadSet /\ read'.at = (IF must THEN "listed" ELSE "read") /\ read'.fp = read.fp
      /\ read'.chat = c /\ read'.outcome = read.outcome
      /\ read'.head = (IF must THEN Q!Head(c) ELSE 0)
      /\ read'.audited = (a # None)
  <2>1. PICK h, w, t :
           /\ h = (IF must THEN Q!Head(c) ELSE 0) /\ w = (a # None)
           /\ t = (IF must THEN "listed" ELSE "read")
    OBVIOUS
  <2>2. h \in Nat /\ t \in {"listed", "read"} /\ c \in Q!Chat \cup {None}
    BY <1>1, <1>4, <1>7, <2>1
  <2>3. read \in ReadSet
    BY <1>3 DEF ScanTypeInv
  <2>4. read' = [read EXCEPT !.at = t, !.chat = c, !.head = h, !.verified = v, !.audited = w]
    BY <1>1, <2>1
  <2>5. v \in Q!Chat \cup {None}
    BY <1>1
  <2>7. read' = [at |-> t, fp |-> read.fp, due |-> read.due, chat |-> c, head |-> h,
                 verified |-> v, audited |-> w, outcome |-> read.outcome]
    BY <2>3, <2>4 DEF ReadSet
  <2>6. read' \in ReadSet /\ read'.at = t /\ read'.fp = read.fp
        /\ read'.chat = c /\ read'.outcome = read.outcome /\ read'.head = h /\ read'.audited = w
    BY <2>1, <2>2, <2>3, <2>5, <2>7 DEF ReadSet
  <2> QED BY <2>1, <2>6
<1>9. /\ result = None /\ read.outcome = "none"
      /\ \A d \in Q!Chat : pending[d] # None => ~Q!Holds(d, pending[d])
  BY <1>1 DEF ScanInv, ReadInv
<1>10. ScanTypeInv'
  BY <1>2, <1>3, <1>6, <1>8 DEF ScanTypeInv
<1>11. PastInv'
  BY <1>2 DEF ScanInv, PastInv, PastAt, Past
<1>12. ReadInv'
  <2>1. must => /\ c # None /\ c \in born /\ Q!Head(c) <= rows[c].head
    <3>1. c \in Q!Chat => PastAt(c)
      BY DEF ScanInv, PastInv
    <3>2. must => c # None
      BY <1>1
    <3>3. c # None => rows[c].head \in Nat /\ Q!Head(c) = rows[c].head
      BY <1>7
    <3> QED BY <1>4, <3>1, <3>2, <3>3 DEF PastAt
  <2> QED BY <1>2, <1>8, <1>9, <2>1 DEF ReadInv, Q!Holds
<1>13. SweepInv'
  <2>1. SweepInv /\ read.at = "opened"
    BY <1>1 DEF ScanInv
  <2>2. \A d \in Q!Chat : d > header.cursor /\ rows[d] # None => c # None /\ d >= c
    BY <1>4, RecordsAreNot DEF Q!Chat
  <2>3. audit' # None /\ a = None => \A d \in Q!Chat : d > audit'.cursor => rows[d] = None
    BY <1>5, <1>6, RecordsAreNot
  <2> QED BY <1>2, <1>6, <1>8, <2>1, <2>2, <2>3 DEF SweepInv
<1>14. CoveredInv'
  <2> SUFFICES ASSUME NEW x \in Q!Chat, Kept(x)'
               PROVE  CoveredAt(x)'
    BY DEF CoveredInv
  <2>1. CoveredAt(x) /\ rows[x] # None
    BY <1>2 DEF ScanInv, CoveredInv, Kept
  <2>2. /\ Q!Reference(x)' = Q!Reference(x) /\ Q!Head(x)' = Q!Head(x)
        /\ Q!Count(rows[x])' = Q!Count(rows[x])
        /\ Q!Count(Q!Reference(x).content)' = Q!Count(Q!Reference(x).content)
    BY <1>2 DEF Q!Reference, Q!Head, Q!Count
  <2>3. (Known(x) <=> Known(x)') /\ (Listed(x) => Listed(x)')
    BY <1>2, <2>2 DEF Known, Listed
  <2>4. Counted(x) => Counted(x)'
    BY <1>1, <1>2, <2>2, <2>3 DEF Counted, Q!Holds
  <2>5. HeaderSwept(x)' = HeaderSwept(x) /\ Swept(header, x)' = Swept(header, x)
    BY <1>2 DEF HeaderSwept, Swept
  <2>6. AuditSwept(x)' => Counted(x)'
    <3>1. CASE a = None
      BY <1>2, <1>5, <2>1, <2>4, <3>1, RecordsAreNot DEF CoveredAt, AuditSwept, Swept
    <3>2. CASE a # None /\ x # a
      <4>1. a \in Q!Chat /\ audit # None /\ audit' # None /\ audit'.cursor = a
        BY <1>5, <1>6, <3>2
      <4>2. x <= a => x <= audit.cursor
        <5>1. x \in Nat /\ a \in Nat /\ audit.cursor \in Nat
          BY <1>3, <4>1, RecordsAreNot DEF ScanTypeInv, SweepSet
        <5> QED BY <1>5, <2>1, <3>2, <4>1, <5>1
      <4>3. AuditSwept(x)' => AuditSwept(x)
        BY <1>2, <1>6, <4>1, <4>2 DEF AuditSwept, Swept
      <4> QED BY <2>1, <2>4, <4>3 DEF CoveredAt
    <3>3. CASE a # None /\ x = a
      <4>1. Q!Miscounted(x) => x \in counted'
        BY <1>1, <3>3
      <4>2. Counted(x) \/ Q!Miscounted(x)
        BY <1>9, <3>3 DEF Counted, Q!Miscounted
      <4> QED BY <2>4, <4>1, <4>2 DEF Counted
    <3> QED BY <3>1, <3>2, <3>3
  <2>7. current \subseteq current'
    BY <1>1
  <2>8. x = c /\ ~must => Read(x)'
    <3> SUFFICES ASSUME x = c, ~must
                 PROVE  Read(x)'
      OBVIOUS
    <3>1. ~Q!Must(x, v) /\ x # None
      BY <1>1, RecordsAreNot
    <3>2. Listed(x)
      BY <3>1 DEF Q!Must, Listed
    <3>3. oversized'[x] # None => x \in current'
      BY <1>1, <1>2, <3>1
    <3> QED BY <1>8, <1>9, <2>3, <3>2, <3>3 DEF Read
  <2> QED BY <1>2, <1>8, <2>1, <2>3, <2>5, <2>6, <2>7, <2>8 DEF CoveredAt
<1>15. ResultInv'
  BY <1>2, <1>9 DEF ResultInv
<1> QED BY <1>10, <1>11, <1>12, <1>13, <1>14, <1>15 DEF ScanInv

(* Cursor's commits.                                                       *)
LEMMA CursorScan ==
    ASSUME ScanInv, NEW c \in Q!Chat, ScanAssumption,
           \/ Q!Create(c) \/ Q!Append(c) \/ Q!Rename(c) \/ Q!Rewrite(c) \/ Q!Prune(c)
           \/ Q!Delete(c)
    PROVE  ScanInv'
<1>1. /\ generation \in Nat /\ rows[c] \in ScanContent \cup {None}
      /\ rows[c] # None => /\ rows[c].head <= generation
                           /\ 1 <= rows[c].first /\ rows[c].first <= rows[c].last + 1
  BY DEF ScanInv, ScanTypeInv, PastInv, PastAt
<1> DEFINE Commits(v) ==
          /\ rows' = [rows EXCEPT ![c] = v] /\ generation' = generation + 1
          /\ born' = born \cup {c}
          /\ UNCHANGED <<recorded, Q!adapterVars, read, result, unreadable>>
<1>2. ASSUME NEW v \in ScanContent, rows[c] # None, v.head \in {rows[c].head, generation + 1},
             1 <= v.first, v.first <= v.last + 1, rows[c].last <= v.last, Commits(v)
      PROVE  ScanInv'
  <2>1. rows[c].head \in Nat /\ v.head \in Nat
    BY <1>1, <1>2 DEF ScanContent
  <2>2. rows[c].head <= v.head /\ v.head <= generation + 1
    BY <1>1, <1>2, <2>1
  <2> QED BY <1>2, <2>2, CommitScan
<1>3. ASSUME NEW h \in {rows[c].head, generation + 1}, NEW f, NEW l \in Nat, NEW b \in Nat, NEW v,
             rows[c] # None, v = [head |-> h, first |-> f, last |-> l, body |-> b], f \in Nat,
             1 <= f, f <= l + 1, rows[c].last <= l, Commits(v)
      PROVE  ScanInv'
  <2>1. h \in Nat
    BY <1>1, <1>3 DEF ScanContent
  <2>2. /\ v \in ScanContent /\ v.head = h /\ v.first = f /\ v.last = l
    BY <1>3, <2>1 DEF ScanContent
  <2> HIDE DEF Commits
  <2> QED BY <1>2, <1>3, <2>2
<1>4. rows[c] # None => /\ rows[c].first \in Nat /\ rows[c].last \in Nat /\ rows[c].body \in Nat
                        /\ rows[c] = [head |-> rows[c].head, first |-> rows[c].first,
                                      last |-> rows[c].last, body |-> rows[c].body]
  BY <1>1 DEF ScanContent
<1>5. CASE Q!Create(c)
  <2>1. PICK v : v = [head |-> generation + 1, first |-> 1, last |-> 1, body |-> 1]
    OBVIOUS
  <2>4. v = [Q!Short EXCEPT !.head = generation + 1]
    BY <2>1 DEF Q!Short
  <2>2. Commits(v) /\ c \notin born
    BY <1>5, <2>4 DEF Q!Create, Q!Commit
  <2>3. v \in ScanContent /\ v.head = generation + 1 /\ v.first = 1 /\ v.last = 1
    BY <1>1, <2>1 DEF ScanContent
  <2>5. v.head <= generation + 1 /\ 1 <= v.first /\ v.first <= v.last + 1
    BY <1>1, <2>3
  <2> QED BY <2>2, <2>3, <2>5, CommitScan
<1>6. CASE Q!Append(c)
  <2>1. PICK h \in {rows[c].head, generation + 1} :
            Q!Commit(c, [rows[c] EXCEPT !.last = @ + 1, !.head = h])
    BY <1>6 DEF Q!Append
  <2>2. rows[c] # None
    BY <1>6 DEF Q!Append
  <2>3. PICK v : v = [head |-> h, first |-> rows[c].first, last |-> rows[c].last + 1,
                      body |-> rows[c].body]
    OBVIOUS
  <2>4. v = [rows[c] EXCEPT !.last = @ + 1, !.head = h]
    <3>1. PICK r \in ScanContent : r = rows[c]
      BY <1>1, <2>2
    <3>2. v = [head |-> h, first |-> r.first, last |-> r.last + 1, body |-> r.body]
      BY <2>3, <3>1
    <3>3. v = [r EXCEPT !.last = r.last + 1, !.head = h]
      <4>1. PICK o, f, l, b : r = [head |-> o, first |-> f, last |-> l, body |-> b]
        BY <3>1 DEF ScanContent
      <4>2. PICK m : m = r.last + 1
        OBVIOUS
      <4>3. v = [head |-> h, first |-> f, last |-> m, body |-> b]
        BY <3>2, <4>1, <4>2
      <4>4. v = [r EXCEPT !.last = m, !.head = h]
        <5>3. PICK w : w = [head |-> o, first |-> f, last |-> m, body |-> b]
          OBVIOUS
        <5>4. w = [r EXCEPT !.last = m]
          BY <4>1, <5>3
        <5>5. v = [w EXCEPT !.head = h]
          BY <4>3, <5>3
        <5>6. [r EXCEPT !.last = m, !.head = h] = [[r EXCEPT !.last = m] EXCEPT !.head = h]
          OBVIOUS
        <5> QED BY <5>4, <5>5, <5>6
      <4> QED BY <4>2, <4>4
    <3> QED BY <3>1, <3>3
  <2>5. Commits(v)
    BY <2>1, <2>4 DEF Q!Commit
  <2> HIDE DEF Commits
  <2>6. PICK m : m = rows[c].last + 1
    OBVIOUS
  <2>7. /\ m \in Nat /\ 1 <= rows[c].first /\ rows[c].first <= m + 1 /\ rows[c].last <= m
        /\ rows[c].first \in Nat /\ rows[c].body \in Nat
    BY <1>1, <1>4, <2>2, <2>6
  <2>8. v = [head |-> h, first |-> rows[c].first, last |-> m, body |-> rows[c].body]
    BY <2>3, <2>6
  <2> QED BY <1>3, <2>2, <2>5, <2>7, <2>8
<1>7. CASE Q!Rename(c)
  <2>1. rows[c] # None /\ Q!Commit(c, [rows[c] EXCEPT !.head = generation + 1])
    BY <1>7 DEF Q!Rename
  <2>2. PICK v : v = [head |-> generation + 1, first |-> rows[c].first, last |-> rows[c].last,
                      body |-> rows[c].body]
    OBVIOUS
  <2>3. v = [rows[c] EXCEPT !.head = generation + 1]
    BY <1>4, <2>1, <2>2
  <2>4. Commits(v)
    BY <2>1, <2>3 DEF Q!Commit
  <2> HIDE DEF Commits
  <2> QED BY <1>1, <1>3, <1>4, <2>1, <2>2, <2>4
<1>8. CASE Q!Rewrite(c)
  <2>1. rows[c] # None /\ Q!Commit(c, [rows[c] EXCEPT !.body = @ + 1])
    BY <1>8 DEF Q!Rewrite
  <2>2. PICK v : v = [head |-> rows[c].head, first |-> rows[c].first, last |-> rows[c].last,
                      body |-> rows[c].body + 1]
    OBVIOUS
  <2>3. v = [rows[c] EXCEPT !.body = @ + 1]
    BY <1>4, <2>1, <2>2
  <2>4. Commits(v)
    BY <2>1, <2>3 DEF Q!Commit
  <2> HIDE DEF Commits
  <2> QED BY <1>1, <1>3, <1>4, <2>1, <2>2, <2>4
<1>9. CASE Q!Prune(c)
  <2>1. rows[c] # None
    BY <1>9 DEF Q!Prune
  <2>2. CASE Q!Count(rows[c]) > 0 /\ Q!Commit(c, [rows[c] EXCEPT !.first = @ + 1])
    <3>1. rows[c].first + 1 <= rows[c].last + 1 /\ 1 <= rows[c].first + 1
      BY <1>1, <1>4, <2>1, <2>2 DEF Q!Count
    <3>2. PICK v : v = [head |-> rows[c].head, first |-> rows[c].first + 1,
                        last |-> rows[c].last, body |-> rows[c].body]
      OBVIOUS
    <3>3. v = [rows[c] EXCEPT !.first = @ + 1]
      BY <1>4, <2>1, <3>2
    <3>4. Commits(v)
      BY <2>2, <3>3 DEF Q!Commit
    <3> HIDE DEF Commits
    <3> QED BY <1>1, <1>3, <1>4, <2>1, <3>1, <3>2, <3>4
  <2>3. CASE Q!Commit(c, [rows[c] EXCEPT !.first = @ + Q!Count(rows[c]), !.body = 0])
    <3>1. PICK n : n = Q!Count(rows[c])
      OBVIOUS
    <3>2. rows[c].first + n = rows[c].last + 1
      BY <1>4, <2>1, <3>1 DEF Q!Count
    <3>3. PICK v : v = [head |-> rows[c].head, first |-> rows[c].last + 1,
                        last |-> rows[c].last, body |-> 0]
      OBVIOUS
    <3>4. v = [rows[c] EXCEPT !.first = @ + n, !.body = 0]
      <4>1. PICK r \in ScanContent : r = rows[c]
        BY <1>1, <2>1
      <4>2. PICK m : m = r.first + n
        OBVIOUS
      <4>3. v = [head |-> r.head, first |-> m, last |-> r.last, body |-> 0]
        BY <3>2, <3>3, <4>1, <4>2
      <4>4. v = [r EXCEPT !.first = m, !.body = 0]
        <5>1. PICK o, f, l, b : r = [head |-> o, first |-> f, last |-> l, body |-> b]
          BY <4>1 DEF ScanContent
        <5>2. v = [head |-> o, first |-> m, last |-> l, body |-> 0]
          BY <4>3, <5>1
        <5>3. PICK w : w = [head |-> o, first |-> m, last |-> l, body |-> b]
          OBVIOUS
        <5>4. w = [r EXCEPT !.first = m]
          BY <5>1, <5>3
        <5>5. v = [w EXCEPT !.body = 0]
          BY <5>2, <5>3
        <5>6. [r EXCEPT !.first = m, !.body = 0] = [[r EXCEPT !.first = m] EXCEPT !.body = 0]
          OBVIOUS
        <5> QED BY <5>4, <5>5, <5>6
      <4> QED BY <4>1, <4>2, <4>4
    <3>5. Commits(v)
      BY <2>3, <3>1, <3>4 DEF Q!Commit
    <3>6. 1 <= rows[c].last + 1
      BY <1>1, <1>4, <2>1
    <3> HIDE DEF Commits
    <3> QED BY <1>1, <1>3, <1>4, <2>1, <3>3, <3>5, <3>6
  <2> QED BY <1>9, <2>2, <2>3 DEF Q!Prune
<1>10. CASE Q!Delete(c)
  <2>1. PICK v : v = None
    OBVIOUS
  <2>2. Commits(v)
    BY <1>10, <2>1 DEF Q!Delete, Q!Commit
  <2> QED BY <2>1, <2>2, CommitScan
<1> QED BY <1>5, <1>6, <1>7, <1>8, <1>9, <1>10

(* A chat that cannot be read is claimed no longer.                        *)
LEMMA UnreadableScan ==
    ASSUME ScanInv, Q!Unreadable, ScanAssumption
    PROVE  ScanInv'
<1>1. /\ read.at = "listed" /\ unreadable = None /\ unreadable' = read.chat
      /\ read' = [read EXCEPT !.at = "read", !.outcome = "unreadable"]
      /\ UNCHANGED <<rows, born, generation, recorded, settled, pending, counted, oversized,
                     current, header, audit, audited, due, result>>
  BY DEF Q!Unreadable, Q!cursorVars, Q!adapterVars, Q!memory, Q!sweepVars
<1>2. ScanTypeInv
  BY DEF ScanInv
<1>3. /\ read' \in ReadSet /\ read'.at = "read" /\ read'.outcome = "unreadable"
      /\ read'.fp = read.fp /\ read'.chat = read.chat /\ read'.audited = read.audited
  <2>1. read \in ReadSet
    BY <1>2 DEF ScanTypeInv
  <2> QED BY <1>1, <2>1 DEF ReadSet
<1>4. /\ result = None /\ read.chat # None
      /\ \A c \in Q!Chat : pending[c] # None => ~Q!Holds(c, pending[c])
  BY <1>1 DEF ScanInv, ReadInv
<1>5. ScanTypeInv' /\ PastInv'
  BY <1>1, <1>2, <1>3 DEF ScanTypeInv, ScanInv, PastInv, PastAt, Past
<1>6. ReadInv' /\ ResultInv'
  BY <1>1, <1>3, <1>4 DEF ReadInv, ResultInv
<1>7. SweepInv'
  BY <1>1, <1>3 DEF ScanInv, SweepInv
<1>8. CoveredInv'
  <2> SUFFICES ASSUME NEW x \in Q!Chat, Kept(x)'
               PROVE  CoveredAt(x)'
    BY DEF CoveredInv
  <2>1. CoveredAt(x) /\ x # read.chat
    BY <1>1, RecordsAreNot DEF ScanInv, CoveredInv, Kept
  <2>2. /\ Q!Reference(x)' = Q!Reference(x) /\ Q!Head(x)' = Q!Head(x)
        /\ Q!Count(rows[x])' = Q!Count(rows[x])
        /\ Q!Count(Q!Reference(x).content)' = Q!Count(Q!Reference(x).content)
    BY <1>1 DEF Q!Reference, Q!Head, Q!Count
  <2>3. (Listed(x) => Listed(x)') /\ (Counted(x) => Counted(x)')
    BY <1>1, <2>2 DEF Known, Listed, Counted, Q!Holds
  <2> QED BY <1>1, <1>3, <2>1, <2>3 DEF CoveredAt, HeaderSwept, AuditSwept, Swept
<1> QED BY <1>5, <1>6, <1>7, <1>8 DEF ScanInv

(* What a scan returned is published, as it still is if anything is        *)
(* claimed of the database.                                                *)
LEMMA PublishScan ==
    ASSUME ScanInv, Q!Publish, ScanAssumption
    PROVE  ScanInv'
<1>1. /\ read.at = "idle" /\ result # None /\ result' = None
      /\ recorded' = [recorded EXCEPT ![result] = pending[result]]
      /\ UNCHANGED <<rows, born, generation, settled, pending, counted, oversized,
                     current, header, audit, audited, due, read, unreadable>>
  BY DEF Q!Publish, Q!cursorVars, Q!memory, Q!sweepVars
<1>2. ScanTypeInv
  BY DEF ScanInv
<1>3. /\ result \in Q!Chat /\ pending[result] \in ScanEntry /\ pending[result] # None
      /\ Q!Count(pending[result].content) <= Limit
  BY <1>1, <1>2 DEF ScanInv, ReadInv, ScanTypeInv
<1>4. /\ recorded'[result] = pending[result]
      /\ \A x \in Q!Chat : x # result => recorded'[x] = recorded[x]
  BY <1>1, <1>2, <1>3 DEF ScanTypeInv
<1>5. ScanTypeInv'
  BY <1>1, <1>2, <1>3 DEF ScanTypeInv
<1>6. PastInv'
  <2> SUFFICES ASSUME NEW x \in Q!Chat
               PROVE  PastAt(x)'
    BY DEF PastInv
  <2>1. PastAt(x)
    BY DEF ScanInv, PastInv
  <2> QED BY <1>1, <1>3, <1>4, <2>1 DEF PastAt, Past, Q!Count
<1>7. ReadInv' /\ SweepInv' /\ ResultInv'
  BY <1>1 DEF ScanInv, ReadInv, SweepInv, ResultInv
<1>8. CoveredInv'
  <2> SUFFICES ASSUME NEW x \in Q!Chat, Kept(x)'
               PROVE  CoveredAt(x)'
    BY DEF CoveredInv
  <2>1. CoveredAt(x)
    BY <1>1 DEF ScanInv, CoveredInv, Kept
  <2>2. /\ HeaderSwept(x)' => HeaderSwept(x)
        /\ AuditSwept(x)' => AuditSwept(x)
        /\ Swept(header, x)' => Swept(header, x)
    BY <1>1 DEF HeaderSwept, AuditSwept, Swept
  <2>3. CASE x # result
    <3>1. /\ Q!Reference(x)' = Q!Reference(x) /\ Q!Head(x)' = Q!Head(x)
          /\ Q!Count(rows[x])' = Q!Count(rows[x])
          /\ Q!Count(Q!Reference(x).content)' = Q!Count(Q!Reference(x).content)
      BY <1>1, <1>4, <2>3 DEF Q!Reference, Q!Head, Q!Count
    <3>2. (Listed(x) => Listed(x)') /\ (Counted(x) => Counted(x)')
      BY <1>1, <1>4, <2>3, <3>1 DEF Known, Listed, Counted, Q!Holds
    <3> QED BY <1>1, <2>1, <2>2, <3>2 DEF CoveredAt, HeaderSwept, AuditSwept, Swept
  <2>4. CASE x = result
    <3>1. HeaderSwept(x) \/ AuditSwept(x) => pending[x].content = rows[x]
      BY <1>1, <2>4 DEF ScanInv, ResultInv
    <3>2. HeaderSwept(x) \/ AuditSwept(x) => Known(x)'
      BY <1>1, <1>3, <1>4, <2>4, <3>1 DEF Known
    <3> QED BY <1>1, <2>1, <2>2, <3>2
            DEF CoveredAt, Listed, Counted, HeaderSwept, AuditSwept, Swept
  <2> QED BY <2>3, <2>4
<1> QED BY <1>5, <1>6, <1>7, <1>8 DEF ScanInv

(* The clock, and a cycle that failed, change nothing that is claimed.     *)
LEMMA RestScan ==
    ASSUME ScanInv, Q!PublishFails \/ Q!Tick, ScanAssumption
    PROVE  ScanInv'
<1>1. /\ read.at = "idle" /\ result' \in {result, None} /\ due' \in {due, TRUE}
      /\ UNCHANGED <<rows, born, generation, recorded, settled, pending, counted, oversized,
                     current, header, audit, audited, read, unreadable>>
  BY DEF Q!PublishFails, Q!Tick, Q!cursorVars, Q!memory, Q!sweepVars, Q!adapterVars
<1>2. ScanTypeInv'
  BY <1>1 DEF ScanInv, ScanTypeInv
<1>3. PastInv' /\ ReadInv' /\ SweepInv'
  BY <1>1 DEF ScanInv, PastInv, PastAt, Past, ReadInv, SweepInv
<1>4. ResultInv'
  BY <1>1 DEF ScanInv, ResultInv, HeaderSwept, AuditSwept, Swept
<1>5. CoveredInv'
  <2> SUFFICES ASSUME NEW x \in Q!Chat, Kept(x)'
               PROVE  CoveredAt(x)'
    BY DEF CoveredInv
  <2>1. CoveredAt(x)
    BY <1>1 DEF ScanInv, CoveredInv, Kept
  <2>2. /\ Q!Reference(x)' = Q!Reference(x) /\ Q!Head(x)' = Q!Head(x)
        /\ Q!Count(rows[x])' = Q!Count(rows[x])
        /\ Q!Count(Q!Reference(x).content)' = Q!Count(Q!Reference(x).content)
    BY <1>1 DEF Q!Reference, Q!Head, Q!Count
  <2>3. (Listed(x) => Listed(x)') /\ (Counted(x) => Counted(x)')
    BY <1>1, <2>2 DEF Known, Listed, Counted, Q!Holds
  <2> QED BY <1>1, <2>1, <2>3 DEF CoveredAt, HeaderSwept, AuditSwept, Swept
<1> QED BY <1>2, <1>3, <1>4, <1>5 DEF ScanInv

(* A body is read: a chat that is claimed is known by it.                  *)
LEMMA CaptureScan ==
    ASSUME ScanInv, Q!Capture, ScanAssumption
    PROVE  ScanInv'
<1>1. PICK c, out, en :
          /\ c = read.chat /\ out = Q!Outcome(c)
          /\ en = [content |-> rows[c], head |-> read.head]
  OBVIOUS
<1>2. ScanTypeInv /\ ReadInv /\ read.at = "listed"
  BY DEF ScanInv, Q!Capture
<1>3. /\ c \in Q!Chat /\ c \in born /\ read.head \in Nat
      /\ rows[c] # None => read.head <= rows[c].head
      /\ rows[c] \in ScanContent \cup {None} /\ Limit \in Nat
  BY <1>1, <1>2 DEF ReadInv, ScanTypeInv, ReadSet, ScanAssumption
<1>4. /\ pending' = CASE out \in {"new", "large"} -> [pending EXCEPT ![c] = en]
                      [] out = "same" -> [pending EXCEPT ![c] = None]
                      [] OTHER -> pending
      /\ recorded' = IF out = "same" /\ Q!Holds(c, en)
                     THEN [recorded EXCEPT ![c].head = rows[c].head] ELSE recorded
      /\ oversized' = IF out = "same" THEN oversized ELSE [oversized EXCEPT ![c] = None]
      /\ current' = current \cup {d \in {c} : out = "same" /\ oversized[d] # None}
      /\ counted' = counted \ {c}
      /\ result' = IF out = "new" THEN c ELSE None
      /\ read' = [read EXCEPT !.at = "read", !.outcome = out, !.head = 0]
      /\ UNCHANGED <<rows, born, generation, settled, header, audit, audited, due, unreadable>>
  BY <1>1 DEF Q!Capture, Q!Seen, Q!Core, Q!Head, Q!cursorVars, Q!sweepVars
<1>5. out \in {"missing", "lost", "same", "large", "new"}
  BY <1>1 DEF Q!Outcome
<1>6. out \in {"same", "large", "new"} =>
          /\ rows[c] # None /\ rows[c] \in ScanContent /\ ~Q!Pruned(c)
          /\ out = "same" => Q!Same(c)
          /\ out = "large" => Q!Count(rows[c]) > Limit
          /\ out = "new" => ~(Q!Count(rows[c]) > Limit)
  BY <1>1, <1>3 DEF Q!Outcome, Q!Large
<1>7. /\ read' \in ReadSet /\ read'.at = "read" /\ read'.outcome = out
      /\ read'.fp = read.fp /\ read'.chat = c /\ read'.audited = read.audited
  <2>1. read \in ReadSet
    BY <1>2 DEF ScanTypeInv
  <2> QED BY <1>1, <1>4, <1>5, <2>1 DEF ReadSet
<1>8. rows[c] \in ScanContent => /\ en \in ScanEntry /\ en # None
                                 /\ en.content = rows[c] /\ en.head = read.head
  BY <1>1, <1>3, RecordsAreNot DEF ScanEntry
<1>9. /\ pending'[c] = IF out \in {"new", "large"} THEN en
                       ELSE IF out = "same" THEN None ELSE pending[c]
      /\ \A x \in Q!Chat : x # c => pending'[x] = pending[x]
      /\ pending' \in [Q!Chat -> ScanEntry \cup {None}]
  <2>1. CASE out \in {"new", "large"}
    <3>1. pending' = [pending EXCEPT ![c] = en]
      BY <1>4, <2>1
    <3> QED BY <1>2, <1>3, <1>6, <1>8, <2>1, <3>1 DEF ScanTypeInv
  <2>2. CASE out = "same"
    <3>1. pending' = [pending EXCEPT ![c] = None]
      BY <1>4, <2>2
    <3> QED BY <1>2, <1>3, <2>2, <3>1 DEF ScanTypeInv
  <2>3. CASE out \in {"missing", "lost"}
    <3>1. pending' = pending
      BY <1>4, <2>3
    <3> QED BY <1>2, <2>3, <3>1 DEF ScanTypeInv
  <2> QED BY <1>5, <2>1, <2>2, <2>3
<1>10. /\ oversized'[c] = IF out = "same" THEN oversized[c] ELSE None
       /\ \A x \in Q!Chat : x # c => oversized'[x] = oversized[x]
       /\ oversized' \in [Q!Chat -> ScanEntry \cup {None}]
  BY <1>2, <1>3, <1>4 DEF ScanTypeInv
<1>11. /\ \/ recorded'[c] = recorded[c]
          \/ /\ recorded[c] # None /\ recorded'[c] # None /\ rows[c] # None
             /\ recorded'[c].content = recorded[c].content /\ recorded[c].content = rows[c]
             /\ recorded'[c].head = rows[c].head
       /\ \A x \in Q!Chat : x # c => recorded'[x] = recorded[x]
       /\ recorded' \in [Q!Chat -> ScanEntry \cup {None}]
  <2>1. CASE out = "same" /\ Q!Holds(c, en)
    <3>1. PICK e \in ScanEntry : e = recorded[c]
      BY <1>2, <1>3, <2>1 DEF ScanTypeInv, Q!Holds
    <3>2. e.content = rows[c] /\ rows[c] \in ScanContent
      BY <1>1, <1>6, <1>8, <2>1, <3>1 DEF Q!Holds
    <3>3. rows[c].head \in Nat
      BY <3>2 DEF ScanContent
    <3>4. PICK w : w = [e EXCEPT !.head = rows[c].head]
      OBVIOUS
    <3>5. w \in ScanEntry /\ w.content = e.content /\ w.head = rows[c].head
      BY <3>1, <3>3, <3>4 DEF ScanEntry
    <3>6. recorded' = [recorded EXCEPT ![c] = w]
      BY <1>4, <2>1, <3>1, <3>4
    <3>7. e # None /\ w # None /\ rows[c] # None
      BY <3>1, <3>2, <3>5, RecordsAreNot
    <3> QED BY <1>2, <1>3, <3>1, <3>2, <3>5, <3>6, <3>7 DEF ScanTypeInv
  <2>2. CASE ~(out = "same" /\ Q!Holds(c, en))
    BY <1>2, <1>4, <2>2 DEF ScanTypeInv
  <2> QED BY <2>1, <2>2
<1>12. ScanTypeInv'
  <2>1. result' \in Q!Chat \cup {None}
    BY <1>3, <1>4
  <2> QED BY <1>2, <1>4, <1>7, <1>9, <1>10, <1>11, <2>1 DEF ScanTypeInv
<1>13. PastInv'
  <2> SUFFICES ASSUME NEW x \in Q!Chat
               PROVE  PastAt(x)'
    BY DEF PastInv
  <2>1. PastAt(x)
    BY DEF ScanInv, PastInv
  <2>2. CASE x # c
    BY <1>4, <1>9, <1>10, <1>11, <2>1, <2>2 DEF PastAt, Past
  <2>3. CASE x = c
    <3>1. rows[c] # None => /\ rows[c].head \in Nat /\ rows[c].last \in Nat
      BY <1>3 DEF ScanContent
    <3>2. Past(pending[c], c)'
      <4>1. CASE out \in {"new", "large"}
        BY <1>3, <1>4, <1>6, <1>8, <1>9, <2>1, <2>3, <3>1, <4>1 DEF PastAt, Past
      <4>2. CASE out \notin {"new", "large"}
        BY <1>4, <1>9, <2>1, <2>3, <4>2 DEF PastAt, Past
      <4> QED BY <4>1, <4>2
    <3>3. Past(oversized[c], c)' /\ (oversized[c] # None => Q!Count(oversized[c].content) > Limit)'
      BY <1>4, <1>10, <2>1, <2>3 DEF PastAt, Past, Q!Count
    <3>4. Past(recorded[c], c)' /\ (recorded[c] # None => Q!Count(recorded[c].content) <= Limit)'
      BY <1>3, <1>4, <1>11, <2>1, <2>3, <3>1 DEF PastAt, Past, Q!Count
    <3> QED BY <1>4, <2>1, <2>3, <3>2, <3>3, <3>4 DEF PastAt
  <2> QED BY <2>2, <2>3
<1>14. out \in {"new", "large"} => pending'[c] # None /\ pending'[c].content = rows[c]
  BY <1>6, <1>8, <1>9
<1>15. out = "new" => Q!Count(rows[c]) <= Limit
  <2>1. out = "new" => Q!Count(rows[c]) \in Int
    BY <1>6 DEF Q!Count, ScanContent
  <2> QED BY <1>3, <1>6, <2>1
<1>16. ReadInv'
  <2>1. Q!Count(pending[c].content)' = Q!Count(pending'[c].content)
    BY DEF Q!Count
  <2>2. /\ out = "new" => pending'[c] # None /\ Q!Count(pending'[c].content) <= Limit
        /\ out = "large" => pending'[c] # None /\ Q!Count(pending'[c].content) > Limit
    BY <1>6, <1>14, <1>15
  <2>3. /\ (read.at)' = "read" /\ (read.outcome)' = out /\ (read.chat)' = c /\ c # None
        /\ result' = IF out = "new" THEN c ELSE None
    BY <1>3, <1>4, <1>7, RecordsAreNot
  <2>4. (out = "new" => result' = c) /\ (out # "new" => result' = None)
    BY <2>3
  <2> QED BY <2>2, <2>3, <2>4 DEF ReadInv, Q!Count
<1>17. SweepInv'
  BY <1>1, <1>2, <1>4, <1>7 DEF ScanInv, SweepInv
<1>18. Kept(c) => (Known(c)' /\ out \in {"same", "new", "large"}
                   /\ (oversized'[c] # None => c \in current'))
  <2> SUFFICES ASSUME Kept(c)
               PROVE  /\ Known(c)' /\ out \in {"same", "new", "large"}
                      /\ oversized'[c] # None => c \in current'
    OBVIOUS
  <2>1. /\ rows[c] # None /\ rows[c].body # 0 /\ rows[c].first = 1 /\ rows[c] \in ScanContent
    BY <1>3 DEF Kept
  <2>2. ~Q!Pruned(c)
    <3> SUFFICES ASSUME Q!Pruned(c)
                 PROVE  FALSE
      OBVIOUS
    <3>1. PICK e : /\ e = Q!Reference(c) /\ e # None
                   /\ Q!Count(rows[c]) < Q!Count(e.content)
      BY DEF Q!Pruned
    <3>2. e \in ScanEntry /\ Past(e, c)
      BY <1>2, <1>3, <3>1 DEF ScanInv, PastInv, PastAt, ScanTypeInv, Q!Reference
    <3>3. 1 <= e.content.first /\ e.content.last <= rows[c].last
      BY <2>1, <3>1, <3>2 DEF Past
    <3>4. e.content.first \in Nat /\ e.content.last \in Nat /\ rows[c].last \in Nat
      BY <2>1, <3>2 DEF ScanEntry, ScanContent
    <3> QED BY <2>1, <3>1, <3>3, <3>4 DEF Q!Count
  <2>3. out \in {"same", "new", "large"}
    BY <1>1, <2>1, <2>2 DEF Q!Outcome
  <2>4. CASE out \in {"new", "large"}
    BY <1>4, <1>10, <1>14, <2>4 DEF Known
  <2>5. CASE out = "same"
    <3>1. /\ oversized'[c] = oversized[c]
          /\ oversized[c] # None => c \in current'
      BY <1>4, <1>10, <2>5
    <3>2. Q!Same(c)
      BY <1>6, <2>5
    <3>3. \/ recorded[c] # None /\ recorded[c].content = rows[c]
          \/ oversized[c] # None /\ oversized[c].content = rows[c]
      BY <3>2 DEF Q!Same, Q!Reference, Q!Core, Q!Holds
    <3>4. recorded[c] # None /\ recorded[c].content = rows[c]
          => recorded'[c] # None /\ recorded'[c].content = rows[c]
      BY <1>11
    <3> QED BY <1>4, <2>3, <3>1, <3>3, <3>4 DEF Known
  <2> QED BY <2>3, <2>4, <2>5
<1>19. CoveredInv'
  <2> SUFFICES ASSUME NEW x \in Q!Chat, Kept(x)'
               PROVE  CoveredAt(x)'
    BY DEF CoveredInv
  <2>1. CoveredAt(x) /\ Kept(x)
    BY <1>4 DEF ScanInv, CoveredInv, Kept
  <2>2. CASE x # c
    <3>1. /\ Q!Reference(x)' = Q!Reference(x) /\ Q!Head(x)' = Q!Head(x)
          /\ Q!Count(rows[x])' = Q!Count(rows[x])
          /\ Q!Count(Q!Reference(x).content)' = Q!Count(Q!Reference(x).content)
      BY <1>4, <1>10, <1>11, <2>2 DEF Q!Reference, Q!Head, Q!Count
    <3>2. (Listed(x) => Listed(x)') /\ (Counted(x) => Counted(x)')
      BY <1>4, <1>9, <1>10, <1>11, <2>2, <3>1 DEF Known, Listed, Counted, Q!Holds
    <3> QED BY <1>4, <1>7, <1>10, <2>1, <2>2, <3>2 DEF CoveredAt, HeaderSwept, AuditSwept, Swept
  <2>3. CASE x = c
    <3>1. Known(c)' /\ out \in {"same", "new", "large"}
          /\ (oversized'[c] # None => c \in current')
      BY <1>18, <2>1, <2>3
    <3>2. Listed(c)' /\ Counted(c)'
      BY <3>1 DEF Listed, Counted
    <3>3. Read(c)'
      BY <1>4, <1>7, <1>14, <3>1, <3>2 DEF Read
    <3> QED BY <2>3, <3>1, <3>2, <3>3 DEF CoveredAt
  <2> QED BY <2>2, <2>3
<1>20. ResultInv'
  BY <1>4, <1>14 DEF ResultInv
<1> QED BY <1>12, <1>13, <1>16, <1>17, <1>19, <1>20 DEF ScanInv

(* A sweep after its page, if it claims anything, met one fingerprint.     *)
LEMMA AdvancedIs ==
    ASSUME NEW s \in SweepSet, NEW ended \in BOOLEAN, NEW cursor, ScanAssumption,
           generation \in Nat, ended \/ cursor \in 0..Chats
    PROVE  /\ Q!Advanced(s, ended, cursor) \in SweepSet \cup {None}
           /\ Q!Advanced(s, ended, cursor) # None => Q!Advanced(s, ended, cursor).fp = generation
           /\ Q!Advanced(s, ended, cursor) = None => ended /\ Q!Stable /\ ~s.again
           /\ \A x \in Q!Chat : Swept(Q!Advanced(s, ended, cursor), x)
                                => ~ended /\ Q!Stable /\ ~s.again /\ x <= cursor
<1>1. PICK ag \in BOOLEAN : ag = (s.again \/ ~Q!Stable)
  OBVIOUS
<1>2. PICK after : after = [s EXCEPT !.again = ag, !.fp = generation]
  OBVIOUS
<1>3. PICK w : w = Q!Advanced(s, ended, cursor)
  OBVIOUS
<1>4. w = IF ~ended THEN [after EXCEPT !.cursor = cursor]
          ELSE IF after.again THEN [cursor |-> 0, again |-> FALSE, fp |-> generation] ELSE None
  <2>1. [Q!Sweep EXCEPT !.fp = generation] = [cursor |-> 0, again |-> FALSE, fp |-> generation]
    <3>1. PICK f : f = generation
      OBVIOUS
    <3>2. PICK sw : sw = [cursor |-> 0, again |-> FALSE, fp |-> f]
      OBVIOUS
    <3>3. PICK g : g = [sw EXCEPT !.fp = f]
      OBVIOUS
    <3>5. g = [cursor |-> 0, again |-> FALSE, fp |-> f]
      BY <3>2, <3>3
    <3>4. Q!Sweep = sw
      BY <3>1, <3>2 DEF Q!Sweep, Q!Fingerprint
    <3> QED BY <3>1, <3>3, <3>4, <3>5
  <2> QED BY <1>1, <1>2, <1>3, <2>1 DEF Q!Advanced, Q!Fingerprint
<1>5. after = [cursor |-> s.cursor, again |-> ag, fp |-> generation] /\ after.again = ag
  BY <1>2 DEF SweepSet
<1>6. CASE ~ended
  <2>1. w = [cursor |-> cursor, again |-> ag, fp |-> generation]
    BY <1>4, <1>5, <1>6
  <2>2. w \in SweepSet /\ w.fp = generation /\ w.again = ag /\ w.cursor = cursor /\ w # None
    <3>1. cursor \in 0..Chats
      BY <1>6
    <3>2. w \in SweepSet
      BY <2>1, <3>1, <1>1 DEF SweepSet
    <3> QED BY <2>1, <3>2, RecordsAreNot
  <2> QED BY <1>1, <1>3, <1>6, <2>2 DEF Swept
<1>7. CASE ended /\ ag
  <2>1. w = [cursor |-> 0, again |-> FALSE, fp |-> generation]
    BY <1>4, <1>5, <1>7
  <2>2. w \in SweepSet /\ w.fp = generation /\ w.cursor = 0 /\ w # None
    <3>1. 0 \in 0..Chats
      BY DEF ScanAssumption
    <3>2. w \in SweepSet
      BY <2>1, <3>1 DEF SweepSet
    <3> QED BY <2>1, <3>2, RecordsAreNot
  <2>3. \A x \in Q!Chat : ~(x <= 0)
    BY DEF Q!Chat, ScanAssumption
  <2> QED BY <1>3, <2>2, <2>3 DEF Swept
<1>8. CASE ended /\ ~ag
  BY <1>1, <1>3, <1>4, <1>5, <1>8 DEF Swept
<1> QED BY <1>6, <1>7, <1>8

(* A scan ends: what its sweeps claim from now on holds.                   *)
LEMMA EndScan ==
    ASSUME ScanInv, Q!End, ScanAssumption
    PROVE  ScanInv'
<1>1. ScanTypeInv /\ ReadInv /\ SweepInv /\ read.at = "read"
  BY DEF ScanInv, Q!End
<1>2. PICK c, still, settles :
          /\ c = read.chat /\ still = (read.fp = generation)
          /\ settles = (read.fp = generation /\ read.outcome = "large")
  OBVIOUS
<1>3. /\ header' = Q!Advanced(header, c = None, c)
      /\ audit' = IF audit = None THEN None ELSE Q!Advanced(audit, ~read.audited, audit.cursor)
      /\ audited' = IF audit # None /\ audit' = None THEN generation ELSE audited
      /\ current' = current \cup {d \in {c} : settles}
      /\ oversized' = [d \in Q!Chat |-> IF settles /\ d = c THEN pending[d]
                                        ELSE IF header' = None /\ d \notin current THEN None
                                        ELSE oversized[d]]
      /\ pending' = IF settles \/ (still /\ read.outcome = "lost")
                    THEN [pending EXCEPT ![c] = None] ELSE pending
      /\ settled' = IF still /\ Q!Quiet THEN read.fp ELSE None
      /\ read' = Q!Idle /\ due' \in {due, FALSE}
      /\ UNCHANGED <<rows, born, generation, recorded, counted, result, unreadable>>
  BY <1>2 DEF Q!End, Q!Settlement, Q!Settles, Q!Stable, Q!Fingerprint, Q!Verified, Q!cursorVars
<1>4. /\ generation \in Nat /\ header \in SweepSet /\ header.fp = read.fp
      /\ audit \in SweepSet \cup {None} /\ read.audited \in BOOLEAN
      /\ audit # None => audit.fp = read.fp
      /\ audit = None => audited = read.fp
      /\ read.fp \in 0..generation /\ c \in Q!Chat \cup {None}
      /\ audited \in 0..generation \cup {None}
  <2>1. read \in ReadSet /\ read.fp \in Nat
    BY <1>1 DEF ScanTypeInv, ReadSet
  <2> QED BY <1>1, <1>2, <2>1 DEF ScanTypeInv, SweepInv, ReadSet
<1>5. /\ header' \in SweepSet \cup {None}
      /\ header' # None => header'.fp = generation
      /\ header' = None => c = None /\ still /\ ~header.again
      /\ \A x \in Q!Chat : Swept(header', x) => c # None /\ still /\ ~header.again /\ x <= c
  <2>1. c = None \/ c \in 0..Chats
    BY <1>4 DEF Q!Chat, ScanAssumption
  <2>2. PICK ended \in BOOLEAN : ended = (c = None)
    OBVIOUS
  <2>3. PICK s, w : s = header /\ w = header'
    OBVIOUS
  <2>4. w = Q!Advanced(s, ended, c)
    BY <1>3, <2>2, <2>3
  <2>5. s \in SweepSet /\ (ended \/ c \in 0..Chats)
    BY <1>4, <2>1, <2>2, <2>3
  <2>6. /\ w \in SweepSet \cup {None}
        /\ w # None => w.fp = generation
        /\ w = None => ended /\ Q!Stable /\ ~s.again
        /\ \A x \in Q!Chat : Swept(w, x) => ~ended /\ Q!Stable /\ ~s.again /\ x <= c
    BY <1>4, <2>4, <2>5, AdvancedIs
  <2> QED BY <1>2, <2>2, <2>3, <2>6 DEF Q!Stable, Q!Fingerprint
<1>6. /\ audit' \in SweepSet \cup {None}
      /\ audit' # None => audit # None /\ audit'.fp = generation
      /\ audit' = None /\ audit # None => ~read.audited /\ still /\ ~audit.again
      /\ \A x \in Q!Chat : Swept(audit', x) => still /\ audit # None /\ ~audit.again
                                               /\ x <= audit.cursor
  <2>1. CASE audit = None
    BY <1>3, <2>1 DEF Swept
  <2>2. CASE audit # None
    <3>1. audit \in SweepSet /\ audit.cursor \in 0..Chats
      BY <1>4, <2>2 DEF SweepSet
    <3>2. PICK ended \in BOOLEAN : ended = (~read.audited)
      OBVIOUS
    <3>3. PICK cur : cur = audit.cursor
      OBVIOUS
    <3>4. audit' = Q!Advanced(audit, ended, cur)
      BY <1>3, <2>2, <3>2, <3>3
    <3> QED BY <1>2, <1>4, <2>2, <3>1, <3>2, <3>3, <3>4, AdvancedIs DEF Q!Stable, Q!Fingerprint
  <2> QED BY <2>1, <2>2
<1>7. /\ Q!Idle \in ReadSet /\ Q!Idle.at = "idle"
  BY DEF Q!Idle, ReadSet
<1>8. /\ settles => /\ c \in Q!Chat /\ pending[c] \in ScanEntry /\ pending[c] # None
                    /\ Q!Count(pending[c].content) > Limit
      /\ result # None => read.outcome = "new" /\ pending' = pending
  <2>1. settles => c # None /\ pending[c] # None /\ Q!Count(pending[c].content) > Limit
    BY <1>1, <1>2 DEF ReadInv
  <2>2. c # None => pending[c] \in ScanEntry \cup {None}
    BY <1>1, <1>4 DEF ScanTypeInv
  <2>3. result # None => read.outcome = "new"
    BY <1>1 DEF ReadInv
  <2>4. read.outcome = "new" => pending' = pending
    BY <1>2, <1>3
  <2> QED BY <1>4, <2>1, <2>2, <2>3, <2>4
<1>9. ASSUME NEW x \in Q!Chat
      PROVE  /\ pending'[x] \in {pending[x], None}
             /\ pending'[x] # pending[x] => x = c /\ still /\ read.outcome \in {"large", "lost"}
             /\ \/ settles /\ x = c /\ oversized'[x] = pending[x]
                \/ ~(settles /\ x = c) /\ oversized'[x] = oversized[x]
                \/ oversized'[x] = None /\ header' = None /\ x \notin current
  <2>1. pending \in [Q!Chat -> ScanEntry \cup {None}]
    BY <1>1 DEF ScanTypeInv
  <2>2. /\ pending'[x] \in {pending[x], None}
        /\ pending'[x] # pending[x] => x = c /\ still /\ read.outcome \in {"large", "lost"}
    BY <1>2, <1>3, <2>1
  <2>3. oversized'[x] = IF settles /\ x = c THEN pending[x]
                        ELSE IF header' = None /\ x \notin current THEN None ELSE oversized[x]
    BY <1>3
  <2> QED BY <2>2, <2>3
<1>10. ScanTypeInv'
  <2>1. pending' \in [Q!Chat -> ScanEntry \cup {None}]
    BY <1>1, <1>3 DEF ScanTypeInv
  <2>2. oversized' \in [Q!Chat -> ScanEntry \cup {None}]
    <3>1. /\ oversized \in [Q!Chat -> ScanEntry \cup {None}]
          /\ pending \in [Q!Chat -> ScanEntry \cup {None}]
      BY <1>1 DEF ScanTypeInv
    <3> QED BY <1>3, <3>1
  <2>3. settled' \in 0..generation \cup {None} /\ audited' \in 0..generation \cup {None}
    BY <1>3, <1>4
  <2>4. due' \in BOOLEAN
    BY <1>1, <1>3 DEF ScanTypeInv
  <2> QED BY <1>1, <1>3, <1>5, <1>6, <1>7, <2>1, <2>2, <2>3, <2>4 DEF ScanTypeInv
<1>11. PastInv'
  <2> SUFFICES ASSUME NEW x \in Q!Chat
               PROVE  PastAt(x)'
    BY DEF PastInv
  <2>1. PastAt(x)
    BY DEF ScanInv, PastInv
  <2>2. Past(pending[x], x)'
    BY <1>3, <1>9, <2>1 DEF PastAt, Past
  <2>3. Past(oversized[x], x)' /\ (oversized[x] # None => Q!Count(oversized[x].content) > Limit)'
    BY <1>3, <1>8, <1>9, <2>1 DEF PastAt, Past, Q!Count
  <2> QED BY <1>3, <2>1, <2>2, <2>3 DEF PastAt, Past, Q!Count
<1>12. ReadInv'
  BY <1>1, <1>3, <1>7, <1>8 DEF ReadInv, Q!Count
<1>13. settled' # None => still /\ settled' = read.fp /\ audit' = None
  BY <1>3 DEF Q!Quiet
<1>14. SweepInv'
  <2>1. settled' # None => audited' = settled'
    BY <1>2, <1>3, <1>4, <1>13
  <2> QED BY <1>3, <1>4, <1>5, <1>6, <1>7, <2>1 DEF SweepInv
<1>15. ASSUME NEW x \in Q!Chat
       PROVE  /\ HeaderSwept(x)' \/ AuditSwept(x)' => still
              /\ HeaderSwept(x)' => ~header.again /\ (c # None => x <= c)
              /\ AuditSwept(x)' /\ rows[x] # None => AuditSwept(x)
  <2>1. HeaderSwept(x)' => Swept(header', x) \/ (header' = None /\ settled' = generation)
    BY <1>3 DEF HeaderSwept, Swept
  <2>2. AuditSwept(x)' => Swept(audit', x) \/ (audit' = None /\ audited' = generation)
    BY <1>3 DEF AuditSwept, Swept
  <2>3. CASE audit = None
    <3>1. audit' = None /\ audited' = audited /\ audited = read.fp
      BY <1>3, <1>4, <2>3
    <3> QED BY <1>2, <1>5, <1>6, <2>1, <2>2, <2>3, <3>1 DEF AuditSwept
  <2>4. CASE audit # None
    <3>1. x \in Nat /\ audit.cursor \in Nat
      BY <1>4, <2>4, RecordsAreNot DEF SweepSet
    <3>2. ~read.audited /\ still /\ rows[x] # None => x <= audit.cursor
      <4> SUFFICES ASSUME ~read.audited, still, rows[x] # None
                   PROVE  ~(x > audit.cursor)
        BY <3>1
      <4> QED BY <1>1, <1>2, <2>4 DEF SweepInv
    <3>3. Swept(audit', x) => still /\ ~audit.again /\ x <= audit.cursor
      BY <1>6
    <3>4. audit' = None => ~read.audited /\ still /\ ~audit.again
      BY <1>6, <2>4
    <3>5. still => audit.fp = generation
      BY <1>2, <1>4, <2>4
    <3>6. HeaderSwept(x)' => still /\ ~header.again /\ (c # None => x <= c)
      BY <1>5, <2>1
    <3> QED BY <2>2, <2>4, <3>2, <3>3, <3>4, <3>5, <3>6 DEF AuditSwept, Swept
  <2> QED BY <2>3, <2>4
<1>16. ASSUME NEW x \in Q!Chat, rows[x] # None, still, ~header.again, c # None => x <= c
       PROVE  Swept(header, x) \/ x = c
  <2>1. x > header.cursor => c # None /\ x >= c
    BY <1>1, <1>2, <1>16 DEF SweepInv
  <2>2. x \in Nat /\ header.cursor \in Nat /\ (c # None => c \in Nat)
    BY <1>4, RecordsAreNot DEF SweepSet
  <2>3. x <= header.cursor => Swept(header, x)
    BY <1>2, <1>4, <1>16, RecordsAreNot DEF Swept
  <2> QED BY <1>16, <2>1, <2>2, <2>3
<1>17. CoveredInv'
  <2> SUFFICES ASSUME NEW x \in Q!Chat, Kept(x)'
               PROVE  CoveredAt(x)'
    BY DEF CoveredInv
  <2>1. CoveredAt(x) /\ rows[x] # None
    BY <1>3 DEF ScanInv, CoveredInv, Kept
  <2>2. x = c /\ still => Read(x)
    BY <1>1, <1>2, <2>1 DEF CoveredAt
  <2>3. \/ Known(x)' /\ settles /\ x = c
        \/ pending'[x] = pending[x] /\ oversized'[x] = oversized[x]
    <3>1. CASE settles /\ x = c
      <4>1. Read(x) /\ read.outcome = "large"
        BY <1>2, <2>2, <3>1
      <4>2. pending[x] # None /\ pending[x].content = rows[x]
        BY <4>1 DEF Read
      <4>3. oversized'[x] = pending[x]
        BY <1>3, <3>1
      <4> QED BY <1>3, <3>1, <4>2, <4>3 DEF Known
    <3>2. CASE ~(settles /\ x = c)
      <4>1. pending'[x] = pending[x]
        <5> SUFFICES ASSUME pending'[x] # pending[x]
                     PROVE  FALSE
          OBVIOUS
        <5>1. x = c /\ still /\ read.outcome \in {"large", "lost"}
          BY <1>9
        <5>2. read.outcome = "lost"
          BY <1>2, <3>2, <5>1
        <5> QED BY <2>2, <5>1, <5>2 DEF Read
      <4>2. header' = None /\ oversized[x] # None => x \in current
        <5> SUFFICES ASSUME header' = None, oversized[x] # None
                     PROVE  x \in current
          OBVIOUS
        <5>1. Swept(header, x) \/ x = c
          BY <1>5, <1>16, <2>1
        <5> QED BY <1>5, <2>1, <5>1, RecordsAreNot DEF CoveredAt
      <4> QED BY <1>9, <3>2, <4>1, <4>2
    <3> QED BY <3>1, <3>2
  <2>4. pending'[x] = pending[x] /\ oversized'[x] = oversized[x]
        => (Listed(x) => Listed(x)') /\ (Counted(x) => Counted(x)')
    <3> SUFFICES ASSUME pending'[x] = pending[x], oversized'[x] = oversized[x]
                 PROVE  (Listed(x) => Listed(x)') /\ (Counted(x) => Counted(x)')
      OBVIOUS
    <3>1. /\ Q!Reference(x)' = Q!Reference(x) /\ Q!Head(x)' = Q!Head(x)
          /\ Q!Count(rows[x])' = Q!Count(rows[x])
          /\ Q!Count(Q!Reference(x).content)' = Q!Count(Q!Reference(x).content)
      BY <1>3 DEF Q!Reference, Q!Head, Q!Count
    <3> QED BY <1>3, <3>1 DEF Known, Listed, Counted, Q!Holds
  <2>5. HeaderSwept(x)' => Listed(x) /\ (oversized[x] # None => x \in current)
    <3> SUFFICES ASSUME HeaderSwept(x)'
                 PROVE  Listed(x) /\ (oversized[x] # None => x \in current)
      OBVIOUS
    <3>1. still /\ (Swept(header, x) \/ x = c)
      BY <1>15, <1>16, <2>1
    <3> QED BY <2>1, <2>2, <3>1 DEF CoveredAt, HeaderSwept, Read
  <2>6. Swept(header, x)' => HeaderSwept(x)'
    BY DEF HeaderSwept
  <2>7. AuditSwept(x)' => Counted(x)
    BY <1>15, <2>1 DEF CoveredAt
  <2>8. (x \in current => x \in current') /\ (settles /\ x = c => x \in current')
    BY <1>3
  <2>9. Known(x)' => Listed(x)' /\ Counted(x)'
    BY DEF Listed, Counted
  <2>10. (read.at)' = "idle"
    BY <1>3, <1>7
  <2> QED BY <2>3, <2>4, <2>5, <2>6, <2>7, <2>8, <2>9, <2>10 DEF CoveredAt
<1>18. ResultInv'
  <2> SUFFICES ASSUME result # None, NEW x \in Q!Chat, HeaderSwept(x)' \/ AuditSwept(x)'
               PROVE  pending'[result].content = rows[result]
    BY <1>3, <1>7 DEF ResultInv
  <2>1. still /\ pending' = pending
    BY <1>8, <1>15
  <2> QED BY <1>1, <1>2, <2>1 DEF ScanInv, ResultInv
<1> QED BY <1>10, <1>11, <1>12, <1>14, <1>17, <1>18 DEF ScanInv

LEMMA ScanSteps ==
    ASSUME ScanInv, Q!Next
    PROVE  ScanInv'
<1>1. CASE \E c \in Q!Chat : \/ Q!Create(c) \/ Q!Append(c) \/ Q!Rename(c) \/ Q!Rewrite(c)
                            \/ Q!Prune(c) \/ Q!Delete(c)
  BY <1>1, CursorScan, ScanAssumption
<1>2. CASE Q!Scan
  BY <1>2, BeginScan, ListScan, CaptureScan, EndScan, ScanAssumption DEF Q!Scan
<1>3. CASE Q!Unreadable \/ Q!Publish \/ Q!PublishFails \/ Q!Tick
  BY <1>3, UnreadableScan, PublishScan, RestScan, ScanAssumption
<1> QED BY <1>1, <1>2, <1>3 DEF Q!Next

LEMMA ScanStays == ScanInv /\ UNCHANGED scanVars => ScanInv'
<1> SUFFICES ASSUME ScanInv, UNCHANGED scanVars
             PROVE  ScanInv'
  OBVIOUS
<1>1. UNCHANGED <<rows, born, generation, recorded, settled, pending, counted, oversized, current,
                  header, audit, audited, due, read, result, unreadable>>
  BY DEF scanVars
<1>2. ScanTypeInv' /\ PastInv' /\ ReadInv' /\ SweepInv'
  BY <1>1 DEF ScanInv, ScanTypeInv, PastInv, PastAt, Past, ReadInv, SweepInv, Q!Holds, Q!Count
<1>3. ResultInv'
  BY <1>1 DEF ScanInv, ResultInv, HeaderSwept, AuditSwept, Swept
<1>4. CoveredInv'
  <2> SUFFICES ASSUME NEW x \in Q!Chat, Kept(x)'
               PROVE  CoveredAt(x)'
    BY DEF CoveredInv
  <2>1. CoveredAt(x)
    BY <1>1 DEF ScanInv, CoveredInv, Kept
  <2>2. /\ Q!Reference(x)' = Q!Reference(x) /\ Q!Head(x)' = Q!Head(x)
        /\ Q!Count(rows[x])' = Q!Count(rows[x])
        /\ Q!Count(Q!Reference(x).content)' = Q!Count(Q!Reference(x).content)
    BY <1>1 DEF Q!Reference, Q!Head, Q!Count
  <2>3. /\ Listed(x) => Listed(x)'
        /\ Counted(x) => Counted(x)'
    BY <1>1, <2>2 DEF Known, Listed, Counted, Q!Holds
  <2>4. Read(x) => Read(x)'
    BY <1>1, <2>3 DEF Read
  <2> QED BY <1>1, <2>1, <2>3, <2>4 DEF CoveredAt, HeaderSwept, AuditSwept, Swept
<1> QED BY <1>2, <1>3, <1>4 DEF ScanInv

LEMMA ScanInvariance == MCSpec => []ScanInv
<1>1. MCInit => ScanInv
  BY ScanInit, ScanAssumption DEF MCInit
<1>2. ScanInv /\ [MCNext]_allVars => ScanInv'
  BY OneMoves, ScanSteps, ScanStays
<1> QED BY <1>1, <1>2, PTL DEF MCSpec

(* A fingerprint under which scans are saved has been swept.               *)
LEMMA ShortcutIsCovered ==
    ASSUME ScanInv, ScanAssumption
    PROVE  SettledIsKnown
<1> SUFFICES ASSUME Q!Shortcut, NEW c \in Q!Chat, Kept(c)
             PROVE  \E entry \in {recorded[c], oversized[c]} :
                        /\ entry # None /\ entry.content.head = rows[c].head
                        /\ Q!Count(entry.content) = Q!Count(rows[c])
  BY DEF SettledIsKnown, Q!SettledIsKnown, Kept
<1>1. /\ header = None /\ audit = None /\ settled = generation /\ counted = {}
      /\ pending[c] # None => Q!Holds(c, pending[c])
  <2>1. Q!Unacknowledged[c] = None
    BY DEF Q!Shortcut, Q!Nothing
  <2> QED BY <2>1 DEF Q!Shortcut, Q!Fingerprint, Q!Unacknowledged, Q!Acknowledged
<1>2. audited = generation
  BY <1>1, RecordsAreNot DEF ScanInv, SweepInv, ScanTypeInv
<1>3. Listed(c) /\ Counted(c)
  BY <1>1, <1>2 DEF ScanInv, CoveredInv, CoveredAt, HeaderSwept, AuditSwept
<1>4. CASE Known(c)
  BY <1>1, <1>4 DEF Known, Q!Holds
<1>5. CASE ~Known(c)
  <2>1. PICK e : /\ e \in {recorded[c], oversized[c]} /\ e # None
                 /\ e.head = rows[c].head /\ Q!Count(e.content) = Q!Count(rows[c])
    BY <1>1, <1>3, <1>5 DEF Listed, Counted, Q!Reference, Q!Head
  <2>2. Past(e, c) /\ e \in ScanEntry /\ rows[c] \in ScanContent
    BY <2>1 DEF ScanInv, PastInv, PastAt, ScanTypeInv, Kept
  <2>3. e.head <= e.content.head /\ e.content.head <= rows[c].head
    BY <2>1, <2>2 DEF Past, Kept
  <2>4. e.content.head \in Nat /\ rows[c].head \in Nat
    BY <2>2 DEF ScanEntry, ScanContent
  <2>5. e.content.head = rows[c].head
    BY <2>1, <2>3, <2>4
  <2> QED BY <2>1, <2>5
<1> QED BY <1>4, <1>5

(* While the fingerprint saves the scans, no chat that Cursor has not      *)
(* pruned and that could be read differs in its header or its number of    *)
(* messages from what is published or known to be too large, whatever      *)
(* Cursor commits before, during and between the scans.                    *)
THEOREM ShortcutMissesNothing == MCSpec => []SettledIsKnown
<1>1. ScanInv => SettledIsKnown
  BY ShortcutIsCovered, ScanAssumption
<1> QED BY <1>1, ScanInvariance, PTL
=============================================================================
