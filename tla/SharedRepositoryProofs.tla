----------------------- MODULE SharedRepositoryProofs -----------------------
(***************************************************************************)
(* What is proved of the shared folder for any number of devices, events   *)
(* and checkpoints, and any order in which the provider delivers files and *)
(* deletions: Lamport values respect causality, a prune strands nobody, and*)
(* no edit is dropped.                                                     *)
(*                                                                         *)
(* The argument: a device that acknowledges a checkpoint a has absorbed it *)
(* with the events it folds, so every checkpoint it writes from then on    *)
(* covers what a covers, and only those it writes from then on are newer   *)
(* than a (Had).  A prune below a waits for the acknowledgement of every   *)
(* device, so whatever is newer than a, whoever wrote it, covers what the  *)
(* prune deletes (GoneInv).                                                *)
(***************************************************************************)
EXTENDS SharedRepository, SequenceTheorems, WellFoundedInduction, TLAPS

(* The version v is at or below the cursors.                               *)
Within(v, streams) == v[2] <= streams[v[1]]

(* An event knows its parents, all they knew, and nothing later.           *)
EventsInv ==
    /\ \A v \in Written :
          /\ Event(v).parents \subseteq Event(v).past
          /\ Event(v).past \subseteq Written
          /\ \A w \in Event(v).past :
                /\ Event(w).lamport < Event(v).lamport
                /\ Event(w).past \subseteq Event(v).past
    /\ \E b \in Nat : \A v \in Written : Event(v).lamport <= b

(* A file is one that was written; an own file is only missing when it was *)
(* pruned.                                                                 *)
FilesInv ==
    /\ \A d \in Devices : present[d] \subseteq Written
    /\ gone \subseteq Written
    /\ \A v \in Written : v \in present[v[1]] \cup gone

(* The cursors of a checkpoint, its tip, and what the tip stands for.      *)
CpInv(k) ==
    /\ \A e \in Devices : cps[k].streams[e] <= Len(log[e])
    /\ cps[k].tip \in Written /\ Within(cps[k].tip, cps[k].streams)
    /\ \A v \in Written :
          Within(v, cps[k].streams) =>
              Event(v).lamport < cps[k].lamport /\ v \in Covered({cps[k].tip})
    /\ cps[k].pred # NoCheckpoint =>
          cps[k].pred \in 1 .. k - 1 /\ cps[cps[k].pred].lamport < cps[k].lamport
    /\ \A j \in 1 .. k - 1 :
          cps[j].author = cps[k].author => cps[j].lamport < cps[k].lamport

CpsInv ==
    /\ \A k \in DOMAIN cps : CpInv(k)
    /\ \E b \in Nat : \A k \in DOMAIN cps : cps[k].lamport <= b

(* A local state s of d: its cursors name written events, its clock is at  *)
(* or above all it has seen, and no checkpoint of its own is newer than the*)
(* one it has absorbed.                                                    *)
StateInv(d, s) ==
    /\ s.cp \in {NoCheckpoint} \cup DOMAIN cps
    /\ \A e \in Devices : s.streams[e] <= Len(log[e])
    /\ \A v \in Written : Within(v, s.streams) => Event(v).lamport <= s.lamport
    /\ s.cp # NoCheckpoint => cps[s.cp].lamport <= s.lamport
    /\ s.projection # NoVersion =>
           s.projection \in Written /\ Within(s.projection, s.streams)
    /\ \A j \in DOMAIN cps :
           cps[j].author = d => cps[j].lamport <= s.lamport /\ ~CpNewer(j, s.cp)

(* The device e has absorbed the checkpoint a and the events it folds, and *)
(* its own checkpoints newer than a cover them.                            *)
Had(e, a) ==
    /\ st[e].cp = a \/ CpNewer(st[e].cp, a)
    /\ \A i \in Devices : CpStreams(a)[i] <= st[e].streams[i]
    /\ \A j \in DOMAIN cps :
          cps[j].author = e /\ CpNewer(j, a) =>
              \A i \in Devices : CpStreams(a)[i] <= cps[j].streams[i]

DeviceInv(d) ==
    /\ StateInv(d, st[d])
    /\ st[d].cp # NoCheckpoint => st[d].cp \in localCp[d]
    /\ cpPresent[d] \cup localCp[d] \cup acked[d] \subseteq DOMAIN cps
    /\ \A a \in acked[d] : Had(d, a)

(* What was pruned is folded by a checkpoint that every device has had.    *)
GoneInv ==
    \A v \in gone : \E k \in DOMAIN cps :
        /\ Within(v, cps[k].streams)
        /\ \A e \in Devices : Had(e, k)

IInv ==
    /\ TypeOK /\ EventsInv /\ FilesInv /\ CpsInv
    /\ \A d \in Devices : DeviceInv(d)
    /\ GoneInv

-----------------------------------------------------------------------------
(* Numbers, versions and runs.                                             *)

(* A bounded set of numbers has a greatest element.                        *)
LEMMA HasGreatest ==
    ASSUME NEW n \in Nat, NEW S, S \subseteq 0..n, S # {}
    PROVE  \E m \in S : \A k \in S : k <= m
<1> DEFINE T == {x \in 0..n : n - x \in S}
           R == OpToRel(<, Nat)
<1>1. T \subseteq Nat
  OBVIOUS
<1>2. T # {}
  <2>1. PICK k \in S : k \in 0..n
    OBVIOUS
  <2>2. n - k \in 0..n /\ n - (n - k) = k
    BY <2>1
  <2> QED BY <2>1, <2>2
<1>3. IsWellFoundedOn(R, Nat)
  BY NatLessThanWellFounded
<1>4. \A y, x \in Nat : y < x => <<y, x>> \in R
  BY DEF OpToRel
<1>5. PICK x \in T : \A y \in T : ~ (<<y, x>> \in R)
  <2> HIDE DEF T, R
  <2> QED BY <1>1, <1>2, <1>3, WFMin
<1>6. \A y \in T : ~ (y < x)
  <2> HIDE DEF T, R
  <2> QED BY <1>1, <1>4, <1>5
<1>7. n - x \in S /\ x \in 0..n
  OBVIOUS
<1>8. ASSUME NEW k \in S PROVE k <= n - x
  <2>1. n - k \in 0..n /\ n - (n - k) = k /\ k \in 0..n
    OBVIOUS
  <2>2. n - k \in T
    BY <2>1
  <2> QED BY <1>6, <1>7, <2>1, <2>2
<1> QED BY <1>7, <1>8

(* The maximum of a bounded set of numbers is one of them.                 *)
LEMMA MaxOfIs ==
    ASSUME NEW n \in Nat, NEW S, S \subseteq 0..n, S # {}
    PROVE  MaxOf(S) \in S /\ \A k \in S : k <= MaxOf(S)
<1>1. \E m \in S : \A k \in S : k <= m
  BY HasGreatest
<1>2. \E m \in S : \A k \in S : m >= k
  BY <1>1
<1> QED BY <1>2 DEF MaxOf

(* The larger of two numbers.                                              *)
LEMMA Max2Is ==
    ASSUME NEW a \in Nat, NEW b \in Nat
    PROVE  Max2(a, b) \in Nat /\ a <= Max2(a, b) /\ b <= Max2(a, b)
           /\ (Max2(a, b) = a \/ Max2(a, b) = b)
  BY DEF Max2

(* The files that have been written.                                       *)
LEMMA WrittenIs ==
    ASSUME TypeOK
    PROVE  /\ \A d \in Devices : Len(log[d]) \in Nat /\ DOMAIN log[d] = 1..Len(log[d])
           /\ \A d \in Devices : \A i : <<d, i>> \in Written <=> i \in 1..Len(log[d])
           /\ \A v \in Written : v \in File /\ v = <<v[1], v[2]>> /\ v[1] \in Devices
                                 /\ v[2] \in 1..Len(log[v[1]])
           /\ \A v \in File : v[1] \in Devices /\ v[2] \in Nat /\ v[2] >= 1
                              /\ v = <<v[1], v[2]>>
           /\ \A v \in File : v[2] <= Len(log[v[1]]) => v \in Written
           /\ \A v \in Written : Event(v) \in EventRecord
<1>1. \A d \in Devices : log[d] \in Seq(EventRecord)
  BY DEF TypeOK
<1>2. \A d \in Devices : Len(log[d]) \in Nat /\ DOMAIN log[d] = 1..Len(log[d])
  BY <1>1, LenProperties
<1>3. \A v \in File : v[1] \in Devices /\ v[2] \in Nat /\ v[2] >= 1 /\ v = <<v[1], v[2]>>
  BY DEF File
<1>4. \A d \in Devices : \A i : <<d, i>> \in Written <=> i \in 1..Len(log[d])
  BY <1>2 DEF Written
<1>5. \A v \in Written : v \in File /\ v = <<v[1], v[2]>> /\ v[1] \in Devices
                         /\ v[2] \in 1..Len(log[v[1]])
  BY <1>2 DEF Written, File
<1>6. \A v \in File : v[2] <= Len(log[v[1]]) => v \in Written
  <2> SUFFICES ASSUME NEW v \in File, v[2] <= Len(log[v[1]]) PROVE v \in Written
    OBVIOUS
  <2>1. v[2] \in 1..Len(log[v[1]]) /\ v[1] \in Devices /\ v = <<v[1], v[2]>>
    BY <1>2, <1>3
  <2> QED BY <1>4, <2>1
<1>7. \A v \in Written : Event(v) \in EventRecord
  BY <1>1, <1>2, <1>5, ElementOfSeq DEF Event
<1> QED BY <1>2, <1>3, <1>4, <1>5, <1>6, <1>7

(* The checkpoints that have been written.                                 *)
LEMMA CheckpointsAre ==
    ASSUME TypeOK
    PROVE  /\ Len(cps) \in Nat /\ DOMAIN cps = 1..Len(cps)
           /\ \A k \in DOMAIN cps : cps[k] \in CheckpointRecord
           /\ \A k \in {NoCheckpoint} \cup DOMAIN cps : CpStreams(k) \in [Devices -> Nat]
           /\ \A k \in DOMAIN cps : CpStreams(k) = cps[k].streams /\ k # NoCheckpoint
<1>1. Len(cps) \in Nat /\ DOMAIN cps = 1..Len(cps)
  BY LenProperties DEF TypeOK
<1>2. \A k \in DOMAIN cps : cps[k] \in CheckpointRecord
  BY <1>1, ElementOfSeq DEF TypeOK
<1> QED BY <1>1, <1>2 DEF CpStreams, CheckpointRecord, NoCheckpoint

(* A contiguous run ends at the first event that is not visible.           *)
LEMMA RunEndIs ==
    ASSUME TypeOK, NEW r \in Devices, NEW d \in Devices, present[r] \subseteq Written,
           NEW n \in 0..Len(log[d])
    PROVE  /\ RunEnd(r, d, n) \in n..Len(log[d])
           /\ \A i \in n + 1 .. RunEnd(r, d, n) : <<d, i>> \in present[r]
           /\ <<d, RunEnd(r, d, n) + 1>> \notin present[r]
<1> DEFINE L == Len(log[d])
           T == {x \in Nat : n + x <= L /\ <<d, n + x + 1>> \notin present[r]}
           R == OpToRel(<, Nat)
<1>1. L \in Nat /\ n \in Nat /\ n <= L
  BY WrittenIs
<1>2. <<d, L + 1>> \notin present[r]
  BY <1>1, WrittenIs
<1>3. T # {}
  <2>1. L - n \in Nat /\ n + (L - n) = L /\ n + (L - n) + 1 = L + 1
    BY <1>1
  <2> HIDE DEF L
  <2>2. L - n \in T
    BY <1>1, <1>2, <2>1
  <2> QED BY <2>2
<1>4. IsWellFoundedOn(R, Nat)
  BY NatLessThanWellFounded
<1>5. \A y, x \in Nat : y < x => <<y, x>> \in R
  BY DEF OpToRel
<1>6. PICK x \in T : \A y \in T : ~ (<<y, x>> \in R)
  <2>1. T \subseteq Nat
    OBVIOUS
  <2> HIDE DEF T, R
  <2> QED BY <1>3, <1>4, <2>1, WFMin
<1>7. \A y \in T : ~ (y < x)
  <2>1. T \subseteq Nat
    OBVIOUS
  <2> HIDE DEF T, R
  <2> QED BY <1>5, <1>6, <2>1
<1>8. x \in Nat /\ n + x <= L /\ <<d, n + x + 1>> \notin present[r]
  OBVIOUS
<1>9. \A i \in n + 1 .. n + x : <<d, i>> \in present[r]
  <2> SUFFICES ASSUME NEW i \in n + 1 .. n + x, <<d, i>> \notin present[r] PROVE FALSE
    OBVIOUS
  <2>1. i - 1 - n \in Nat /\ n + (i - 1 - n) <= L /\ n + (i - 1 - n) + 1 = i /\ i - 1 - n < x
    BY <1>1, <1>8
  <2> HIDE DEF L
  <2>2. i - 1 - n \in T
    BY <2>1
  <2> QED BY <1>7, <2>1, <2>2
<1>10. Max2(n, L) = L
  BY <1>1 DEF Max2
<1>11. PICK m : m = n + x
  OBVIOUS
<1>12. /\ m \in n..Max2(n, Len(log[d]))
       /\ \A i \in n + 1 .. m : <<d, i>> \in present[r]
       /\ <<d, m + 1>> \notin present[r]
  BY <1>1, <1>8, <1>9, <1>10, <1>11
<1>13. /\ RunEnd(r, d, n) \in n..Max2(n, Len(log[d]))
       /\ \A i \in n + 1 .. RunEnd(r, d, n) : <<d, i>> \in present[r]
       /\ <<d, RunEnd(r, d, n) + 1>> \notin present[r]
  BY <1>12 DEF RunEnd
<1> QED BY <1>10, <1>13

-----------------------------------------------------------------------------
(* The order of the checkpoints and of the tips.                           *)

(* Checkpoints are totally ordered.                                        *)
LEMMA NewerIsAnOrder ==
    ASSUME TypeOK, CpsInv
    PROVE  /\ \A j, k, m \in {NoCheckpoint} \cup DOMAIN cps :
                 CpNewer(j, k) /\ CpNewer(k, m) => CpNewer(j, m)
           /\ \A j, k \in {NoCheckpoint} \cup DOMAIN cps :
                 CpNewer(j, k) \/ CpNewer(k, j) \/ j = k
           /\ \A j \in {NoCheckpoint} \cup DOMAIN cps : ~CpNewer(j, j)
<1>1. \A k \in DOMAIN cps : cps[k].lamport \in Nat /\ cps[k].author \in Nat
                            /\ k \in Nat /\ k # NoCheckpoint
  BY NAssumption, CheckpointsAre DEF CheckpointRecord, Devices
<1>2. \A j, k \in DOMAIN cps :
         j < k /\ cps[j].author = cps[k].author => cps[j].lamport < cps[k].lamport
  <2>1. \A k \in DOMAIN cps : \A j \in 1 .. k - 1 :
           cps[j].author = cps[k].author => cps[j].lamport < cps[k].lamport
    BY DEF CpsInv, CpInv
  <2>2. \A j, k \in DOMAIN cps : j < k => j \in 1 .. k - 1
    BY CheckpointsAre
  <2> QED BY <2>1, <2>2
<1> QED BY <1>1, <1>2 DEF CpNewer

(* Among any checkpoints, and none, there is a newest.                     *)
LEMMA NewestIs ==
    ASSUME TypeOK, CpsInv, NEW S, S \subseteq DOMAIN cps
    PROVE  /\ Newest(S) \in S \cup {NoCheckpoint}
           /\ \A j \in S \cup {NoCheckpoint} : Newest(S) = j \/ CpNewer(Newest(S), j)
<1>1. /\ \A k \in S : cps[k].lamport \in Nat /\ cps[k].author \in 1..N
      /\ N \in Nat
  BY NAssumption, CheckpointsAre DEF CheckpointRecord, Devices
<1>2. \E k \in S \cup {NoCheckpoint} : \A j \in S : ~CpNewer(j, k)
  <2>1. CASE S = {}
    BY <2>1
  <2>2. CASE S # {}
    <3>1. PICK b \in Nat : \A k \in S : cps[k].lamport <= b
      BY DEF CpsInv, CpInv
    <3> DEFINE T == {cps[k].lamport : k \in S}
    <3>2. T \subseteq 0..b /\ T # {}
      BY <1>1, <2>2, <3>1
    <3>3. PICK m \in T : \A l \in T : l <= m
      BY <3>2, HasGreatest
    <3> DEFINE A == {cps[k].author : k \in {k \in S : cps[k].lamport = m}}
    <3>4. A \subseteq 0..N /\ A # {}
      BY <1>1, <3>3
    <3>5. PICK a \in A : \A l \in A : l <= a
      BY <1>1, <3>4, HasGreatest
    <3>6. PICK k \in S : cps[k].lamport = m /\ cps[k].author = a
      BY <3>5
    <3>7. ASSUME NEW j \in S PROVE ~CpNewer(j, k)
      <4>1. cps[j].lamport <= m
        BY <3>3
      <4>2. cps[j].lamport = m => cps[j].author <= a
        BY <3>5
      <4>3. k # NoCheckpoint
        BY CheckpointsAre
      <4>4. cps[j].lamport \in Nat /\ m \in Nat /\ cps[j].author \in Nat /\ a \in Nat
        BY <1>1, <3>6
      <4> QED BY <3>6, <4>1, <4>2, <4>3, <4>4 DEF CpNewer
    <3> QED BY <3>6, <3>7
  <2> QED BY <2>1, <2>2
<1>3. /\ Newest(S) \in S \cup {NoCheckpoint}
      /\ \A j \in S : ~CpNewer(j, Newest(S))
  BY <1>2 DEF Newest
<1>4. \A j \in S \cup {NoCheckpoint} : ~CpNewer(j, Newest(S))
  BY <1>3 DEF CpNewer
<1> QED BY <1>3, <1>4, NewerIsAnOrder

(* The active tip is a tip.                                                *)
LEMMA ActiveTipIs ==
    ASSUME TypeOK, EventsInv, NEW tips, tips \subseteq Written, tips # {}
    PROVE  chooseActiveTip(tips) \in tips
<1>1. /\ \A v \in tips : Event(v).lamport \in Nat /\ v[1] \in 1..N
      /\ N \in Nat
  BY NAssumption, WrittenIs DEF EventRecord, Devices
<1>2. PICK b \in Nat : \A v \in tips : Event(v).lamport <= b
  BY DEF EventsInv
<1> DEFINE T == {Event(v).lamport : v \in tips}
<1>3. T \subseteq 0..b /\ T # {}
  BY <1>1, <1>2
<1>4. PICK m \in T : \A l \in T : l <= m
  BY <1>3, HasGreatest
<1> DEFINE A == {v[1] : v \in {v \in tips : Event(v).lamport = m}}
<1>5. A \subseteq 0..N /\ A # {}
  BY <1>1, <1>4
<1>6. PICK a \in A : \A l \in A : l <= a
  BY <1>1, <1>5, HasGreatest
<1>7. PICK v \in tips : Event(v).lamport = m /\ v[1] = a
  BY <1>6
<1>8. ASSUME NEW w \in tips PROVE ~TipNewer(w, v)
  <2>1. Event(w).lamport <= m
    BY <1>4
  <2>2. Event(w).lamport = m => w[1] <= a
    BY <1>6
  <2>3. Event(w).lamport \in Nat /\ m \in Nat /\ w[1] \in Nat /\ a \in Nat
    BY <1>1, <1>7
  <2> QED BY <1>7, <2>1, <2>2, <2>3 DEF TipNewer
<1> QED BY <1>7, <1>8 DEF chooseActiveTip

-----------------------------------------------------------------------------
(* What the folder grows by.                                               *)

Grows ==
    /\ \A d \in Devices : /\ Len(log[d]) <= Len(log'[d])
                          /\ \A i \in 1..Len(log[d]) : log'[d][i] = log[d][i]
    /\ Len(cps) <= Len(cps')
    /\ \A k \in DOMAIN cps : cps'[k] = cps[k]

(* What was written stays as it is.                                        *)
LEMMA GrowsKeeps ==
    ASSUME TypeOK, TypeOK', Grows
    PROVE  /\ Written \subseteq Written'
           /\ \A v \in Written : Event(v)' = Event(v)
           /\ DOMAIN cps \subseteq DOMAIN cps'
           /\ \A k \in {NoCheckpoint} \cup DOMAIN cps : CpStreams(k)' = CpStreams(k)
           /\ \A j, k \in {NoCheckpoint} \cup DOMAIN cps : CpNewer(j, k)' <=> CpNewer(j, k)
<1>1. /\ \A d \in Devices : Len(log[d]) \in Nat /\ DOMAIN log[d] = 1..Len(log[d])
      /\ \A d \in Devices : Len(log'[d]) \in Nat /\ DOMAIN log'[d] = 1..Len(log'[d])
      /\ Len(cps) \in Nat /\ DOMAIN cps = 1..Len(cps)
      /\ Len(cps') \in Nat /\ DOMAIN cps' = 1..Len(cps')
  BY LenProperties DEF TypeOK
<1>2. Written \subseteq Written'
  BY <1>1 DEF Grows, Written
<1>3. \A v \in Written : Event(v)' = Event(v)
  BY WrittenIs DEF Grows, Event
<1>4. DOMAIN cps \subseteq DOMAIN cps'
  BY <1>1 DEF Grows
<1>5. \A k \in {NoCheckpoint} \cup DOMAIN cps : CpStreams(k)' = CpStreams(k)
  BY DEF Grows, CpStreams
<1>6. \A j, k \in {NoCheckpoint} \cup DOMAIN cps : CpNewer(j, k)' <=> CpNewer(j, k)
  BY DEF Grows, CpNewer
<1> QED BY <1>2, <1>3, <1>4, <1>5, <1>6

(* What a version stands for, it stands for when more is written.          *)
LEMMA CoveredGrows ==
    ASSUME TypeOK, TypeOK', EventsInv, Grows, NEW T, T \subseteq Written, NEW v \in Covered(T)
    PROVE  v \in Covered(T)'
<1>1. Written \subseteq Written' /\ \A w \in Written : Event(w)' = Event(w)
  BY GrowsKeeps
<1>2. v \in Written'
  BY <1>1 DEF Covered
<1> SUFFICES ASSUME NEW S \in SUBSET Written', T \subseteq S, Closed(S)'
             PROVE  v \in S
  BY <1>2 DEF Covered
<1>3. S \cap Written \in SUBSET Written /\ T \subseteq S \cap Written
  OBVIOUS
<1>4. Closed(S \cap Written)
  <2> SUFFICES ASSUME NEW u \in S \cap Written
               PROVE  /\ PastOf(u) \subseteq S \cap Written
                      /\ \A w \in Written : Event(w).edits = Event(u).edits => w \in S \cap Written
    BY DEF Closed
  <2>1. PastOf(u) \subseteq Written
    BY DEF EventsInv, PastOf
  <2>2. PastOf(u)' = PastOf(u)
    BY <1>1 DEF PastOf
  <2>3. PastOf(u)' \subseteq S
    BY DEF Closed
  <2>4. ASSUME NEW w \in Written, Event(w).edits = Event(u).edits PROVE w \in S
    BY <1>1, <2>4 DEF Closed
  <2> QED BY <2>1, <2>2, <2>3, <2>4
<1> QED BY <1>3, <1>4 DEF Covered

-----------------------------------------------------------------------------
(* The refresh.                                                            *)

(* A local state in the course of a refresh.                               *)
Half(d, s) ==
    /\ s \in LocalState
    /\ s.cp = Winner(d)
    /\ st[d].lamport <= s.lamport
    /\ \A e \in Devices : st[d].streams[e] <= s.streams[e]
    /\ StateInv(d, s)

(* A local state after a refresh: the own stream is known to its end, and  *)
(* the cursors have reached those of the checkpoint.                       *)
Ready(d, s) ==
    /\ Half(d, s)
    /\ s.streams[d] = Len(log[d])
    /\ \A e \in Devices : CpStreams(s.cp)[e] <= s.streams[e]

(* The winner is the newest checkpoint in sight.                           *)
LEMMA WinnerIs ==
    ASSUME TypeOK, CpsInv, NEW d \in Devices, DeviceInv(d)
    PROVE  /\ Winner(d) \in {NoCheckpoint} \cup DOMAIN cps
           /\ Winner(d) # NoCheckpoint => Winner(d) \in cpPresent[d] \cup localCp[d]
           /\ Winner(d) = st[d].cp \/ CpNewer(Winner(d), st[d].cp)
           /\ \A j \in cpPresent[d] \cup localCp[d] : ~CpNewer(j, Winner(d))
<1>1. cpPresent[d] \cup localCp[d] \subseteq DOMAIN cps
  BY DEF DeviceInv
<1>2. /\ Winner(d) \in (cpPresent[d] \cup localCp[d]) \cup {NoCheckpoint}
      /\ \A j \in (cpPresent[d] \cup localCp[d]) \cup {NoCheckpoint} :
             Winner(d) = j \/ CpNewer(Winner(d), j)
  BY <1>1, NewestIs DEF Winner
<1>3. st[d].cp \in (cpPresent[d] \cup localCp[d]) \cup {NoCheckpoint}
  BY DEF DeviceInv
<1>4. ASSUME NEW j \in cpPresent[d] \cup localCp[d] PROVE ~CpNewer(j, Winner(d))
  <2>1. /\ j \in {NoCheckpoint} \cup DOMAIN cps
        /\ Winner(d) \in {NoCheckpoint} \cup DOMAIN cps
    BY <1>1, <1>2
  <2>2. Winner(d) = j \/ CpNewer(Winner(d), j)
    BY <1>2
  <2> HIDE DEF Winner
  <2> QED BY <2>1, <2>2, NewerIsAnOrder
<1> QED BY <1>1, <1>2, <1>3, <1>4

(* The winner is absorbed.                                                 *)
LEMMA AbsorbIsHalf ==
    ASSUME TypeOK, CpsInv, NEW d \in Devices, DeviceInv(d)
    PROVE  Half(d, absorb(d, st[d], Winner(d)))
<1> PICK k : k = Winner(d)
  OBVIOUS
<1> DEFINE s == absorb(d, st[d], k)
<1>1. st[d] \in LocalState /\ StateInv(d, st[d])
  BY DEF TypeOK, DeviceInv
<1>2. CASE k = st[d].cp
  <2>1. s = st[d]
    BY <1>2 DEF absorb
  <2>2. \A e \in Devices : st[d].streams[e] <= st[d].streams[e]
    BY <1>1 DEF LocalState
  <2> QED BY <1>1, <1>2, <2>1, <2>2 DEF Half, LocalState
<1>3. CASE k # st[d].cp
  <2>1. k \in DOMAIN cps /\ k # NoCheckpoint /\ CpNewer(k, st[d].cp)
    BY <1>3, WinnerIs DEF CpNewer
  <2>2. cps[k].lamport \in Nat /\ cps[k].streams \in [Devices -> Nat] /\ k \in Nat
    BY <2>1, CheckpointsAre DEF CheckpointRecord
  <2>3. /\ s.cp = k /\ s.projection = st[d].projection /\ s.disk = st[d].disk
        /\ s.lamport \in Nat /\ st[d].lamport <= s.lamport /\ cps[k].lamport <= s.lamport
        /\ s.streams \in [Devices -> Nat]
        /\ \A e \in Devices : st[d].streams[e] <= s.streams[e]
        /\ \A e \in Devices : s.streams[e] = st[d].streams[e] \/ s.streams[e] = cps[k].streams[e]
        /\ s \in LocalState
    <3>1. s = [st[d] EXCEPT
                 !.cp = k,
                 !.lamport = Max2(st[d].lamport, cps[k].lamport),
                 !.streams = [e \in Devices |->
                     IF e = d THEN st[d].streams[e]
                     ELSE Max2(st[d].streams[e], cps[k].streams[e])]]
      BY <1>3 DEF absorb
    <3> HIDE DEF s
    <3>2. /\ s.cp = k /\ s.projection = st[d].projection /\ s.disk = st[d].disk
          /\ s.lamport = Max2(st[d].lamport, cps[k].lamport)
          /\ s.streams = [e \in Devices |->
                 IF e = d THEN st[d].streams[e]
                 ELSE Max2(st[d].streams[e], cps[k].streams[e])]
          /\ s = [lamport |-> s.lamport, streams |-> s.streams, cp |-> s.cp,
                  projection |-> s.projection, disk |-> s.disk]
      BY <1>1, <3>1 DEF LocalState
    <3>3. st[d].lamport \in Nat /\ st[d].streams \in [Devices -> Nat]
      BY <1>1 DEF LocalState
    <3>4. s.lamport \in Nat /\ st[d].lamport <= s.lamport /\ cps[k].lamport <= s.lamport
      BY <2>2, <3>2, <3>3, Max2Is
    <3>5. ASSUME NEW e \in Devices
          PROVE  /\ s.streams[e] \in Nat /\ st[d].streams[e] <= s.streams[e]
                 /\ s.streams[e] = st[d].streams[e] \/ s.streams[e] = cps[k].streams[e]
      BY <2>2, <3>2, <3>3, Max2Is
    <3>6. s.streams \in [Devices -> Nat]
      BY <3>2, <3>5
    <3>7. s \in LocalState
      BY <1>1, <2>2, <3>2, <3>4, <3>6 DEF LocalState
    <3> QED BY <3>2, <3>4, <3>5, <3>6, <3>7
  <2> HIDE DEF s
  <2>4. \A e \in Devices : s.streams[e] <= Len(log[e])
    BY <1>1, <2>1, <2>3 DEF StateInv, CpsInv, CpInv
  <2>5. ASSUME NEW v \in Written, Within(v, s.streams)
        PROVE  Event(v).lamport <= s.lamport
    <3>1. v[1] \in Devices /\ v[2] \in Nat /\ Event(v).lamport \in Nat
      BY WrittenIs DEF EventRecord
    <3>2. CASE Within(v, st[d].streams)
      <4>1. Event(v).lamport <= st[d].lamport /\ st[d].lamport \in Nat
        BY <1>1, <3>2 DEF StateInv, LocalState
      <4> QED BY <2>3, <3>1, <4>1
    <3>3. CASE Within(v, cps[k].streams)
      <4>1. Event(v).lamport < cps[k].lamport
        BY <2>1, <3>3 DEF CpsInv, CpInv
      <4> QED BY <2>2, <2>3, <3>1, <4>1
    <3> QED BY <2>3, <2>5, <3>1, <3>2, <3>3 DEF Within
  <2>6. s.projection # NoVersion => s.projection \in Written /\ Within(s.projection, s.streams)
    <3> SUFFICES ASSUME st[d].projection # NoVersion
                 PROVE  st[d].projection \in Written /\ Within(st[d].projection, s.streams)
      BY <2>3
    <3>1. st[d].projection \in Written /\ Within(st[d].projection, st[d].streams)
      BY <1>1 DEF StateInv
    <3>2. st[d].projection[1] \in Devices /\ st[d].projection[2] \in Nat
      BY <3>1, WrittenIs
    <3>3. st[d].streams \in [Devices -> Nat]
      BY <1>1 DEF LocalState
    <3> QED BY <2>3, <3>1, <3>2, <3>3 DEF Within
  <2>7. ASSUME NEW j \in DOMAIN cps, cps[j].author = d
        PROVE  cps[j].lamport <= s.lamport /\ ~CpNewer(j, s.cp)
    <3>1. cps[j].lamport <= st[d].lamport /\ ~CpNewer(j, st[d].cp)
      BY <1>1, <2>7 DEF StateInv
    <3>2. cps[j].lamport \in Nat /\ st[d].lamport \in Nat
      BY <1>1, CheckpointsAre DEF CheckpointRecord, LocalState
    <3>3. st[d].cp \in {NoCheckpoint} \cup DOMAIN cps
      BY <1>1 DEF StateInv
    <3>4. ~CpNewer(j, k)
      BY <2>1, <3>1, <3>3, NewerIsAnOrder
    <3> QED BY <2>3, <3>1, <3>2, <3>4
  <2>8. StateInv(d, s)
    BY <2>1, <2>3, <2>4, <2>5, <2>6, <2>7 DEF StateInv
  <2> QED BY <2>3, <2>8 DEF Half, s
<1> QED BY <1>2, <1>3

(* Of a state that moves its cursors and its clock up.                     *)
LEMMA Advanced ==
    ASSUME TypeOK, NEW d \in Devices, NEW s, Half(d, s), NEW t \in LocalState,
           t.cp = s.cp, t.projection = s.projection, s.lamport <= t.lamport,
           \A e \in Devices : s.streams[e] <= t.streams[e] /\ t.streams[e] <= Len(log[e]),
           \A v \in Written : Within(v, t.streams) /\ ~Within(v, s.streams) =>
               Event(v).lamport <= t.lamport
    PROVE  Half(d, t)
<1>1. s \in LocalState /\ StateInv(d, s)
  BY DEF Half
<1>2. s.lamport \in Nat /\ t.lamport \in Nat /\ st[d].lamport \in Nat /\ st[d].lamport <= s.lamport
  BY DEF Half, LocalState, TypeOK
<1>3. \A e \in Devices : /\ st[d].streams[e] \in Nat /\ s.streams[e] \in Nat /\ t.streams[e] \in Nat
                         /\ st[d].streams[e] <= s.streams[e]
  BY DEF Half, LocalState, TypeOK
<1>4. ASSUME NEW v \in Written, Within(v, t.streams) PROVE Event(v).lamport <= t.lamport
  <2>1. Event(v).lamport \in Nat
    BY WrittenIs DEF EventRecord
  <2>2. Within(v, s.streams) => Event(v).lamport <= s.lamport
    BY <1>1 DEF StateInv
  <2> QED BY <1>2, <1>4, <2>1, <2>2
<1>5. s.cp # NoCheckpoint => cps[s.cp].lamport <= t.lamport
  <2>1. s.cp # NoCheckpoint => s.cp \in DOMAIN cps /\ cps[s.cp].lamport <= s.lamport
    BY <1>1 DEF StateInv
  <2>2. s.cp # NoCheckpoint => cps[s.cp].lamport \in Nat
    BY <2>1, CheckpointsAre DEF CheckpointRecord
  <2> QED BY <1>2, <2>1, <2>2
<1>6. t.projection # NoVersion => t.projection \in Written /\ Within(t.projection, t.streams)
  <2> SUFFICES ASSUME s.projection # NoVersion
               PROVE  s.projection \in Written /\ Within(s.projection, t.streams)
    OBVIOUS
  <2>1. s.projection \in Written /\ Within(s.projection, s.streams)
    BY <1>1 DEF StateInv
  <2>2. s.projection[1] \in Devices /\ s.projection[2] \in Nat
    BY <2>1, WrittenIs
  <2> QED BY <1>3, <2>1, <2>2 DEF Within
<1>7. \A j \in DOMAIN cps :
         cps[j].author = d => cps[j].lamport <= t.lamport /\ ~CpNewer(j, t.cp)
  <2>1. \A j \in DOMAIN cps : cps[j].lamport \in Nat
    BY CheckpointsAre DEF CheckpointRecord
  <2>2. \A j \in DOMAIN cps :
           cps[j].author = d => cps[j].lamport <= s.lamport /\ ~CpNewer(j, s.cp)
    BY <1>1 DEF StateInv
  <2> QED BY <1>2, <2>1, <2>2
<1>8. StateInv(d, t)
  <2>1. s.cp \in {NoCheckpoint} \cup DOMAIN cps
    BY <1>1 DEF StateInv
  <2> QED BY <1>4, <1>5, <1>6, <1>7, <2>1 DEF StateInv
<1>9. \A e \in Devices : st[d].streams[e] <= t.streams[e]
  BY <1>3
<1>10. st[d].lamport <= t.lamport
  BY <1>2
<1>11. t.cp = Winner(d)
  BY DEF Half
<1> QED BY <1>8, <1>9, <1>10, <1>11 DEF Half

(* The clock after some events have been counted.                          *)
LEMMA ClockIs ==
    ASSUME TypeOK, EventsInv, NEW l \in Nat, NEW V, V \subseteq Written,
           NEW S, S = {l} \cup {Event(v).lamport : v \in V}
    PROVE  MaxOf(S) \in Nat /\ l <= MaxOf(S) /\ \A v \in V : Event(v).lamport <= MaxOf(S)
<1>1. PICK b \in Nat : \A v \in Written : Event(v).lamport <= b
  BY DEF EventsInv
<1>2. \A v \in Written : Event(v).lamport \in Nat
  BY WrittenIs DEF EventRecord
<1>3. S \subseteq 0..(b + l) /\ b + l \in Nat /\ S # {}
  BY <1>1, <1>2
<1>5. l \in S /\ \A v \in V : Event(v).lamport \in S
  OBVIOUS
<1>6. MaxOf(S) \in S /\ \A k \in S : k <= MaxOf(S)
  BY <1>3, MaxOfIs
<1>7. MaxOf(S) \in 0..(b + l)
  BY <1>3, <1>6
<1>8. MaxOf(S) \in Nat
  BY <1>7
<1>9. l <= MaxOf(S) /\ \A v \in V : Event(v).lamport <= MaxOf(S)
  BY <1>5, <1>6
<1> QED BY <1>8, <1>9

(* The own stream is read to its end: an own event that is missing was     *)
(* pruned, and the device had the checkpoint that folds it.                *)
LEMMA OwnEndIs ==
    ASSUME TypeOK, FilesInv, CpsInv, GoneInv, NEW d \in Devices, NEW s, Half(d, s)
    PROVE  OwnEnd(d, s) = Len(log[d])
<1> DEFINE n == Max2(s.streams[d], CpStreams(s.cp)[d])
<1>1. /\ s.streams[d] \in Nat /\ st[d].streams[d] \in Nat /\ st[d].streams[d] <= s.streams[d]
      /\ s.streams[d] <= Len(log[d]) /\ s.cp \in {NoCheckpoint} \cup DOMAIN cps
  BY DEF Half, StateInv, LocalState, TypeOK
<1>2. CpStreams(s.cp)[d] \in Nat /\ CpStreams(s.cp)[d] <= Len(log[d])
  <2>1. CpStreams(s.cp)[d] \in Nat
    BY <1>1, CheckpointsAre
  <2>2. s.cp \in DOMAIN cps => CpStreams(s.cp)[d] <= Len(log[d])
    BY CheckpointsAre DEF CpsInv, CpInv
  <2>3. s.cp = NoCheckpoint => CpStreams(s.cp)[d] = 0
    BY DEF CpStreams
  <2> QED BY <1>1, <2>1, <2>2, <2>3, WrittenIs
<1>3. n \in 0..Len(log[d]) /\ s.streams[d] <= n
  BY <1>1, <1>2, WrittenIs, Max2Is
<1>4. /\ OwnEnd(d, s) \in n..Len(log[d])
      /\ <<d, OwnEnd(d, s) + 1>> \notin present[d]
  BY <1>3, RunEndIs DEF OwnEnd, FilesInv
<1>5. ASSUME OwnEnd(d, s) < Len(log[d]) PROVE FALSE
  <2> PICK v : v = <<d, OwnEnd(d, s) + 1>>
    OBVIOUS
  <2>0. Len(log[d]) \in Nat
    BY WrittenIs
  <2>1. v[1] = d /\ v[2] \in Nat /\ v[2] > s.streams[d] /\ v[2] \in 1..Len(log[d])
    BY <1>1, <1>3, <1>4, <1>5, <2>0
  <2>2. v \in Written
    BY <2>1, WrittenIs
  <2>3. v \in gone
    BY <1>4, <2>1, <2>2 DEF FilesInv
  <2>4. PICK k \in DOMAIN cps : Within(v, cps[k].streams) /\ \A e \in Devices : Had(e, k)
    BY <2>3 DEF GoneInv
  <2>5. CpStreams(k)[d] <= st[d].streams[d] /\ CpStreams(k)[d] = cps[k].streams[d]
        /\ CpStreams(k)[d] \in Nat
    BY <2>4, CheckpointsAre DEF Had
  <2> QED BY <1>1, <2>1, <2>4, <2>5 DEF Within
<1> QED BY <1>3, <1>4, <1>5, WrittenIs

(* The own stream is recovered to its end.                                 *)
LEMMA RecoverIsHalf ==
    ASSUME TypeOK, EventsInv, FilesInv, CpsInv, GoneInv,
           NEW d \in Devices, NEW s, Half(d, s)
    PROVE  /\ Half(d, recoverOwnStream(d, s))
           /\ recoverOwnStream(d, s).streams[d] = Len(log[d])
<1> DEFINE V == {<<d, i>> : i \in s.streams[d] + 1 .. Len(log[d])}
           t == recoverOwnStream(d, s)
<1>0. s \in LocalState /\ s.streams[d] \in Nat /\ Len(log[d]) \in Nat /\ s.streams[d] <= Len(log[d])
  BY WrittenIs DEF Half, StateInv, LocalState
<1>1. V \subseteq Written
  <2>1. \A i \in s.streams[d] + 1 .. Len(log[d]) : i \in 1..Len(log[d])
    BY <1>0
  <2> QED BY <2>1, WrittenIs
<1>2. {log[d][i].lamport : i \in s.streams[d] + 1 .. Len(log[d])} = {Event(v).lamport : v \in V}
  <2>1. \A i : Event(<<d, i>>) = log[d][i]
    BY DEF Event
  <2>2. {Event(v).lamport : v \in V} =
        {Event(<<d, i>>).lamport : i \in s.streams[d] + 1 .. Len(log[d])}
    OBVIOUS
  <2> QED BY <2>1, <2>2
<1>3. t = [s EXCEPT !.streams[d] = Len(log[d]),
                    !.lamport = MaxOf({s.lamport} \cup {Event(v).lamport : v \in V})]
  BY <1>2, OwnEndIs DEF recoverOwnStream
<1>a. PICK S : S = {s.lamport} \cup {Event(v).lamport : v \in V}
  OBVIOUS
<1>4. PICK m : m = MaxOf(S)
  OBVIOUS
<1>5. m \in Nat /\ s.lamport <= m /\ \A v \in V : Event(v).lamport <= m
  <2>1. s.lamport \in Nat
    BY <1>0 DEF LocalState
  <2> HIDE DEF V
  <2> QED BY <1>1, <1>a, <1>4, <2>1, ClockIs
<1>6. t = [s EXCEPT !.streams[d] = Len(log[d]), !.lamport = m]
  BY <1>3, <1>a, <1>4
<1> HIDE DEF t
<1>7. /\ t \in LocalState /\ t.cp = s.cp /\ t.projection = s.projection /\ t.lamport = m
      /\ t.streams = [s.streams EXCEPT ![d] = Len(log[d])]
  BY <1>0, <1>5, <1>6 DEF LocalState
<1>8. s.streams \in [Devices -> Nat] /\ \A e \in Devices : s.streams[e] <= Len(log[e])
  BY <1>0 DEF LocalState, Half, StateInv
<1>9. \A e \in Devices : s.streams[e] <= t.streams[e] /\ t.streams[e] <= Len(log[e])
  BY <1>0, <1>7, <1>8
<1>10. ASSUME NEW v \in Written, Within(v, t.streams), ~Within(v, s.streams)
       PROVE  Event(v).lamport <= t.lamport
  <2>1. v[1] \in Devices /\ v[2] \in Nat /\ v = <<v[1], v[2]>>
    BY WrittenIs
  <2>2. v[1] = d /\ v[2] > s.streams[d] /\ v[2] <= Len(log[d])
    BY <1>7, <1>8, <1>10, <2>1 DEF Within
  <2>3. v \in V
    BY <1>0, <2>1, <2>2
  <2> QED BY <1>5, <1>7, <2>3
<1>11. Half(d, t)
  BY <1>5, <1>7, <1>9, <1>10, Advanced
<1> QED BY <1>7, <1>8, <1>11 DEF t

(* The run of a stream ends at or above the cursor of the checkpoint.      *)
LEMMA AcceptedEndIs ==
    ASSUME TypeOK, FilesInv, CpsInv, NEW d \in Devices, NEW s, Half(d, s), NEW e \in Devices
    PROVE  AcceptedEnd(d, s, e) \in CpStreams(s.cp)[e] .. Len(log[e])
           /\ CpStreams(s.cp)[e] \in Nat /\ Len(log[e]) \in Nat
<1>1. s.cp \in {NoCheckpoint} \cup DOMAIN cps
  BY DEF Half, StateInv
<1>2. CpStreams(s.cp)[e] \in Nat /\ Len(log[e]) \in Nat
  BY <1>1, CheckpointsAre, WrittenIs
<1>3. s.cp \in DOMAIN cps => CpStreams(s.cp)[e] <= Len(log[e])
  BY CheckpointsAre DEF CpsInv, CpInv
<1>4. s.cp = NoCheckpoint => CpStreams(s.cp)[e] = 0
  BY DEF CpStreams
<1>5. CpStreams(s.cp)[e] \in 0..Len(log[e])
  BY <1>1, <1>2, <1>3, <1>4
<1> QED BY <1>2, <1>5, RunEndIs DEF AcceptedEnd, FilesInv

(* A reconcile that throws nothing ends the refresh.                       *)
LEMMA ReconcileIsReady ==
    ASSUME TypeOK, EventsInv, FilesInv, CpsInv, NEW d \in Devices, NEW s, Half(d, s),
           s.streams[d] = Len(log[d]), PinnedVisible(d, s)
    PROVE  Ready(d, reconcile(d, s))
<1>1. s \in LocalState /\ s.cp \in {NoCheckpoint} \cup DOMAIN cps /\ StateInv(d, s)
  BY DEF Half, StateInv
<1> DEFINE streams == [e \in Devices |-> AcceptedEnd(d, s, e)]
           V == Accepted(s.cp, streams)
           t == reconcile(d, s)
<1>2. \A e \in Devices : /\ AcceptedEnd(d, s, e) \in Nat /\ AcceptedEnd(d, s, e) <= Len(log[e])
                         /\ CpStreams(s.cp)[e] <= AcceptedEnd(d, s, e)
                         /\ CpStreams(s.cp)[e] \in Nat /\ Len(log[e]) \in Nat
  <2> SUFFICES ASSUME NEW e \in Devices
               PROVE  /\ AcceptedEnd(d, s, e) \in Nat /\ AcceptedEnd(d, s, e) <= Len(log[e])
                      /\ CpStreams(s.cp)[e] <= AcceptedEnd(d, s, e)
                      /\ CpStreams(s.cp)[e] \in Nat /\ Len(log[e]) \in Nat
    OBVIOUS
  <2>1. AcceptedEnd(d, s, e) \in CpStreams(s.cp)[e] .. Len(log[e])
        /\ CpStreams(s.cp)[e] \in Nat /\ Len(log[e]) \in Nat
    BY AcceptedEndIs
  <2> QED BY <2>1
<1>3. V \subseteq Written
  <2> SUFFICES ASSUME NEW e \in Devices,
                      NEW i \in CpStreams(s.cp)[e] + 1 .. AcceptedEnd(d, s, e)
               PROVE  <<e, i>> \in Written
    BY DEF Accepted
  <2>1. i \in 1..Len(log[e])
    BY <1>2
  <2> QED BY <2>1, WrittenIs
<1>a. PICK S : S = {s.lamport} \cup {Event(v).lamport : v \in V}
  OBVIOUS
<1>4. PICK m : m = MaxOf(S)
  OBVIOUS
<1>5. m \in Nat /\ s.lamport <= m /\ \A v \in V : Event(v).lamport <= m
  <2>1. s.lamport \in Nat
    BY <1>1 DEF LocalState
  <2> HIDE DEF V
  <2> QED BY <1>3, <1>a, <1>4, <2>1, ClockIs
<1>6. t = [s EXCEPT !.streams = streams, !.lamport = m]
  BY <1>a, <1>4 DEF reconcile
<1>7. streams \in [Devices -> Nat]
  BY <1>2
<1> HIDE DEF t
<1>8. /\ t \in LocalState /\ t.cp = s.cp /\ t.projection = s.projection /\ t.lamport = m
      /\ t.streams = streams
  <2> HIDE DEF streams
  <2> QED BY <1>1, <1>5, <1>6, <1>7 DEF LocalState
<1>9. \A e \in Devices : s.streams[e] <= t.streams[e] /\ t.streams[e] <= Len(log[e])
  BY <1>2, <1>8 DEF PinnedVisible
<1>10. ASSUME NEW v \in Written, Within(v, t.streams), ~Within(v, s.streams)
       PROVE  Event(v).lamport <= t.lamport
  <2>1. v[1] \in Devices /\ v[2] \in Nat /\ v = <<v[1], v[2]>>
    BY WrittenIs
  <2>2. CASE v[2] <= CpStreams(s.cp)[v[1]]
    <3>1. s.cp # NoCheckpoint
      BY <2>1, <2>2, WrittenIs DEF CpStreams
    <3>2. s.cp \in DOMAIN cps /\ CpStreams(s.cp) = cps[s.cp].streams
      BY <1>1, <3>1, CheckpointsAre
    <3>3. Event(v).lamport < cps[s.cp].lamport
      BY <2>2, <3>2 DEF CpsInv, CpInv, Within
    <3>4. cps[s.cp].lamport <= s.lamport
      BY <1>1, <3>1 DEF StateInv
    <3>5. cps[s.cp].lamport \in Nat /\ Event(v).lamport \in Nat /\ s.lamport \in Nat
      BY <1>1, <3>2, CheckpointsAre, WrittenIs
         DEF CheckpointRecord, EventRecord, LocalState
    <3> QED BY <1>5, <1>8, <3>3, <3>4, <3>5
  <2>3. CASE v[2] > CpStreams(s.cp)[v[1]]
    <3>1. v \in V
      BY <1>2, <1>8, <1>10, <2>1, <2>3 DEF Accepted, Within
    <3> QED BY <1>5, <1>8, <3>1
  <2> QED BY <1>2, <2>1, <2>2, <2>3
<1>11. Half(d, t)
  BY <1>5, <1>8, <1>9, <1>10, Advanced
<1>12. t.streams[d] = Len(log[d])
  <2>1. t.streams[d] \in Nat
    BY <1>8 DEF LocalState
  <2> QED BY <1>2, <1>9, <2>1
<1>13. \A e \in Devices : CpStreams(t.cp)[e] <= t.streams[e]
  BY <1>2, <1>8
<1> QED BY <1>11, <1>12, <1>13 DEF Ready, t

-----------------------------------------------------------------------------
(* The tips.                                                               *)

(* The accepted versions lie above the checkpoint, up to the cursors.      *)
LEMMA AcceptedAre ==
    ASSUME TypeOK, NEW k \in {NoCheckpoint} \cup DOMAIN cps, NEW streams \in [Devices -> Nat],
           \A e \in Devices : streams[e] <= Len(log[e])
    PROVE  \A v : v \in Accepted(k, streams) <=>
               v \in Written /\ Within(v, streams) /\ ~Within(v, CpStreams(k))
<1>1. \A e \in Devices : streams[e] \in Nat /\ CpStreams(k)[e] \in Nat
  BY CheckpointsAre
<1>2. ASSUME NEW v \in Accepted(k, streams)
      PROVE  v \in Written /\ Within(v, streams) /\ ~Within(v, CpStreams(k))
  <2>0. PICK e \in Devices : \E i \in CpStreams(k)[e] + 1 .. streams[e] : v = <<e, i>>
    BY DEF Accepted
  <2>1. PICK i \in CpStreams(k)[e] + 1 .. streams[e] : v = <<e, i>>
    BY <2>0
  <2>2. i \in 1..Len(log[e]) /\ i <= streams[e] /\ ~(i <= CpStreams(k)[e])
    BY <1>1, WrittenIs
  <2> QED BY <2>1, <2>2, WrittenIs DEF Within
<1>3. ASSUME NEW v \in Written, Within(v, streams), ~Within(v, CpStreams(k))
      PROVE  v \in Accepted(k, streams)
  <2>1. v[1] \in Devices /\ v[2] \in Nat /\ v = <<v[1], v[2]>>
    BY WrittenIs
  <2>2. v[2] \in CpStreams(k)[v[1]] + 1 .. streams[v[1]]
    BY <1>1, <1>3, <2>1 DEF Within
  <2> QED BY <2>1, <2>2 DEF Accepted
<1> QED BY <1>2, <1>3

(* The tips have been written, and accepted or folded.                     *)
LEMMA TipsAre ==
    ASSUME TypeOK, CpsInv, NEW k \in {NoCheckpoint} \cup DOMAIN cps,
           NEW streams \in [Devices -> Nat],
           \A e \in Devices : streams[e] <= Len(log[e])
    PROVE  /\ TipsOf(k, streams) \subseteq Written
           /\ (\A e \in Devices : CpStreams(k)[e] <= streams[e]) =>
                  \A v \in TipsOf(k, streams) : Within(v, streams)
<1>1. ASSUME NEW v \in TipsOf(k, streams)
      PROVE  v \in Accepted(k, streams) \/ (k # NoCheckpoint /\ v = cps[k].tip)
  BY DEF TipsOf
<1>2. k # NoCheckpoint => k \in DOMAIN cps /\ CpStreams(k) = cps[k].streams
                          /\ cps[k].tip \in Written /\ Within(cps[k].tip, cps[k].streams)
  BY CheckpointsAre DEF CpsInv, CpInv
<1>3. TipsOf(k, streams) \subseteq Written
  BY <1>1, <1>2, AcceptedAre
<1>4. ASSUME \A e \in Devices : CpStreams(k)[e] <= streams[e], NEW v \in TipsOf(k, streams)
      PROVE  Within(v, streams)
  <2>1. CASE v \in Accepted(k, streams)
    BY <2>1, AcceptedAre
  <2>2. CASE k # NoCheckpoint /\ v = cps[k].tip
    <3>1. v \in Written /\ Within(v, CpStreams(k))
      BY <1>2, <2>2
    <3>2. v[1] \in Devices /\ v[2] \in Nat
      BY <3>1, WrittenIs
    <3>3. CpStreams(k)[v[1]] \in Nat /\ streams[v[1]] \in Nat
      BY <3>2, CheckpointsAre
    <3> QED BY <1>4, <3>1, <3>2, <3>3 DEF Within
  <2> QED BY <1>1, <2>1, <2>2
<1> QED BY <1>3, <1>4

(* The tips stand for every accepted and every folded version: a version   *)
(* that is no tip is a parent of a later one.                              *)
LEMMA TipsCover ==
    ASSUME TypeOK, EventsInv, CpsInv, NEW k \in {NoCheckpoint} \cup DOMAIN cps,
           NEW streams \in [Devices -> Nat],
           \A e \in Devices : streams[e] <= Len(log[e]),
           NEW v \in Written, Within(v, streams) \/ Within(v, CpStreams(k))
    PROVE  v \in Covered(TipsOf(k, streams))
<1> PICK tips : tips = TipsOf(k, streams)
  OBVIOUS
<1> PICK A : A = Accepted(k, streams)
  OBVIOUS
<1> SUFFICES ASSUME NEW S \in SUBSET Written, tips \subseteq S, Closed(S)
             PROVE  v \in S
  BY DEF Covered
<1> DEFINE Nodes == A \cup (IF k = NoCheckpoint THEN {} ELSE {cps[k].tip})
           Lost == Nodes \ S
<1>1. A \subseteq Written
  BY AcceptedAre
<1>2. k # NoCheckpoint => /\ k \in DOMAIN cps /\ CpStreams(k) = cps[k].streams
                          /\ cps[k].tip \in Written
  BY CheckpointsAre DEF CpsInv, CpInv
<1>3. Nodes \subseteq Written
  BY <1>1, <1>2
<1>4. \A x \in Nodes : x \in tips \/ \E u \in A : x \in Event(u).parents
  <2>1. NoVersion \notin Written
    BY WrittenIs DEF NoVersion, Devices
  <2>2. tips = ((IF k = NoCheckpoint THEN {} ELSE {cps[k].tip} \ {NoVersion}) \cup A)
               \ UNION {Event(u).parents : u \in A}
    BY DEF TipsOf
  <2>3. \A x \in UNION {Event(u).parents : u \in A} : \E u \in A : x \in Event(u).parents
    OBVIOUS
  <2> QED BY <1>3, <2>1, <2>2, <2>3
<1>5. Lost = {}
  <2> SUFFICES ASSUME Lost # {} PROVE FALSE
    OBVIOUS
  <2>1. PICK b \in Nat : \A x \in Written : Event(x).lamport <= b
    BY DEF EventsInv
  <2>2. Lost \subseteq Written
    BY <1>3
  <2>3. \A x \in Written : Event(x).lamport \in Nat
    BY WrittenIs DEF EventRecord
  <2> DEFINE T == {Event(x).lamport : x \in Lost}
  <2>4. T \subseteq 0..b /\ T # {}
    BY <2>1, <2>2, <2>3
  <2>5. PICK m \in T : \A l \in T : l <= m
    <3> HIDE DEF T
    <3> QED BY <2>4, HasGreatest
  <2>6. PICK x \in Lost : Event(x).lamport = m
    BY <2>5
  <2>7. PICK u \in A : x \in Event(u).parents
    BY <1>4, <2>6
  <2>8. x \in Event(u).past /\ Event(x).lamport < Event(u).lamport
    BY <1>1, <2>7 DEF EventsInv
  <2>9. u \notin Lost
    <3>1. Event(u).lamport \in Nat /\ Event(x).lamport \in Nat
      BY <1>1, <2>2, <2>3
    <3>2. ~(Event(u).lamport <= m)
      BY <2>6, <2>8, <3>1
    <3>3. u \in Lost => Event(u).lamport \in T
      OBVIOUS
    <3> HIDE DEF T
    <3> QED BY <2>5, <3>2, <3>3
  <2>10. u \in S /\ u # NoVersion
    <3>1. NoVersion \notin Written
      BY WrittenIs DEF NoVersion, Devices
    <3> QED BY <1>1, <2>7, <2>9, <3>1
  <2>11. PastOf(u) \subseteq S
    BY <2>10 DEF Closed
  <2> QED BY <2>6, <2>8, <2>10, <2>11 DEF PastOf
<1>6. CASE Within(v, CpStreams(k))
  <2>1. k # NoCheckpoint
    BY <1>6, WrittenIs DEF CpStreams, Within
  <2>2. v \in Covered({cps[k].tip})
    BY <1>2, <1>6, <2>1 DEF CpsInv, CpInv
  <2>3. cps[k].tip \in S
    BY <1>5, <2>1
  <2> QED BY <2>2, <2>3 DEF Covered
<1>7. CASE ~Within(v, CpStreams(k))
  <2>1. v \in A
    BY <1>7, AcceptedAre
  <2> QED BY <1>5, <2>1
<1> QED BY <1>6, <1>7

(* Each of several equal tips stands for all.                              *)
LEMMA EqualTipsCover ==
    ASSUME NEW tips, tips \subseteq Written, ~Conflicting(tips), NEW t \in tips
    PROVE  Covered(tips) \subseteq Covered({t})
<1> SUFFICES ASSUME NEW S \in SUBSET Written, t \in S, Closed(S) PROVE tips \subseteq S
  BY DEF Covered
<1> QED BY DEF Conflicting, Closed

-----------------------------------------------------------------------------
(* What a step of a device changes.                                        *)

(* The device d goes from the (partly) refreshed state s to t, and may     *)
(* write a checkpoint that it absorbs.                                     *)
NewCheckpoint(d, k, lamport, pred, streams) ==
    /\ k = Len(cps) + 1
    /\ \E tip \in Written :
          cps' = Append(cps, [author |-> d, lamport |-> lamport, pred |-> pred,
                              streams |-> streams, tip |-> tip])

Moves(d, s, t) ==
    /\ Half(d, s) /\ t \in LocalState
    /\ s.lamport <= t.lamport
    /\ \A e \in Devices : s.streams[e] <= t.streams[e]
    /\ st' = [st EXCEPT ![d] = t]
    /\ Grows
    /\ \/ UNCHANGED cps /\ t.cp = s.cp
       \/ s.lamport < t.lamport /\ NewCheckpoint(d, t.cp, t.lamport, s.cp, t.streams)

(* The order of the checkpoints stays transitive.                          *)
LEMMA NewerIsTransitive ==
    ASSUME TypeOK'
    PROVE  \A j, k, m \in {NoCheckpoint} \cup DOMAIN cps' :
               CpNewer(j, k)' /\ CpNewer(k, m)' => CpNewer(j, m)'
<1>1. \A k \in DOMAIN cps' : cps'[k] \in CheckpointRecord
  <2>1. DOMAIN cps' = 1..Len(cps')
    BY LenProperties DEF TypeOK
  <2> QED BY <2>1, ElementOfSeq DEF TypeOK
<1>2. \A k \in DOMAIN cps' : cps'[k].lamport \in Nat /\ cps'[k].author \in Nat
  BY <1>1, NAssumption DEF CheckpointRecord, Devices
<1> QED BY <1>2 DEF CpNewer

(* What a new checkpoint file adds.                                        *)
LEMMA NewCheckpointIs ==
    ASSUME TypeOK, TypeOK', NEW d \in Devices, NEW k, NEW lamport, NEW pred, NEW streams,
           NewCheckpoint(d, k, lamport, pred, streams)
    PROVE  /\ k \notin DOMAIN cps /\ DOMAIN cps' = DOMAIN cps \cup {k} /\ k # NoCheckpoint
           /\ cps'[k].author = d /\ cps'[k].lamport = lamport
           /\ cps'[k].streams = streams /\ cps'[k].pred = pred
           /\ cps'[k].tip \in Written
<1>1. Len(cps) \in Nat /\ DOMAIN cps = 1..Len(cps)
  BY CheckpointsAre
<1>2. PICK tip \in Written :
          cps' = Append(cps, [author |-> d, lamport |-> lamport, pred |-> pred,
                              streams |-> streams, tip |-> tip])
  BY DEF NewCheckpoint
<1>3. DOMAIN cps' = 1..Len(cps) + 1
  BY <1>1, <1>2, AppendProperties, LenProperties DEF TypeOK
<1>4. cps'[Len(cps) + 1] = [author |-> d, lamport |-> lamport, pred |-> pred,
                            streams |-> streams, tip |-> tip]
  BY <1>1, <1>2 DEF TypeOK
<1> QED BY <1>1, <1>3, <1>4 DEF NewCheckpoint, NoCheckpoint

(* The new checkpoint of a step is newer than all the device knows of.     *)
LEMMA MovesUp ==
    ASSUME IInv, TypeOK', NEW d \in Devices, NEW s, NEW t, Moves(d, s, t)
    PROVE  /\ s.cp \in {NoCheckpoint} \cup DOMAIN cps
           /\ t.cp \in {NoCheckpoint} \cup DOMAIN cps'
           /\ t.cp = s.cp \/ CpNewer(t.cp, s.cp)'
           /\ t.cp # s.cp => /\ t.cp \in DOMAIN cps' /\ t.cp \notin DOMAIN cps
                             /\ t.cp # NoCheckpoint
                             /\ cps'[t.cp].lamport = t.lamport /\ s.lamport < t.lamport
           /\ \A c : c = st[d].cp => t.cp = c \/ CpNewer(t.cp, c)'
           /\ \A e \in Devices : /\ st[d].streams[e] \in Nat /\ s.streams[e] \in Nat
                                 /\ t.streams[e] \in Nat
                                 /\ st[d].streams[e] <= s.streams[e]
                                 /\ s.streams[e] <= t.streams[e]
           /\ \A j \in DOMAIN cps' : j \notin DOMAIN cps =>
                  j = t.cp /\ cps'[j].author = d /\ cps'[j].streams = t.streams
<1>0. TypeOK /\ CpsInv /\ DeviceInv(d)
  BY DEF IInv
<1>1. /\ s.cp \in {NoCheckpoint} \cup DOMAIN cps
      /\ s.cp # NoCheckpoint => s.cp \in DOMAIN cps /\ cps[s.cp].lamport <= s.lamport
      /\ s.lamport \in Nat /\ t.lamport \in Nat
  BY DEF Moves, Half, StateInv, LocalState
<1>2. /\ DOMAIN cps \subseteq DOMAIN cps'
      /\ \A j, k \in {NoCheckpoint} \cup DOMAIN cps : CpNewer(j, k)' <=> CpNewer(j, k)
      /\ \A k \in DOMAIN cps : cps'[k] = cps[k]
  BY <1>0, GrowsKeeps DEF Moves, Grows
<1> DEFINE New == s.lamport < t.lamport /\ NewCheckpoint(d, t.cp, t.lamport, s.cp, t.streams)
<1>a. ASSUME New
      PROVE  /\ t.cp \in DOMAIN cps' /\ t.cp \notin DOMAIN cps /\ t.cp # NoCheckpoint
             /\ cps'[t.cp].lamport = t.lamport
             /\ \A j \in DOMAIN cps' : j \notin DOMAIN cps =>
                    j = t.cp /\ cps'[j].author = d /\ cps'[j].streams = t.streams
  <2>0. PICK k, l, p, m : k = t.cp /\ l = t.lamport /\ p = s.cp /\ m = t.streams
    OBVIOUS
  <2>1. NewCheckpoint(d, k, l, p, m)
    BY <1>a, <2>0
  <2>2. DOMAIN cps' = DOMAIN cps \cup {k}
    BY <1>0, <2>1, NewCheckpointIs
  <2>3. cps'[k].author = d /\ cps'[k].lamport = l /\ cps'[k].streams = m
    BY <1>0, <2>1, NewCheckpointIs, ZenonT(40)
  <2>4. k \notin DOMAIN cps /\ k # NoCheckpoint
    BY <1>0, <2>1, NewCheckpointIs
  <2> QED BY <2>0, <2>2, <2>3, <2>4
<1>b. New \/ (UNCHANGED cps /\ t.cp = s.cp)
  BY DEF Moves
<1>3. ASSUME New PROVE CpNewer(t.cp, s.cp)'
  <2>1. cps'[t.cp].lamport = t.lamport /\ t.cp # NoCheckpoint
    BY <1>a, <1>3
  <2>2. s.cp # NoCheckpoint => cps'[s.cp].lamport < t.lamport
    <3>1. s.cp # NoCheckpoint => cps[s.cp].lamport \in Nat
      BY <1>0, <1>1, CheckpointsAre DEF CheckpointRecord
    <3> QED BY <1>1, <1>2, <1>3, <3>1
  <2> QED BY <2>1, <2>2 DEF CpNewer
<1>4. t.cp \in {NoCheckpoint} \cup DOMAIN cps'
  BY <1>1, <1>2, <1>a, <1>b
<1>5. t.cp = s.cp \/ CpNewer(t.cp, s.cp)'
  BY <1>3, <1>b
<1>6. s.cp = st[d].cp \/ CpNewer(s.cp, st[d].cp)
  BY <1>0, WinnerIs DEF Moves, Half
<1>7. st[d].cp \in {NoCheckpoint} \cup DOMAIN cps
  BY <1>0 DEF DeviceInv, StateInv
<1>8. ASSUME NEW c, c = st[d].cp PROVE t.cp = c \/ CpNewer(t.cp, c)'
  <2>1. s.cp = c \/ CpNewer(s.cp, c)'
    BY <1>1, <1>2, <1>6, <1>7, <1>8
  <2> QED BY <1>1, <1>2, <1>4, <1>5, <1>7, <1>8, <2>1, NewerIsTransitive
<1>9. \A e \in Devices : /\ st[d].streams[e] \in Nat /\ s.streams[e] \in Nat
                         /\ t.streams[e] \in Nat
                         /\ st[d].streams[e] <= s.streams[e]
                         /\ s.streams[e] <= t.streams[e]
  BY <1>0 DEF Moves, Half, LocalState, TypeOK
<1>10. \A j \in DOMAIN cps' : j \notin DOMAIN cps =>
           j = t.cp /\ cps'[j].author = d /\ cps'[j].streams = t.streams
  BY <1>a, <1>b
<1>11. t.cp # s.cp => /\ t.cp \in DOMAIN cps' /\ t.cp \notin DOMAIN cps /\ t.cp # NoCheckpoint
                      /\ cps'[t.cp].lamport = t.lamport /\ s.lamport < t.lamport
  BY <1>a, <1>b
<1> QED BY <1>1, <1>4, <1>5, <1>8, <1>9, <1>10, <1>11

(* What a device has had, it has had for ever.                             *)
LEMMA HadKeeps ==
    ASSUME IInv, TypeOK', NEW d \in Devices, NEW s, NEW t, Moves(d, s, t),
           NEW e \in Devices, NEW a \in DOMAIN cps, Had(e, a)
    PROVE  Had(e, a)'
<1>0. TypeOK /\ CpsInv /\ DeviceInv(e)
  BY DEF IInv
<1>1. /\ DOMAIN cps \subseteq DOMAIN cps'
      /\ \A j, k \in {NoCheckpoint} \cup DOMAIN cps : CpNewer(j, k)' <=> CpNewer(j, k)
      /\ \A k \in DOMAIN cps : cps'[k] = cps[k]
      /\ CpStreams(a)' = CpStreams(a) /\ CpStreams(a) \in [Devices -> Nat]
  BY <1>0, GrowsKeeps, CheckpointsAre DEF Moves, Grows
<1>2. st[e].cp \in {NoCheckpoint} \cup DOMAIN cps
  BY <1>0 DEF DeviceInv, StateInv
<1>3. st'[e] = IF e = d THEN t ELSE st[e]
  BY <1>0 DEF Moves, TypeOK
<1>4. (st[e].cp = a \/ CpNewer(st[e].cp, a))'
  <2> PICK c : c = st[e].cp
    OBVIOUS
  <2>0. c = a \/ CpNewer(c, a)'
    BY <1>1, <1>2 DEF Had
  <2>1. CASE e # d
    BY <1>3, <2>0, <2>1 DEF CpNewer
  <2>2. CASE e = d
    <3>1. t.cp = c \/ CpNewer(t.cp, c)'
      BY <2>2, MovesUp
    <3>2. t.cp \in {NoCheckpoint} \cup DOMAIN cps'
      BY MovesUp
    <3>3. t.cp = a \/ CpNewer(t.cp, a)'
      BY <1>1, <1>2, <2>0, <3>1, <3>2, NewerIsTransitive
    <3> QED BY <1>3, <2>2, <3>3 DEF CpNewer
  <2> QED BY <2>1, <2>2
<1>5. \A i \in Devices : CpStreams(a)'[i] <= st'[e].streams[i]
  <2>1. CASE e # d
    BY <1>1, <1>3, <2>1 DEF Had
  <2>2. CASE e = d
    BY <1>1, <1>3, <2>2, MovesUp DEF Had
  <2> QED BY <2>1, <2>2
<1>6. ASSUME NEW j \in DOMAIN cps', cps'[j].author = e, CpNewer(j, a)', NEW i \in Devices
      PROVE  CpStreams(a)'[i] <= cps'[j].streams[i]
  <2>1. CASE j \in DOMAIN cps
    BY <1>1, <1>6, <2>1 DEF Had
  <2>2. CASE j \notin DOMAIN cps
    <3>1. e = d /\ cps'[j].streams = t.streams
      BY <1>6, <2>2, MovesUp
    <3> QED BY <1>1, <3>1, MovesUp DEF Had
  <2> QED BY <2>1, <2>2
<1> QED BY <1>4, <1>5, <1>6 DEF Had

(* The device has had the checkpoint it has absorbed in its refresh, and   *)
(* the one it has written.                                                 *)
LEMMA HadNow ==
    ASSUME IInv, TypeOK', NEW d \in Devices, NEW s, NEW t, Moves(d, s, t), StateInv(d, t)',
           NEW a \in {s.cp, t.cp}, a # NoCheckpoint,
           \A i \in Devices : CpStreams(s.cp)[i] <= s.streams[i]
    PROVE  Had(d, a)'
<1>0. TypeOK /\ CpsInv
  BY DEF IInv
<1>1. /\ \A j, k \in {NoCheckpoint} \cup DOMAIN cps : CpNewer(j, k)' <=> CpNewer(j, k)
      /\ \A k \in DOMAIN cps : cps'[k] = cps[k]
      /\ \A k \in {NoCheckpoint} \cup DOMAIN cps : CpStreams(k)' = CpStreams(k)
      /\ \A k \in {NoCheckpoint} \cup DOMAIN cps : CpStreams(k) \in [Devices -> Nat]
  BY <1>0, GrowsKeeps, CheckpointsAre DEF Moves, Grows
<1>2. st'[d] = t
  BY <1>0 DEF Moves, TypeOK
<1>3. s.cp \in {NoCheckpoint} \cup DOMAIN cps
  BY MovesUp
<1>4. (st[d].cp = a \/ CpNewer(st[d].cp, a))'
  <2>1. t.cp = a \/ CpNewer(t.cp, a)'
    BY MovesUp
  <2> QED BY <1>2, <2>1 DEF CpNewer
<1>5. a = s.cp \/ (a = t.cp /\ t.cp \notin DOMAIN cps /\ CpStreams(a)' = t.streams)
  <2>1. a # s.cp => a = t.cp /\ t.cp # s.cp
    OBVIOUS
  <2>2. a # s.cp => a \in DOMAIN cps' /\ a \notin DOMAIN cps
    BY <2>1, MovesUp
  <2>3. a # s.cp => cps'[a].streams = t.streams
    BY <2>2, MovesUp
  <2> QED BY <2>1, <2>2, <2>3 DEF CpStreams
<1>6. \A i \in Devices : CpStreams(a)'[i] <= t.streams[i]
  BY <1>1, <1>3, <1>5, MovesUp
<1>7. ASSUME NEW j \in DOMAIN cps', cps'[j].author = d, CpNewer(j, a)', NEW i \in Devices
      PROVE  CpStreams(a)'[i] <= cps'[j].streams[i]
  <2>1. CASE j \in DOMAIN cps
    <3>1. cps[j].author = d /\ ~CpNewer(j, s.cp)
      BY <1>1, <1>7, <2>1 DEF Moves, Half, StateInv
    <3>2. a # s.cp
      BY <1>1, <1>3, <1>7, <2>1, <3>1
    <3>3. a = t.cp /\ ~CpNewer(j, t.cp)'
      BY <1>7, <3>2 DEF StateInv
    <3> QED BY <1>7, <3>3
  <2>2. CASE j \notin DOMAIN cps
    BY <1>6, <2>2, MovesUp
  <2> QED BY <2>1, <2>2
<1> QED BY <1>2, <1>4, <1>6, <1>7 DEF Had

(* What a new event file adds.                                             *)
LEMMA WriteIs ==
    ASSUME TypeOK, TypeOK', NEW d \in Devices, NEW event,
           log' = [log EXCEPT ![d] = Append(@, event)],
           NEW v, v = <<d, Len(log[d]) + 1>>
    PROVE  /\ \A w : w \in Written' <=> w \in Written \/ w = v
           /\ v \notin Written
           /\ Event(v)' = event
           /\ Len(log'[d]) = Len(log[d]) + 1
           /\ \A e \in Devices : e # d => log'[e] = log[e]
           /\ \A e \in Devices : \A i \in 1..Len(log[e]) : log'[e][i] = log[e][i]
<1>1. \A e \in Devices : Len(log[e]) \in Nat /\ DOMAIN log[e] = 1..Len(log[e])
  BY WrittenIs
<1>2. \A e \in Devices : log[e] \in Seq(EventRecord) /\ log'[e] \in Seq(EventRecord)
  BY DEF TypeOK
<1>3. log'[d] = Append(log[d], event) /\ \A e \in Devices : e # d => log'[e] = log[e]
  BY DEF TypeOK
<1>4. Len(log'[d]) = Len(log[d]) + 1
  BY <1>2, <1>3, AppendProperties
<1>5. \A e \in Devices : \A i \in 1..Len(log[e]) : log'[e][i] = log[e][i]
  BY <1>2, <1>3, AppendProperties
<1>6. log'[d][Len(log[d]) + 1] = event
  BY <1>1, <1>2, <1>3
<1>7. Event(v)' = event
  BY <1>6 DEF Event
<1>8. v \notin Written
  BY <1>1, WrittenIs
<1>9. \A e \in Devices : DOMAIN log'[e] = 1..Len(log'[e]) /\ Len(log'[e]) \in Nat
  BY <1>2, LenProperties
<1>10. \A w : w \in Written' <=> \E e \in Devices : \E i \in 1..Len(log'[e]) : w = <<e, i>>
  BY <1>9 DEF Written
<1>11. \A w : w \in Written <=> \E e \in Devices : \E i \in 1..Len(log[e]) : w = <<e, i>>
  BY <1>1 DEF Written
<1>12. ASSUME NEW w, w \in Written' PROVE w \in Written \/ w = v
  <2>1. PICK e \in Devices : \E i \in 1..Len(log'[e]) : w = <<e, i>>
    BY <1>10, <1>12
  <2>2. PICK i \in 1..Len(log'[e]) : w = <<e, i>>
    BY <2>1
  <2>3. CASE e # d
    BY <1>3, <1>11, <2>2, <2>3
  <2>4. CASE e = d
    <3>1. i \in 1..Len(log[d]) \/ i = Len(log[d]) + 1
      BY <1>1, <1>4, <2>2, <2>4
    <3> QED BY <1>11, <2>2, <2>4, <3>1
  <2> QED BY <2>3, <2>4
<1>13. ASSUME NEW w, w \in Written \/ w = v PROVE w \in Written'
  <2>1. CASE w \in Written
    <3>1. PICK e \in Devices : \E i \in 1..Len(log[e]) : w = <<e, i>>
      BY <1>11, <2>1
    <3>2. PICK i \in 1..Len(log[e]) : w = <<e, i>>
      BY <3>1
    <3>3. i \in 1..Len(log'[e])
      <4>1. Len(log[e]) <= Len(log'[e]) /\ Len(log'[e]) \in Nat /\ Len(log[e]) \in Nat
        BY <1>1, <1>3, <1>4, <1>9
      <4> QED BY <4>1
    <3> QED BY <1>10, <3>2, <3>3
  <2>2. CASE w = v
    <3>1. Len(log[d]) + 1 \in 1..Len(log'[d])
      BY <1>1, <1>4
    <3> QED BY <1>10, <2>2, <3>1
  <2> QED BY <1>13, <2>1, <2>2
<1> QED BY <1>3, <1>4, <1>5, <1>7, <1>8, <1>12, <1>13

(* A new event knows what its parents know and is later than all of it.    *)
LEMMA EventsKeep ==
    ASSUME TypeOK, TypeOK', EventsInv, NEW d \in Devices, NEW s, Ready(d, s),
           NEW parents, NEW edits, NEW synthetic,
           \A p \in parents : p \in Written /\ Within(p, s.streams),
           log' = [log EXCEPT ![d] = Append(@, NewEvent(s, parents, edits, synthetic))]
    PROVE  EventsInv'
<1> PICK v : v = <<d, Len(log[d]) + 1>>
  OBVIOUS
<1> PICK event : event = NewEvent(s, parents, edits, synthetic)
  OBVIOUS
<1>1. /\ \A w : w \in Written' <=> w \in Written \/ w = v
      /\ v \notin Written /\ Event(v)' = event
      /\ \A w \in Written : Event(w)' = Event(w)
  <2>1. /\ \A w : w \in Written' <=> w \in Written \/ w = v
        /\ v \notin Written /\ Event(v)' = event
        /\ \A e \in Devices : \A i \in 1..Len(log[e]) : log'[e][i] = log[e][i]
    BY WriteIs
  <2>2. \A w \in Written : Event(w)' = Event(w)
    BY <2>1, WrittenIs DEF Event
  <2> QED BY <2>1, <2>2
<1>2. /\ event.parents = parents
      /\ event.lamport = s.lamport + 1 /\ s.lamport \in Nat
      /\ event.past = UNION {PastOf(p) : p \in parents}
  BY DEF NewEvent, Ready, Half, LocalState
<1>3. \A p \in parents : /\ p \in Written /\ PastOf(p) = {p} \cup Event(p).past
                         /\ Event(p).lamport <= s.lamport
  <2>1. NoVersion \notin Written
    BY WrittenIs DEF NoVersion, Devices
  <2> QED BY <2>1 DEF PastOf, Ready, Half, StateInv
<1>4. \A w \in Written : Event(w).lamport \in Nat
  BY WrittenIs DEF EventRecord
<1>5. \A w \in Written :
          /\ Event(w).parents \subseteq Event(w).past
          /\ Event(w).past \subseteq Written
          /\ \A u \in Event(w).past :
                Event(u).lamport < Event(w).lamport /\ Event(u).past \subseteq Event(w).past
  BY DEF EventsInv
<1>6. event.parents \subseteq event.past
  BY <1>2, <1>3
<1>7. ASSUME NEW w \in event.past
      PROVE  /\ w \in Written /\ Event(w).lamport < event.lamport
             /\ Event(w).past \subseteq event.past
  <2>1. PICK p \in parents : w \in {p} \cup Event(p).past
    BY <1>2, <1>3
  <2>2. w \in Written /\ p \in Written
    BY <1>3, <1>5, <2>1
  <2>3. Event(p).lamport <= s.lamport
    BY <1>3
  <2>4. Event(w).lamport <= Event(p).lamport
    BY <1>4, <1>5, <2>1, <2>2
  <2>5. Event(w).lamport < event.lamport
    BY <1>2, <1>4, <2>2, <2>3, <2>4
  <2>6. Event(w).past \subseteq {p} \cup Event(p).past
    BY <1>5, <2>1, <2>2
  <2>7. {p} \cup Event(p).past \subseteq event.past
    BY <1>2, <1>3
  <2> QED BY <2>2, <2>5, <2>6, <2>7
<1>8. ASSUME NEW w \in Written'
      PROVE  /\ Event(w)'.parents \subseteq Event(w)'.past
             /\ Event(w)'.past \subseteq Written'
             /\ \A u \in Event(w)'.past :
                   Event(u)'.lamport < Event(w)'.lamport /\ Event(u)'.past \subseteq Event(w)'.past
  <2>1. CASE w \in Written
    <3>1. Event(w)' = Event(w)
      BY <1>1, <2>1
    <3>2. \A u \in Event(w).past : u \in Written /\ Event(u)' = Event(u)
      BY <1>1, <1>5, <2>1
    <3> QED BY <1>1, <1>5, <2>1, <3>1, <3>2
  <2>2. CASE w = v
    BY <1>1, <1>6, <1>7, <2>2
  <2> QED BY <1>1, <2>1, <2>2
<1>9. \E b \in Nat : \A w \in Written' : Event(w)'.lamport <= b
  <2>1. PICK b \in Nat : \A w \in Written : Event(w).lamport <= b
    BY DEF EventsInv
  <2>2. PICK l \in Nat : l = event.lamport
    BY <1>2
  <2>3. \A w \in Written : Event(w)'.lamport \in Nat /\ Event(w)'.lamport <= b
    BY <1>1, <1>4, <2>1
  <2>4. Event(v)'.lamport = l
    BY <1>1, <2>2
  <2>5. \A w \in Written' : Event(w)'.lamport <= b + l
    BY <1>1, <2>3, <2>4
  <2>6. b + l \in Nat
    OBVIOUS
  <2> QED BY <2>5, <2>6
<1> QED BY <1>8, <1>9 DEF EventsInv

(* A device deletes files X, which are then gone, and adds its new ones.   *)
LEMMA FilesKeep ==
    ASSUME TypeOK, TypeOK', FilesInv, NEW d \in Devices, NEW X, NEW new,
           \A v : v \in Written' <=> v \in Written \/ v \in new,
           \A v \in new : v[1] = d,
           present' = [present EXCEPT ![d] = (@ \ X) \cup new],
           X \subseteq present[d], gone' = gone \cup X
    PROVE  FilesInv'
<1>1. /\ present'[d] = (present[d] \ X) \cup new
      /\ \A e \in Devices : e # d => present'[e] = present[e]
  BY DEF TypeOK
<1>2. \A e \in Devices : present'[e] \subseteq Written'
  BY <1>1 DEF FilesInv
<1>3. gone' \subseteq Written'
  BY DEF FilesInv
<1>4. ASSUME NEW v \in Written' PROVE v \in present'[v[1]] \cup gone'
  <2>1. CASE v \in new
    BY <1>1, <2>1
  <2>2. CASE v \in Written
    <3>1. v \in present[v[1]] \cup gone /\ v[1] \in Devices
      BY <2>2, WrittenIs DEF FilesInv
    <3> QED BY <1>1, <3>1
  <2> QED BY <2>1, <2>2
<1> QED BY <1>2, <1>3, <1>4 DEF FilesInv

(* A checkpoint stays as it was when more is written.                      *)
LEMMA CpKeeps ==
    ASSUME TypeOK, TypeOK', EventsInv, CpsInv, Grows, NEW k \in DOMAIN cps
    PROVE  CpInv(k)'
<1>1. /\ Written \subseteq Written' /\ \A v \in Written : Event(v)' = Event(v)
      /\ \A j \in DOMAIN cps : cps'[j] = cps[j]
      /\ \A e \in Devices : Len(log[e]) <= Len(log'[e])
  BY GrowsKeeps DEF Grows
<1>2. CpInv(k) /\ cps'[k] = cps[k] /\ cps[k] \in CheckpointRecord
  BY <1>1, CheckpointsAre DEF CpsInv
<1>3. \A j \in 1 .. k - 1 : j \in DOMAIN cps
  BY CheckpointsAre
<1>4. \A e \in Devices : cps'[k].streams[e] <= Len(log'[e])
  <2>1. \A e \in Devices : cps[k].streams[e] \in Nat /\ Len(log[e]) \in Nat /\ Len(log'[e]) \in Nat
    BY <1>2, LenProperties DEF CheckpointRecord, TypeOK
  <2> QED BY <1>1, <1>2, <2>1 DEF CpInv
<1>5. cps'[k].tip \in Written' /\ Within(cps'[k].tip, cps'[k].streams)
  BY <1>1, <1>2 DEF CpInv
<1>6. ASSUME NEW v \in Written', Within(v, cps'[k].streams)
      PROVE  Event(v)'.lamport < cps'[k].lamport /\ (v \in Covered({cps[k].tip}))'
  <2>1. v \in Written
    <3>1. v \in File
      BY <1>6 DEF TypeOK, Written, File
    <3>2. v[1] \in Devices /\ v[2] \in Nat
      BY <3>1 DEF File
    <3>3. v[2] <= cps[k].streams[v[1]] /\ cps[k].streams[v[1]] <= Len(log[v[1]])
      BY <1>2, <1>6, <3>2 DEF Within, CpInv
    <3>4. cps[k].streams[v[1]] \in Nat /\ Len(log[v[1]]) \in Nat
      BY <1>2, <3>2, WrittenIs DEF CheckpointRecord
    <3> QED BY <3>1, <3>2, <3>3, <3>4, WrittenIs
  <2>2. Event(v).lamport < cps[k].lamport /\ v \in Covered({cps[k].tip})
    BY <1>2, <1>6, <2>1 DEF CpInv
  <2> PICK tip : tip = cps[k].tip
    OBVIOUS
  <2>3. tip \in Written
    BY <1>2 DEF CpInv
  <2>4. v \in Covered({tip})'
    BY <2>2, <2>3, CoveredGrows
  <2> QED BY <1>1, <1>2, <2>1, <2>2, <2>4 DEF Covered
<1>7. cps'[k].pred # NoCheckpoint =>
          cps'[k].pred \in 1 .. k - 1 /\ cps'[cps'[k].pred].lamport < cps'[k].lamport
  BY <1>1, <1>2, <1>3 DEF CpInv
<1>8. \A j \in 1 .. k - 1 :
          cps'[j].author = cps'[k].author => cps'[j].lamport < cps'[k].lamport
  BY <1>1, <1>2, <1>3 DEF CpInv
<1> QED BY <1>4, <1>5, <1>6, <1>7, <1>8 DEF CpInv

(* The checkpoints stay as they are when only events are written.          *)
LEMMA CpsKeep ==
    ASSUME TypeOK, TypeOK', EventsInv, CpsInv, Grows, UNCHANGED cps
    PROVE  CpsInv'
BY CpKeeps DEF CpsInv

(* A new checkpoint is above all it folds and all its author has written.  *)
LEMMA CpsGrow ==
    ASSUME TypeOK, TypeOK', EventsInv, CpsInv, Grows, NEW d \in Devices, NEW s, Half(d, s),
           NEW lamport \in Nat, NEW streams \in [Devices -> Nat], NEW tip \in Written,
           cps' = Append(cps, [author |-> d, lamport |-> lamport, pred |-> s.cp,
                               streams |-> streams, tip |-> tip]),
           s.lamport < lamport,
           \A e \in Devices : streams[e] <= Len(log'[e]),
           Within(tip, streams),
           \A v \in Written' : Within(v, streams) =>
               Event(v)'.lamport < lamport /\ v \in Covered({tip})'
    PROVE  CpsInv'
<1> PICK k : k = Len(cps) + 1
  OBVIOUS
<1>1. Len(cps) \in Nat /\ DOMAIN cps = 1..Len(cps)
  BY CheckpointsAre
<1>2. DOMAIN cps' = 1..k /\ k \in Nat
  BY <1>1, AppendProperties, LenProperties DEF TypeOK
<1>3. cps'[k] = [author |-> d, lamport |-> lamport, pred |-> s.cp,
                 streams |-> streams, tip |-> tip]
  BY <1>1 DEF TypeOK
<1>4. \A j \in DOMAIN cps : cps'[j] = cps[j]
  BY DEF Grows
<1>5. /\ s.lamport \in Nat
      /\ s.cp # NoCheckpoint => s.cp \in DOMAIN cps /\ cps[s.cp].lamport <= s.lamport
      /\ \A j \in DOMAIN cps : cps[j].author = d => cps[j].lamport <= s.lamport
  BY DEF Half, StateInv, LocalState
<1>6. \A j \in DOMAIN cps : cps[j].lamport \in Nat
  BY CheckpointsAre DEF CheckpointRecord
<1>7. Written \subseteq Written'
  BY GrowsKeeps
<1>8. CpInv(k)'
  <2>1. cps'[k].pred # NoCheckpoint =>
            cps'[k].pred \in 1 .. k - 1 /\ cps'[cps'[k].pred].lamport < cps'[k].lamport
    <3> SUFFICES ASSUME s.cp # NoCheckpoint
                 PROVE  s.cp \in 1 .. k - 1 /\ cps'[s.cp].lamport < lamport
      BY <1>3
    <3>1. s.cp \in DOMAIN cps /\ cps[s.cp].lamport <= s.lamport
      BY <1>5
    <3>2. cps[s.cp].lamport < lamport
      BY <1>5, <1>6, <3>1
    <3> QED BY <1>1, <1>4, <3>1, <3>2
  <2>2. ASSUME NEW j \in 1 .. k - 1, cps'[j].author = cps'[k].author
        PROVE  cps'[j].lamport < cps'[k].lamport
    <3>1. j \in DOMAIN cps /\ cps[j].author = d
      BY <1>1, <1>3, <1>4, <2>2
    <3>2. cps[j].lamport < lamport
      BY <1>5, <1>6, <3>1
    <3> QED BY <1>3, <1>4, <3>1, <3>2
  <2>3. /\ cps'[k].streams = streams /\ cps'[k].tip = tip /\ cps'[k].lamport = lamport
    BY <1>3
  <2>4. tip \in Written'
    BY <1>7
  <2>5. /\ \A e \in Devices : cps'[k].streams[e] <= Len(log'[e])
        /\ cps'[k].tip \in Written' /\ Within(cps'[k].tip, cps'[k].streams)
    BY <2>3, <2>4
  <2>6. ASSUME NEW v \in Written', Within(v, cps'[k].streams)
        PROVE  Event(v)'.lamport < cps'[k].lamport /\ (v \in Covered({cps[k].tip}))'
    <3>1. Event(v)'.lamport < lamport /\ v \in Covered({tip})'
      BY <2>3, <2>6
    <3> QED BY <2>3, <3>1 DEF Covered
  <2> QED BY <2>1, <2>2, <2>5, <2>6 DEF CpInv
<1>9. \A j \in DOMAIN cps' : CpInv(j)'
  <2>1. \A j \in DOMAIN cps' : j \in DOMAIN cps \/ j = k
    BY <1>1, <1>2
  <2> QED BY <1>8, <2>1, CpKeeps
<1>10. \E b \in Nat : \A j \in DOMAIN cps' : cps'[j].lamport <= b
  <2>1. PICK b \in Nat : \A j \in DOMAIN cps : cps[j].lamport <= b
    BY DEF CpsInv
  <2>2. cps'[k].lamport = lamport
    BY <1>3
  <2>3. \A j \in DOMAIN cps : cps'[j].lamport <= b /\ cps'[j].lamport \in Nat
    BY <1>4, <1>6, <2>1
  <2>4. \A j \in DOMAIN cps' : j \in DOMAIN cps \/ j = k
    BY <1>1, <1>2
  <2>5. \A j \in DOMAIN cps' : cps'[j].lamport <= b + lamport
    BY <2>2, <2>3, <2>4
  <2>6. b + lamport \in Nat
    OBVIOUS
  <2> QED BY <2>5, <2>6
<1> QED BY <1>9, <1>10 DEF CpsInv

(* The local state after a step.                                           *)
LEMMA StateMoves ==
    ASSUME IInv, TypeOK', NEW d \in Devices, NEW s, NEW t, Moves(d, s, t),
           \A e \in Devices : t.streams[e] <= Len(log'[e]),
           \A v \in Written' : Within(v, t.streams) =>
               (v \in Written /\ Within(v, s.streams)) \/ Event(v)'.lamport <= t.lamport,
           t.projection # NoVersion =>
               t.projection \in Written' /\ Within(t.projection, t.streams)
    PROVE  StateInv(d, t)'
<1>0. TypeOK /\ CpsInv
  BY DEF IInv
<1>1. /\ DOMAIN cps \subseteq DOMAIN cps'
      /\ \A j, k \in {NoCheckpoint} \cup DOMAIN cps : CpNewer(j, k)' <=> CpNewer(j, k)
      /\ \A k \in DOMAIN cps : cps'[k] = cps[k]
      /\ \A v \in Written : Event(v)' = Event(v)
  BY <1>0, GrowsKeeps DEF Moves, Grows
<1>2. /\ s.lamport \in Nat /\ t.lamport \in Nat /\ s.lamport <= t.lamport
      /\ s.cp \in {NoCheckpoint} \cup DOMAIN cps
      /\ s.cp # NoCheckpoint => cps[s.cp].lamport <= s.lamport
      /\ \A v \in Written : Within(v, s.streams) => Event(v).lamport <= s.lamport
      /\ \A j \in DOMAIN cps : cps[j].author = d => cps[j].lamport <= s.lamport /\ ~CpNewer(j, s.cp)
  BY DEF Moves, Half, StateInv, LocalState
<1>3. \A k \in DOMAIN cps : cps[k].lamport \in Nat
  BY <1>0, CheckpointsAre DEF CheckpointRecord
<1>4. t.cp # s.cp => /\ t.cp \in DOMAIN cps' /\ t.cp \notin DOMAIN cps
                     /\ cps'[t.cp].lamport = t.lamport /\ s.lamport < t.lamport
  BY MovesUp
<1>5. t.cp \in {NoCheckpoint} \cup DOMAIN cps'
  BY MovesUp
<1>6. ASSUME NEW v \in Written', Within(v, t.streams) PROVE Event(v)'.lamport <= t.lamport
  <2>1. CASE v \in Written /\ Within(v, s.streams)
    <3>1. Event(v).lamport \in Nat
      BY <1>0, <2>1, WrittenIs DEF EventRecord
    <3> QED BY <1>1, <1>2, <2>1, <3>1
  <2> QED BY <1>6, <2>1
<1>7. t.cp # NoCheckpoint => cps'[t.cp].lamport <= t.lamport
  BY <1>1, <1>2, <1>3, <1>4
<1>8. ASSUME NEW j \in DOMAIN cps', cps'[j].author = d
      PROVE  cps'[j].lamport <= t.lamport /\ ~CpNewer(j, t.cp)'
  <2>1. CASE j \in DOMAIN cps
    <3>1. cps[j].author = d /\ cps[j].lamport <= s.lamport /\ cps'[j].lamport <= t.lamport
      BY <1>1, <1>2, <1>3, <1>8, <2>1
    <3>2. CASE t.cp = s.cp
      BY <1>1, <1>2, <2>1, <3>1, <3>2
    <3>3. CASE t.cp # s.cp
      <4>1. cps'[j].lamport < cps'[t.cp].lamport
        BY <1>1, <1>2, <1>3, <1>4, <2>1, <3>1, <3>3
      <4>2. cps'[j].lamport \in Nat /\ cps'[t.cp].lamport \in Nat
        BY <1>1, <1>2, <1>3, <1>4, <2>1, <3>3
      <4>3. t.cp # NoCheckpoint
        BY <3>3, MovesUp
      <4> QED BY <3>1, <4>1, <4>2, <4>3 DEF CpNewer
    <3> QED BY <3>2, <3>3
  <2>2. CASE j \notin DOMAIN cps
    <3>1. j = t.cp
      BY <2>2, MovesUp
    <3>2. t.cp # s.cp
      BY <1>2, <1>8, <2>2, <3>1, CheckpointsAre DEF TypeOK, NoCheckpoint
    <3>3. cps'[t.cp].lamport = t.lamport
      BY <1>4, <3>2
    <3>4. cps'[t.cp].author \in Nat
      <4>1. cps'[t.cp] \in CheckpointRecord
        BY <1>8, <3>1, ElementOfSeq, LenProperties DEF TypeOK
      <4> QED BY <4>1, NAssumption, SMTT(30) DEF CheckpointRecord, Devices
    <3> QED BY <1>2, <3>1, <3>3, <3>4 DEF CpNewer
  <2> QED BY <2>1, <2>2
<1> QED BY <1>5, <1>6, <1>7, <1>8 DEF StateInv

(* The local state of another device still holds.                          *)
LEMMA OthersKeep ==
    ASSUME IInv, TypeOK', NEW d \in Devices, NEW s, NEW t, Moves(d, s, t),
           NEW e \in Devices, e # d, NEW u, u = st[e]
    PROVE  StateInv(e, u)'
<1>0. TypeOK /\ CpsInv /\ StateInv(e, u) /\ u \in LocalState
  BY DEF IInv, DeviceInv, TypeOK
<1>1. /\ DOMAIN cps \subseteq DOMAIN cps'
      /\ \A j, k \in {NoCheckpoint} \cup DOMAIN cps : CpNewer(j, k)' <=> CpNewer(j, k)
      /\ \A k \in DOMAIN cps : cps'[k] = cps[k]
      /\ Written \subseteq Written'
      /\ \A v \in Written : Event(v)' = Event(v)
      /\ \A i \in Devices : Len(log[i]) <= Len(log'[i])
  BY <1>0, GrowsKeeps DEF Moves, Grows
<1>2. \A i \in Devices : u.streams[i] \in Nat /\ Len(log[i]) \in Nat /\ Len(log'[i]) \in Nat
                         /\ u.streams[i] <= Len(log[i])
  BY <1>0, LenProperties DEF LocalState, TypeOK, StateInv
<1>3. ASSUME NEW v \in Written', Within(v, u.streams) PROVE v \in Written
  <2>1. v \in File
    BY <1>3 DEF TypeOK, Written, File
  <2>2. v[1] \in Devices /\ v[2] \in Nat
    BY <2>1 DEF File
  <2>3. v[2] <= Len(log[v[1]])
    BY <1>2, <1>3, <2>2 DEF Within
  <2> QED BY <1>0, <2>1, <2>3, WrittenIs
<1>4. u.cp \in {NoCheckpoint} \cup DOMAIN cps'
  BY <1>0, <1>1 DEF StateInv
<1>5. \A i \in Devices : u.streams[i] <= Len(log'[i])
  BY <1>1, <1>2
<1>6. \A v \in Written' : Within(v, u.streams) => Event(v)'.lamport <= u.lamport
  BY <1>0, <1>1, <1>3 DEF StateInv
<1>7. u.cp # NoCheckpoint => cps'[u.cp].lamport <= u.lamport
  BY <1>0, <1>1 DEF StateInv
<1>8. u.projection # NoVersion => u.projection \in Written' /\ Within(u.projection, u.streams)
  BY <1>0, <1>1 DEF StateInv
<1>9. ASSUME NEW j \in DOMAIN cps', cps'[j].author = e
      PROVE  cps'[j].lamport <= u.lamport /\ ~CpNewer(j, u.cp)'
  <2>1. j \in DOMAIN cps
    BY <1>9, MovesUp
  <2>2. cps[j].lamport <= u.lamport /\ ~CpNewer(j, u.cp)
    BY <1>0, <1>1, <1>9, <2>1 DEF StateInv
  <2>3. u.cp \in {NoCheckpoint} \cup DOMAIN cps
    BY <1>0 DEF StateInv
  <2> QED BY <1>1, <2>1, <2>2, <2>3
<1> QED BY <1>4, <1>5, <1>6, <1>7, <1>8, <1>9 DEF StateInv

(* What a step leaves of the checkpoint files and the acks.                *)
Leaves(d, s, t) ==
    /\ \A e \in Devices \ {d} : /\ cpPresent'[e] = cpPresent[e]
                                /\ localCp'[e] = localCp[e]
                                /\ acked'[e] = acked[e]
    /\ cpPresent'[d] \subseteq cpPresent[d] \cup {t.cp}
    /\ localCp'[d] \subseteq localCp[d] \cup {s.cp, t.cp}
    /\ t.cp # NoCheckpoint => t.cp \in localCp'[d]
    /\ \A a \in acked'[d] : a \in acked[d] \/ a = t.cp
    /\ acked'[d] # acked[d] => Ready(d, s)

(* What a step may delete: what a checkpoint folds that all others have    *)
(* had and the device itself has absorbed.                                 *)
Deletes(d, s) ==
    gone' # gone =>
        /\ Ready(d, s)
        /\ s.cp # NoCheckpoint
        /\ \A v \in gone' : v \in gone \/ Within(v, CpStreams(s.cp))
        /\ \A e \in Devices \ {d} : Had(e, s.cp)

(* Every step of a device keeps the invariant, if what it writes does.     *)
LEMMA MovesKeep ==
    ASSUME IInv, TypeOK', EventsInv', FilesInv', CpsInv',
           NEW d \in Devices, NEW s, NEW t, Moves(d, s, t), StateInv(d, t)',
           Leaves(d, s, t), Deletes(d, s)
    PROVE  IInv'
<1>0. TypeOK /\ CpsInv
  BY DEF IInv
<1>1. /\ DOMAIN cps \subseteq DOMAIN cps'
      /\ \A k \in DOMAIN cps : cps'[k] = cps[k]
      /\ \A k \in DOMAIN cps : CpStreams(k)' = CpStreams(k)
  BY <1>0, GrowsKeeps DEF Moves, Grows
<1>2. st'[d] = t /\ \A e \in Devices : e # d => st'[e] = st[e]
  BY <1>0 DEF Moves, TypeOK
<1>3. /\ s.cp \in {NoCheckpoint} \cup DOMAIN cps
      /\ t.cp \in {NoCheckpoint} \cup DOMAIN cps'
  BY MovesUp
<1>4. ASSUME NEW e \in Devices PROVE StateInv(e, st[e])'
  <2>1. CASE e = d
    BY <1>2, <2>1 DEF StateInv
  <2>2. CASE e # d
    <3> PICK u : u = st[e]
      OBVIOUS
    <3>1. StateInv(e, u)'
      BY <2>2, OthersKeep
    <3> QED BY <1>2, <2>2, <3>1 DEF StateInv
  <2> QED BY <2>1, <2>2
<1>5. ASSUME NEW e \in Devices, NEW a \in acked'[e] PROVE Had(e, a)'
  <2>0. NoCheckpoint \notin acked'[e]
    BY DEF TypeOK, NoCheckpoint
  <2>1. CASE a \in acked[e]
    <3>1. a \in DOMAIN cps /\ Had(e, a)
      BY <2>1 DEF IInv, DeviceInv
    <3> QED BY <3>1, HadKeeps
  <2>2. CASE a \notin acked[e]
    <3>1. e = d /\ a = t.cp /\ Ready(d, s) /\ a # NoCheckpoint
      BY <1>5, <2>0, <2>2 DEF Leaves
    <3>2. \A i \in Devices : CpStreams(s.cp)[i] <= s.streams[i]
      BY <3>1 DEF Ready
    <3>3. a \in {s.cp, t.cp}
      BY <3>1
    <3> QED BY <3>1, <3>2, <3>3, HadNow
  <2> QED BY <2>1, <2>2
<1>6. ASSUME NEW e \in Devices PROVE DeviceInv(e)'
  <2>0. cpPresent[e] \cup localCp[e] \cup acked[e] \subseteq DOMAIN cps
        /\ (st[e].cp # NoCheckpoint => st[e].cp \in localCp[e])
    BY DEF IInv, DeviceInv
  <2>1. (st[e].cp # NoCheckpoint => st[e].cp \in localCp[e])'
    BY <1>2, <2>0 DEF Leaves
  <2>2. NoCheckpoint \notin cpPresent'[e] \cup localCp'[e] \cup acked'[e]
    BY DEF TypeOK, NoCheckpoint
  <2>3. cpPresent'[e] \cup localCp'[e] \cup acked'[e] \subseteq DOMAIN cps'
    BY <1>1, <1>3, <2>0, <2>2 DEF Leaves
  <2> QED BY <1>4, <1>5, <2>1, <2>3 DEF DeviceInv
<1>7. GoneInv'
  <2> SUFFICES ASSUME NEW v \in gone'
               PROVE  \E k \in DOMAIN cps' :
                          Within(v, cps'[k].streams) /\ \A e \in Devices : Had(e, k)'
    BY DEF GoneInv
  <2>1. CASE v \in gone
    <3>1. PICK k \in DOMAIN cps :
              Within(v, cps[k].streams) /\ \A e \in Devices : Had(e, k)
      BY <2>1 DEF IInv, GoneInv
    <3>2. \A e \in Devices : Had(e, k)'
      BY <3>1, HadKeeps
    <3> QED BY <1>1, <3>1, <3>2
  <2>2. CASE v \notin gone
    <3> PICK k : k = s.cp
      OBVIOUS
    <3>1. /\ k # NoCheckpoint /\ Within(v, CpStreams(k)) /\ Ready(d, s)
          /\ \A e \in Devices \ {d} : Had(e, k)
      BY <2>2 DEF Deletes
    <3>2. k \in DOMAIN cps
      BY <1>3, <3>1
    <3>3. Within(v, cps'[k].streams)
      BY <1>0, <1>1, <3>1, <3>2, CheckpointsAre
    <3>4. \A e \in Devices \ {d} : Had(e, k)'
      BY <3>1, <3>2, HadKeeps
    <3>5. Had(d, k)'
      <4>1. \A i \in Devices : CpStreams(s.cp)[i] <= s.streams[i]
        BY <3>1 DEF Ready
      <4>2. k \in {s.cp, t.cp} /\ k # NoCheckpoint
        BY <3>1
      <4> QED BY <4>1, <4>2, HadNow
    <3>6. \A e \in Devices : Had(e, k)'
      BY <3>4, <3>5
    <3> QED BY <1>1, <3>2, <3>3, <3>6
  <2> QED BY <2>1, <2>2
<1> QED BY <1>6, <1>7 DEF IInv

-----------------------------------------------------------------------------
(* The provider.                                                           *)

(* While nothing is written, what is said of it stays true.                *)
LEMMA SameLog ==
    ASSUME UNCHANGED <<log, cps>>
    PROVE  /\ Written' = Written /\ (EventsInv => EventsInv') /\ (CpsInv => CpsInv')
           /\ \A d, s : StateInv(d, s) => StateInv(d, s)'
<1>1. Written' = Written
  BY DEF Written
<1>2. \A v : Event(v)' = Event(v)
  BY DEF Event
<1>3. \A v : PastOf(v)' = PastOf(v)
  BY <1>2 DEF PastOf
<1>4. \A S : Closed(S)' <=> Closed(S)
  BY <1>1, <1>2, <1>3 DEF Closed
<1>5. EventsInv => EventsInv'
  BY <1>1, <1>2 DEF EventsInv
<1>6. \A T : Covered(T)' = Covered(T)
  BY <1>1, <1>4 DEF Covered
<1>7. ASSUME NEW k \in DOMAIN cps, CpInv(k) PROVE CpInv(k)'
  <2> PICK tip : tip = cps[k].tip
    OBVIOUS
  <2>1. Covered({tip})' = Covered({tip})
    BY <1>6
  <2>2. (Covered({cps[k].tip}))' = Covered({cps[k].tip})
    BY <2>1 DEF Covered
  <2> QED BY <1>1, <1>2, <1>7, <2>2 DEF CpInv
<1>8. CpsInv => CpsInv'
  BY <1>7 DEF CpsInv
<1>9. \A j, k : CpNewer(j, k)' <=> CpNewer(j, k)
  BY DEF CpNewer
<1>10. ASSUME NEW d, NEW s, StateInv(d, s) PROVE StateInv(d, s)'
  <2>1. CpNewer(s.cp, s.cp) <=> CpNewer(s.cp, s.cp)
    OBVIOUS
  <2> QED BY <1>1, <1>2, <1>9, <1>10 DEF StateInv
<1> QED BY <1>1, <1>5, <1>8, <1>10

(* The provider changes one replica, and takes away only what is gone.     *)
LEMMA DeliveredKeeps ==
    ASSUME IInv, NEW r \in Devices, UNCHANGED <<log, cps, gone, localCp, acked, st>>,
           NEW files \in SUBSET File,
           present' = [present EXCEPT ![r] = files], files \subseteq Written,
           \A v \in present[r] : v \in files \/ v \in gone,
           NEW checkpoints \in SUBSET (Nat \ {0}),
           cpPresent' = [cpPresent EXCEPT ![r] = checkpoints],
           checkpoints \subseteq DOMAIN cps,
           cpGone' = cpGone
    PROVE  IInv'
<1>1. TypeOK'
  BY DEF IInv, TypeOK
<1>2. Written' = Written /\ EventsInv' /\ CpsInv'
  BY SameLog DEF IInv
<1>3. /\ present'[r] = files /\ \A d \in Devices : d # r => present'[d] = present[d]
      /\ cpPresent'[r] = checkpoints
      /\ \A d \in Devices : d # r => cpPresent'[d] = cpPresent[d]
  BY DEF IInv, TypeOK
<1>4. FilesInv'
  <2>1. \A v \in Written : v[1] \in Devices
    BY WrittenIs DEF IInv
  <2> QED BY <1>2, <1>3, <2>1 DEF IInv, FilesInv
<1>5. \A e, a : Had(e, a) => Had(e, a)'
  BY DEF Had, CpNewer, CpStreams
<1>6. ASSUME NEW d \in Devices PROVE DeviceInv(d)'
  <2> PICK u : u = st[d]
    OBVIOUS
  <2>1. DeviceInv(d) /\ StateInv(d, u)
    BY DEF IInv, DeviceInv
  <2>2. StateInv(d, u)'
    BY <2>1, SameLog
  <2>3. StateInv(d, st[d])'
    BY <2>2 DEF StateInv
  <2> QED BY <1>3, <1>5, <2>1, <2>3 DEF DeviceInv
<1>7. GoneInv'
  BY <1>5 DEF IInv, GoneInv
<1> QED BY <1>1, <1>2, <1>4, <1>6, <1>7 DEF IInv

(* Every step of the provider keeps the invariant.                         *)
LEMMA ProviderKeeps ==
    ASSUME IInv, NEW r \in Devices, Provider(r)
    PROVE  IInv'
<1>0. /\ present[r] \in SUBSET File /\ cpPresent[r] \in SUBSET (Nat \ {0})
      /\ present = [present EXCEPT ![r] = present[r]]
      /\ cpPresent = [cpPresent EXCEPT ![r] = cpPresent[r]]
      /\ present[r] \subseteq Written /\ cpPresent[r] \subseteq DOMAIN cps
      /\ Written \subseteq File /\ DOMAIN cps \subseteq Nat \ {0}
  BY WrittenIs, CheckpointsAre DEF IInv, TypeOK, FilesInv, DeviceInv
<1>1. CASE \E v \in Written : Deliver(r, v)
  <2> PICK v \in Written : Deliver(r, v)
    BY <1>1
  <2> PICK files : files = present[r] \cup {v}
    OBVIOUS
  <2>1. files \in SUBSET File /\ files \subseteq Written
    BY <1>0
  <2>2. /\ present' = [present EXCEPT ![r] = files]
        /\ cpPresent' = [cpPresent EXCEPT ![r] = cpPresent[r]]
    BY <1>0 DEF Deliver
  <2> QED BY <1>0, <2>1, <2>2, DeliveredKeeps DEF Deliver
<1>2. CASE \E v \in Written : DeliverDeletion(r, v)
  <2> PICK v \in Written : DeliverDeletion(r, v)
    BY <1>2
  <2> PICK files : files = present[r] \ {v}
    OBVIOUS
  <2>1. files \in SUBSET File /\ files \subseteq Written
    BY <1>0
  <2>2. /\ present' = [present EXCEPT ![r] = files]
        /\ cpPresent' = [cpPresent EXCEPT ![r] = cpPresent[r]]
    BY <1>0 DEF DeliverDeletion
  <2>3. \A w \in present[r] : w \in files \/ w \in gone
    BY DEF DeliverDeletion
  <2>4. UNCHANGED <<log, cps, gone, localCp, acked, st>> /\ cpGone' = cpGone
    BY DEF DeliverDeletion
  <2> QED BY <1>0, <2>1, <2>2, <2>3, <2>4, DeliveredKeeps
<1>3. CASE \E k \in DOMAIN cps : DeliverCheckpoint(r, k)
  <2> PICK k \in DOMAIN cps : DeliverCheckpoint(r, k)
    BY <1>3
  <2> PICK checkpoints : checkpoints = cpPresent[r] \cup {k}
    OBVIOUS
  <2>1. checkpoints \in SUBSET (Nat \ {0}) /\ checkpoints \subseteq DOMAIN cps
    BY <1>0
  <2>2. /\ cpPresent' = [cpPresent EXCEPT ![r] = checkpoints]
        /\ present' = [present EXCEPT ![r] = present[r]]
    BY <1>0 DEF DeliverCheckpoint
  <2> QED BY <1>0, <2>1, <2>2, DeliveredKeeps DEF DeliverCheckpoint
<1>4. CASE \E k \in DOMAIN cps : DeliverCheckpointDeletion(r, k)
  <2> PICK k \in DOMAIN cps : DeliverCheckpointDeletion(r, k)
    BY <1>4
  <2> PICK checkpoints : checkpoints = cpPresent[r] \ {k}
    OBVIOUS
  <2>1. checkpoints \in SUBSET (Nat \ {0}) /\ checkpoints \subseteq DOMAIN cps
    BY <1>0
  <2>2. /\ cpPresent' = [cpPresent EXCEPT ![r] = checkpoints]
        /\ present' = [present EXCEPT ![r] = present[r]]
    BY <1>0 DEF DeliverCheckpointDeletion
  <2> QED BY <1>0, <2>1, <2>2, DeliveredKeeps DEF DeliverCheckpointDeletion
<1> QED BY <1>1, <1>2, <1>3, <1>4 DEF Provider

-----------------------------------------------------------------------------
(* The steps of a device.                                                  *)

(* The local copy of the checkpoint is kept.                               *)
LEMMA CopiesAre ==
    ASSUME IInv, NEW d \in Devices, NEW s, Half(d, s), keepCopies(d, s.cp)
    PROVE  /\ localCp' \in [Devices -> SUBSET (Nat \ {0})]
           /\ \A e \in Devices \ {d} : localCp'[e] = localCp[e]
           /\ localCp'[d] \subseteq localCp[d] \cup {s.cp}
           /\ s.cp # NoCheckpoint => s.cp \in localCp'[d]
<1>1. s.cp = st[d].cp \/ s.cp \in DOMAIN cps
  BY WinnerIs DEF Half, IInv, CpNewer
<1>2. s.cp \in DOMAIN cps => s.cp \in Nat \ {0}
  BY CheckpointsAre DEF IInv
<1>3. st[d].cp # NoCheckpoint => st[d].cp \in localCp[d]
  BY DEF IInv, DeviceInv
<1>4. localCp \in [Devices -> SUBSET (Nat \ {0})]
  BY DEF IInv, TypeOK
<1>5. PICK copies : copies = IF s.cp = st[d].cp THEN localCp[d]
                             ELSE (localCp[d] \cup {s.cp}) \cap {s.cp, cps[s.cp].pred}
  OBVIOUS
<1>6. localCp' = [localCp EXCEPT ![d] = copies]
  BY <1>5 DEF keepCopies
<1>7. copies \subseteq localCp[d] \cup {s.cp} /\ (s.cp # NoCheckpoint => s.cp \in copies)
  BY <1>3, <1>5
<1>8. copies \subseteq Nat \ {0}
  BY <1>1, <1>2, <1>4, <1>5
<1> QED BY <1>4, <1>6, <1>7, <1>8

(* The ack names the checkpoint.                                           *)
LEMMA AckIs ==
    ASSUME IInv, NEW d \in Devices, NEW k \in Nat, writeAck(d, k)
    PROVE  /\ acked' \in [Devices -> SUBSET (Nat \ {0})]
           /\ \A e \in Devices \ {d} : acked'[e] = acked[e]
           /\ \A a \in acked'[d] : a \in acked[d] \/ a = k
BY DEF IInv, TypeOK, writeAck, NoCheckpoint

(* The folder grows by a checkpoint, or stays.                             *)
LEMMA GrowsByLog ==
    ASSUME TypeOK, UNCHANGED cps,
           \A e \in Devices : /\ Len(log[e]) <= Len(log'[e])
                              /\ \A i \in 1..Len(log[e]) : log'[e][i] = log[e][i]
    PROVE  Grows
BY CheckpointsAre DEF Grows

(* Nothing is written.                                                     *)
LEMMA SameGrows ==
    ASSUME TypeOK, UNCHANGED <<log, cps>>
    PROVE  Grows
BY WrittenIs, CheckpointsAre DEF Grows

(* A step that writes no event and no checkpoint.                          *)
LEMMA StayKeeps ==
    ASSUME IInv, NEW d \in Devices, NEW s, Half(d, s), NEW t \in LocalState,
           t.cp = s.cp, t.lamport = s.lamport, t.streams = s.streams,
           t.projection # NoVersion =>
               t.projection \in Written /\ Within(t.projection, t.streams),
           st' = [st EXCEPT ![d] = t], keepCopies(d, s.cp),
           UNCHANGED <<log, cps>>,
           NEW X, X \subseteq present[d], gone' = gone \cup X,
           present' = [present EXCEPT ![d] = @ \ X],
           NEW files, files \subseteq cpPresent[d],
           cpPresent' = [cpPresent EXCEPT ![d] = files],
           cpGone' \subseteq Nat \ {0},
           acked' = acked \/ (writeAck(d, s.cp) /\ Ready(d, s)),
           Deletes(d, s)
    PROVE  IInv'
<1>0. TypeOK /\ EventsInv /\ FilesInv /\ CpsInv
  BY DEF IInv
<1>1. /\ localCp' \in [Devices -> SUBSET (Nat \ {0})]
      /\ \A e \in Devices \ {d} : localCp'[e] = localCp[e]
      /\ localCp'[d] \subseteq localCp[d] \cup {s.cp}
      /\ s.cp # NoCheckpoint => s.cp \in localCp'[d]
  BY CopiesAre
<1>2. s.cp \in Nat /\ s.lamport \in Nat /\ s.streams \in [Devices -> Nat]
  BY DEF Half, LocalState
<1>3. /\ acked' \in [Devices -> SUBSET (Nat \ {0})]
      /\ \A e \in Devices \ {d} : acked'[e] = acked[e]
      /\ \A a \in acked'[d] : a \in acked[d] \/ a = s.cp
  <2>1. CASE acked' = acked
    BY <1>0, <2>1 DEF TypeOK
  <2>2. CASE writeAck(d, s.cp)
    BY <1>2, <2>2, AckIs
  <2> QED BY <2>1, <2>2
<1>4. TypeOK'
  <2>1. X \subseteq File
    BY <1>0, WrittenIs DEF FilesInv
  <2>2. present' \in [Devices -> SUBSET File] /\ gone' \subseteq File
    BY <1>0, <2>1 DEF TypeOK
  <2>3. cpPresent' \in [Devices -> SUBSET (Nat \ {0})]
    BY <1>0 DEF TypeOK
  <2>4. st' \in [Devices -> LocalState]
    BY <1>0 DEF TypeOK
  <2>5. log' \in [Devices -> Seq(EventRecord)] /\ cps' \in Seq(CheckpointRecord)
    BY <1>0 DEF TypeOK
  <2> QED BY <1>1, <1>3, <2>2, <2>3, <2>4, <2>5 DEF TypeOK
<1>5. Written' = Written /\ EventsInv' /\ CpsInv'
  BY <1>0, SameLog
<1>6. FilesInv'
  <2>0. PICK new : new = {}
    OBVIOUS
  <2>1. present[d] \ X = (present[d] \ X) \cup new
    BY <2>0
  <2>2. present' = [present EXCEPT ![d] = (@ \ X) \cup new]
    BY <2>1
  <2>3. (\A v : v \in Written' <=> v \in Written \/ v \in new) /\ \A v \in new : v[1] = d
    BY <1>5, <2>0
  <2> QED BY <1>0, <1>4, <2>2, <2>3, FilesKeep
<1>7. Moves(d, s, t)
  <2>1. \A e \in Devices : s.streams[e] <= t.streams[e]
    BY <1>2
  <2> QED BY <1>0, <1>2, <2>1, SameGrows DEF Moves
<1>8. StateInv(d, t)'
  <2>1. \A e \in Devices : t.streams[e] <= Len(log'[e])
    BY DEF Half, StateInv
  <2>2. \A v \in Written' : Within(v, t.streams) => v \in Written /\ Within(v, s.streams)
    BY <1>5
  <2> QED BY <1>4, <1>5, <1>7, <2>1, <2>2, StateMoves
<1>9. Leaves(d, s, t)
  <2>1. cpPresent'[d] = files /\ \A e \in Devices \ {d} : cpPresent'[e] = cpPresent[e]
    BY <1>0 DEF TypeOK
  <2> QED BY <1>1, <1>3, <2>1 DEF Leaves
<1> QED BY <1>4, <1>5, <1>6, <1>7, <1>8, <1>9, MovesKeep

(* The new event is an event, and its version the next of the stream.      *)
LEMMA NewEventIs ==
    ASSUME IInv, NEW d \in Devices, NEW s, Ready(d, s), NEW parents, parents \subseteq Written,
           NEW edits \in SUBSET File, NEW synthetic \in BOOLEAN,
           NEW event, event = NewEvent(s, parents, edits, synthetic)
    PROVE  /\ event \in EventRecord /\ event.lamport = s.lamport + 1
           /\ event.edits = edits /\ event.parents = parents
           /\ NewVersion(d, s) = <<d, Len(log[d]) + 1>> /\ NewVersion(d, s) \in File
<1>1. s.lamport \in Nat /\ s.streams[d] = Len(log[d])
  BY DEF Ready, Half, LocalState
<1>2. \A p \in parents : PastOf(p) \subseteq File
  BY WrittenIs DEF IInv, EventsInv, PastOf
<1>3. UNION {PastOf(p) : p \in parents} \subseteq File
  BY <1>2
<1>4. parents \subseteq File
  BY WrittenIs DEF IInv
<1>5. Len(log[d]) \in Nat
  BY WrittenIs DEF IInv
<1> QED BY <1>1, <1>3, <1>4, <1>5 DEF NewEvent, EventRecord, NewVersion, File

(* A step that writes an event file, and perhaps deletes what is folded.   *)
(* It counts the event, or dies before and keeps the state r.              *)
LEMMA WriteKeeps ==
    ASSUME IInv, NEW d \in Devices, NEW s, Ready(d, s), NEW r, Half(d, r), r.cp = s.cp,
           NEW parents, \A p \in parents : p \in Written /\ Within(p, s.streams),
           NEW edits \in SUBSET File, NEW synthetic \in BOOLEAN,
           writeEvent(d, s, NewEvent(s, parents, edits, synthetic)),
           NEW t \in LocalState, t.cp = s.cp, r.lamport <= t.lamport,
           NEW v, v = NewVersion(d, s),
           \A e \in Devices : r.streams[e] <= t.streams[e] /\
               (t.streams[e] <= Len(log[e]) \/ (e = d /\ t.streams[e] <= Len(log[e]) + 1)),
           Within(v, t.streams) => s.lamport + 1 <= t.lamport,
           \A w \in Written : Within(w, t.streams) =>
               Within(w, r.streams) \/ Event(w).lamport <= t.lamport,
           t.projection # NoVersion =>
               (t.projection \in Written \/ t.projection = v) /\ Within(t.projection, t.streams),
           st' = [st EXCEPT ![d] = t], keepCopies(d, s.cp), UNCHANGED cps,
           NEW X, X \subseteq present[d], gone' = gone \cup X,
           present' = [present EXCEPT ![d] = (@ \ X) \cup {v}],
           NEW files, files \subseteq cpPresent[d],
           cpPresent' = [cpPresent EXCEPT ![d] = files],
           cpGone' \subseteq Nat \ {0},
           acked' = acked \/ (writeAck(d, s.cp) /\ r = s),
           Deletes(d, r)
    PROVE  IInv'
<1>0. TypeOK /\ EventsInv /\ FilesInv /\ CpsInv /\ Half(d, s)
  BY DEF IInv, Ready
<1> PICK event : event = NewEvent(s, parents, edits, synthetic)
  OBVIOUS
<1>1. /\ localCp' \in [Devices -> SUBSET (Nat \ {0})]
      /\ \A e \in Devices \ {d} : localCp'[e] = localCp[e]
      /\ localCp'[d] \subseteq localCp[d] \cup {s.cp}
      /\ s.cp # NoCheckpoint => s.cp \in localCp'[d]
  BY <1>0, CopiesAre
<1>2. s.cp \in Nat /\ t.lamport \in Nat /\ t.streams \in [Devices -> Nat] /\ s.lamport \in Nat
  BY <1>0 DEF Half, LocalState
<1>3. /\ acked' \in [Devices -> SUBSET (Nat \ {0})]
      /\ \A e \in Devices \ {d} : acked'[e] = acked[e]
      /\ \A a \in acked'[d] : a \in acked[d] \/ a = s.cp
      /\ acked'[d] # acked[d] => r = s
  <2>1. CASE acked' = acked
    BY <1>0, <2>1 DEF TypeOK
  <2>2. CASE writeAck(d, s.cp) /\ r = s
    BY <1>2, <2>2, AckIs
  <2> QED BY <2>1, <2>2
<1>4. /\ event \in EventRecord /\ event.lamport = s.lamport + 1
      /\ v = <<d, Len(log[d]) + 1>> /\ v \in File
  BY NewEventIs
<1>5. log' = [log EXCEPT ![d] = Append(@, event)]
  BY DEF writeEvent
<1>6. TypeOK'
  <2>1. X \subseteq File
    BY <1>0, WrittenIs DEF FilesInv
  <2>2. present' \in [Devices -> SUBSET File] /\ gone' \subseteq File
    BY <1>0, <1>4, <2>1 DEF TypeOK
  <2>3. cpPresent' \in [Devices -> SUBSET (Nat \ {0})]
    BY <1>0 DEF TypeOK
  <2>4. st' \in [Devices -> LocalState]
    BY <1>0 DEF TypeOK
  <2>5. Append(log[d], event) \in Seq(EventRecord)
    BY <1>0, <1>4, AppendProperties DEF TypeOK
  <2>6. log' \in [Devices -> Seq(EventRecord)] /\ cps' \in Seq(CheckpointRecord)
    BY <1>0, <1>5, <2>5 DEF TypeOK
  <2> QED BY <1>1, <1>3, <2>2, <2>3, <2>4, <2>6 DEF TypeOK
<1>7. /\ \A w : w \in Written' <=> w \in Written \/ w = v
      /\ v \notin Written /\ Event(v)' = event
      /\ Len(log'[d]) = Len(log[d]) + 1
      /\ \A e \in Devices : e # d => log'[e] = log[e]
      /\ \A e \in Devices : \A i \in 1..Len(log[e]) : log'[e][i] = log[e][i]
  BY <1>0, <1>4, <1>5, <1>6, WriteIs
<1>8. \A e \in Devices : Len(log[e]) \in Nat /\ Len(log[e]) <= Len(log'[e])
  BY <1>0, <1>7, WrittenIs
<1>9. Grows
  BY <1>0, <1>7, <1>8, GrowsByLog
<1>10. EventsInv'
  BY <1>0, <1>5, <1>6, EventsKeep
<1>11. CpsInv'
  BY <1>0, <1>6, <1>9, CpsKeep
<1>12. FilesInv'
  <2>0. PICK new : new = {v}
    OBVIOUS
  <2>1. present' = [present EXCEPT ![d] = (@ \ X) \cup new]
    BY <2>0
  <2>2. (\A w : w \in Written' <=> w \in Written \/ w \in new) /\ \A w \in new : w[1] = d
    BY <1>4, <1>7, <2>0
  <2> QED BY <1>0, <1>6, <2>1, <2>2, FilesKeep
<1>13. Moves(d, r, t)
  BY <1>0, <1>9 DEF Moves
<1>14. StateInv(d, t)'
  <2>1. \A e \in Devices : t.streams[e] <= Len(log'[e])
    BY <1>2, <1>7, <1>8
  <2>2. ASSUME NEW w \in Written', Within(w, t.streams)
        PROVE  (w \in Written /\ Within(w, r.streams)) \/ Event(w)'.lamport <= t.lamport
    <3>1. CASE w = v
      BY <1>4, <1>7, <2>2, <3>1
    <3>2. CASE w \in Written
      <4>1. Event(w)' = Event(w)
        BY <1>0, <1>6, <1>9, <3>2, GrowsKeeps
      <4> QED BY <2>2, <3>2, <4>1
    <3> QED BY <1>7, <3>1, <3>2
  <2>3. t.projection # NoVersion => t.projection \in Written' /\ Within(t.projection, t.streams)
    BY <1>7
  <2> QED BY <1>6, <1>13, <2>1, <2>2, <2>3, StateMoves
<1>15. Leaves(d, r, t)
  <2>1. cpPresent'[d] = files /\ \A e \in Devices \ {d} : cpPresent'[e] = cpPresent[e]
    BY <1>0 DEF TypeOK
  <2> QED BY <1>1, <1>3, <2>1 DEF Leaves
<1> QED BY <1>6, <1>10, <1>11, <1>12, <1>13, <1>14, <1>15, MovesKeep

(* The tips of a refreshed state have been written and accepted.           *)
LEMMA ReadyTips ==
    ASSUME IInv, NEW d \in Devices, NEW s, Ready(d, s), NEW tips, tips = TipsOf(s.cp, s.streams)
    PROVE  /\ tips \subseteq Written /\ \A v \in tips : Within(v, s.streams)
           /\ \A some \in SUBSET tips : some # {} => chooseActiveTip(some) \in some
           /\ \A v \in tips : Event(v).edits \in SUBSET File
<1>1. /\ s.cp \in {NoCheckpoint} \cup DOMAIN cps /\ s.streams \in [Devices -> Nat]
      /\ \A e \in Devices : s.streams[e] <= Len(log[e]) /\ CpStreams(s.cp)[e] <= s.streams[e]
  BY DEF Ready, Half, StateInv, LocalState
<1>2. tips \subseteq Written /\ \A v \in tips : Within(v, s.streams)
  BY <1>1, TipsAre DEF IInv
<1>3. \A some \in SUBSET tips : some # {} => chooseActiveTip(some) \in some
  BY <1>2, ActiveTipIs DEF IInv
<1>4. \A v \in tips : Event(v).edits \in SUBSET File
  BY <1>2, WrittenIs DEF IInv, EventRecord
<1> QED BY <1>2, <1>3, <1>4

(* The event is counted: the cursor of the own stream and the clock.       *)
LEMMA CountedIs ==
    ASSUME IInv, NEW d \in Devices, NEW s, Ready(d, s), NEW v, v = NewVersion(d, s),
           NEW t, t.streams = [s.streams EXCEPT ![d] = @ + 1], t.lamport = s.lamport + 1
    PROVE  /\ t.streams \in [Devices -> Nat] /\ t.lamport \in Nat
           /\ s.lamport <= t.lamport
           /\ \A e \in Devices : s.streams[e] <= t.streams[e] /\
                 (t.streams[e] <= Len(log[e]) \/ (e = d /\ t.streams[e] <= Len(log[e]) + 1))
           /\ \A w \in Written : Within(w, t.streams) => Within(w, s.streams)
           /\ \A w : w \in Written /\ Within(w, s.streams) => Within(w, t.streams)
           /\ Within(v, t.streams)
<1>1. /\ s.lamport \in Nat /\ s.streams \in [Devices -> Nat] /\ s.streams[d] = Len(log[d])
      /\ \A e \in Devices : s.streams[e] <= Len(log[e])
  BY DEF Ready, Half, StateInv, LocalState
<1>2. \A w \in Written : w[1] \in Devices /\ w[2] \in Nat /\ w[2] <= Len(log[w[1]])
  BY WrittenIs DEF IInv
<1>3. \A e \in Devices : Len(log[e]) \in Nat
  BY WrittenIs DEF IInv
<1>4. \A e \in Devices : t.streams[e] = IF e = d THEN s.streams[e] + 1 ELSE s.streams[e]
  BY <1>1
<1>5. \A w \in Written : Within(w, t.streams) => Within(w, s.streams)
  BY <1>1, <1>2, <1>4 DEF Within
<1>6. \A w \in Written : Within(w, s.streams) => Within(w, t.streams)
  BY <1>1, <1>2, <1>4 DEF Within
<1>7. Within(v, t.streams)
  BY <1>1, <1>4 DEF Within, NewVersion
<1>8. t.streams \in [Devices -> Nat] /\ t.lamport \in Nat /\ s.lamport <= t.lamport
  BY <1>1
<1>9. \A e \in Devices : s.streams[e] <= t.streams[e] /\
          (t.streams[e] <= Len(log[e]) \/ (e = d /\ t.streams[e] <= Len(log[e]) + 1))
  BY <1>1, <1>3, <1>4
<1> QED BY <1>5, <1>6, <1>7, <1>8, <1>9

(* A device deletes when all others have acknowledged the very checkpoint  *)
(* that it has elected: an ack that covers it and is newer would be in     *)
(* sight, and elected.                                                     *)
LEMMA GatesAre ==
    ASSUME IInv, NEW d \in Devices, NEW s, Half(d, s), GatesOpen(d, s.cp)
    PROVE  s.cp # NoCheckpoint /\ \A e \in Devices \ {d} : s.cp \in acked[e] /\ Had(e, s.cp)
<1> PICK k : k = s.cp
  OBVIOUS
<1>0. TypeOK /\ CpsInv /\ DeviceInv(d)
  BY DEF IInv
<1>1. k = Winner(d) /\ k # NoCheckpoint /\ k \in DOMAIN cps
  BY DEF Half, GatesOpen, StateInv
<1>2. ASSUME NEW e \in Devices \ {d} PROVE k \in acked[e]
  <2>1. PICK a \in acked[e] : ackCoversCheckpoint(d, a, k)
    BY DEF GatesOpen
  <2>2. a \in DOMAIN cps /\ DOMAIN cps = 1..Len(cps) /\ Len(cps) \in Nat
    BY <1>0, CheckpointsAre DEF IInv, DeviceInv
  <2>3. PICK S : S = {j \in DOMAIN cps : j = a \/ (j < a /\ cps[j].lamport < cps[a].lamport)}
    OBVIOUS
  <2>4. ASSUME NEW j \in S PROVE cps[j].pred \in S \cup {NoCheckpoint}
    <3>1. j \in DOMAIN cps /\ j <= a /\ cps[j].lamport <= cps[a].lamport
          /\ cps[j].lamport \in Nat /\ cps[a].lamport \in Nat
      BY <1>0, <2>2, <2>3, CheckpointsAre DEF CheckpointRecord
    <3>2. cps[j].pred # NoCheckpoint =>
              cps[j].pred \in 1 .. j - 1 /\ cps[cps[j].pred].lamport < cps[j].lamport
      BY <1>0, <3>1 DEF CpsInv, CpInv
    <3>3. CASE cps[j].pred # NoCheckpoint
      <4>1. cps[j].pred \in DOMAIN cps /\ cps[j].pred < a
        BY <2>2, <3>1, <3>2, <3>3
      <4>2. cps[cps[j].pred].lamport \in Nat
        BY <1>0, <4>1, CheckpointsAre DEF CheckpointRecord
      <4> QED BY <2>3, <3>1, <3>2, <3>3, <4>1, <4>2
    <3> QED BY <3>3
  <2>5. a \in S /\ S \in SUBSET DOMAIN cps
    BY <2>2, <2>3
  <2>6. Ancestry(a) \subseteq S
    BY <2>4, <2>5 DEF Ancestry
  <2>7. a \in Ancestry(a)
    BY <2>2 DEF Ancestry
  <2>8. k \in Ancestry(a) /\ (a > k => a \in cpPresent[d] \cup localCp[d])
    BY <2>1, <2>7 DEF ackCoversCheckpoint
  <2>9. k = a \/ (k < a /\ cps[k].lamport < cps[a].lamport)
    BY <2>3, <2>6, <2>8
  <2>10. CASE k < a /\ cps[k].lamport < cps[a].lamport
    <3>1. a \in cpPresent[d] \cup localCp[d]
      BY <1>1, <2>2, <2>8, <2>10
    <3>2. ~CpNewer(a, k)
      BY <1>0, <1>1, <3>1, WinnerIs
    <3>3. cps[k].lamport \in Nat /\ cps[a].lamport \in Nat /\ a # NoCheckpoint
      BY <1>0, <1>1, <2>2, CheckpointsAre DEF CheckpointRecord
    <3> QED BY <1>1, <2>10, <3>2, <3>3 DEF CpNewer
  <2> QED BY <2>1, <2>9, <2>10
<1>3. \A e \in Devices \ {d} : Had(e, k)
  BY <1>2 DEF IInv, DeviceInv
<1> QED BY <1>1, <1>2, <1>3

(* A prune deletes what all others have had.                               *)
LEMMA PruneDeletes ==
    ASSUME IInv, NEW d \in Devices, NEW s, Ready(d, s), GatesOpen(d, s.cp), deleteFolded(d, s.cp)
    PROVE  Deletes(d, s) /\ cpGone' \subseteq Nat \ {0} /\ Folded(d, s.cp) \subseteq present[d]
<1>1. s.cp # NoCheckpoint /\ \A e \in Devices \ {d} : Had(e, s.cp)
  BY GatesAre DEF Ready
<1>2. \A v \in gone' : v \in gone \/ Within(v, CpStreams(s.cp))
  BY DEF deleteFolded, Folded, Within
<1>3. cpGone' \subseteq Nat \ {0}
  BY DEF deleteFolded, Superseded, IInv, TypeOK
<1>4. Folded(d, s.cp) \subseteq present[d]
  BY DEF Folded
<1> QED BY <1>1, <1>2, <1>3, <1>4 DEF Deletes

(* A step that counts the event it writes.                                 *)
LEMMA CountedKeeps ==
    ASSUME IInv, NEW d \in Devices, NEW s, Ready(d, s),
           NEW parents, \A p \in parents : p \in Written /\ Within(p, s.streams),
           NEW edits \in SUBSET File, NEW synthetic \in BOOLEAN,
           writeEvent(d, s, NewEvent(s, parents, edits, synthetic)),
           NEW v, v = NewVersion(d, s),
           NEW t \in LocalState, t.cp = s.cp, t.lamport = s.lamport + 1,
           t.streams = [s.streams EXCEPT ![d] = @ + 1],
           t.projection \in {s.projection, v},
           st' = [st EXCEPT ![d] = t], keepCopies(d, s.cp), writeAck(d, s.cp), UNCHANGED cps,
           NEW X, X \subseteq present[d], gone' = gone \cup X,
           present' = [present EXCEPT ![d] = (@ \ X) \cup {v}],
           NEW files, files \subseteq cpPresent[d],
           cpPresent' = [cpPresent EXCEPT ![d] = files],
           cpGone' \subseteq Nat \ {0},
           Deletes(d, s)
    PROVE  IInv'
<1>0. PICK r : r = s
  OBVIOUS
<1>1. Half(d, r) /\ r.cp = s.cp /\ Deletes(d, r)
  BY <1>0 DEF Ready
<1>2. /\ s.lamport <= t.lamport
      /\ \A e \in Devices : s.streams[e] <= t.streams[e] /\
            (t.streams[e] <= Len(log[e]) \/ (e = d /\ t.streams[e] <= Len(log[e]) + 1))
      /\ \A w \in Written : Within(w, t.streams) => Within(w, s.streams)
      /\ \A w : w \in Written /\ Within(w, s.streams) => Within(w, t.streams)
      /\ Within(v, t.streams)
  BY CountedIs, SMTT(30)
<1>3. r.lamport <= t.lamport /\ s.lamport + 1 <= t.lamport
  BY <1>0, <1>2 DEF LocalState
<1>4. \A e \in Devices : r.streams[e] <= t.streams[e] /\
          (t.streams[e] <= Len(log[e]) \/ (e = d /\ t.streams[e] <= Len(log[e]) + 1))
  BY <1>0, <1>2
<1>5. \A w \in Written : Within(w, t.streams) =>
          Within(w, r.streams) \/ Event(w).lamport <= t.lamport
  BY <1>0, <1>2
<1>6. t.projection # NoVersion =>
          (t.projection \in Written \/ t.projection = v) /\ Within(t.projection, t.streams)
  <2>1. s.projection # NoVersion => s.projection \in Written /\ Within(s.projection, s.streams)
    BY DEF Ready, Half, StateInv
  <2> QED BY <1>2, <2>1
<1>7. acked' = acked \/ (writeAck(d, s.cp) /\ r = s)
  BY <1>0
<1>8. \A p \in parents : p \in Written /\ Within(p, s.streams)
  OBVIOUS
<1> QED BY <1>1, <1>3, <1>4, <1>5, <1>6, <1>7, <1>8, WriteKeeps

(* The local state that counts an event.                                   *)
LEMMA CountedState ==
    ASSUME IInv, NEW d \in Devices, NEW s, Ready(d, s),
           NEW event, event.lamport = s.lamport + 1, NEW t, t = counted(d, s, event)
    PROVE  t \in LocalState /\ t.cp = s.cp /\ t.lamport = s.lamport + 1
           /\ t.streams = [s.streams EXCEPT ![d] = @ + 1] /\ t.projection = s.projection
<1>1. s \in LocalState
  BY DEF Ready, Half
<1>3. /\ t.cp = s.cp /\ t.lamport = s.lamport + 1 /\ t.streams = [s.streams EXCEPT ![d] = @ + 1]
      /\ t.projection = s.projection /\ t.disk = s.disk
      /\ t = [lamport |-> t.lamport, streams |-> t.streams, cp |-> t.cp,
              projection |-> t.projection, disk |-> t.disk]
  BY <1>1 DEF counted, LocalState
<1>4. PICK v : v = NewVersion(d, s)
  OBVIOUS
<1>5. t.streams \in [Devices -> Nat] /\ t.lamport \in Nat
  BY <1>3, <1>4, CountedIs
<1> QED BY <1>1, <1>3, <1>5 DEF LocalState

(* A cycle whose refresh throws keeps the invariant.                       *)
LEMMA CycleThrowsKeeps ==
    ASSUME IInv, NEW d \in Devices, NEW s, Half(d, s), CycleThrows(d, s)
    PROVE  IInv'
<1>1. s \in LocalState /\ (s.projection # NoVersion =>
          s.projection \in Written /\ Within(s.projection, s.streams))
  BY DEF Half, StateInv
<1>2. PICK X : X = {}
  OBVIOUS
<1>3. gone' = gone \cup X /\ X \subseteq present[d] /\ Deletes(d, s) /\ cpGone' \subseteq Nat \ {0}
  BY <1>2 DEF CycleThrows, Deletes, IInv, TypeOK
<1>4. /\ present[d] \ X = present[d] /\ present' = present
      /\ present = [present EXCEPT ![d] = present[d]]
  BY <1>2 DEF CycleThrows, IInv, TypeOK
<1>5. present' = [present EXCEPT ![d] = @ \ X]
  BY <1>4
<1>6. cpPresent' = [cpPresent EXCEPT ![d] = cpPresent[d]]
  BY DEF CycleThrows, IInv, TypeOK
<1>7. st' = [st EXCEPT ![d] = s] /\ keepCopies(d, s.cp) /\ acked' = acked /\ UNCHANGED <<log, cps>>
  BY DEF CycleThrows
<1> QED BY <1>1, <1>3, <1>5, <1>6, <1>7, StayKeeps

(* A cycle that publishes nothing keeps the invariant.                     *)
LEMMA CycleKeeps ==
    ASSUME IInv, NEW d \in Devices, NEW s, Ready(d, s),
           NEW tips, tips = TipsOf(s.cp, s.streams), Cycle(d, s, tips)
    PROVE  IInv'
<1>0. Half(d, s) /\ s \in LocalState /\ (s.projection # NoVersion =>
          s.projection \in Written /\ Within(s.projection, s.streams))
  BY DEF Ready, Half, StateInv
<1>1. /\ tips \subseteq Written /\ \A v \in tips : Within(v, s.streams)
      /\ \A some \in SUBSET tips : some # {} => chooseActiveTip(some) \in some
      /\ \A v \in tips : Event(v).edits \in SUBSET File
  BY ReadyTips
<1>2. PICK X : X = {}
  OBVIOUS
<1>3. gone' = gone \cup X /\ X \subseteq present[d] /\ Deletes(d, s) /\ cpGone' \subseteq Nat \ {0}
  BY <1>2 DEF Cycle, Deletes, IInv, TypeOK
<1>4. /\ present[d] \ X = present[d] /\ present' = present
      /\ present = [present EXCEPT ![d] = present[d]]
  BY <1>2 DEF Cycle, IInv, TypeOK
<1>5. present' = [present EXCEPT ![d] = @ \ X]
  BY <1>4
<1>6. cpPresent' = [cpPresent EXCEPT ![d] = cpPresent[d]]
  BY DEF Cycle, IInv, TypeOK
<1>7. keepCopies(d, s.cp) /\ writeAck(d, s.cp) /\ UNCHANGED <<log, cps>>
  BY DEF Cycle
<1>8. \A v \in tips : v \in File
  BY <1>1, WrittenIs DEF IInv
<1>9. PICK same : same = {v \in tips : Event(v).edits = s.disk}
  OBVIOUS
<1>10. PICK active : active = chooseActiveTip(tips)
  OBVIOUS
<1>11. PICK t : /\ st' = [st EXCEPT ![d] = t]
                /\ \/ t = s
                   \/ /\ same # {}
                      /\ t = [s EXCEPT !.projection = chooseActiveTip(same)]
                   \/ /\ tips # {}
                      /\ \/ t = [s EXCEPT !.projection = active]
                         \/ t = [s EXCEPT !.projection = active, !.disk = Event(active).edits]
  BY <1>9, <1>10 DEF Cycle
<1>12. same # {} => chooseActiveTip(same) \in tips
  BY <1>1, <1>9
<1>13. tips # {} => active \in tips
  BY <1>1, <1>10
<1>14. /\ t \in LocalState /\ t.cp = s.cp /\ t.lamport = s.lamport /\ t.streams = s.streams
       /\ t.projection = s.projection \/ t.projection \in tips
  BY <1>0, <1>1, <1>8, <1>11, <1>12, <1>13 DEF LocalState
<1>15. t.projection # NoVersion => t.projection \in Written /\ Within(t.projection, t.streams)
  BY <1>0, <1>1, <1>14
<1>16. st' = [st EXCEPT ![d] = t]
  BY <1>11
<1> QED BY <1>0, <1>3, <1>5, <1>6, <1>7, <1>14, <1>15, <1>16, StayKeeps

(* The parents of a local edit are accepted versions.                      *)
LEMMA EditParents ==
    ASSUME IInv, NEW d \in Devices, NEW s, Ready(d, s),
           NEW tips, tips = TipsOf(s.cp, s.streams), NEW edits,
           NEW parents, parents = parentsWithOwnConflictTips(d, s, tips, edits)
    PROVE  \A p \in parents : p \in Written /\ Within(p, s.streams)
<1>1. \A p \in parents : p \in tips \/ (p = s.projection /\ p # NoVersion)
  BY DEF parentsWithOwnConflictTips, parentsForLocalChange
<1>2. s.projection # NoVersion => s.projection \in Written /\ Within(s.projection, s.streams)
  BY DEF Ready, Half, StateInv
<1> QED BY <1>1, <1>2, ReadyTips

(* The publication of an edit keeps the invariant.                         *)
LEMMA PublishEditKeeps ==
    ASSUME IInv, NEW d \in Devices, NEW s, Ready(d, s),
           NEW tips, tips = TipsOf(s.cp, s.streams), PublishEdit(d, s, tips)
    PROVE  IInv'
<1>0. Half(d, s) /\ s \in LocalState /\ (s.projection # NoVersion =>
          s.projection \in Written /\ Within(s.projection, s.streams))
  BY DEF Ready, Half, StateInv
<1> PICK v : v = NewVersion(d, s)
  OBVIOUS
<1>1. PICK edits : edits = s.disk \cup {v}
  OBVIOUS
<1>2. PICK parents : parents = parentsWithOwnConflictTips(d, s, tips, edits)
  OBVIOUS
<1>3. PICK event : event = NewEvent(s, parents, edits, FALSE)
  OBVIOUS
<1>4. \A p \in parents : p \in Written /\ Within(p, s.streams)
  BY <1>2, EditParents
<1>5. v \in File
  <2>1. s.lamport \in Nat /\ s.streams[d] = Len(log[d]) /\ Len(log[d]) \in Nat
    BY WrittenIs DEF Ready, Half, LocalState, IInv
  <2> QED BY <2>1 DEF NewVersion, File
<1>6. edits \in SUBSET File /\ FALSE \in BOOLEAN
  BY <1>0, <1>1, <1>5 DEF LocalState
<1>7. event.lamport = s.lamport + 1 /\ event.edits = edits
  BY <1>3 DEF NewEvent
<1>8. event = LocalEdit(d, s, tips)
  BY <1>1, <1>2, <1>3 DEF LocalEdit
<1>9. PICK t : /\ st' = [st EXCEPT ![d] = t]
               /\ t = [counted(d, s, event) EXCEPT
                         !.disk = event.edits,
                         !.projection = IF tips \subseteq event.parents THEN v ELSE @]
  BY <1>8 DEF PublishEdit
<1>10. PICK c : c = counted(d, s, event)
  OBVIOUS
<1>11. /\ c.cp = s.cp /\ c.lamport = s.lamport + 1 /\ c.streams = [s.streams EXCEPT ![d] = @ + 1]
       /\ c.projection = s.projection
       /\ c = [lamport |-> c.lamport, streams |-> c.streams, cp |-> c.cp,
               projection |-> c.projection, disk |-> c.disk]
  BY <1>0, <1>7, <1>10 DEF counted, LocalState
<1>12. /\ t.cp = s.cp /\ t.lamport = s.lamport + 1 /\ t.streams = [s.streams EXCEPT ![d] = @ + 1]
       /\ t.projection \in {s.projection, v} /\ t.disk = edits
       /\ t = [lamport |-> t.lamport, streams |-> t.streams, cp |-> t.cp,
               projection |-> t.projection, disk |-> t.disk]
  BY <1>7, <1>9, <1>10, <1>11
<1>13. /\ t.streams \in [Devices -> Nat] /\ t.lamport \in Nat
  BY <1>12, CountedIs
<1>14. t \in LocalState
  BY <1>0, <1>5, <1>6, <1>12, <1>13 DEF LocalState
<1>16. /\ writeEvent(d, s, NewEvent(s, parents, edits, FALSE))
       /\ keepCopies(d, s.cp) /\ writeAck(d, s.cp) /\ UNCHANGED cps
       /\ present' = [present EXCEPT ![d] = @ \cup {v}]
       /\ cpPresent' = cpPresent /\ gone' = gone /\ cpGone' = cpGone
  BY <1>3, <1>8 DEF PublishEdit
<1>17. PICK X : X = {}
  OBVIOUS
<1>18. /\ X \subseteq present[d] /\ gone' = gone \cup X /\ Deletes(d, s)
       /\ present' = [present EXCEPT ![d] = (@ \ X) \cup {v}]
  <2>1. present[d] \ X = present[d]
    BY <1>17
  <2> QED BY <1>16, <1>17, <2>1 DEF Deletes
<1>19. cpPresent' = [cpPresent EXCEPT ![d] = cpPresent[d]] /\ cpGone' \subseteq Nat \ {0}
  BY <1>16 DEF IInv, TypeOK
<1>21. st' = [st EXCEPT ![d] = t]
  BY <1>9
<1> QED BY <1>4, <1>6, <1>12, <1>14, <1>16, <1>18, <1>19, <1>21, CountedKeeps

(* So does one that dies before the state is saved.                        *)
LEMMA PublishCrashKeeps ==
    ASSUME IInv, NEW d \in Devices, NEW s, Ready(d, s), NEW r, Half(d, r), r.cp = s.cp,
           NEW tips, tips = TipsOf(s.cp, s.streams), PublishCrash(d, s, tips, r)
    PROVE  IInv'
<1>0. /\ Half(d, s) /\ s \in LocalState
      /\ r \in LocalState /\ (r.projection # NoVersion =>
             r.projection \in Written /\ Within(r.projection, r.streams))
  BY DEF Ready, Half, StateInv
<1> PICK v : v = NewVersion(d, s)
  OBVIOUS
<1>1. PICK edits : edits = s.disk \cup {v}
  OBVIOUS
<1>2. PICK parents : parents = parentsWithOwnConflictTips(d, s, tips, edits)
  OBVIOUS
<1>3. PICK synthetic : synthetic = FALSE
  OBVIOUS
<1>4. \A p \in parents : p \in Written /\ Within(p, s.streams)
  BY <1>2, EditParents
<1>5. v \in File
  <2>1. s.lamport \in Nat /\ s.streams[d] = Len(log[d]) /\ Len(log[d]) \in Nat
    BY WrittenIs DEF Ready, Half, LocalState, IInv
  <2> QED BY <2>1 DEF NewVersion, File
<1>6. edits \in SUBSET File /\ synthetic \in BOOLEAN
  BY <1>0, <1>1, <1>3, <1>5 DEF LocalState
<1>7. LocalEdit(d, s, tips) = NewEvent(s, parents, edits, synthetic)
  BY <1>1, <1>2, <1>3 DEF LocalEdit
<1>8. NewEvent(s, parents, edits, synthetic).edits = edits
  BY DEF NewEvent
<1>9. PICK t : t = [r EXCEPT !.disk = edits]
  OBVIOUS
<1>10. /\ t.cp = s.cp /\ t.lamport = r.lamport /\ t.streams = r.streams
       /\ t.projection = r.projection /\ t.disk = edits
       /\ t = [lamport |-> t.lamport, streams |-> t.streams, cp |-> t.cp,
               projection |-> t.projection, disk |-> t.disk]
  BY <1>0, <1>9 DEF LocalState
<1>11. t \in LocalState
  BY <1>0, <1>6, <1>10 DEF LocalState
<1>12. \A e \in Devices : /\ r.streams[e] <= Len(log[e]) /\ r.streams[e] \in Nat
                          /\ Len(log[e]) \in Nat
  BY <1>0, WrittenIs DEF Half, StateInv, LocalState, IInv
<1>13. \A e \in Devices : r.streams[e] <= t.streams[e] /\
           (t.streams[e] <= Len(log[e]) \/ (e = d /\ t.streams[e] <= Len(log[e]) + 1))
  BY <1>10, <1>12
<1>14. ~Within(v, t.streams)
  <2>1. v[1] = d /\ v[2] = Len(log[d]) + 1
    BY DEF NewVersion, Ready
  <2> QED BY <2>1, <1>10, <1>12 DEF Within
<1>15. \A w \in Written : Within(w, t.streams) => Within(w, r.streams)
  BY <1>10
<1>16. t.projection # NoVersion =>
           (t.projection \in Written \/ t.projection = v) /\ Within(t.projection, t.streams)
  BY <1>0, <1>10
<1>17. /\ writeEvent(d, s, NewEvent(s, parents, edits, synthetic))
       /\ keepCopies(d, s.cp) /\ UNCHANGED <<cps, acked>>
       /\ present' = [present EXCEPT ![d] = @ \cup {v}]
       /\ cpPresent' = cpPresent /\ gone' = gone /\ cpGone' = cpGone
       /\ st' = [st EXCEPT ![d] = t]
  BY <1>7, <1>8, <1>9 DEF PublishCrash
<1>18. PICK X : X = {}
  OBVIOUS
<1>19. /\ X \subseteq present[d] /\ gone' = gone \cup X /\ Deletes(d, r)
       /\ present' = [present EXCEPT ![d] = (@ \ X) \cup {v}]
  <2>1. present[d] \ X = present[d]
    BY <1>18
  <2> QED BY <1>17, <1>18, <2>1 DEF Deletes
<1>20. PICK files : files = cpPresent[d]
  OBVIOUS
<1>26. /\ files \subseteq cpPresent[d] /\ cpPresent' = [cpPresent EXCEPT ![d] = files]
       /\ cpGone' \subseteq Nat \ {0}
  BY <1>17, <1>20 DEF IInv, TypeOK
<1>27. /\ writeEvent(d, s, NewEvent(s, parents, edits, synthetic))
       /\ keepCopies(d, s.cp) /\ UNCHANGED cps /\ st' = [st EXCEPT ![d] = t]
  BY <1>17
<1>21. r.lamport <= t.lamport
  BY <1>0, <1>10 DEF LocalState
<1>22. Within(v, t.streams) => s.lamport + 1 <= t.lamport
  BY <1>14
<1>23. \A w \in Written : Within(w, t.streams) =>
           Within(w, r.streams) \/ Event(w).lamport <= t.lamport
  BY <1>15
<1>24. acked' = acked \/ (writeAck(d, s.cp) /\ r = s)
  BY <1>17
<1>25. t.cp = s.cp
  BY <1>10
<1> QED
  BY <1>4, <1>6, <1>11, <1>13, <1>16, <1>19, <1>21, <1>22, <1>23, <1>24, <1>25, <1>26,
           <1>27, WriteKeeps

(* A merge of conflicting tips keeps the invariant.                        *)
LEMMA ResolveConflictKeeps ==
    ASSUME IInv, NEW d \in Devices, NEW s, Ready(d, s),
           NEW tips, tips = TipsOf(s.cp, s.streams), ResolveConflict(d, s, tips)
    PROVE  IInv'
<1>0. s \in LocalState
  BY DEF Ready, Half
<1> PICK v : v = NewVersion(d, s)
  OBVIOUS
<1>1. /\ tips \subseteq Written /\ \A w \in tips : Within(w, s.streams)
      /\ \A w \in tips : Event(w).edits \in SUBSET File
  BY ReadyTips
<1>2. PICK edits : /\ edits \in {UNION {Event(w).edits : w \in tips}}
                              \cup {Event(w).edits : w \in tips}
                   /\ writeEvent(d, s, NewEvent(s, tips, edits, TRUE))
                   /\ st' = [st EXCEPT ![d] = counted(d, s, NewEvent(s, tips, edits, TRUE))]
  BY DEF ResolveConflict
<1>3. edits \in SUBSET File /\ TRUE \in BOOLEAN
  BY <1>1, <1>2
<1>4. \A p \in tips : p \in Written /\ Within(p, s.streams)
  BY <1>1
<1>5. PICK event : event = NewEvent(s, tips, edits, TRUE)
  OBVIOUS
<1>6. PICK t : t = counted(d, s, event)
  OBVIOUS
<1>7. t \in LocalState /\ t.cp = s.cp /\ t.lamport = s.lamport + 1
      /\ t.streams = [s.streams EXCEPT ![d] = @ + 1] /\ t.projection = s.projection
  <2>1. event.lamport = s.lamport + 1
    BY <1>5 DEF NewEvent
  <2> QED BY <1>6, <2>1, CountedState
<1>8. /\ st' = [st EXCEPT ![d] = t]
      /\ keepCopies(d, s.cp) /\ writeAck(d, s.cp) /\ UNCHANGED cps
      /\ present' = [present EXCEPT ![d] = @ \cup {v}]
      /\ cpPresent' = cpPresent /\ gone' = gone /\ cpGone' = cpGone
  BY <1>2, <1>5, <1>6 DEF ResolveConflict
<1>9. PICK X : X = {}
  OBVIOUS
<1>10. /\ X \subseteq present[d] /\ gone' = gone \cup X /\ Deletes(d, s)
       /\ present' = [present EXCEPT ![d] = (@ \ X) \cup {v}]
  <2>1. present[d] \ X = present[d]
    BY <1>9
  <2> QED BY <1>8, <1>9, <2>1 DEF Deletes
<1>11. cpPresent' = [cpPresent EXCEPT ![d] = cpPresent[d]] /\ cpGone' \subseteq Nat \ {0}
  BY <1>8 DEF IInv, TypeOK
<1> QED BY <1>2, <1>3, <1>4, <1>7, <1>8, <1>10, <1>11, CountedKeeps

(* The marker is an event of the tip it republishes.                       *)
LEMMA MarkerIs ==
    ASSUME IInv, NEW d \in Devices, NEW s, Ready(d, s),
           NEW tips, tips = TipsOf(s.cp, s.streams), tips # {},
           NEW tip, tip = chooseActiveTip(tips),
           NEW edits, edits = Event(tip).edits,
           NEW parents, parents = {tip}
    PROVE  /\ tip \in tips /\ tip \in Written /\ Within(tip, s.streams)
           /\ \A p \in parents : p \in Written /\ Within(p, s.streams)
           /\ edits \in SUBSET File
<1>1. /\ tips \subseteq Written /\ \A w \in tips : Within(w, s.streams)
      /\ \A w \in tips : Event(w).edits \in SUBSET File
      /\ \A some \in SUBSET tips : some # {} => chooseActiveTip(some) \in some
  BY ReadyTips
<1>2. tip \in tips
  BY <1>1
<1> QED BY <1>1, <1>2

(* A prune, with or without its marker, keeps the invariant.               *)
LEMMA PruneKeeps ==
    ASSUME IInv, NEW d \in Devices, NEW s, Ready(d, s),
           NEW tips, tips = TipsOf(s.cp, s.streams), Prune(d, s, tips)
    PROVE  IInv'
<1>0. Half(d, s) /\ s \in LocalState /\ (s.projection # NoVersion =>
          s.projection \in Written /\ Within(s.projection, s.streams))
  BY DEF Ready, Half, StateInv
<1> PICK v : v = NewVersion(d, s)
  OBVIOUS
<1>1. PICK X : X = Folded(d, s.cp)
  OBVIOUS
<1>2. /\ X \subseteq present[d] /\ gone' = gone \cup X
      /\ Deletes(d, s) /\ cpGone' \subseteq Nat \ {0}
  BY <1>1, PruneDeletes DEF Prune, deleteFolded
<1>3. PICK files : files = cpPresent[d] \ Superseded(d, s.cp)
  OBVIOUS
<1>4. files \subseteq cpPresent[d] /\ cpPresent' = [cpPresent EXCEPT ![d] = files]
  BY <1>3 DEF Prune, IInv, TypeOK
<1>5. keepCopies(d, s.cp) /\ writeAck(d, s.cp) /\ UNCHANGED cps /\ tips # {}
  BY DEF Prune, MaintenanceMayRun
<1>6. CASE /\ present' = [present EXCEPT ![d] = @ \ Folded(d, s.cp)]
           /\ st' = [st EXCEPT ![d] = s]
           /\ UNCHANGED log
  BY <1>0, <1>1, <1>2, <1>4, <1>5, <1>6, StayKeeps
<1>7. CASE /\ writeEvent(d, s, Marker(s, tips))
           /\ present' = [present EXCEPT ![d] =
                             (@ \ Folded(d, s.cp)) \cup {NewVersion(d, s)}]
           /\ st' = [st EXCEPT ![d] = counted(d, s, Marker(s, tips))]
  <2>1. PICK tip : tip = chooseActiveTip(tips)
    OBVIOUS
  <2>2. PICK edits : edits = Event(tip).edits
    OBVIOUS
  <2>3. PICK parents : parents = {tip}
    OBVIOUS
  <2>4. /\ \A p \in parents : p \in Written /\ Within(p, s.streams)
        /\ edits \in SUBSET File
    BY <1>5, <2>1, <2>2, <2>3, MarkerIs
  <2>10. Marker(s, tips) = NewEvent(s, parents, edits, TRUE)
    BY <2>1, <2>2, <2>3 DEF Marker
  <2>5. PICK event : event = NewEvent(s, parents, edits, TRUE)
    OBVIOUS
  <2>6. PICK t : t = counted(d, s, event)
    OBVIOUS
  <2>7. t \in LocalState /\ t.cp = s.cp /\ t.lamport = s.lamport + 1
        /\ t.streams = [s.streams EXCEPT ![d] = @ + 1] /\ t.projection = s.projection
    <3>1. event.lamport = s.lamport + 1
      BY <2>5 DEF NewEvent
    <3> QED BY <2>6, <3>1, CountedState
  <2>8. /\ st' = [st EXCEPT ![d] = t]
        /\ writeEvent(d, s, NewEvent(s, parents, edits, TRUE))
        /\ present' = [present EXCEPT ![d] = (@ \ X) \cup {v}]
    BY <1>1, <1>7, <2>5, <2>6, <2>10
  <2>9. TRUE \in BOOLEAN
    OBVIOUS
  <2> QED BY <1>2, <1>4, <1>5, <2>4, <2>7, <2>8, <2>9, CountedKeeps
<1> QED BY <1>6, <1>7 DEF Prune

(* The checkpoint of k, which its author absorbs and acknowledges: it goes *)
(* from the state s, or from c of the same checkpoint, to t.               *)
Created(d, s, c, tip, k, t) ==
    /\ t \in LocalState /\ t.cp = k /\ t.lamport = c.lamport + 1
    /\ t.streams = c.streams /\ t.projection = c.projection
    /\ st' = [st EXCEPT ![d] = t]
    /\ cps' = Append(cps, [author |-> d, lamport |-> t.lamport, pred |-> s.cp,
                           streams |-> t.streams, tip |-> tip])
    /\ \A e \in Devices \ {d} : /\ cpPresent'[e] = cpPresent[e]
                                /\ localCp'[e] = localCp[e]
                                /\ acked'[e] = acked[e]
    /\ cpPresent'[d] \subseteq cpPresent[d] \cup {k}
    /\ localCp'[d] \subseteq localCp[d] \cup {s.cp, k} /\ k \in localCp'[d]
    /\ \A a \in acked'[d] : a \in acked[d] \/ a = k

(* A new checkpoint file, which its author absorbs and acknowledges.       *)
LEMMA CreateIs ==
    ASSUME IInv, NEW d \in Devices, NEW s, Half(d, s), NEW c \in LocalState, c.cp = s.cp,
           NEW tips, NEW tip \in Written, tip = chooseActiveTip(tips),
           NEW files, files \subseteq cpPresent[d],
           NEW copies, copies \subseteq localCp[d] \cup {s.cp}, NoCheckpoint \notin copies,
           createCheckpoint(d, c, tips, files, copies),
           log' \in [Devices -> Seq(EventRecord)], present' \in [Devices -> SUBSET File],
           gone' \subseteq File, cpGone' \subseteq Nat \ {0},
           NEW k, k = Len(cps) + 1,
           NEW t, t = [c EXCEPT !.cp = k, !.lamport = c.lamport + 1]
    PROVE  TypeOK' /\ Created(d, s, c, tip, k, t)
<1>0. TypeOK
  BY DEF IInv
<1>1. k \in Nat \ {0}
  BY <1>0, CheckpointsAre
<1>2. /\ t.cp = k /\ t.lamport = c.lamport + 1 /\ t.streams = c.streams
      /\ t.projection = c.projection /\ t.disk = c.disk
      /\ t = [lamport |-> t.lamport, streams |-> t.streams, cp |-> t.cp,
              projection |-> t.projection, disk |-> t.disk]
  BY DEF LocalState
<1>3. t \in LocalState
  BY <1>1, <1>2 DEF LocalState
<1>4. PICK record : record = [author |-> d, lamport |-> t.lamport, pred |-> s.cp,
                              streams |-> t.streams, tip |-> tip]
  OBVIOUS
<1>5. record \in CheckpointRecord
  <2>1. t.lamport \in Nat /\ s.cp \in Nat /\ t.streams \in [Devices -> Nat] /\ tip \in File
    BY <1>0, <1>3, WrittenIs DEF LocalState, Half
  <2> QED BY <1>4, <2>1 DEF CheckpointRecord
<1>6. cps' = Append(cps, record) /\ st' = [st EXCEPT ![d] = t]
  BY <1>2, <1>4 DEF createCheckpoint
<1>7. cps' \in Seq(CheckpointRecord)
  BY <1>0, <1>5, <1>6, AppendProperties DEF TypeOK
<1>8. /\ cpPresent' = [cpPresent EXCEPT ![d] = files \cup {k}]
      /\ localCp' = [localCp EXCEPT ![d] = (copies \cap {s.cp}) \cup {k}]
      /\ writeAck(d, k)
  BY DEF createCheckpoint
<1>9. /\ cpPresent' \in [Devices -> SUBSET (Nat \ {0})]
      /\ localCp' \in [Devices -> SUBSET (Nat \ {0})]
      /\ st' \in [Devices -> LocalState]
  <2>1. files \cup {k} \subseteq Nat \ {0}
    BY <1>0, <1>1 DEF TypeOK
  <2>2. (copies \cap {s.cp}) \cup {k} \subseteq Nat \ {0}
    BY <1>0, <1>1 DEF Half, LocalState, NoCheckpoint
  <2>3. cpPresent' \in [Devices -> SUBSET (Nat \ {0})]
    BY <1>0, <1>8, <2>1 DEF TypeOK
  <2>4. localCp' \in [Devices -> SUBSET (Nat \ {0})]
    BY <1>0, <1>8, <2>2 DEF TypeOK
  <2>5. st' \in [Devices -> LocalState]
    BY <1>0, <1>3, <1>6 DEF TypeOK
  <2> QED BY <2>3, <2>4, <2>5
<1>10. /\ acked' \in [Devices -> SUBSET (Nat \ {0})]
       /\ \A e \in Devices \ {d} : acked'[e] = acked[e]
       /\ \A a \in acked'[d] : a \in acked[d] \/ a = k
  BY <1>1, <1>8, AckIs
<1>11. \A e \in Devices \ {d} : cpPresent'[e] = cpPresent[e] /\ localCp'[e] = localCp[e]
  BY <1>0, <1>8 DEF TypeOK
<1>12. /\ cpPresent'[d] = files \cup {k}
       /\ localCp'[d] = (copies \cap {s.cp}) \cup {k}
  BY <1>0, <1>8 DEF TypeOK
<1>13. TypeOK'
  BY <1>7, <1>9, <1>10 DEF TypeOK
<1>14. /\ cpPresent'[d] \subseteq cpPresent[d] \cup {k}
       /\ localCp'[d] \subseteq localCp[d] \cup {s.cp, k} /\ k \in localCp'[d]
  BY <1>12
<1> QED BY <1>2, <1>3, <1>4, <1>6, <1>10, <1>11, <1>13, <1>14 DEF Created

(* The folder grows by a checkpoint and perhaps an event.                  *)
LEMMA GrowsByBoth ==
    ASSUME TypeOK, NEW record, cps' = Append(cps, record),
           \A e \in Devices : /\ Len(log[e]) <= Len(log'[e])
                              /\ \A i \in 1..Len(log[e]) : log'[e][i] = log[e][i]
    PROVE  Grows
<1>1. Len(cps) \in Nat /\ DOMAIN cps = 1..Len(cps)
  BY CheckpointsAre
<1>2. Len(cps') = Len(cps) + 1 /\ \A k \in DOMAIN cps : cps'[k] = cps[k]
  BY <1>1 DEF TypeOK
<1> QED BY <1>1, <1>2 DEF Grows

(* What the tips of a state without conflict stand for is folded into any  *)
(* of them.                                                                *)
LEMMA TipCovers ==
    ASSUME IInv, TypeOK', Grows, NEW d \in Devices, NEW s, Ready(d, s),
           NEW tips, tips = TipsOf(s.cp, s.streams), ~Conflicting(tips), NEW tip \in tips,
           NEW v \in Written, Within(v, s.streams)
    PROVE  v \in Covered({tip})'
<1>1. TypeOK /\ EventsInv /\ CpsInv
  BY DEF IInv
<1>2. /\ s.cp \in {NoCheckpoint} \cup DOMAIN cps /\ s.streams \in [Devices -> Nat]
      /\ \A e \in Devices : s.streams[e] <= Len(log[e])
  BY DEF Ready, Half, StateInv, LocalState
<1>3. v \in Covered(tips)
  BY <1>1, <1>2, TipsCover
<1>4. tips \subseteq Written
  BY ReadyTips
<1>5. v \in Covered({tip})
  BY <1>3, <1>4, EqualTipsCover
<1>6. {tip} \subseteq Written
  BY <1>4
<1> QED BY <1>1, <1>5, <1>6, CoveredGrows

(* A step that writes a checkpoint of a refreshed state, after the event   *)
(* files of log'.                                                          *)
LEMMA CreateKeeps ==
    ASSUME IInv, TypeOK', EventsInv', FilesInv', NEW d \in Devices, NEW s, Ready(d, s),
           NEW tip \in Written, NEW k, k = Len(cps) + 1, NEW c, NEW t,
           Created(d, s, c, tip, k, t),
           s.lamport <= c.lamport, c.lamport \in Nat, c.projection = s.projection,
           \A e \in Devices : s.streams[e] <= t.streams[e] /\ t.streams[e] <= Len(log'[e]),
           Within(tip, t.streams),
           \A e \in Devices : /\ Len(log[e]) <= Len(log'[e])
                              /\ \A i \in 1..Len(log[e]) : log'[e][i] = log[e][i],
           \A v \in Written' : Within(v, t.streams) =>
               Event(v)'.lamport < t.lamport /\ v \in Covered({tip})',
           Deletes(d, s)
    PROVE  IInv'
<1>0. TypeOK /\ EventsInv /\ CpsInv /\ Half(d, s)
  BY DEF IInv, Ready
<1> t \in LocalState /\ t.cp = k /\ t.projection = s.projection
  BY DEF Created
<1> st' = [st EXCEPT ![d] = t] /\ s.lamport < t.lamport
  BY <1>0 DEF Created, Half, LocalState
<1> cps' = Append(cps, [author |-> d, lamport |-> t.lamport, pred |-> s.cp,
                       streams |-> t.streams, tip |-> tip])
  BY DEF Created
<1>1. t.lamport \in Nat /\ t.streams \in [Devices -> Nat] /\ s.lamport \in Nat
      /\ s.streams \in [Devices -> Nat]
  BY <1>0 DEF Half, LocalState
<1>2. Grows
  BY <1>0, GrowsByBoth
<1>3. CpsInv'
  BY <1>0, <1>1, <1>2, CpsGrow
<1>4. Moves(d, s, t)
  <2>1. NewCheckpoint(d, t.cp, t.lamport, s.cp, t.streams)
    BY DEF NewCheckpoint
  <2>2. s.lamport <= t.lamport
    BY <1>1
  <2> QED BY <1>0, <1>2, <2>1, <2>2 DEF Moves
<1>5. StateInv(d, t)'
  <2>1. \A e \in Devices : t.streams[e] <= Len(log'[e])
    OBVIOUS
  <2>2. \A v \in Written' : Within(v, t.streams) => Event(v)'.lamport <= t.lamport
    <3> SUFFICES ASSUME NEW v \in Written', Within(v, t.streams)
                 PROVE  Event(v)'.lamport <= t.lamport
      OBVIOUS
    <3>0. PICK e \in Devices : \E i \in DOMAIN log'[e] : v = <<e, i>>
      BY DEF Written
    <3>1. PICK i \in DOMAIN log'[e] : v = <<e, i>>
      BY <3>0
    <3>2. log'[e] \in Seq(EventRecord)
      BY DEF TypeOK
    <3>3. log'[e][i] \in EventRecord
      BY <3>2
    <3>4. Event(v)'.lamport \in Nat
      BY <3>1, <3>3 DEF Event, EventRecord
    <3> QED BY <1>1, <3>4
  <2>3. s.projection # NoVersion => s.projection \in Written /\ Within(s.projection, s.streams)
    BY <1>0 DEF Half, StateInv
  <2>4. s.projection \in Written =>
            s.projection \in Written' /\ s.projection[1] \in Devices
            /\ s.projection[2] \in Nat
    BY <1>0, <1>2, GrowsKeeps, WrittenIs DEF File
  <2>5. t.projection # NoVersion => t.projection \in Written' /\ Within(t.projection, t.streams)
    BY <1>1, <2>3, <2>4 DEF Within
  <2> QED BY <1>4, <2>1, <2>2, <2>5, StateMoves
<1>6. Leaves(d, s, t)
  BY DEF Leaves, Created
<1> QED BY <1>3, <1>4, <1>5, <1>6, MovesKeep

(* A checkpoint of a refreshed state without conflict.                     *)
LEMMA FoldKeeps ==
    ASSUME IInv, NEW d \in Devices, NEW s, Ready(d, s),
           NEW tips, tips = TipsOf(s.cp, s.streams), tips # {}, ~Conflicting(tips),
           NEW files, files \subseteq cpPresent[d],
           NEW copies, copies \subseteq localCp[d] \cup {s.cp}, NoCheckpoint \notin copies,
           createCheckpoint(d, s, tips, files, copies),
           UNCHANGED log,
           NEW X, X \subseteq present[d], gone' = gone \cup X,
           present' = [present EXCEPT ![d] = @ \ X],
           cpGone' \subseteq Nat \ {0},
           Deletes(d, s)
    PROVE  IInv'
<1>0. /\ TypeOK /\ EventsInv /\ FilesInv /\ CpsInv /\ Half(d, s) /\ s \in LocalState
      /\ s.lamport \in Nat /\ s.streams \in [Devices -> Nat]
      /\ \A e \in Devices : s.streams[e] <= Len(log[e])
      /\ \A v \in Written : Within(v, s.streams) => Event(v).lamport <= s.lamport
  BY DEF IInv, Ready, Half, StateInv, LocalState
<1> PICK tip : tip = chooseActiveTip(tips)
  OBVIOUS
<1>1. tip \in tips /\ tip \in Written /\ Within(tip, s.streams)
  BY ReadyTips
<1>2. PICK k : k = Len(cps) + 1
  OBVIOUS
<1>3. PICK t : t = [s EXCEPT !.cp = k, !.lamport = s.lamport + 1]
  OBVIOUS
<1>4. /\ log' \in [Devices -> Seq(EventRecord)]
      /\ present' \in [Devices -> SUBSET File] /\ gone' \subseteq File
  <2>1. X \subseteq File
    BY <1>0, WrittenIs DEF FilesInv
  <2> QED BY <1>0, <2>1 DEF TypeOK
<1>5. TypeOK' /\ Created(d, s, s, tip, k, t)
  BY <1>0, <1>1, <1>2, <1>3, <1>4, CreateIs
<1>14. /\ t.lamport = s.lamport + 1 /\ t.streams = s.streams
       /\ cps' = Append(cps, [author |-> d, lamport |-> t.lamport, pred |-> s.cp,
                              streams |-> t.streams, tip |-> tip])
  BY <1>5 DEF Created
<1>6. \A e \in Devices : /\ Len(log[e]) <= Len(log'[e])
                         /\ \A i \in 1..Len(log[e]) : log'[e][i] = log[e][i]
  BY <1>0, WrittenIs
<1>7. Grows
  BY <1>0, <1>6, <1>14, GrowsByBoth
<1>8. Written' = Written
  BY DEF Written
<1>9. EventsInv'
  <2>1. \A v : Event(v)' = Event(v)
    BY DEF Event
  <2> QED BY <1>0, <1>8, <2>1 DEF EventsInv
<1>10. FilesInv'
  <2>0. PICK new : new = {}
    OBVIOUS
  <2>1. present[d] \ X = (present[d] \ X) \cup new
    BY <2>0
  <2>2. present' = [present EXCEPT ![d] = (@ \ X) \cup new]
    BY <2>1
  <2>3. (\A v : v \in Written' <=> v \in Written \/ v \in new) /\ \A v \in new : v[1] = d
    BY <1>8, <2>0
  <2> QED BY <1>0, <1>5, <2>2, <2>3, FilesKeep
<1>11. ASSUME NEW v \in Written', Within(v, t.streams)
       PROVE  Event(v)'.lamport < t.lamport /\ v \in Covered({tip})'
  <2>1. v \in Written /\ Within(v, s.streams)
    BY <1>8, <1>11, <1>14
  <2>2. Event(v)' = Event(v) /\ Event(v).lamport \in Nat
    BY <1>0, <2>1, WrittenIs DEF Event, EventRecord
  <2>3. Event(v)'.lamport < t.lamport
    BY <1>0, <1>14, <2>1, <2>2
  <2>4. v \in Covered({tip})'
    BY <1>1, <1>5, <1>7, <2>1, TipCovers
  <2> QED BY <2>3, <2>4
<1>12. \A e \in Devices : s.streams[e] <= t.streams[e] /\ t.streams[e] <= Len(log'[e])
  BY <1>0, <1>14
<1>13. Within(tip, t.streams) /\ s.lamport <= s.lamport
  BY <1>0, <1>1, <1>14
<1> QED BY <1>0, <1>1, <1>2, <1>5, <1>6, <1>9, <1>10, <1>11, <1>12, <1>13, CreateKeeps

(* The same of a state that has just counted the marker of its tip.        *)
LEMMA MarkerFoldKeeps ==
    ASSUME IInv, NEW d \in Devices, NEW s, Ready(d, s),
           NEW tips, tips = TipsOf(s.cp, s.streams), tips # {}, ~Conflicting(tips),
           NEW files, files \subseteq cpPresent[d],
           NEW copies, copies \subseteq localCp[d] \cup {s.cp}, NoCheckpoint \notin copies,
           writeEvent(d, s, Marker(s, tips)),
           createCheckpoint(d, counted(d, s, Marker(s, tips)), tips, files, copies),
           NEW X, X \subseteq present[d], gone' = gone \cup X,
           present' = [present EXCEPT ![d] = (@ \ X) \cup {NewVersion(d, s)}],
           cpGone' \subseteq Nat \ {0},
           Deletes(d, s)
    PROVE  IInv'
<1>0. /\ TypeOK /\ EventsInv /\ FilesInv /\ CpsInv /\ Half(d, s) /\ s \in LocalState
      /\ s.lamport \in Nat /\ s.streams \in [Devices -> Nat]
      /\ \A e \in Devices : s.streams[e] <= Len(log[e])
      /\ \A v \in Written : Within(v, s.streams) => Event(v).lamport <= s.lamport
  BY DEF IInv, Ready, Half, StateInv, LocalState
<1> PICK tip : tip = chooseActiveTip(tips)
  OBVIOUS
<1> PICK v : v = NewVersion(d, s)
  OBVIOUS
<1>1. tip \in tips /\ tip \in Written /\ Within(tip, s.streams)
  BY ReadyTips
<1>2. PICK k : k = Len(cps) + 1
  OBVIOUS
<1>3. PICK edits : edits = Event(tip).edits
  OBVIOUS
<1>4. PICK parents : parents = {tip}
  OBVIOUS
<1>5. PICK synthetic : synthetic = TRUE
  OBVIOUS
<1>6. /\ \A p \in parents : p \in Written /\ Within(p, s.streams)
      /\ edits \in SUBSET File
  BY <1>3, <1>4, MarkerIs
<1>7. PICK event : event = NewEvent(s, parents, edits, synthetic)
  OBVIOUS
<1>8. Marker(s, tips) = event
  BY <1>3, <1>4, <1>5, <1>7 DEF Marker
<1>9. /\ event \in EventRecord /\ event.lamport = s.lamport + 1 /\ event.edits = edits
      /\ v = <<d, Len(log[d]) + 1>> /\ v \in File
  <2>1. synthetic \in BOOLEAN /\ parents \subseteq Written
    BY <1>5, <1>6
  <2> QED BY <1>6, <1>7, <2>1, NewEventIs
<1>10. PICK c : c = counted(d, s, event)
  OBVIOUS
<1>11. /\ c \in LocalState /\ c.cp = s.cp /\ c.lamport = s.lamport + 1
       /\ c.streams = [s.streams EXCEPT ![d] = @ + 1] /\ c.projection = s.projection
  BY <1>9, <1>10, CountedState
<1>12. PICK t : t = [c EXCEPT !.cp = k, !.lamport = c.lamport + 1]
  OBVIOUS
<1>13. log' = [log EXCEPT ![d] = Append(@, event)]
  BY <1>8 DEF writeEvent
<1>14. /\ log' \in [Devices -> Seq(EventRecord)]
       /\ present' \in [Devices -> SUBSET File] /\ gone' \subseteq File
  <2>1. X \subseteq File
    BY <1>0, WrittenIs DEF FilesInv
  <2>2. Append(log[d], event) \in Seq(EventRecord)
    BY <1>0, <1>9, AppendProperties DEF TypeOK
  <2>3. log' \in [Devices -> Seq(EventRecord)]
    BY <1>0, <1>13, <2>2 DEF TypeOK
  <2>4. present' \in [Devices -> SUBSET File] /\ gone' \subseteq File
    BY <1>0, <1>9, <2>1 DEF TypeOK
  <2> QED BY <2>3, <2>4
<1>15. createCheckpoint(d, c, tips, files, copies)
  BY <1>8, <1>10
<1>16. TypeOK' /\ Created(d, s, c, tip, k, t)
  BY <1>0, <1>1, <1>2, <1>11, <1>12, <1>14, <1>15, CreateIs
<1>29. /\ t.lamport = c.lamport + 1 /\ t.streams = c.streams
       /\ cps' = Append(cps, [author |-> d, lamport |-> t.lamport, pred |-> s.cp,
                              streams |-> t.streams, tip |-> tip])
  BY <1>16 DEF Created
<1>17. /\ \A w : w \in Written' <=> w \in Written \/ w = v
       /\ Event(v)' = event
       /\ Len(log'[d]) = Len(log[d]) + 1
       /\ \A e \in Devices : e # d => log'[e] = log[e]
       /\ \A e \in Devices : \A i \in 1..Len(log[e]) : log'[e][i] = log[e][i]
  BY <1>0, <1>9, <1>13, <1>16, WriteIs
<1>18. \A e \in Devices : /\ Len(log[e]) <= Len(log'[e])
                          /\ \A i \in 1..Len(log[e]) : log'[e][i] = log[e][i]
  BY <1>0, <1>17, WrittenIs
<1>19. Grows
  BY <1>0, <1>18, <1>29, GrowsByBoth
<1>20. EventsInv'
  BY <1>0, <1>6, <1>7, <1>13, <1>16, EventsKeep
<1>21. FilesInv'
  <2>0. PICK new : new = {v}
    OBVIOUS
  <2>1. present' = [present EXCEPT ![d] = (@ \ X) \cup new]
    BY <2>0
  <2>2. (\A w : w \in Written' <=> w \in Written \/ w \in new) /\ \A w \in new : w[1] = d
    BY <1>9, <1>17, <2>0
  <2> QED BY <1>0, <1>16, <2>1, <2>2, FilesKeep
<1>22. /\ s.lamport <= c.lamport
       /\ \A e \in Devices : s.streams[e] <= c.streams[e] /\
             (c.streams[e] <= Len(log[e]) \/ (e = d /\ c.streams[e] <= Len(log[e]) + 1))
       /\ \A w \in Written : Within(w, c.streams) => Within(w, s.streams)
       /\ \A w : w \in Written /\ Within(w, s.streams) => Within(w, c.streams)
  BY <1>11, CountedIs
<1>23. Event(tip)' = Event(tip)
  BY <1>0, <1>1, <1>16, <1>19, GrowsKeeps
<1>24. ASSUME NEW w \in Written', Within(w, t.streams)
       PROVE  Event(w)'.lamport < t.lamport /\ w \in Covered({tip})'
  <2>1. CASE w = v
    <3>1. Event(w)'.lamport < t.lamport
      BY <1>0, <1>9, <1>11, <1>17, <1>29, <2>1
    <3>2. w \in Covered({tip})'
      BY <1>3, <1>9, <1>17, <1>23, <2>1 DEF Covered, Closed
    <3> QED BY <3>1, <3>2
  <2>2. CASE w \in Written
    <3>1. Within(w, s.streams)
      BY <1>22, <1>24, <1>29, <2>2
    <3>2. Event(w)' = Event(w) /\ Event(w).lamport \in Nat
      BY <1>0, <1>16, <1>19, <2>2, GrowsKeeps, WrittenIs DEF EventRecord
    <3>3. Event(w).lamport <= s.lamport
      BY <1>0, <2>2, <3>1
    <3>4. Event(w)'.lamport < t.lamport
      BY <1>0, <1>11, <1>29, <3>2, <3>3
    <3>5. w \in Covered({tip})'
      BY <1>1, <1>16, <1>19, <2>2, <3>1, TipCovers
    <3> QED BY <3>4, <3>5
  <2> QED BY <1>17, <2>1, <2>2
<1>25. \A e \in Devices : s.streams[e] <= t.streams[e] /\ t.streams[e] <= Len(log'[e])
  <2> TAKE e \in Devices
  <2>1. Len(log[e]) \in Nat /\ (e # d => Len(log'[e]) = Len(log[e]))
    BY <1>0, <1>17, WrittenIs
  <2>2. c.streams[e] \in Nat
    BY <1>11 DEF LocalState
  <2> QED BY <1>17, <1>22, <1>29, <2>1, <2>2
<1>26. s.lamport <= c.lamport /\ c.lamport \in Nat /\ c.projection = s.projection
  BY <1>0, <1>11
<1>27. Within(tip, t.streams)
  BY <1>1, <1>22, <1>29
<1> QED
  BY <1>1, <1>2, <1>16, <1>18, <1>20, <1>21, <1>24, <1>25, <1>26, <1>27, CreateKeeps

(* The first checkpoint keeps the invariant.                               *)
LEMMA FirstCheckpointKeeps ==
    ASSUME IInv, NEW d \in Devices, NEW s, Ready(d, s),
           NEW tips, tips = TipsOf(s.cp, s.streams), FirstCheckpoint(d, s, tips)
    PROVE  IInv'
<1>1. PICK files : files = cpPresent[d]
  OBVIOUS
<1>2. PICK copies : copies = localCp[d]
  OBVIOUS
<1>3. copies \subseteq localCp[d] \cup {s.cp} /\ NoCheckpoint \notin copies
  BY <1>2 DEF IInv, TypeOK, NoCheckpoint
<1>4. PICK X : X = {}
  OBVIOUS
<1>5. present[d] \ X = present[d] /\ present = [present EXCEPT ![d] = present[d]]
  BY <1>4 DEF IInv, TypeOK
<1>6. /\ present' = present /\ gone' = gone /\ cpGone' = cpGone /\ log' = log
      /\ createCheckpoint(d, s, tips, files, copies)
      /\ tips # {} /\ ~Conflicting(tips)
  BY <1>1, <1>2 DEF FirstCheckpoint, MaintenanceMayRun
<1>7. /\ X \subseteq present[d] /\ gone' = gone \cup X
      /\ present' = [present EXCEPT ![d] = @ \ X]
      /\ cpGone' \subseteq Nat \ {0} /\ Deletes(d, s)
  BY <1>4, <1>5, <1>6 DEF IInv, TypeOK, Deletes
<1> QED BY <1>1, <1>3, <1>6, <1>7, FoldKeeps

(* A prune that folds a fresher checkpoint keeps the invariant.            *)
LEMMA PruneAndFoldKeeps ==
    ASSUME IInv, NEW d \in Devices, NEW s, Ready(d, s),
           NEW tips, tips = TipsOf(s.cp, s.streams), PruneAndFold(d, s, tips)
    PROVE  IInv'
<1>1. PICK files : files = cpPresent[d] \ Superseded(d, s.cp)
  OBVIOUS
<1>2. PICK copies : copies = localCp[d] \cup {s.cp}
  OBVIOUS
<1>3. s.cp # NoCheckpoint /\ tips # {} /\ ~Conflicting(tips)
      /\ GatesOpen(d, s.cp) /\ deleteFolded(d, s.cp)
  BY DEF PruneAndFold, GatesOpen, MaintenanceMayRun
<1>4. /\ files \subseteq cpPresent[d] /\ copies \subseteq localCp[d] \cup {s.cp}
      /\ NoCheckpoint \notin copies
  BY <1>1, <1>2, <1>3 DEF IInv, TypeOK, NoCheckpoint
<1>5. PICK X : X = Folded(d, s.cp)
  OBVIOUS
<1>6. /\ X \subseteq present[d] /\ gone' = gone \cup X
      /\ Deletes(d, s) /\ cpGone' \subseteq Nat \ {0}
  BY <1>3, <1>5, PruneDeletes DEF deleteFolded
<1>7. \/ /\ present' = [present EXCEPT ![d] = @ \ X]
         /\ createCheckpoint(d, s, tips, files, copies)
         /\ UNCHANGED log
      \/ /\ writeEvent(d, s, Marker(s, tips))
         /\ present' = [present EXCEPT ![d] = (@ \ X) \cup {NewVersion(d, s)}]
         /\ createCheckpoint(d, counted(d, s, Marker(s, tips)), tips, files, copies)
  BY <1>1, <1>2, <1>5 DEF PruneAndFold
<1>8. CASE /\ present' = [present EXCEPT ![d] = @ \ X]
           /\ createCheckpoint(d, s, tips, files, copies)
           /\ UNCHANGED log
  BY <1>3, <1>4, <1>6, <1>8, FoldKeeps
<1>9. CASE /\ writeEvent(d, s, Marker(s, tips))
           /\ present' = [present EXCEPT ![d] = (@ \ X) \cup {NewVersion(d, s)}]
           /\ createCheckpoint(d, counted(d, s, Marker(s, tips)), tips, files, copies)
  BY <1>3, <1>4, <1>6, <1>9, MarkerFoldKeeps
<1> QED BY <1>7, <1>8, <1>9

(* Every step of a device keeps the invariant.                             *)
LEMMA DeviceKeeps ==
    ASSUME IInv, NEW d \in Devices, Device(d)
    PROVE  IInv'
<1>0. TypeOK /\ EventsInv /\ FilesInv /\ CpsInv /\ GoneInv /\ DeviceInv(d)
  BY DEF IInv
<1>1. PICK absorbed : absorbed = absorb(d, st[d], Winner(d))
  OBVIOUS
<1>2. Half(d, absorbed)
  BY <1>0, <1>1, AbsorbIsHalf
<1>3. PICK recovered : recovered = recoverOwnStream(d, absorbed)
  OBVIOUS
<1>4. Half(d, recovered) /\ recovered.streams[d] = Len(log[d])
  BY <1>0, <1>2, <1>3, RecoverIsHalf
<1>5. PICK s : s = reconcile(d, recovered)
  OBVIOUS
<1>6. PICK tips : tips = TipsOf(s.cp, s.streams)
  OBVIOUS
<1>7. PinnedVisible(d, recovered) => Ready(d, s)
  BY <1>0, <1>4, <1>5, ReconcileIsReady
<1>8. recovered.cp = s.cp
  BY <1>5 DEF reconcile
<1>9. \/ CycleThrows(d, absorbed)
      \/ CycleThrows(d, recovered)
      \/ /\ PinnedVisible(d, recovered)
         /\ \/ Cycle(d, s, tips)
            \/ PublishEdit(d, s, tips)
            \/ PublishCrash(d, s, tips, recovered)
            \/ ResolveConflict(d, s, tips)
            \/ FirstCheckpoint(d, s, tips)
            \/ Prune(d, s, tips)
            \/ PruneAndFold(d, s, tips)
  BY <1>1, <1>3, <1>5, <1>6 DEF Device
<1>10. CASE CycleThrows(d, absorbed)
  BY <1>2, <1>10, CycleThrowsKeeps
<1>11. CASE CycleThrows(d, recovered)
  BY <1>4, <1>11, CycleThrowsKeeps
<1>12. CASE PinnedVisible(d, recovered) /\ Cycle(d, s, tips)
  BY <1>6, <1>7, <1>12, CycleKeeps
<1>13. CASE PinnedVisible(d, recovered) /\ PublishEdit(d, s, tips)
  BY <1>6, <1>7, <1>13, PublishEditKeeps
<1>14. CASE PinnedVisible(d, recovered) /\ PublishCrash(d, s, tips, recovered)
  BY <1>4, <1>6, <1>7, <1>8, <1>14, PublishCrashKeeps
<1>15. CASE PinnedVisible(d, recovered) /\ ResolveConflict(d, s, tips)
  BY <1>6, <1>7, <1>15, ResolveConflictKeeps
<1>16. CASE PinnedVisible(d, recovered) /\ FirstCheckpoint(d, s, tips)
  BY <1>6, <1>7, <1>16, FirstCheckpointKeeps
<1>17. CASE PinnedVisible(d, recovered) /\ Prune(d, s, tips)
  BY <1>6, <1>7, <1>17, PruneKeeps
<1>18. CASE PinnedVisible(d, recovered) /\ PruneAndFold(d, s, tips)
  BY <1>6, <1>7, <1>18, PruneAndFoldKeeps
<1> QED BY <1>9, <1>10, <1>11, <1>12, <1>13, <1>14, <1>15, <1>16, <1>17, <1>18

(* The invariant holds initially.                                          *)
LEMMA InitHolds == Init => IInv
<1> SUFFICES ASSUME Init PROVE IInv
  OBVIOUS
<1>1. \A d \in Devices : log[d] = <<>> /\ DOMAIN log[d] = {} /\ Len(log[d]) = 0
  BY DEF Init
<1>2. Written = {}
  BY <1>1 DEF Written
<1>3. cps = <<>> /\ DOMAIN cps = {} /\ Len(cps) = 0
  BY DEF Init
<1>4. PICK s : s = [lamport |-> 0, streams |-> [e \in Devices |-> 0],
                    cp |-> NoCheckpoint, projection |-> NoVersion, disk |-> {}]
  OBVIOUS
<1>5. s \in LocalState
  BY <1>4 DEF LocalState, NoCheckpoint, NoVersion
<1>6. \A d \in Devices : /\ st[d] = s /\ acked[d] = {} /\ localCp[d] = {}
                         /\ present[d] = {} /\ cpPresent[d] = {}
  BY <1>4 DEF Init
<1>7. TypeOK
  <2>1. log \in [Devices -> Seq(EventRecord)] /\ cps \in Seq(CheckpointRecord)
    BY DEF Init
  <2>2. st \in [Devices -> LocalState]
    BY <1>4, <1>5 DEF Init
  <2>3. /\ present \in [Devices -> SUBSET File] /\ gone \subseteq File
        /\ cpPresent \in [Devices -> SUBSET (Nat \ {0})] /\ cpGone \subseteq Nat \ {0}
        /\ localCp \in [Devices -> SUBSET (Nat \ {0})]
        /\ acked \in [Devices -> SUBSET (Nat \ {0})]
    BY DEF Init
  <2> QED BY <2>1, <2>2, <2>3 DEF TypeOK
<1>8. EventsInv /\ FilesInv /\ CpsInv
  BY <1>2, <1>3, <1>6 DEF EventsInv, FilesInv, CpsInv, Init
<1>9. ASSUME NEW d \in Devices PROVE DeviceInv(d)
  <2>1. StateInv(d, s)
    BY <1>1, <1>2, <1>3, <1>4 DEF StateInv
  <2>2. st[d].cp = NoCheckpoint
    BY <1>4, <1>6
  <2> QED BY <1>6, <2>1, <2>2 DEF DeviceInv
<1>10. GoneInv
  BY DEF Init, GoneInv
<1> QED BY <1>7, <1>8, <1>9, <1>10 DEF IInv

(* A step that changes nothing keeps the invariant.                        *)
LEMMA StutterKeeps ==
    ASSUME IInv, UNCHANGED vars
    PROVE  IInv'
<1>1. /\ UNCHANGED <<log, cps>> /\ present' = present /\ gone' = gone
      /\ cpPresent' = cpPresent /\ cpGone' = cpGone /\ localCp' = localCp
      /\ acked' = acked /\ st' = st
  BY DEF vars
<1>2. TypeOK'
  BY <1>1 DEF IInv, TypeOK
<1>3. /\ Written' = Written /\ EventsInv' /\ CpsInv'
      /\ \A d, s : StateInv(d, s) => StateInv(d, s)'
  BY <1>1, SameLog DEF IInv
<1>4. FilesInv'
  BY <1>1, <1>3 DEF IInv, FilesInv
<1>5. \A j, k : CpNewer(j, k)' <=> CpNewer(j, k)
  BY <1>1 DEF CpNewer
<1>6. \A k : CpStreams(k)' = CpStreams(k)
  BY <1>1 DEF CpStreams
<1>7. \A e \in Devices : \A a : Had(e, a) => Had(e, a)'
  BY <1>1, <1>5, <1>6 DEF Had
<1>8. ASSUME NEW d \in Devices PROVE DeviceInv(d)'
  <2>1. DeviceInv(d)
    BY DEF IInv
  <2> PICK s : s = st[d]
    OBVIOUS
  <2>2. StateInv(d, s)'
    BY <1>3, <2>1 DEF DeviceInv
  <2>3. st'[d] = s
    BY <1>1
  <2>4. StateInv(d, st[d])'
    BY <2>2, <2>3 DEF StateInv
  <2> QED BY <1>1, <1>7, <2>1, <2>4 DEF DeviceInv
<1>9. GoneInv'
  BY <1>1, <1>7 DEF IInv, GoneInv
<1> QED BY <1>2, <1>3, <1>4, <1>8, <1>9 DEF IInv

(* The invariant is inductive.                                             *)
LEMMA NextKeeps == IInv /\ [Next]_vars => IInv'
<1> SUFFICES ASSUME IInv, [Next]_vars PROVE IInv'
  OBVIOUS
<1>1. ASSUME NEW d \in Devices, Provider(d) PROVE IInv'
  BY <1>1, ProviderKeeps
<1>2. ASSUME NEW d \in Devices, Device(d) PROVE IInv'
  BY <1>2, DeviceKeeps
<1> QED BY <1>1, <1>2, StutterKeeps DEF Next

-----------------------------------------------------------------------------
(* What the invariant says of the folder.                                  *)

(* The inductive invariant holds in every state.                           *)
THEOREM Invariance == Spec => []IInv
  BY InitHolds, NextKeeps, PTL DEF Spec

(* The folder, the acknowledgements and the local states have their types, *)
(* whatever the provider delivers.                                         *)
THEOREM TypeCorrect == Spec => []TypeOK
<1>1. IInv => TypeOK
  BY DEF IInv
<1> QED BY <1>1, Invariance, PTL

(* Lamport values order every event after all it knew and every checkpoint *)
(* after all it folds, for any number of devices (publish,                 *)
(* createCheckpoint, reconcile).                                           *)
THEOREM CausalityIsRespected == Spec => []LamportRespectsCausality
<1>1. IInv => LamportRespectsCausality
  <2> SUFFICES ASSUME IInv PROVE LamportRespectsCausality
    OBVIOUS
  <2>1. \A v \in Written : \A w \in Event(v).past : Event(w).lamport < Event(v).lamport
    BY DEF IInv, EventsInv
  <2>2. \A k \in DOMAIN cps : \A v \in Written :
            v[2] <= cps[k].streams[v[1]] => Event(v).lamport < cps[k].lamport
    BY DEF IInv, CpsInv, CpInv, Within
  <2> QED BY <2>1, <2>2 DEF LamportRespectsCausality
<1> QED BY <1>1, Invariance, PTL

(* However files, checkpoints and deletions arrive, no checkpoint that can *)
(* still win wants a deleted event (pruneWithGates).                       *)
THEOREM NobodyIsStranded == Spec => []PruneStrandsNobody
<1>1. IInv => PruneStrandsNobody
  <2> SUFFICES ASSUME IInv, NEW d \in Devices, NEW v \in gone
               PROVE  /\ v[2] <= CpStreams(st[d].cp)[v[1]]
                      /\ \A k \in DOMAIN cps :
                             CpNewer(k, st[d].cp) => v[2] <= cps[k].streams[v[1]]
    BY DEF PruneStrandsNobody
  <2>1. TypeOK /\ CpsInv
    BY DEF IInv
  <2>2. PICK a \in DOMAIN cps : Within(v, cps[a].streams) /\ \A e \in Devices : Had(e, a)
    BY DEF IInv, GoneInv
  <2>3. /\ v[1] \in Devices /\ v[2] \in Nat
        /\ CpStreams(a) = cps[a].streams /\ cps[a].streams \in [Devices -> Nat]
    BY <2>1, CheckpointsAre, WrittenIs DEF TypeOK, File, CheckpointRecord
  <2>4. ASSUME NEW k \in DOMAIN cps, k = a \/ CpNewer(k, a)
        PROVE  v[2] <= cps[k].streams[v[1]]
    <3>1. CASE k = a
      BY <2>2, <3>1 DEF Within
    <3>2. CASE CpNewer(k, a)
      <4>1. cps[k].author \in Devices /\ cps[k].streams \in [Devices -> Nat]
        BY <2>1, CheckpointsAre DEF CheckpointRecord
      <4>2. CpStreams(a)[v[1]] <= cps[k].streams[v[1]]
        BY <2>2, <2>3, <3>2, <4>1 DEF Had
      <4>3. cps[a].streams[v[1]] \in Nat /\ cps[k].streams[v[1]] \in Nat
        BY <2>3, <4>1
      <4> QED BY <2>2, <2>3, <4>2, <4>3 DEF Within
    <3> QED BY <2>4, <3>1, <3>2
  <2> PICK c : c = st[d].cp
    OBVIOUS
  <2>5. c \in {NoCheckpoint} \cup DOMAIN cps /\ (c = a \/ CpNewer(c, a))
    BY <2>2 DEF IInv, DeviceInv, StateInv, Had
  <2>6. c \in DOMAIN cps /\ CpStreams(c) = cps[c].streams
    BY <2>1, <2>5, CheckpointsAre DEF CpNewer
  <2>7. v[2] <= CpStreams(c)[v[1]]
    BY <2>4, <2>5, <2>6
  <2>8. \A k \in DOMAIN cps : CpNewer(k, c) => CpNewer(k, a)
    BY <2>1, <2>5, <2>6, NewerIsAnOrder
  <2> QED BY <2>4, <2>7, <2>8
<1> QED BY <1>1, Invariance, PTL

(* Whatever was accepted or folded, the tips of the device stand for it    *)
(* (reconcile, createCheckpoint, chooseActiveTip).                         *)
THEOREM NoEditIsDropped == Spec => []NoEditDropped
<1>1. IInv => NoEditDropped
  <2> SUFFICES ASSUME IInv, NEW d \in Devices, NEW v \in Written,
                      v[2] <= st[d].streams[v[1]]
               PROVE  v \in Covered(TipsOf(st[d].cp, st[d].streams))
    BY DEF NoEditDropped
  <2> PICK k : k = st[d].cp
    OBVIOUS
  <2> PICK streams : streams = st[d].streams
    OBVIOUS
  <2>1. TypeOK /\ EventsInv /\ CpsInv
    BY DEF IInv
  <2>2. /\ k \in {NoCheckpoint} \cup DOMAIN cps /\ streams \in [Devices -> Nat]
        /\ \A e \in Devices : streams[e] <= Len(log[e])
    BY DEF IInv, DeviceInv, StateInv, TypeOK, LocalState
  <2>3. Within(v, streams)
    BY DEF Within
  <2> QED BY <2>1, <2>2, <2>3, TipsCover
<1> QED BY <1>1, Invariance, PTL
=============================================================================
