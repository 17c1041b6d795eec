------------------------ MODULE ProgressProofs ------------------------
(***************************************************************************)
(* The safety of what one device must get on with: the election, for any   *)
(* number of hosts, calls and failures; the scan of the user's files; and  *)
(* the device's own stream.  Each has an inductive invariant of its own.   *)
(*                                                                         *)
(* The heart of the election's is HostInv: a host that is meant to run has *)
(* exactly one way ahead.  It is active, or its probe is scheduled, or the *)
(* last operation of its queue, and no other, is current.                  *)
(***************************************************************************)
EXTENDS MCProgress, SequenceTheorems, WellFoundedInduction, TLAPS

Last(q) == q[Len(q)]

(* The queue q of a host in mode m: only its last operation may be current,*)
(* and it is unless it is a stop; a current probe is alone.                *)
QueueInv(q, m) ==
    /\ \A i \in 1..Len(q) :
           q[i].gen = "latest" => i = Len(q) /\ m = "run" /\ q[i].op # "stop"
    /\ q # <<>> => Last(q).gen = "latest" \/ Last(q).op = "stop"
    /\ q # <<>> /\ Last(q).gen = "latest" /\ Last(q).op = "probe" => Len(q) = 1

HostInv(h) ==
    /\ QueueInv(queue[h], mode[h])
    /\ mode[h] = "run" =>
           h \in activated \/ h \in probe \/ (queue[h] # <<>> /\ Last(queue[h]).gen = "latest")
    /\ h \in activated => queue[h] = <<>> /\ h \notin probe /\ h \in owned
    /\ h \in probe => queue[h] = <<>> /\ mode[h] = "run" /\ h \notin owned /\ h \notin releasing
    /\ h \in owned => mode[h] = "run" /\ h \notin releasing
    /\ h \in owned => h \in activated \/ at[h] \in {"open", "prepare", "settle"}
    /\ h \in runtime => h \in owned
    /\ queue[h] # <<>> /\ at[h] = "idle" /\ Head(queue[h]).op = "probe" /\ Cur(h)
           => h \notin releasing /\ h \notin owned
    /\ h \in releasing => queue[h] # <<>>

(* Who has the lock file: its owner, until it is moved away or released.   *)
FileAt(h) ==
    /\ h \in owned \/ at[h] = "acquired" => h \in Live /\ (h \notin displaced => file = h)
    /\ file = h /\ h \in Live => h \in owned \/ at[h] = "acquired" \/ h \in releasing

FileInv == \A h \in Host : FileAt(h)

IInv == TypeOK /\ (\A h \in Host : HostInv(h)) /\ FileInv

-----------------------------------------------------------------------------
(* The queue.                                                              *)

(* Making a queue stale keeps it a queue of the same operations.           *)
LEMMA StaleQueue ==
    ASSUME NEW q \in Seq(Operations)
    PROVE  /\ Stale(q) \in Seq(Operations)
           /\ Len(Stale(q)) = Len(q)
           /\ \A i \in 1..Len(q) : Stale(q)[i].op = q[i].op /\ Stale(q)[i].gen = "old"
<1>1. Len(q) \in Nat /\ DOMAIN q = 1..Len(q) /\ \A i \in 1..Len(q) : q[i] \in Operations
  BY LenProperties, ElementOfSeq
<1>2. \A i \in 1..Len(q) : [op |-> q[i].op, gen |-> "old"] \in Operations
  BY <1>1 DEF Operations
<1>3. Stale(q) \in [1..Len(q) -> Operations]
  BY <1>1, <1>2 DEF Stale
<1>4. Stale(q) \in Seq(Operations)
  BY <1>1, <1>3, SeqDef
<1>5. Len(Stale(q)) = Len(q)
  BY <1>1, <1>3, <1>4, LenProperties
<1>6. QED
  BY <1>1, <1>2, <1>4, <1>5 DEF Stale

(* What a call leaves in the queue (enqueue).                              *)
LEMMA PushedQueue ==
    ASSUME NEW q \in Seq(Operations), NEW e \in Operations,
           NEW r, r = Append(Stale(q), e)
    PROVE  /\ r \in Seq(Operations) /\ r # <<>> /\ Last(r) = e
           /\ \A i \in 1..Len(r) : r[i].gen = "latest" => i = Len(r)
           /\ q # <<>> => Head(r).op = Head(q).op /\ Head(r).gen = "old"
           /\ q = <<>> => Head(r) = e
<1>1. /\ Stale(q) \in Seq(Operations) /\ Len(Stale(q)) = Len(q) /\ Len(q) \in Nat
      /\ \A i \in 1..Len(q) : Stale(q)[i].op = q[i].op /\ Stale(q)[i].gen = "old"
  BY StaleQueue, LenProperties
<1>2. /\ r \in Seq(Operations) /\ Len(r) = Len(q) + 1 /\ r[Len(r)] = e
      /\ \A i \in 1..Len(q) : r[i].op = q[i].op /\ r[i].gen = "old"
  BY <1>1, AppendProperties
<1>3. ASSUME NEW i \in 1..Len(r), r[i].gen = "latest" PROVE i = Len(r)
  <2>1. CASE i = Len(r)
    BY <2>1
  <2>2. CASE i \in 1..Len(q)
    <3>1. r[i].gen = "old"
      BY <1>2, <2>2
    <3>2. QED
      BY <1>3, <3>1
  <2>3. QED
    BY <1>1, <1>2, <2>1, <2>2
<1>4. r # <<>>
  BY <1>1, <1>2, Len(<<>>) = 0
<1>5. ASSUME q # <<>> PROVE Head(r).op = Head(q).op /\ Head(r).gen = "old"
  <2>1. 1 \in 1..Len(q)
    BY <1>1, <1>5, EmptySeq
  <2>2. Head(q) = q[1] /\ Head(r) = r[1]
    BY <1>4, <1>5
  <2>3. r[1].op = q[1].op /\ r[1].gen = "old"
    BY <1>2, <2>1
  <2>4. QED
    BY <2>2, <2>3
<1>6. ASSUME q = <<>> PROVE Head(r) = e
  <2>1. Len(q) = 0 /\ Head(r) = r[1]
    BY <1>4, <1>6
  <2>2. QED
    BY <1>2, <2>1
<1>7. QED
  BY <1>2, <1>3, <1>4, <1>5, <1>6 DEF Last

(* What an operation that ends leaves in the queue (done).                 *)
LEMMA PoppedQueue ==
    ASSUME NEW q \in Seq(Operations), NEW m, q # <<>>, QueueInv(q, m),
           NEW r \in Seq(Operations), Len(r) = Len(q) - 1,
           \A i \in 1..Len(r) : r[i] = q[i + 1]
    PROVE  /\ QueueInv(r, m)
           /\ Head(q) \in Operations /\ (Head(q).gen = "latest" => m = "run")
           /\ Head(q).op = "stop" => Head(q).gen = "old"
           /\ r # <<>> => ~(Last(r).gen = "latest" /\ Last(r).op = "probe")
           /\ r # <<>> => Head(q).gen = "old" /\ Last(r) = Last(q)
           /\ r = <<>> => Head(q) = Last(q)
           /\ r # <<>> /\ Head(r).gen = "latest" => Head(r) = Last(r)
<1>1. /\ Len(q) \in Nat \ {0} /\ Len(r) = Len(q) - 1
      /\ Head(q) \in Operations /\ Head(q) = q[1]
      /\ \A i \in 1..Len(r) : r[i] = q[i + 1]
  BY HeadTailProperties, EmptySeq
<1>2. \A i \in 1..Len(q) :
          q[i].gen = "latest" => i = Len(q) /\ m = "run" /\ q[i].op # "stop"
  BY DEF QueueInv
<1>3. ASSUME NEW i \in 1..Len(r), r[i].gen = "latest"
      PROVE  i = Len(r) /\ m = "run" /\ r[i].op # "stop"
  <2>1. PICK j \in 1..Len(q) : j = i + 1 /\ r[i] = q[j]
    BY <1>1
  <2>2. q[j].gen = "latest"
    BY <1>3, <2>1
  <2>3. j = Len(q) /\ m = "run" /\ q[j].op # "stop"
    BY <1>2, <2>2
  <2>4. i = Len(r)
    BY <1>1, <2>1, <2>3
  <2>5. r[i].op = q[j].op
    BY <2>1
  <2>6. QED
    BY <2>3, <2>4, <2>5
<1>4. ASSUME r # <<>>
      PROVE  /\ Len(r) \in Nat \ {0} /\ Head(r) = r[1]
             /\ Last(r) = Last(q) /\ Head(q).gen = "old"
  <2>1. Len(r) \in Nat \ {0} /\ Head(r) = r[1]
    BY <1>1, <1>4, EmptySeq
  <2>2. Last(r) = Last(q)
    <3>1. Len(r) \in 1..Len(r) /\ Len(r) + 1 = Len(q)
      BY <1>1, <2>1
    <3>2. QED
      BY <1>1, <3>1 DEF Last
  <2>3. Head(q).gen # "latest"
    <3>1. 1 \in 1..Len(q) /\ 1 # Len(q)
      BY <1>1, <2>1
    <3>2. q[1].gen # "latest"
      BY <1>2, <3>1
    <3>3. QED
      BY <1>1, <3>2
  <2>4. QED
    BY <1>1, <2>1, <2>2, <2>3 DEF Operations
<1>5. ASSUME r = <<>> PROVE Head(q) = Last(q)
  <2>1. Len(r) = 0
    BY <1>5, Len(<<>>) = 0
  <2>2. Len(q) = 1
    BY <1>1, <2>1
  <2>3. QED
    BY <1>1, <2>2 DEF Last
<1>6. QueueInv(r, m)
  <2>1. r # <<>> => ~(Last(r).gen = "latest" /\ Last(r).op = "probe")
    BY <1>1, <1>4 DEF QueueInv
  <2>2. QED
    BY <1>3, <1>4, <2>1 DEF QueueInv
<1>7. ASSUME r # <<>>, Head(r).gen = "latest" PROVE Head(r) = Last(r)
  <2>1. 1 \in 1..Len(r) /\ r[1].gen = "latest"
    BY <1>4, <1>7
  <2>2. QED
    BY <1>3, <1>4, <2>1 DEF Last
<1>8. Head(q).gen = "latest" => m = "run"
  <2>1. 1 \in 1..Len(q)
    BY <1>1
  <2>2. QED
    BY <1>1, <1>2, <2>1
<1>9. Head(q).op = "stop" => Head(q).gen = "old"
  <2>1. 1 \in 1..Len(q)
    BY <1>1
  <2>2. Head(q).gen = "latest" => Head(q).op # "stop"
    BY <1>1, <1>2, <2>1
  <2>3. QED
    BY <1>1, <2>2 DEF Operations
<1>10. r # <<>> => ~(Last(r).gen = "latest" /\ Last(r).op = "probe")
  BY <1>1, <1>4 DEF QueueInv
<1>11. QED
  BY <1>1, <1>4, <1>5, <1>6, <1>7, <1>8, <1>9, <1>10

-----------------------------------------------------------------------------
(* A step of one host leaves the others alone.                             *)

Same(g) ==
    /\ queue'[g] = queue[g] /\ at'[g] = at[g] /\ mode'[g] = mode[g]
    /\ g \in owned' <=> g \in owned
    /\ g \in releasing' <=> g \in releasing
    /\ g \in activated' <=> g \in activated
    /\ g \in probe' <=> g \in probe
    /\ g \in runtime' <=> g \in runtime

LEMMA OthersKeep ==
    ASSUME NEW g, HostInv(g), Same(g) PROVE HostInv(g)'
BY DEF HostInv, Same, QueueInv, Last, Cur

Counted == calls' \in 0..MaxCalls /\ failures' \in 0..MaxFailures

LEMMA CalledCounts == ASSUME TypeOK, Called PROVE Counted
BY HostAssumption DEF TypeOK, Called, Counted

LEMMA FailsCounts == ASSUME TypeOK, Fails PROVE Counted
BY HostAssumption DEF TypeOK, Fails, Counted

(* Calls and lost locks: standAside.                                       *)
LEMMA StandAsideKeeps ==
    ASSUME IInv, NEW h \in Live, NEW op \in {"start", "stop", "lost"},
           NEW gen \in {"latest", "old"}, gen = "latest" <=> op # "stop",
           standAside(h, op, gen), UNCHANGED <<shared, at>>, Counted,
           mode' \in [Host -> {"run", "stopped", "disposed"}],
           gen = "latest" <=> mode'[h] = "run",
           \A g \in Host \ {h} : mode'[g] = mode[g]
    PROVE  IInv'
<1> USE DEF IInv, Live
<1>1. /\ queue[h] \in Seq(Operations) /\ [op |-> op, gen |-> gen] \in Operations
      /\ queue'[h] = Append(Stale(queue[h]), [op |-> op, gen |-> gen])
      /\ h \in Host
  BY DEF TypeOK, standAside, set, Operations
<1>2. /\ queue'[h] \in Seq(Operations) /\ queue'[h] # <<>>
      /\ Last(queue'[h]) = [op |-> op, gen |-> gen]
      /\ \A i \in 1..Len(queue'[h]) : queue'[h][i].gen = "latest" => i = Len(queue'[h])
      /\ queue[h] # <<>> => Head(queue'[h]).op = Head(queue[h]).op
                            /\ Head(queue'[h]).gen = "old"
      /\ queue[h] = <<>> => Head(queue'[h]) = [op |-> op, gen |-> gen]
  BY <1>1, PushedQueue, ZenonT(40)
<1>3. TypeOK'
  <2>1. queue' \in [Host -> Seq(Operations)]
    BY <1>1, <1>2 DEF TypeOK, standAside, set
  <2>2. \A g \in Host :
            /\ at'[g] # "idle" => queue'[g] # <<>> /\ Head(queue'[g]).op \in {"start", "probe"}
            /\ at'[g] \in {"acquire", "acquired"} => g \notin releasing' /\ g \notin owned'
    <3>1. SUFFICES ASSUME NEW g \in Host
                   PROVE  /\ at'[g] # "idle" => /\ queue'[g] # <<>>
                                               /\ Head(queue'[g]).op \in {"start", "probe"}
                          /\ at'[g] \in {"acquire", "acquired"}
                                => g \notin releasing' /\ g \notin owned'
      OBVIOUS
    <3>2. CASE g = h
      BY <1>2, <3>2 DEF TypeOK, standAside, shared
    <3>3. CASE g # h
      BY <3>3 DEF TypeOK, standAside, set, shared
    <3>4. QED
      BY <3>2, <3>3
  <2>3. QED
    BY <2>1, <2>2 DEF TypeOK, standAside, shared, Counted
<1>4. HostInv(h)'
  <2>1. QueueInv(queue'[h], mode'[h])
    <3>1. ASSUME NEW i \in 1..Len(queue'[h]), queue'[h][i].gen = "latest"
          PROVE  i = Len(queue'[h]) /\ mode'[h] = "run" /\ queue'[h][i].op # "stop"
      <4>1. i = Len(queue'[h])
        BY <1>2, <3>1
      <4>2. queue'[h][i] = [op |-> op, gen |-> gen]
        BY <1>2, <4>1 DEF Last
      <4>3. gen = "latest"
        BY <3>1, <4>2
      <4>4. QED
        BY <4>1, <4>2, <4>3
    <3>2. Last(queue'[h]).op # "probe"
      BY <1>2
    <3>3. QED
      BY <1>2, <3>1, <3>2 DEF QueueInv
  <2>2. /\ h \notin activated' /\ h \notin probe' /\ h \notin owned' /\ h \notin runtime'
        /\ h \in releasing' => queue'[h] # <<>>
    BY <1>2 DEF standAside
  <2>3. mode'[h] = "run" => queue'[h] # <<>> /\ Last(queue'[h]).gen = "latest"
    BY <1>2
  <2>4. ~(Head(queue'[h]).op = "probe" /\ Head(queue'[h]).gen = "latest")
    BY <1>2
  <2>5. QED
    BY <2>1, <2>2, <2>3, <2>4 DEF HostInv, Cur
<1>5. ASSUME NEW g \in Host \ {h} PROVE HostInv(g)'
  <2>1. Same(g)
    BY <1>5 DEF TypeOK, standAside, set, Same
  <2>2. QED
    BY <2>1, OthersKeep
<1>6. FileInv'
  BY <1>1 DEF FileInv, FileAt, HostInv, TypeOK, standAside, shared
<1>7. QED
  BY <1>3, <1>4, <1>5, <1>6

(* What the end of an operation leaves behind: done.                       *)
LEMMA DoneQueue ==
    ASSUME IInv, NEW h \in Host, queue[h] # <<>>, done(h)
    PROVE  /\ queue'[h] \in Seq(Operations) /\ at'[h] = "idle"
           /\ queue' = [queue EXCEPT ![h] = queue'[h]] /\ at' = [at EXCEPT ![h] = "idle"]
           /\ QueueInv(queue'[h], mode[h]) /\ Head(queue[h]) \in Operations
           /\ Cur(h) => mode[h] = "run"
           /\ Head(queue[h]).op = "stop" => ~Cur(h)
           /\ queue'[h] # <<>> =>
                  ~(Last(queue'[h]).gen = "latest" /\ Last(queue'[h]).op = "probe")
           /\ queue'[h] # <<>> => ~Cur(h) /\ Last(queue'[h]) = Last(queue[h])
           /\ queue'[h] = <<>> => Head(queue[h]) = Last(queue[h])
           /\ queue'[h] # <<>> /\ Head(queue'[h]).gen = "latest"
                  => Head(queue'[h]) = Last(queue'[h])
<1> USE DEF IInv
<1>1. /\ queue[h] \in Seq(Operations) /\ QueueInv(queue[h], mode[h])
      /\ queue'[h] = Tail(queue[h]) /\ queue' = [queue EXCEPT ![h] = queue'[h]]
      /\ at' = [at EXCEPT ![h] = "idle"] /\ at'[h] = "idle"
  BY DEF TypeOK, HostInv, done, set
<1>2. /\ queue'[h] \in Seq(Operations) /\ Len(queue'[h]) = Len(queue[h]) - 1
      /\ \A i \in 1..Len(queue'[h]) : queue'[h][i] = queue[h][i + 1]
  BY <1>1, HeadTailProperties
<1>3. /\ QueueInv(queue'[h], mode[h]) /\ Head(queue[h]) \in Operations
      /\ Head(queue[h]).gen = "latest" => mode[h] = "run"
      /\ Head(queue[h]).op = "stop" => Head(queue[h]).gen = "old"
      /\ queue'[h] # <<>> =>
             ~(Last(queue'[h]).gen = "latest" /\ Last(queue'[h]).op = "probe")
      /\ queue'[h] # <<>> => /\ Head(queue[h]).gen = "old"
                             /\ Last(queue'[h]) = Last(queue[h])
      /\ queue'[h] = <<>> => Head(queue[h]) = Last(queue[h])
      /\ queue'[h] # <<>> /\ Head(queue'[h]).gen = "latest"
             => Head(queue'[h]) = Last(queue'[h])
  BY <1>1, <1>2, PoppedQueue
<1>4. QED
  BY <1>1, <1>2, <1>3 DEF Cur

(* The steps that leave the queue as it is.                               *)
LEMMA ReleaseEndsKeeps ==
    ASSUME IInv, NEW h \in Live, ReleaseEnds(h) PROVE IInv'
<1> USE DEF IInv, Live, ReleaseEnds, shared, counters, set
<1>2. TypeOK'
  BY DEF TypeOK, Operations, Counted
<1>3. HostInv(h)'
  BY DEF TypeOK, HostInv, QueueInv, Last, Cur, Foreign
<1>4. ASSUME NEW g \in Host \ {h} PROVE HostInv(g)'
  <2>1. Same(g)
    BY <1>4 DEF TypeOK, Same
  <2>2. QED
    BY <2>1, OthersKeep
<1>5. FileInv'
  <2>1. SUFFICES ASSUME NEW g \in Host PROVE FileAt(g)'
    BY DEF FileInv
  <2>2. CASE g = h
    BY <2>2, HostAssumption DEF TypeOK, FileInv, FileAt, HostInv, Foreign
  <2>3. CASE g # h
    BY <2>3, HostAssumption DEF TypeOK, FileInv, FileAt
  <2>4. QED
    BY <2>2, <2>3
<1>6. QED
  BY <1>2, <1>3, <1>4, <1>5

(* The lock file is created.                                              *)
LEMMA AcquireKeeps ==
    ASSUME IInv, NEW h \in Live, Acquire(h) PROVE IInv'
<1> USE DEF IInv, Live, Acquire, shared, counters, set
<1>2. TypeOK'
  BY DEF TypeOK, Operations, Counted
<1>3. HostInv(h)'
  BY DEF TypeOK, HostInv, QueueInv, Last, Cur, Foreign
<1>4. ASSUME NEW g \in Host \ {h} PROVE HostInv(g)'
  <2>1. Same(g)
    BY <1>4 DEF TypeOK, Same
  <2>2. QED
    BY <2>1, OthersKeep
<1>5. FileInv'
  <2>1. SUFFICES ASSUME NEW g \in Host PROVE FileAt(g)'
    BY DEF FileInv
  <2>2. CASE g = h
    BY <2>2, HostAssumption DEF TypeOK, FileInv, FileAt, HostInv, Foreign
  <2>3. CASE g # h
    BY <2>3, HostAssumption DEF TypeOK, FileInv, FileAt
  <2>4. QED
    BY <2>2, <2>3
<1>6. QED
  BY <1>2, <1>3, <1>4, <1>5

(* The lock is owned, or given back at once.                              *)
LEMMA InstallKeeps ==
    ASSUME IInv, NEW h \in Live, Install(h) PROVE IInv'
<1> USE DEF IInv, Live, Install, shared, counters, set, IsCurrent
<1>2. TypeOK'
  BY DEF TypeOK, Operations, Counted
<1>3. HostInv(h)'
  BY DEF TypeOK, HostInv, QueueInv, Last, Cur, Foreign
<1>4. ASSUME NEW g \in Host \ {h} PROVE HostInv(g)'
  <2>1. Same(g)
    BY <1>4 DEF TypeOK, Same
  <2>2. QED
    BY <2>1, OthersKeep
<1>5. FileInv'
  <2>1. SUFFICES ASSUME NEW g \in Host PROVE FileAt(g)'
    BY DEF FileInv
  <2>2. CASE g = h
    BY <2>2, HostAssumption DEF TypeOK, FileInv, FileAt, HostInv, Foreign
  <2>3. CASE g # h
    BY <2>3, HostAssumption DEF TypeOK, FileInv, FileAt
  <2>4. QED
    BY <2>2, <2>3
<1>6. QED
  BY <1>2, <1>3, <1>4, <1>5

(* The repository has been opened.                                        *)
LEMMA OpenedKeeps ==
    ASSUME IInv, NEW h \in Live, Opened(h) PROVE IInv'
<1> USE DEF IInv, Live, Opened, shared, counters, set, IsCurrent
<1>2. TypeOK'
  BY DEF TypeOK, Operations, Counted
<1>3. HostInv(h)'
  BY DEF TypeOK, HostInv, QueueInv, Last, Cur, Foreign
<1>4. ASSUME NEW g \in Host \ {h} PROVE HostInv(g)'
  <2>1. Same(g)
    BY <1>4 DEF TypeOK, Same
  <2>2. QED
    BY <2>1, OthersKeep
<1>5. FileInv'
  <2>1. SUFFICES ASSUME NEW g \in Host PROVE FileAt(g)'
    BY DEF FileInv
  <2>2. CASE g = h
    BY <2>2, HostAssumption DEF TypeOK, FileInv, FileAt, HostInv, Foreign
  <2>3. CASE g # h
    BY <2>3, HostAssumption DEF TypeOK, FileInv, FileAt
  <2>4. QED
    BY <2>2, <2>3
<1>6. QED
  BY <1>2, <1>3, <1>4, <1>5

(* The runtime starts.                                                    *)
LEMMA PreparedKeeps ==
    ASSUME IInv, NEW h \in Live, Prepared(h) PROVE IInv'
<1> USE DEF IInv, Live, Prepared, shared, counters, set, IsCurrent
<1>2. TypeOK'
  BY DEF TypeOK, Operations, Counted
<1>3. HostInv(h)'
  BY DEF TypeOK, HostInv, QueueInv, Last, Cur, Foreign
<1>4. ASSUME NEW g \in Host \ {h} PROVE HostInv(g)'
  <2>1. Same(g)
    BY <1>4 DEF TypeOK, Same
  <2>2. QED
    BY <2>1, OthersKeep
<1>5. FileInv'
  <2>1. SUFFICES ASSUME NEW g \in Host PROVE FileAt(g)'
    BY DEF FileInv
  <2>2. CASE g = h
    BY <2>2, HostAssumption DEF TypeOK, FileInv, FileAt, HostInv, Foreign
  <2>3. CASE g # h
    BY <2>3, HostAssumption DEF TypeOK, FileInv, FileAt
  <2>4. QED
    BY <2>2, <2>3
<1>6. QED
  BY <1>2, <1>3, <1>4, <1>5

(* The activation fails.                                                  *)
LEMMA ActivateThrowsKeeps ==
    ASSUME IInv, NEW h \in Live, ActivateThrows(h) PROVE IInv'
<1> USE DEF IInv, Live, ActivateThrows, shared, counters, set, giveUp
<1>1. Counted
  BY FailsCounts
<1>2. TypeOK'
  BY <1>1 DEF TypeOK, Operations, Counted
<1>3. HostInv(h)'
  BY <1>1 DEF TypeOK, HostInv, QueueInv, Last, Cur, Foreign
<1>4. ASSUME NEW g \in Host \ {h} PROVE HostInv(g)'
  <2>1. Same(g)
    BY <1>1, <1>4 DEF TypeOK, Same
  <2>2. QED
    BY <2>1, OthersKeep
<1>5. FileInv'
  <2>1. SUFFICES ASSUME NEW g \in Host PROVE FileAt(g)'
    BY DEF FileInv
  <2>2. CASE g = h
    BY <1>1, <2>2, HostAssumption DEF TypeOK, FileInv, FileAt, HostInv, Foreign
  <2>3. CASE g # h
    BY <1>1, <2>3, HostAssumption DEF TypeOK, FileInv, FileAt
  <2>4. QED
    BY <2>2, <2>3
<1>6. QED
  BY <1>2, <1>3, <1>4, <1>5

(* An operation ends without a lock and leaves the probe to go on.         *)
LEMMA DoneProbes ==
    ASSUME IInv, NEW h \in Host, queue[h] # <<>>, done(h), scheduleProbe(h),
           h \notin activated, h \notin owned', h \notin releasing',
           h \notin activated', h \notin runtime', mode' = mode
    PROVE  HostInv(h)'
<1> USE DEF IInv
<1>1. /\ at'[h] = "idle" /\ QueueInv(queue'[h], mode[h])
      /\ Cur(h) => mode[h] = "run"
      /\ queue'[h] # <<>> => ~Cur(h) /\ Last(queue'[h]) = Last(queue[h])
      /\ queue'[h] = <<>> => Head(queue[h]) = Last(queue[h])
  BY DoneQueue
<1>2. h \notin probe /\ (mode[h] = "run" => Last(queue[h]).gen = "latest")
  BY DEF HostInv
<1>3. h \in probe' <=> Cur(h)
  BY <1>2 DEF scheduleProbe
<1>4. mode[h] = "run" =>
          h \in probe' \/ (queue'[h] # <<>> /\ Last(queue'[h]).gen = "latest")
  BY <1>1, <1>2, <1>3 DEF Cur
<1>5. h \in probe' => queue'[h] = <<>> /\ mode[h] = "run"
  BY <1>1, <1>3
<1>6. QED
  BY <1>1, <1>4, <1>5 DEF HostInv

(* What ending an operation means for the types of queue and at.           *)
LEMMA DoneTypes ==
    ASSUME TypeOK, NEW h \in Host, queue'[h] \in Seq(Operations),
           queue' = [queue EXCEPT ![h] = queue'[h]], at' = [at EXCEPT ![h] = "idle"]
    PROVE  /\ queue' \in [Host -> Seq(Operations)]
           /\ at' \in [Host -> {"idle", "acquire", "acquired", "open", "prepare",
                                "settle", "cleanup"}]
           /\ \A g \in Host : at'[g] # "idle" =>
                 at'[g] = at[g] /\ queue'[g] = queue[g] /\ queue[g] # <<>>
                 /\ Head(queue[g]).op \in {"start", "probe"}
<1>1. queue \in [Host -> Seq(Operations)] /\ at \in [Host ->
          {"idle", "acquire", "acquired", "open", "prepare", "settle", "cleanup"}]
  BY DEF TypeOK
<1>2. queue' \in [Host -> Seq(Operations)]
  BY <1>1
<1>3. at' \in [Host -> {"idle", "acquire", "acquired", "open", "prepare",
                        "settle", "cleanup"}]
  BY <1>1
<1>4. ASSUME NEW g \in Host, at'[g] # "idle"
      PROVE  /\ at'[g] = at[g] /\ queue'[g] = queue[g] /\ queue[g] # <<>>
             /\ Head(queue[g]).op \in {"start", "probe"}
  <2>1. g # h
    BY <1>1, <1>4
  <2>2. at'[g] = at[g] /\ queue'[g] = queue[g]
    BY <1>1, <2>1
  <2>3. QED
    BY <1>4, <2>2 DEF TypeOK
<1>5. QED
  BY <1>2, <1>3, <1>4

(* The steps that end an operation.                                        *)

(* The probe after a lost lock.                                            *)
LEMMA FinishLostKeeps ==
    ASSUME IInv, NEW h \in Live, FinishLost(h) PROVE IInv'
<1> USE DEF IInv, Live, FinishLost, shared, counters, set, Waiting, scheduleProbe
<1>1. /\ queue'[h] \in Seq(Operations) /\ at'[h] = "idle"
      /\ queue' = [queue EXCEPT ![h] = queue'[h]] /\ at' = [at EXCEPT ![h] = "idle"]
      /\ QueueInv(queue'[h], mode[h]) /\ Head(queue[h]) \in Operations
      /\ queue'[h] # <<>> => ~Cur(h) /\ Last(queue'[h]) = Last(queue[h])
      /\ queue'[h] = <<>> => Head(queue[h]) = Last(queue[h])
      /\ queue'[h] # <<>> /\ Head(queue'[h]).gen = "latest"
             => Head(queue'[h]) = Last(queue'[h])
  BY DoneQueue DEF TypeOK
<1>2. h \notin owned /\ h \notin releasing /\ h \notin activated
  BY DEF HostInv
<1>3. TypeOK'
  <2>1. /\ queue' \in [Host -> Seq(Operations)]
        /\ at' \in [Host -> {"idle", "acquire", "acquired", "open", "prepare",
                             "settle", "cleanup"}]
        /\ \A g \in Host : at'[g] # "idle" =>
              at'[g] = at[g] /\ queue'[g] = queue[g] /\ queue[g] # <<>>
              /\ Head(queue[g]).op \in {"start", "probe"}
    BY <1>1, DoneTypes
  <2>2. \A g \in Host :
           /\ at'[g] # "idle" => queue'[g] # <<>> /\ Head(queue'[g]).op \in {"start", "probe"}
           /\ at'[g] \in {"acquire", "acquired"} => g \notin releasing' /\ g \notin owned'
    BY <1>2, <2>1 DEF TypeOK
  <2>3. /\ file' \in Host \cup {None} /\ displaced' \subseteq Host /\ dead' \subseteq Host
        /\ mode' \in [Host -> {"run", "stopped", "disposed"}]
        /\ owned' \subseteq Host /\ releasing' \subseteq Host
        /\ activated' \subseteq Host /\ runtime' \subseteq Host
        /\ probe' \subseteq Host
    BY <1>2 DEF TypeOK
  <2>4. Counted
    BY <1>2 DEF TypeOK, Counted
  <2>5. QED
    BY <2>1, <2>2, <2>3, <2>4 DEF TypeOK, Counted
<1>4. HostInv(h)'
  BY <1>2, DoneProbes DEF TypeOK, HostInv
<1>5. ASSUME NEW g \in Host \ {h} PROVE HostInv(g)'
  <2>1. Same(g)
    BY <1>1, <1>2, <1>5 DEF TypeOK, Same
  <2>2. QED
    BY <2>1, OthersKeep
<1>6. FileInv'
  BY <1>1, <1>2 DEF TypeOK, FileInv, FileAt
<1>7. QED
  BY <1>3, <1>4, <1>5, <1>6

(* The probe after a failed attempt.                                       *)
LEMMA CleanedUpKeeps ==
    ASSUME IInv, NEW h \in Live, CleanedUp(h) PROVE IInv'
<1> USE DEF IInv, Live, CleanedUp, shared, counters, set, scheduleProbe
<1>1. /\ queue'[h] \in Seq(Operations) /\ at'[h] = "idle"
      /\ queue' = [queue EXCEPT ![h] = queue'[h]] /\ at' = [at EXCEPT ![h] = "idle"]
      /\ QueueInv(queue'[h], mode[h]) /\ Head(queue[h]) \in Operations
      /\ queue'[h] # <<>> => ~Cur(h) /\ Last(queue'[h]) = Last(queue[h])
      /\ queue'[h] = <<>> => Head(queue[h]) = Last(queue[h])
      /\ queue'[h] # <<>> /\ Head(queue'[h]).gen = "latest"
             => Head(queue'[h]) = Last(queue'[h])
  BY DoneQueue DEF TypeOK
<1>2. h \notin owned /\ h \notin activated
  BY DEF HostInv, TypeOK
<1>3. TypeOK'
  <2>1. /\ queue' \in [Host -> Seq(Operations)]
        /\ at' \in [Host -> {"idle", "acquire", "acquired", "open", "prepare",
                             "settle", "cleanup"}]
        /\ \A g \in Host : at'[g] # "idle" =>
              at'[g] = at[g] /\ queue'[g] = queue[g] /\ queue[g] # <<>>
              /\ Head(queue[g]).op \in {"start", "probe"}
    BY <1>1, DoneTypes
  <2>2. \A g \in Host :
           /\ at'[g] # "idle" => queue'[g] # <<>> /\ Head(queue'[g]).op \in {"start", "probe"}
           /\ at'[g] \in {"acquire", "acquired"} => g \notin releasing' /\ g \notin owned'
    BY <1>2, <2>1 DEF TypeOK
  <2>3. /\ file' \in Host \cup {None} /\ displaced' \subseteq Host /\ dead' \subseteq Host
        /\ mode' \in [Host -> {"run", "stopped", "disposed"}]
        /\ owned' \subseteq Host /\ releasing' \subseteq Host
        /\ activated' \subseteq Host /\ runtime' \subseteq Host
        /\ probe' \subseteq Host
    BY <1>2 DEF TypeOK
  <2>4. Counted
    BY <1>2 DEF TypeOK, Counted
  <2>5. QED
    BY <2>1, <2>2, <2>3, <2>4 DEF TypeOK, Counted
<1>4. HostInv(h)'
  BY <1>2, DoneProbes DEF TypeOK, HostInv
<1>5. ASSUME NEW g \in Host \ {h} PROVE HostInv(g)'
  <2>1. Same(g)
    BY <1>1, <1>2, <1>5 DEF TypeOK, Same
  <2>2. QED
    BY <2>1, OthersKeep
<1>6. FileInv'
  BY <1>1, <1>2 DEF TypeOK, FileInv, FileAt
<1>7. QED
  BY <1>3, <1>4, <1>5, <1>6

(* The probe after the lock was found taken.                               *)
LEMMA AcquireMissesKeeps ==
    ASSUME IInv, NEW h \in Live, AcquireMisses(h) PROVE IInv'
<1> USE DEF IInv, Live, AcquireMisses, shared, counters, set, scheduleProbe
<1>1. /\ queue'[h] \in Seq(Operations) /\ at'[h] = "idle"
      /\ queue' = [queue EXCEPT ![h] = queue'[h]] /\ at' = [at EXCEPT ![h] = "idle"]
      /\ QueueInv(queue'[h], mode[h]) /\ Head(queue[h]) \in Operations
      /\ queue'[h] # <<>> => ~Cur(h) /\ Last(queue'[h]) = Last(queue[h])
      /\ queue'[h] = <<>> => Head(queue[h]) = Last(queue[h])
      /\ queue'[h] # <<>> /\ Head(queue'[h]).gen = "latest"
             => Head(queue'[h]) = Last(queue'[h])
  BY DoneQueue DEF TypeOK
<1>2. Counted /\ h \notin owned /\ h \notin releasing /\ h \notin activated
  BY FailsCounts DEF HostInv, TypeOK, Counted
<1>3. TypeOK'
  <2>1. /\ queue' \in [Host -> Seq(Operations)]
        /\ at' \in [Host -> {"idle", "acquire", "acquired", "open", "prepare",
                             "settle", "cleanup"}]
        /\ \A g \in Host : at'[g] # "idle" =>
              at'[g] = at[g] /\ queue'[g] = queue[g] /\ queue[g] # <<>>
              /\ Head(queue[g]).op \in {"start", "probe"}
    BY <1>1, DoneTypes
  <2>2. \A g \in Host :
           /\ at'[g] # "idle" => queue'[g] # <<>> /\ Head(queue'[g]).op \in {"start", "probe"}
           /\ at'[g] \in {"acquire", "acquired"} => g \notin releasing' /\ g \notin owned'
    BY <1>2, <2>1 DEF TypeOK
  <2>3. /\ file' \in Host \cup {None} /\ displaced' \subseteq Host /\ dead' \subseteq Host
        /\ mode' \in [Host -> {"run", "stopped", "disposed"}]
        /\ owned' \subseteq Host /\ releasing' \subseteq Host
        /\ activated' \subseteq Host /\ runtime' \subseteq Host
        /\ probe' \subseteq Host
    BY <1>2 DEF TypeOK
  <2>4. Counted
    BY <1>2 DEF TypeOK, Counted
  <2>5. QED
    BY <2>1, <2>2, <2>3, <2>4 DEF TypeOK, Counted
<1>4. HostInv(h)'
  BY <1>2, DoneProbes DEF TypeOK, HostInv
<1>5. ASSUME NEW g \in Host \ {h} PROVE HostInv(g)'
  <2>1. Same(g)
    BY <1>1, <1>2, <1>5 DEF TypeOK, Same
  <2>2. QED
    BY <2>1, OthersKeep
<1>6. FileInv'
  BY <1>1, <1>2 DEF TypeOK, FileInv, FileAt
<1>7. QED
  BY <1>3, <1>4, <1>5, <1>6

(* The end of a stop.                                                      *)
LEMMA FinishStopKeeps ==
    ASSUME IInv, NEW h \in Live, FinishStop(h) PROVE IInv'
<1> USE DEF IInv, Live, FinishStop, shared, counters, set, Waiting
<1>1. h \notin owned
  BY DEF HostInv
<1>2. queue[h] # <<>> /\ done(h) /\ UNCHANGED <<releasing, owned>> /\ h \notin releasing
  BY <1>1
<1>3. /\ queue'[h] \in Seq(Operations) /\ at'[h] = "idle"
      /\ queue' = [queue EXCEPT ![h] = queue'[h]] /\ at' = [at EXCEPT ![h] = "idle"]
      /\ QueueInv(queue'[h], mode[h]) /\ Head(queue[h]) \in Operations
      /\ queue'[h] # <<>> => ~Cur(h) /\ Last(queue'[h]) = Last(queue[h])
      /\ queue'[h] = <<>> => Head(queue[h]) = Last(queue[h])
      /\ queue'[h] # <<>> /\ Head(queue'[h]).gen = "latest"
             => Head(queue'[h]) = Last(queue'[h])
  BY DoneQueue, <1>2
<1>4. TypeOK'
  BY <1>2, <1>3 DEF TypeOK
<1>5. HostInv(h)'
  <2>1. h \notin activated /\ h \notin probe /\ h \notin runtime
    BY <1>1, <1>2 DEF HostInv
  <2>2. mode[h] = "run" => queue'[h] # <<>> /\ Last(queue'[h]).gen = "latest"
    <3>1. mode[h] = "run" => Last(queue[h]).gen = "latest"
      BY <1>2, <2>1 DEF HostInv
    <3>2. Head(queue[h]).gen # "latest"
      BY <1>2, DoneQueue DEF Cur
    <3>3. QED
      BY <1>3, <3>1, <3>2
  <2>3. QED
    BY <1>1, <1>2, <1>3, <2>1, <2>2 DEF HostInv
<1>6. ASSUME NEW g \in Host \ {h} PROVE HostInv(g)'
  <2>1. Same(g)
    BY <1>2, <1>3, <1>6 DEF TypeOK, Same
  <2>2. QED
    BY <2>1, OthersKeep
<1>7. FileInv'
  BY <1>2, <1>3 DEF TypeOK, FileInv, FileAt
<1>8. QED
  BY <1>4, <1>5, <1>6, <1>7

(* An attempt begins, or its generation is over.                           *)
LEMMA BeginAttemptKeeps ==
    ASSUME IInv, NEW h \in Live, BeginAttempt(h) PROVE IInv'
<1> USE DEF IInv, Live, BeginAttempt, shared, counters, set, Waiting
<1>1. CASE Cur(h)
  <2>1. /\ at' = [at EXCEPT ![h] = "acquire"] /\ queue' = queue /\ queue[h] # <<>>
        /\ h \notin owned /\ h \notin releasing
    BY <1>1 DEF HostInv
  <2>2. TypeOK'
    BY <2>1 DEF TypeOK
  <2>3. HostInv(h)'
    BY <2>1 DEF TypeOK, HostInv, Cur
  <2>4. ASSUME NEW g \in Host \ {h} PROVE HostInv(g)'
    <3>1. Same(g)
      BY <2>1, <2>4 DEF TypeOK, Same
    <3>2. QED
      BY <3>1, OthersKeep
  <2>5. FileInv'
    BY <2>1 DEF TypeOK, FileInv, FileAt
  <2>6. QED
    BY <2>2, <2>3, <2>4, <2>5
<1>2. CASE ~Cur(h)
  <2>1. queue[h] # <<>> /\ done(h) /\ Head(queue[h]).op \in {"start", "probe"}
    BY <1>2
  <2>2. /\ queue'[h] \in Seq(Operations) /\ at'[h] = "idle"
        /\ queue' = [queue EXCEPT ![h] = queue'[h]] /\ at' = [at EXCEPT ![h] = "idle"]
        /\ QueueInv(queue'[h], mode[h]) /\ Head(queue[h]) \in Operations
        /\ queue'[h] # <<>> => ~Cur(h) /\ Last(queue'[h]) = Last(queue[h])
        /\ queue'[h] = <<>> => Head(queue[h]) = Last(queue[h])
        /\ queue'[h] # <<>> /\ Head(queue'[h]).gen = "latest"
               => Head(queue'[h]) = Last(queue'[h])
    BY DoneQueue, <2>1
  <2>3. /\ queue'[h] # <<>> /\ Last(queue'[h]) = Last(queue[h])
        /\ h \notin activated /\ h \notin probe /\ h \notin owned /\ h \notin runtime
    <3>1. Head(queue[h]).gen # "latest"
      BY <1>2 DEF Cur
    <3>2. Last(queue[h]).gen = "latest" \/ Last(queue[h]).op = "stop"
      BY <2>1 DEF HostInv, QueueInv
    <3>3. queue'[h] # <<>>
      BY <2>1, <2>2, <3>1, <3>2
    <3>4. QED
      BY <2>1, <2>2, <3>3 DEF HostInv
  <2>4. TypeOK'
    BY <2>1, <2>2 DEF TypeOK
  <2>5. HostInv(h)'
    <3>1. mode[h] = "run" => Last(queue'[h]).gen = "latest"
      BY <2>1, <2>3 DEF HostInv
    <3>2. h \in releasing /\ Head(queue'[h]).gen = "latest" => Head(queue'[h]).op # "probe"
      BY <2>1, <2>2, <2>3, DoneQueue
    <3>3. QED
      BY <2>2, <2>3, <3>1, <3>2 DEF HostInv, Cur
  <2>6. ASSUME NEW g \in Host \ {h} PROVE HostInv(g)'
    <3>1. Same(g)
      BY <2>1, <2>2, <2>6 DEF TypeOK, Same
    <3>2. QED
      BY <3>1, OthersKeep
  <2>7. FileInv'
    BY <2>1, <2>2 DEF TypeOK, FileInv, FileAt
  <2>8. QED
    BY <2>4, <2>5, <2>6, <2>7
<1>3. QED
  BY <1>1, <1>2

(* The activation is over: the host is active, or it gives up.             *)
LEMMA SettleKeeps ==
    ASSUME IInv, NEW h \in Live, Settle(h) PROVE IInv'
<1> USE DEF IInv, Live, Settle, shared, counters, set, IsCurrent
<1>1. CASE IsCurrent(h) /\ ~Foreign(h)
  <2>1. /\ queue[h] # <<>> /\ done(h) /\ Cur(h) /\ h \in owned /\ h \notin probe
        /\ h \in activated' /\ UNCHANGED <<releasing, owned, runtime>>
        /\ activated' = activated \cup {h}
    BY <1>1 DEF TypeOK, HostInv
  <2>2. /\ queue'[h] = <<>> /\ at'[h] = "idle" /\ mode[h] = "run"
        /\ queue'[h] \in Seq(Operations) /\ QueueInv(queue'[h], mode[h])
        /\ queue' = [queue EXCEPT ![h] = queue'[h]] /\ at' = [at EXCEPT ![h] = "idle"]
    BY DoneQueue, <2>1
  <2>3. TypeOK'
    BY <2>1, <2>2 DEF TypeOK
  <2>4. HostInv(h)'
    BY <2>1, <2>2 DEF HostInv
  <2>5. ASSUME NEW g \in Host \ {h} PROVE HostInv(g)'
    <3>1. Same(g)
      BY <2>1, <2>2, <2>5 DEF TypeOK, Same
    <3>2. QED
      BY <3>1, OthersKeep
  <2>6. FileInv'
    BY <2>1, <2>2 DEF TypeOK, FileInv, FileAt
  <2>7. QED
    BY <2>3, <2>4, <2>5, <2>6
<1>2. CASE ~(IsCurrent(h) /\ ~Foreign(h))
  <2>1. giveUp(h) /\ queue' = queue
    BY <1>2
  <2>2. TypeOK'
    BY <2>1 DEF TypeOK, giveUp
  <2>3. HostInv(h)'
    BY <2>1 DEF TypeOK, HostInv, QueueInv, Last, Cur, giveUp
  <2>4. ASSUME NEW g \in Host \ {h} PROVE HostInv(g)'
    <3>1. Same(g)
      BY <2>1, <2>4 DEF TypeOK, Same, giveUp
    <3>2. QED
      BY <3>1, OthersKeep
  <2>5. FileInv'
    <3>1. SUFFICES ASSUME NEW g \in Host PROVE FileAt(g)'
      BY DEF FileInv
    <3>2. QED
      BY <2>1 DEF TypeOK, FileInv, FileAt, giveUp
  <2>6. QED
    BY <2>2, <2>3, <2>4, <2>5
<1>3. QED
  BY <1>1, <1>2

(* The probe's timer fires into an empty queue.                            *)
LEMMA ProbeFiresKeeps ==
    ASSUME IInv, NEW h \in Live, ProbeFires(h) PROVE IInv'
<1> USE DEF IInv, Live, ProbeFires, shared, counters, set
<1> DEFINE e == [op |-> "probe", gen |-> "latest"]
<1>1. /\ queue[h] = <<>> /\ mode[h] = "run" /\ h \notin owned /\ h \notin releasing
      /\ h \notin activated /\ h \notin runtime /\ at[h] = "idle"
  BY DEF TypeOK, HostInv
<1>2. /\ queue'[h] = <<e>> /\ queue' = [queue EXCEPT ![h] = <<e>>] /\ e \in Operations
      /\ <<e>> \in Seq(Operations) /\ <<e>> # <<>> /\ Len(<<e>>) = 1
      /\ Last(<<e>>) = e /\ Head(<<e>>) = e
  BY <1>1 DEF TypeOK, Operations, Last
<1>3. TypeOK'
  BY <1>1, <1>2 DEF TypeOK
<1>4. HostInv(h)'
  <2>1. QueueInv(<<e>>, "run")
    BY <1>2 DEF QueueInv
  <2>2. QED
    BY <1>1, <1>2, <2>1 DEF TypeOK, HostInv
<1>5. ASSUME NEW g \in Host \ {h} PROVE HostInv(g)'
  <2>1. Same(g)
    BY <1>5 DEF TypeOK, Same
  <2>2. QED
    BY <2>1, OthersKeep
<1>6. FileInv'
  BY DEF TypeOK, FileInv, FileAt
<1>7. QED
  BY <1>3, <1>4, <1>5, <1>6

-----------------------------------------------------------------------------
(* The failures.                                                           *)

(* A host dies; its lock file stays behind.                                *)
LEMMA CrashKeeps ==
    ASSUME IInv, NEW h \in Live, Crash(h) PROVE IInv'
<1> USE DEF IInv, Live, Crash, set
<1>1. Counted
  BY FailsCounts
<1>2. TypeOK'
  BY <1>1 DEF TypeOK, Counted
<1>3. HostInv(h)'
  BY DEF TypeOK, HostInv, QueueInv
<1>4. ASSUME NEW g \in Host \ {h} PROVE HostInv(g)'
  <2>1. Same(g)
    BY <1>4 DEF TypeOK, Same
  <2>2. QED
    BY <2>1, OthersKeep
<1>5. FileInv'
  <2>1. SUFFICES ASSUME NEW g \in Host PROVE FileAt(g)'
    BY DEF FileInv
  <2>2. QED
    BY DEF TypeOK, FileInv, FileAt
<1>6. QED
  BY <1>2, <1>3, <1>4, <1>5

(* A live owner's lock file is moved away.                                 *)
LEMMA DisplaceKeeps ==
    ASSUME IInv, Displace PROVE IInv'
<1> USE DEF IInv, Live, Displace
<1>1. Counted
  BY FailsCounts
<1>2. TypeOK'
  BY <1>1 DEF TypeOK, Counted
<1>3. ASSUME NEW g \in Host PROVE HostInv(g)'
  <2>1. Same(g)
    BY DEF Same
  <2>2. QED
    BY <2>1, OthersKeep
<1>4. FileInv'
  BY HostAssumption DEF TypeOK, FileInv, FileAt
<1>5. QED
  BY <1>2, <1>3, <1>4

-----------------------------------------------------------------------------
(* The calls.                                                              *)

LEMMA StartKeeps ==
    ASSUME IInv, NEW h \in Live, Start(h) PROVE IInv'
<1>1. Counted
  BY CalledCounts DEF IInv, Start
<1>2. /\ mode' \in [Host -> {"run", "stopped", "disposed"}] /\ mode'[h] = "run"
      /\ \A g \in Host \ {h} : mode'[g] = mode[g]
  BY DEF IInv, TypeOK, Start, set, Live
<1>3. QED
  BY <1>1, <1>2, StandAsideKeeps DEF Start

LEMMA StopKeeps ==
    ASSUME IInv, NEW h \in Live, Stop(h) PROVE IInv'
<1>1. Counted
  BY CalledCounts DEF IInv, Stop
<1>2. /\ mode' \in [Host -> {"run", "stopped", "disposed"}] /\ mode'[h] # "run"
      /\ \A g \in Host \ {h} : mode'[g] = mode[g]
  BY DEF IInv, TypeOK, Stop, set, Live
<1>3. QED
  BY <1>1, <1>2, StandAsideKeeps DEF Stop

LEMMA LosesRoleKeeps ==
    ASSUME IInv, NEW h \in Live, LosesRole(h) PROVE IInv'
<1>1. Counted
  BY DEF IInv, TypeOK, LosesRole, counters, Counted
<1>2. /\ mode' \in [Host -> {"run", "stopped", "disposed"}] /\ mode'[h] = "run"
      /\ \A g \in Host \ {h} : mode'[g] = mode[g]
  BY DEF IInv, TypeOK, HostInv, LosesRole, Live
<1>3. UNCHANGED <<shared, at>>
  BY DEF LosesRole
<1>4. QED
  BY <1>1, <1>2, <1>3, StandAsideKeeps DEF LosesRole

-----------------------------------------------------------------------------
(* The invariant is inductive.                                             *)

LEMMA InvInit == Init => IInv
<1> SUFFICES ASSUME Init PROVE IInv
  OBVIOUS
<1> USE DEF Init
<1>1. TypeOK
  BY HostAssumption DEF TypeOK
<1>2. ASSUME NEW h \in Host PROVE HostInv(h)
  <2>1. /\ queue[h] = <<>> /\ mode[h] = "stopped" /\ at[h] = "idle"
        /\ owned = {} /\ releasing = {} /\ activated = {} /\ probe = {} /\ runtime = {}
    OBVIOUS
  <2>2. QueueInv(<<>>, "stopped")
    <3>1. 1..Len(<<>>) = {}
      BY Len(<<>>) = 0
    <3>2. QED
      BY <3>1 DEF QueueInv
  <2>3. QED
    BY <2>1, <2>2 DEF HostInv
<1>3. FileInv
  BY HostAssumption DEF FileInv, FileAt
<1>4. QED
  BY <1>1, <1>2, <1>3 DEF IInv

LEMMA InvNext == IInv /\ [Next]_vars => IInv'
<1> SUFFICES ASSUME IInv, [Next]_vars PROVE IInv'
  OBVIOUS
<1>1. ASSUME NEW h \in Live, Step(h) PROVE IInv'
  <2>1. CASE ReleaseEnds(h)
    BY <2>1, ReleaseEndsKeeps
  <2>2. CASE BeginAttempt(h)
    BY <2>2, BeginAttemptKeeps
  <2>3. CASE FinishStop(h)
    BY <2>3, FinishStopKeeps
  <2>4. CASE FinishLost(h)
    BY <2>4, FinishLostKeeps
  <2>5. CASE Acquire(h)
    BY <2>5, AcquireKeeps
  <2>6. CASE AcquireMisses(h)
    BY <2>6, AcquireMissesKeeps
  <2>7. CASE Install(h)
    BY <2>7, InstallKeeps
  <2>8. CASE Opened(h)
    BY <2>8, OpenedKeeps
  <2>9. CASE Prepared(h)
    BY <2>9, PreparedKeeps
  <2>10. CASE ActivateThrows(h)
    BY <2>10, ActivateThrowsKeeps
  <2>11. CASE Settle(h)
    BY <2>11, SettleKeeps
  <2>12. CASE CleanedUp(h)
    BY <2>12, CleanedUpKeeps
  <2>13. CASE ProbeFires(h)
    BY <2>13, ProbeFiresKeeps
  <2>14. QED
    BY <1>1, <2>1, <2>2, <2>3, <2>4, <2>5, <2>6, <2>7, <2>8, <2>9, <2>10,
       <2>11, <2>12, <2>13 DEF Step
<1>2. ASSUME NEW h \in Live, Start(h) \/ Stop(h) \/ LosesRole(h) \/ Crash(h) PROVE IInv'
  BY <1>2, StartKeeps, StopKeeps, LosesRoleKeeps, CrashKeeps
<1>3. CASE Displace
  BY <1>3, DisplaceKeeps
<1>4. CASE UNCHANGED vars
  <2>1. /\ UNCHANGED <<file, displaced, dead, mode, queue, at, owned, releasing>>
        /\ UNCHANGED <<activated, probe, runtime, calls, failures>>
    BY <1>4 DEF vars, shared, counters
  <2>2. TypeOK'
    BY <2>1 DEF IInv, TypeOK
  <2>3. ASSUME NEW g \in Host PROVE HostInv(g)'
    BY <2>1, OthersKeep DEF IInv, Same
  <2>4. FileInv'
    BY <2>1 DEF IInv, FileInv, FileAt, Live
  <2>5. QED
    BY <2>2, <2>3, <2>4 DEF IInv
<1>5. QED
  BY <1>1, <1>2, <1>3, <1>4 DEF Next

LEMMA Invariant == Spec => []IInv
BY InvInit, InvNext, PTL DEF Spec

-----------------------------------------------------------------------------
(* The theorems.                                                           *)

(* The state keeps its type, an operation is under way only at the head of *)
(* its host's queue, and no attempt at the lock starts before the host's   *)
(* own last lock is released (backgroundCoordinator.ts, enqueue).          *)
THEOREM TypeCorrect == Spec => []TypeOK
<1>1. IInv => TypeOK
  BY DEF IInv
<1>2. QED
  BY <1>1, Invariant, PTL

(* No watcher and no timer outlives the role, whenever stop, start and the *)
(* loss of the lock come (backgroundCoordinator.ts, isCurrent).            *)
THEOREM RuntimeNeedsRole == Spec => []NoRuntimeWithoutRole
<1>1. IInv => NoRuntimeWithoutRole
  BY DEF IInv, HostInv, NoRuntimeWithoutRole
<1>2. QED
  BY <1>1, Invariant, PTL

(* Two hosts do background work together only after a live owner's lock    *)
(* file has been moved away (backgroundCoordinator.ts, attempt).           *)
THEOREM AtMostOneRuntime == Spec => []OneRuntime
<1>1. IInv => OneRuntime
  <2>1. SUFFICES ASSUME IInv, NEW g \in Host, NEW h \in Host, g \in runtime,
                        h \in runtime, g # h
                 PROVE  {g, h} \cap displaced # {}
    BY DEF OneRuntime
  <2>2. g \in owned /\ h \in owned
    BY <2>1 DEF IInv, HostInv
  <2>3. (g \notin displaced => file = g) /\ (h \notin displaced => file = h)
    BY <2>1, <2>2 DEF IInv, FileInv, FileAt
  <2>4. QED
    BY <2>1, <2>3
<1>2. QED
  BY <1>1, Invariant, PTL

(* When the last stop's promise resolves the lock is gone                  *)
(* (backgroundCoordinator.ts, stop).                                       *)
THEOREM StoppedHostHasReleased == Spec => []StopHasReleased
<1>1. IInv => StopHasReleased
  BY DEF IInv, TypeOK, HostInv, FileInv, FileAt, StopHasReleased, Live
<1>2. QED
  BY <1>1, Invariant, PTL

(* A host that wants the role and has nothing to do leads or probes        *)
(* (backgroundCoordinator.ts, scheduleProbe).                              *)
THEOREM IdleFollowerProbes == Spec => []FollowerProbes
<1>1. IInv => FollowerProbes
  BY DEF IInv, HostInv, FollowerProbes
<1>2. QED
  BY <1>1, Invariant, PTL

-----------------------------------------------------------------------------
(* FileScan: a complete scan has seen all that is older than it.           *)
(*                                                                         *)
(* The argument: what the enumeration has passed is accounted for - it is  *)
(* in order, or on the page, or among the failures, or something was       *)
(* dropped and the scan will not be complete (CoverInv).  That a file the  *)
(* walker or the memo takes for unchanged is unchanged rests on the        *)
(* identities (IdentityInv): one that was read with a newer content than   *)
(* it stands for never comes back.                                         *)

FileEntry == [content : Nat, id : Nat \cup {None}]

FilesTypeInv ==
    /\ disk \in [F!File -> {None} \cup [content : Nat, id : Nat, kind : Kinds]]
    /\ known \in [F!File -> {None} \cup FileEntry]
    /\ memo \in [F!File -> {None} \cup FileEntry]
    /\ snapshots \in [F!File -> {None} \cup FileEntry]
    /\ incoming \in [F!File -> {None} \cup Nat]
    /\ pending \in SUBSET F!File /\ failed \in Seq(F!File)
    /\ looking \in [file : 0..Files, id : Nat]
    /\ cursor \in 0..Files /\ changes \in Nat
    /\ scanAt \in {"idle", "walk", "read", "check", "publish", "apply"}

(* The identity id of f, read when f held c.                               *)
Retires(f, id, c) ==
    /\ id <= changes /\ incoming[f] # id
    /\ disk[f] # None /\ disk[f].id = id => c = disk[f].content

Consistent(f, e) == e = None \/ e.id = None \/ Retires(f, e.id, e.content)

IdentityInv ==
    \A f \in F!File :
        /\ disk[f] # None => disk[f].content = disk[f].id /\ disk[f].id <= changes
                              /\ incoming[f] # disk[f].id
        /\ incoming[f] # None => incoming[f] <= changes
        /\ Consistent(f, known[f]) /\ Consistent(f, memo[f]) /\ Consistent(f, snapshots[f])
        /\ looking.file = f => looking.id <= changes /\ incoming[f] # looking.id

(* Nothing is lost if a peer's version replaces f.                         *)
InOrder(f) ==
    \/ disk[f] = None \/ (known[f] # None /\ disk[f].content = known[f].content)
    \/ f \in fresh \/ disk[f].kind = "large"

CoverInv ==
    ~unreadable /\ ~lost =>
        \A f \in F!File :
            f <= cursor => InOrder(f) \/ f \in pending \/ f \in F!Elements(failed)

(* Where the scan is; what it returned stays on the page.                  *)
PhaseInv ==
    /\ ~active /\ (~due \/ scanAt # "idle") => cursor = Files
    /\ scanAt = "read" => looking.file \in pending /\ looking.file \in processed
                          /\ snapshots[looking.file] = None
    /\ \A f \in F!File : snapshots[f] # None =>
           f \in pending /\ (scanAt \in {"walk", "read", "check"} => f \in processed)
    /\ complete => scanAt \in {"publish", "apply"} /\ pending = {}
                   /\ \A f \in F!File : InOrder(f)

FilesInv == FilesTypeInv /\ IdentityInv /\ CoverInv /\ PhaseInv
-----------------------------------------------------------------------------
(* Pages and failures.                                                     *)

LEMMA WithoutIs ==
    ASSUME NEW S, NEW s \in Seq(S), NEW f, NEW r, r = F!Without(s, f)
    PROVE  /\ r \in Seq(S)
           /\ \A g \in F!Elements(s) : g # f => g \in F!Elements(r)
<1>1. CASE f \notin F!Elements(s)
  BY <1>1 DEF F!Without
<1>2. CASE f \in F!Elements(s)
  <2>1. PICK n \in Nat : n = Len(s) /\ DOMAIN s = 1..n
    BY LenProperties
  <2>2. PICK i : i = CHOOSE j \in DOMAIN s : s[j] = f
    OBVIOUS
  <2>3. i \in 1..n /\ s[i] = f
    BY <1>2, <2>1, <2>2 DEF F!Elements
  <2>4. PICK a, b : a = SubSeq(s, 1, i - 1) /\ b = SubSeq(s, i + 1, n)
    OBVIOUS
  <2>5. r = a \o b
    BY <1>2, <2>1, <2>2, <2>4 DEF F!Without
  <2>6. /\ a \in Seq(S) /\ Len(a) = i - 1
        /\ \A j \in 1..(i - 1) : a[j] = s[j]
    BY <2>1, <2>3, <2>4, SubSeqProperties
  <2>7. /\ b \in Seq(S) /\ Len(b) = n - i
        /\ \A j \in 1..(n - i) : b[j] = s[i + j]
    BY <2>1, <2>3, <2>4, SubSeqProperties
  <2>8. /\ r \in Seq(S) /\ Len(r) = n - 1
        /\ \A j \in 1..(i - 1) : r[j] = s[j]
        /\ \A j \in 1..(n - i) : r[i - 1 + j] = s[i + j]
    <3>1. /\ r \in Seq(S) /\ Len(r) = Len(a) + Len(b)
          /\ \A k \in 1..(Len(a) + Len(b)) :
                 r[k] = IF k <= Len(a) THEN a[k] ELSE b[k - Len(a)]
      <4>1. PICK c : c = a \o b
        OBVIOUS
      <4>2. /\ c \in Seq(S) /\ Len(c) = Len(a) + Len(b)
            /\ \A k \in 1..(Len(a) + Len(b)) :
                   c[k] = IF k <= Len(a) THEN a[k] ELSE b[k - Len(a)]
        BY <2>6, <2>7, <4>1, ConcatProperties
      <4> QED BY <2>5, <4>1, <4>2
    <3>2. Len(r) = n - 1 /\ i \in Nat /\ n \in Nat /\ 1 <= i /\ i <= n
      BY <2>1, <2>3, <2>6, <2>7, <3>1
    <3>3. ASSUME NEW j \in 1..(i - 1) PROVE r[j] = s[j]
      <4>1. j \in 1..(n - 1) /\ j <= i - 1
        BY <3>2, <3>3
      <4> QED BY <2>6, <2>7, <3>1, <3>2, <3>3, <4>1
    <3>4. ASSUME NEW j \in 1..(n - i) PROVE r[i - 1 + j] = s[i + j]
      <4>1. PICK k : k = i - 1 + j
        OBVIOUS
      <4>2. k \in 1..(n - 1) /\ ~(k <= i - 1) /\ k - (i - 1) = j
        BY <3>2, <3>4, <4>1
      <4>3. r[k] = b[j]
        BY <2>6, <2>7, <3>1, <3>2, <4>2
      <4> QED BY <2>7, <3>4, <4>1, <4>3
    <3> QED BY <3>1, <3>2, <3>3, <3>4
  <2>9. ASSUME NEW g \in F!Elements(s), g # f PROVE g \in F!Elements(r)
    <3>1. PICK j \in 1..n : s[j] = g
      BY <2>1, <2>9 DEF F!Elements
    <3>2. \E l \in 1..(n - 1) : r[l] = g
      <4>1. CASE j < i
        BY <2>3, <2>8, <3>1, <4>1
      <4>2. CASE j > i
        <5>1. PICK l : l = j - i
          OBVIOUS
        <5>2. l \in 1..(n - i) /\ i + l = j /\ (i - 1 + l) \in 1..(n - 1)
          BY <2>3, <3>1, <4>2, <5>1
        <5>3. r[i - 1 + l] = s[i + l]
          BY <2>8, <5>2
        <5> QED BY <3>1, <5>2, <5>3
      <4>3. j # i
        BY <2>3, <2>9, <3>1
      <4> QED BY <2>3, <3>1, <4>1, <4>2, <4>3
    <3>3. DOMAIN r = 1..(n - 1)
      BY <2>1, <2>8, LenProperties
    <3> QED BY <3>2, <3>3 DEF F!Elements
  <2> QED BY <2>8, <2>9
<1> QED BY <1>1, <1>2

(* The end of a queue.                                                     *)
LEMMA AppendedIs ==
    ASSUME NEW S, NEW s \in Seq(S), NEW f \in S
    PROVE  /\ Append(s, f) \in Seq(S) /\ f \in F!Elements(Append(s, f))
           /\ F!Elements(s) \subseteq F!Elements(Append(s, f))
<1>1. PICK n \in Nat : n = Len(s) /\ DOMAIN s = 1..n
  BY LenProperties
<1>2. PICK r : r = Append(s, f)
  OBVIOUS
<1>3. /\ r \in Seq(S) /\ DOMAIN r = 1..(n + 1) /\ r[n + 1] = f
      /\ \A i \in 1..n : r[i] = s[i]
  BY <1>1, <1>2, AppendProperties, LenProperties
<1>4. f \in F!Elements(r)
  BY <1>3 DEF F!Elements
<1>5. F!Elements(s) \subseteq F!Elements(r)
  <2>1. \A i \in 1..n : i \in 1..(n + 1)
    OBVIOUS
  <2> QED BY <1>1, <1>3, <2>1 DEF F!Elements
<1> QED BY <1>2, <1>3, <1>4, <1>5

(* What becomes of a file whose look at is over.                           *)
LEMMA DoneIs ==
    ASSUME FilesTypeInv, NEW f \in F!File, F!Done(f)
    PROVE  /\ pending' = pending \ {f} /\ failed' \in Seq(F!File) /\ UNCHANGED lost
           /\ \A g \in F!Elements(failed) : g # f => g \in F!Elements(failed')
<1>1. PICK r : r = F!Without(failed, f)
  OBVIOUS
<1>2. failed' = r /\ pending' = pending \ {f} /\ UNCHANGED lost
  BY <1>1 DEF F!Done
<1>3. failed \in Seq(F!File)
  BY DEF FilesTypeInv
<1> QED BY <1>1, <1>2, <1>3, WithoutIs

(* A failure is remembered, or the oldest of them is dropped.              *)
LEMMA RememberedIs ==
    ASSUME FilesAssumption, FilesTypeInv, NEW f \in F!File, F!rememberFailedDescriptor(f)
    PROVE  /\ pending' = pending \ {f} /\ failed' \in Seq(F!File) /\ (lost => lost')
           /\ f \in F!Elements(failed')
           /\ ~lost' => F!Elements(failed) \subseteq F!Elements(failed')
<1>1. PICK rest : rest = F!Without(failed, f)
  OBVIOUS
<1>2. PICK kept : kept = IF Len(rest) >= MaxPending THEN Tail(rest) ELSE rest
  OBVIOUS
<1>3. /\ pending' = pending \ {f} /\ failed' = Append(kept, f)
      /\ lost' = (lost \/ Len(rest) >= MaxPending)
  BY <1>1, <1>2 DEF F!rememberFailedDescriptor
<1>4. /\ rest \in Seq(F!File)
      /\ \A g \in F!Elements(failed) : g # f => g \in F!Elements(rest)
  <2>1. failed \in Seq(F!File)
    BY DEF FilesTypeInv
  <2> QED BY <1>1, <2>1, WithoutIs
<1>5. kept \in Seq(F!File)
  <2>1. CASE Len(rest) >= MaxPending
    <3>1. rest # <<>>
      BY <1>4, <2>1, EmptySeq DEF FilesAssumption
    <3> QED BY <1>2, <1>4, <2>1, <3>1, HeadTailProperties
  <2>2. CASE ~(Len(rest) >= MaxPending)
    BY <1>2, <1>4, <2>2
  <2> QED BY <2>1, <2>2
<1>6. /\ Append(kept, f) \in Seq(F!File) /\ f \in F!Elements(Append(kept, f))
      /\ F!Elements(kept) \subseteq F!Elements(Append(kept, f))
  BY <1>5, AppendedIs
<1>7. ASSUME ~lost', NEW g \in F!Elements(failed) PROVE g \in F!Elements(failed')
  <2>1. kept = rest
    BY <1>2, <1>3, <1>7
  <2>2. CASE g # f
    BY <1>3, <1>4, <1>6, <2>1, <2>2
  <2>3. CASE g = f
    BY <1>3, <1>6, <2>3
  <2> QED BY <2>2, <2>3
<1>8. lost => lost'
  BY <1>3
<1> QED BY <1>3, <1>6, <1>7, <1>8

(* A failure that is tried again moves to the page.                        *)
LEMMA PromotedIs ==
    ASSUME FilesTypeInv, F!promoteFailedDescriptor
    PROVE  /\ pending' \in SUBSET F!File /\ failed' \in Seq(F!File) /\ pending \subseteq pending'
           /\ \A g \in F!Elements(failed) : g \in pending' \/ g \in F!Elements(failed')
<1>1. CASE UNCHANGED <<pending, failed>>
  BY <1>1 DEF FilesTypeInv, F!Elements
<1>2. CASE /\ failed # <<>> /\ pending' = pending \cup {Head(failed)}
           /\ failed' = Tail(failed)
  <2>1. failed \in Seq(F!File) /\ pending \in SUBSET F!File
    BY DEF FilesTypeInv
  <2>2. PICK t : t = Tail(failed)
    OBVIOUS
  <2>3. PICK h : h = Head(failed)
    OBVIOUS
  <2>4. PICK n \in Nat : n = Len(failed) /\ DOMAIN failed = 1..n
    BY <2>1, LenProperties
  <2>5. h = failed[1] /\ h \in F!File /\ n # 0
    BY <1>2, <2>1, <2>3, <2>4, EmptySeq, HeadTailProperties
  <2>6. /\ t \in Seq(F!File) /\ Len(t) = n - 1
        /\ \A i \in 1..(n - 1) : t[i] = failed[i + 1]
    BY <1>2, <2>1, <2>2, <2>4, HeadTailProperties
  <2>7. DOMAIN t = 1..(n - 1)
    BY <2>4, <2>5, <2>6, LenProperties
  <2>8. ASSUME NEW g \in F!Elements(failed) PROVE g = h \/ g \in F!Elements(t)
    <3>1. PICK j \in 1..n : failed[j] = g
      BY <2>4, <2>8 DEF F!Elements
    <3>2. CASE j = 1
      BY <2>5, <3>1, <3>2
    <3>3. CASE j # 1
      <4>1. PICK i : i = j - 1
        OBVIOUS
      <4>2. i \in 1..(n - 1) /\ i + 1 = j
        BY <2>4, <3>1, <3>3, <4>1
      <4> QED BY <2>6, <2>7, <3>1, <4>2 DEF F!Elements
    <3> QED BY <3>2, <3>3
  <2> QED BY <1>2, <2>1, <2>2, <2>3, <2>5, <2>6, <2>8
<1> QED BY <1>1, <1>2 DEF F!promoteFailedDescriptor

-----------------------------------------------------------------------------
(* What a step that leaves a part of the state alone leaves to show.       *)

(* Only snapshots are dropped.                                             *)
LEMMA IdentityKept ==
    ASSUME IdentityInv, UNCHANGED <<disk, incoming, changes, known, memo, looking>>,
           \A f \in F!File : snapshots'[f] = None \/ snapshots'[f] = snapshots[f]
    PROVE  IdentityInv'
BY DEF IdentityInv, Consistent, Retires

(* The order of a file rests on these three.                               *)
LEMMA OrderKept ==
    ASSUME UNCHANGED <<disk, known, fresh>>, NEW f
    PROVE  InOrder(f)' <=> InOrder(f)
BY DEF InOrder

(* The walker stays, and no file is dropped that is out of order.          *)
LEMMA CoverKept ==
    ASSUME CoverInv, UNCHANGED cursor, unreadable => unreadable', lost => lost',
           \A f \in F!File : InOrder(f) => InOrder(f)',
           ~lost' => \A f \in F!File :
               f \in pending \/ f \in F!Elements(failed) =>
                   InOrder(f)' \/ f \in pending' \/ f \in F!Elements(failed)'
    PROVE  CoverInv'
BY DEF CoverInv

(* The steps of the other machines.                                        *)
LEMMA FilesStutter == ASSUME FilesInv, UNCHANGED scanVars PROVE FilesInv'
<1>1. UNCHANGED <<disk, known, incoming, active, cursor, unreadable, due, pending, failed,
                  lost, memo, scanAt, looking, processed, snapshots, complete, fresh,
                  changes>>
  BY DEF scanVars
<1>2. FilesTypeInv'
  BY <1>1 DEF FilesInv, FilesTypeInv
<1>3. IdentityInv'
  BY <1>1, IdentityKept DEF FilesInv
<1>4. CoverInv'
  BY <1>1 DEF FilesInv, CoverInv, InOrder, F!Elements
<1>5. PhaseInv'
  BY <1>1 DEF FilesInv, PhaseInv, InOrder
<1> QED BY <1>2, <1>3, <1>4, <1>5 DEF FilesInv

-----------------------------------------------------------------------------
(* The user, the peers, the time.                                          *)

(* A change has an identity of its own: what was read before it stands.    *)
LEMMA ChangeKeepsIdentities ==
    ASSUME FilesAssumption, FilesTypeInv, IdentityInv, changes' = changes + 1,
           UNCHANGED <<known, memo, snapshots, looking>>,
           \A g \in F!File :
               \/ UNCHANGED <<disk[g], incoming[g]>>
               \/ incoming'[g] = incoming[g] /\ disk'[g] = None
               \/ incoming'[g] = incoming[g] /\ disk'[g] # None
                  /\ disk'[g].content = changes' /\ disk'[g].id = changes'
               \/ incoming'[g] = changes' /\ disk'[g] = disk[g]
    PROVE  IdentityInv'
<1>1. changes \in Nat /\ changes' \in Nat /\ changes' > changes /\ looking.id \in Nat
  BY DEF FilesTypeInv
<1>2. \A g \in F!File : (incoming[g] # None => incoming[g] \in Nat)
                        /\ (disk[g] # None => disk[g].id \in Nat)
  BY DEF FilesTypeInv
<1>3. ASSUME NEW g \in F!File, NEW id \in Nat, NEW c, Retires(g, id, c)
      PROVE  Retires(g, id, c)'
  BY <1>1, <1>3 DEF Retires
<1>4. ASSUME NEW g \in F!File, NEW e \in {None} \cup FileEntry, Consistent(g, e)
      PROVE  e = None \/ e.id = None \/ Retires(g, e.id, e.content)'
  BY <1>3, <1>4 DEF Consistent, FileEntry
<1>5. \A g \in F!File : Consistent(g, known[g])' /\ Consistent(g, memo[g])'
                        /\ Consistent(g, snapshots[g])'
  BY <1>4 DEF FilesTypeInv, IdentityInv, Consistent
<1>6. ASSUME NEW g \in F!File, disk'[g] # None
      PROVE  disk'[g].content = disk'[g].id /\ disk'[g].id <= changes'
             /\ incoming'[g] # disk'[g].id
  BY <1>1, <1>2, <1>6 DEF IdentityInv, FilesAssumption
<1>7. \A g \in F!File :
          /\ incoming'[g] # None => incoming'[g] <= changes'
          /\ looking'.file = g => looking'.id <= changes' /\ incoming'[g] # looking'.id
  BY <1>1, <1>2 DEF IdentityInv
<1> QED BY <1>5, <1>6, <1>7 DEF IdentityInv

(* What is written is fresh.                                               *)
LEMMA WriteKeepsFiles ==
    ASSUME FilesAssumption, FilesInv, NEW f \in F!File, F!Write(f)
    PROVE  FilesInv'
<1>1. PICK k \in Kinds :
        disk' = [disk EXCEPT ![f] = [content |-> changes', id |-> changes', kind |-> k]]
  BY DEF F!Write
<1>2. /\ changes' = changes + 1 /\ fresh' = fresh \cup {f}
      /\ UNCHANGED <<known, incoming, active, cursor, unreadable, due, pending, failed,
                     lost, memo, scanAt, looking, processed, snapshots, complete>>
  BY DEF F!Write, F!Change, F!enumeration, F!queues, F!scan, F!status
<1>3. /\ changes \in Nat /\ changes' \in Nat /\ changes' > changes
      /\ disk \in [F!File -> {None} \cup [content : Nat, id : Nat, kind : Kinds]]
  BY <1>2 DEF FilesInv, FilesTypeInv
<1>4. /\ disk'[f] = [content |-> changes', id |-> changes', kind |-> k]
      /\ \A g \in F!File : g # f => disk'[g] = disk[g]
      /\ disk' \in [F!File -> {None} \cup [content : Nat, id : Nat, kind : Kinds]]
  BY <1>1, <1>3
<1>5. FilesTypeInv'
  BY <1>2, <1>3, <1>4 DEF FilesInv, FilesTypeInv
<1>6. \A g \in F!File : InOrder(g) => InOrder(g)'
  BY <1>2, <1>4 DEF InOrder
<1>7. IdentityInv'
  BY <1>2, <1>3, <1>4, ChangeKeepsIdentities DEF FilesInv
<1>8. CoverInv'
  BY <1>2, <1>6 DEF FilesInv, CoverInv, F!Elements
<1>9. PhaseInv'
  BY <1>2, <1>6 DEF FilesInv, PhaseInv
<1> QED BY <1>5, <1>7, <1>8, <1>9 DEF FilesInv

(* So is what is removed.                                                  *)
LEMMA RemoveKeepsFiles ==
    ASSUME FilesAssumption, FilesInv, NEW f \in F!File, F!Remove(f)
    PROVE  FilesInv'
<1>1. /\ changes' = changes + 1 /\ fresh' = fresh \cup {f}
      /\ disk' = [disk EXCEPT ![f] = None]
      /\ UNCHANGED <<known, incoming, active, cursor, unreadable, due, pending, failed,
                     lost, memo, scanAt, looking, processed, snapshots, complete>>
  BY DEF F!Remove, F!Change, F!enumeration, F!queues, F!scan, F!status
<1>2. /\ changes \in Nat /\ changes' \in Nat /\ changes' > changes
      /\ disk \in [F!File -> {None} \cup [content : Nat, id : Nat, kind : Kinds]]
  BY <1>1 DEF FilesInv, FilesTypeInv
<1>3. /\ disk'[f] = None
      /\ \A g \in F!File : g # f => disk'[g] = disk[g]
      /\ disk' \in [F!File -> {None} \cup [content : Nat, id : Nat, kind : Kinds]]
  BY <1>1, <1>2
<1>4. FilesTypeInv'
  BY <1>1, <1>2, <1>3 DEF FilesInv, FilesTypeInv
<1>5. \A g \in F!File : InOrder(g) => InOrder(g)'
  BY <1>1, <1>3 DEF InOrder
<1>6. IdentityInv'
  BY <1>1, <1>3, ChangeKeepsIdentities DEF FilesInv
<1>7. CoverInv'
  BY <1>1, <1>5 DEF FilesInv, CoverInv, F!Elements
<1>8. PhaseInv'
  BY <1>1, <1>5 DEF FilesInv, PhaseInv
<1> QED BY <1>4, <1>6, <1>7, <1>8 DEF FilesInv

(* A version of a peer has an identity no file has had.                    *)
LEMMA ReceiveKeepsFiles ==
    ASSUME FilesAssumption, FilesInv, NEW f \in F!File, F!Receive(f)
    PROVE  FilesInv'
<1>1. /\ changes' = changes + 1 /\ incoming' = [incoming EXCEPT ![f] = changes']
      /\ UNCHANGED <<disk, fresh, known, active, cursor, unreadable, due, pending, failed,
                     lost, memo, scanAt, looking, processed, snapshots, complete>>
  BY DEF F!Receive, F!Change, F!enumeration, F!queues, F!scan, F!status
<1>2. /\ changes \in Nat /\ changes' \in Nat /\ changes' > changes
      /\ incoming \in [F!File -> {None} \cup Nat]
  BY <1>1 DEF FilesInv, FilesTypeInv
<1>3. /\ incoming'[f] = changes'
      /\ \A g \in F!File : g # f => incoming'[g] = incoming[g]
      /\ incoming' \in [F!File -> {None} \cup Nat]
  BY <1>1, <1>2
<1>4. FilesTypeInv'
  BY <1>1, <1>2, <1>3 DEF FilesInv, FilesTypeInv
<1>5. \A g \in F!File : InOrder(g) => InOrder(g)'
  BY <1>1 DEF InOrder
<1>6. IdentityInv'
  BY <1>1, <1>3, ChangeKeepsIdentities DEF FilesInv
<1>7. CoverInv'
  BY <1>1, <1>5 DEF FilesInv, CoverInv, F!Elements
<1>8. PhaseInv'
  BY <1>1, <1>5 DEF FilesInv, PhaseInv
<1> QED BY <1>4, <1>6, <1>7, <1>8 DEF FilesInv

(* A tick only makes an enumeration due.                                   *)
LEMMA TickKeepsFiles == ASSUME FilesInv, F!Tick PROVE FilesInv'
<1>1. /\ ~due /\ due' = TRUE
      /\ UNCHANGED <<disk, fresh, known, incoming, changes, active, cursor, unreadable,
                     pending, failed, lost, memo, scanAt, looking, processed, snapshots,
                     complete>>
  BY DEF F!Tick, F!world, F!queues, F!scan, F!status
<1>2. FilesTypeInv'
  BY <1>1 DEF FilesInv, FilesTypeInv
<1>3. IdentityInv'
  BY <1>1, IdentityKept DEF FilesInv
<1>4. CoverInv'
  BY <1>1 DEF FilesInv, CoverInv, InOrder, F!Elements
<1>5. PhaseInv'
  BY <1>1 DEF FilesInv, PhaseInv, InOrder
<1> QED BY <1>2, <1>3, <1>4, <1>5 DEF FilesInv

-----------------------------------------------------------------------------
(* The scan.                                                               *)

LEMMA BeginKeepsFiles == ASSUME FilesAssumption, FilesInv, F!Begin PROVE FilesInv'
<1>1. /\ scanAt = "idle" /\ scanAt' = "walk" /\ snapshots' = [f \in F!File |-> None]
      /\ F!beginEnumeration /\ F!promoteFailedDescriptor
      /\ UNCHANGED <<disk, incoming, changes, known, memo, looking, complete>>
  BY DEF F!Begin, F!Nothing, F!status
<1>2. /\ pending' \in SUBSET F!File /\ failed' \in Seq(F!File) /\ pending \subseteq pending'
      /\ \A g \in F!Elements(failed) : g \in pending' \/ g \in F!Elements(failed')
  BY <1>1, PromotedIs DEF FilesInv
<1>3. \/ active' = TRUE /\ cursor' = 0
      \/ UNCHANGED <<active, cursor, unreadable, due, lost, fresh>> /\ ~(~active /\ due)
  BY <1>1 DEF F!beginEnumeration, F!enumeration
<1>4. FilesTypeInv'
  BY <1>1, <1>2, <1>3 DEF FilesInv, FilesTypeInv, FilesAssumption
<1>5. \A f \in F!File : snapshots'[f] = None
  BY <1>1
<1>6. IdentityInv'
  BY <1>1, <1>5, IdentityKept DEF FilesInv
<1>7. ~complete
  BY <1>1 DEF FilesInv, PhaseInv
<1>8. CASE active' = TRUE /\ cursor' = 0
  <2>1. CoverInv'
    BY <1>8 DEF CoverInv, F!File, FilesAssumption
  <2>2. PhaseInv'
    BY <1>1, <1>5, <1>7, <1>8 DEF PhaseInv
  <2> QED BY <1>4, <1>6, <2>1, <2>2 DEF FilesInv
<1>9. CASE UNCHANGED <<active, cursor, unreadable, due, lost, fresh>> /\ ~(~active /\ due)
  <2>1. \A f \in F!File : InOrder(f) => InOrder(f)'
    BY <1>1, <1>9 DEF InOrder
  <2>2. \A f \in F!File : f \in F!Elements(failed') => f \in F!Elements(failed)'
    BY DEF F!Elements
  <2>3. CoverInv'
    BY <1>2, <1>9, <2>1, <2>2, CoverKept DEF FilesInv
  <2>4. PhaseInv'
    BY <1>1, <1>5, <1>7, <1>9 DEF FilesInv, PhaseInv
  <2> QED BY <1>4, <1>6, <2>3, <2>4 DEF FilesInv
<1> QED BY <1>3, <1>8, <1>9

(* What the walker meets is in order, or goes to the page.                 *)
LEMMA AdvanceKeepsFiles == ASSUME FilesAssumption, FilesInv, F!Advance PROVE FilesInv'
<1>1. PICK f : f = cursor + 1
  OBVIOUS
<1>2. /\ scanAt = "walk" /\ active /\ cursor < Files /\ cursor' = f
      /\ pending' = IF disk[f] # None /\ ~(disk[f] # None /\ F!projectionMatchesFileIdentity(f))
                    THEN pending \cup {f} ELSE pending
      /\ UNCHANGED <<disk, incoming, changes, fresh, known, active, unreadable, due, failed,
                     lost, memo, scanAt, looking, processed, snapshots, complete>>
  BY <1>1 DEF F!Advance, F!CanWalk, F!world, F!status
<1>3. f \in F!File /\ cursor' \in 0..Files /\ cursor \in Nat /\ Files \in Nat
      /\ F!File \subseteq Nat
  BY <1>1, <1>2 DEF FilesInv, FilesTypeInv, F!File, FilesAssumption
<1>4. FilesTypeInv'
  BY <1>2, <1>3 DEF FilesInv, FilesTypeInv
<1>5. IdentityInv'
  BY <1>2, IdentityKept DEF FilesInv
<1>6. \A g \in F!File : InOrder(g) => InOrder(g)'
  BY <1>2 DEF InOrder
<1>7. InOrder(f)' \/ f \in pending'
  <2>1. CASE disk[f] # None /\ F!projectionMatchesFileIdentity(f)
    <3>1. /\ known[f] \in {None} \cup FileEntry /\ Consistent(f, known[f])
          /\ disk[f].id \in Nat
      BY <1>3, <2>1 DEF FilesInv, FilesTypeInv, IdentityInv
    <3>2. known[f] # None /\ known[f].id = disk[f].id /\ disk[f].id # None
      BY <2>1, <3>1 DEF F!projectionMatchesFileIdentity, FilesAssumption
    <3>3. known[f].content = disk[f].content
      BY <2>1, <3>1, <3>2 DEF Consistent, Retires
    <3> QED BY <1>2, <3>2, <3>3 DEF InOrder
  <2>2. CASE disk[f] = None
    BY <1>2, <2>2 DEF InOrder
  <2>3. CASE disk[f] # None /\ ~F!projectionMatchesFileIdentity(f)
    BY <1>2, <2>3
  <2> QED BY <2>1, <2>2, <2>3
<1>8. CoverInv'
  <2>1. SUFFICES ASSUME ~unreadable', ~lost', NEW g \in F!File, g <= cursor'
                 PROVE  InOrder(g)' \/ g \in pending' \/ g \in F!Elements(failed)'
    BY DEF CoverInv
  <2>2. g = f \/ g <= cursor
    BY <1>1, <1>2, <1>3, <2>1
  <2>3. ASSUME g <= cursor PROVE InOrder(g) \/ g \in pending \/ g \in F!Elements(failed)
    BY <1>2, <2>1, <2>3 DEF FilesInv, CoverInv
  <2>4. F!Elements(failed)' = F!Elements(failed) /\ pending \subseteq pending'
    BY <1>2 DEF F!Elements
  <2> QED BY <1>6, <1>7, <2>2, <2>3, <2>4
<1>9. PhaseInv'
  BY <1>2 DEF FilesInv, PhaseInv
<1> QED BY <1>4, <1>5, <1>8, <1>9 DEF FilesInv

(* The enumeration ends when it has passed every file.                     *)
LEMMA FinishEnumerationKeepsFiles ==
    ASSUME FilesInv, F!finishEnumeration
    PROVE  FilesInv'
<1>1. /\ scanAt = "walk" /\ cursor = Files /\ active' = FALSE
      /\ UNCHANGED <<disk, incoming, changes, fresh, known, cursor, unreadable, due, pending,
                     failed, lost, memo, scanAt, looking, processed, snapshots, complete>>
  BY DEF F!finishEnumeration, F!world, F!queues, F!status
<1>2. FilesTypeInv'
  BY <1>1 DEF FilesInv, FilesTypeInv
<1>3. IdentityInv'
  BY <1>1, IdentityKept DEF FilesInv
<1>4. CoverInv'
  BY <1>1 DEF FilesInv, CoverInv, InOrder, F!Elements
<1>5. PhaseInv'
  BY <1>1 DEF FilesInv, PhaseInv, InOrder
<1> QED BY <1>2, <1>3, <1>4, <1>5 DEF FilesInv

(* What the walker could not read makes the scan incomplete.               *)
LEMMA AdvanceFailsKeepsFiles ==
    ASSUME FilesAssumption, FilesInv, F!AdvanceFails
    PROVE  FilesInv'
<1>1. /\ scanAt = "walk" /\ active /\ cursor' = Files /\ unreadable' = TRUE
      /\ UNCHANGED <<disk, incoming, changes, fresh, known, active, due, pending,
                     failed, lost, memo, scanAt, looking, processed, snapshots, complete>>
  BY DEF F!AdvanceFails, F!CanWalk, F!world, F!queues, F!scan, F!status
<1>2. FilesTypeInv'
  BY <1>1 DEF FilesInv, FilesTypeInv, FilesAssumption
<1>3. IdentityInv'
  BY <1>1, IdentityKept DEF FilesInv
<1>4. CoverInv'
  BY <1>1 DEF CoverInv
<1>5. PhaseInv'
  BY <1>1 DEF FilesInv, PhaseInv, InOrder
<1> QED BY <1>2, <1>3, <1>4, <1>5 DEF FilesInv

-----------------------------------------------------------------------------
(* The look at a file.                                                     *)

(* A file leaves the page: it is in order, or among the failures.          *)
Leaves(f) ==
    /\ pending' = pending \ {f} /\ failed' \in Seq(F!File) /\ (lost => lost')
    /\ ~lost' => \A g \in F!Elements(failed) : g # f => g \in F!Elements(failed')
    /\ InOrder(f) \/ f \in F!Elements(failed')

(* A file whose look is over leaves the page in order,                     *)
LEMMA DoneLeaves ==
    ASSUME FilesTypeInv, NEW f \in F!File, F!Done(f), InOrder(f)
    PROVE  Leaves(f)
BY DoneIs DEF Leaves

(* or as a failure,                                                        *)
LEMMA RememberedLeaves ==
    ASSUME FilesAssumption, FilesTypeInv, NEW f \in F!File, F!rememberFailedDescriptor(f)
    PROVE  Leaves(f)
BY RememberedIs DEF Leaves

(* and is accounted for either way.                                        *)
LEMMA LeavingCovers ==
    ASSUME FilesInv, NEW f \in F!File, Leaves(f),
           UNCHANGED <<disk, known, fresh, cursor, unreadable>>
    PROVE  CoverInv'
<1>1. \A g \in F!File : InOrder(g) => InOrder(g)'
  BY DEF InOrder
<1>2. \A g : g \in F!Elements(failed)' <=> g \in F!Elements(failed')
  BY DEF F!Elements
<1>3. ASSUME ~lost', NEW g \in F!File, g \in pending \/ g \in F!Elements(failed)
      PROVE  InOrder(g)' \/ g \in pending' \/ g \in F!Elements(failed)'
  <2>1. CASE g = f
    BY <1>1, <1>2, <2>1 DEF Leaves
  <2>2. CASE g # f
    BY <1>2, <1>3, <2>2 DEF Leaves
  <2> QED BY <2>1, <2>2
<1> QED BY <1>1, <1>3, CoverKept DEF FilesInv, Leaves

(* The memo vouches for a file only with its identity.                     *)
LEMMA StatKeepsFiles ==
    ASSUME FilesAssumption, FilesInv, NEW f \in F!File, F!Stat(f)
    PROVE  FilesInv'
<1>1. /\ scanAt \in {"walk", "check"} /\ f \in pending /\ f \notin processed
      /\ processed' = processed \cup {f}
      /\ UNCHANGED <<disk, incoming, changes, fresh, known, active, cursor, unreadable, due,
                     snapshots, complete>>
  BY DEF F!Stat, F!ToCheck, F!world, F!enumeration, F!status
<1>2. ~complete /\ snapshots[f] = None
  BY <1>1 DEF FilesInv, PhaseInv
<1>3. disk[f] # None => disk[f].id \in Nat
  BY DEF FilesInv, FilesTypeInv
<1>4. CASE /\ Leaves(f) /\ scanAt' = "check" /\ UNCHANGED <<looking, memo>>
  <2>1. FilesTypeInv'
    BY <1>1, <1>4 DEF FilesInv, FilesTypeInv, Leaves
  <2>2. IdentityInv'
    BY <1>1, <1>4, IdentityKept DEF FilesInv
  <2>3. CoverInv'
    BY <1>1, <1>4, LeavingCovers
  <2>4. PhaseInv'
    BY <1>1, <1>2, <1>4 DEF FilesInv, PhaseInv, Leaves
  <2> QED BY <2>1, <2>2, <2>3, <2>4 DEF FilesInv
<1>5. CASE /\ disk[f] # None /\ scanAt' = "read"
           /\ looking' = [file |-> f, id |-> disk[f].id]
           /\ UNCHANGED <<pending, failed, lost, memo>>
  <2>1. looking'.file = f /\ looking'.id = disk[f].id
    BY <1>5
  <2>2. FilesTypeInv'
    <3>1. looking' \in [file : 0..Files, id : Nat]
      BY <1>3, <1>5 DEF F!File
    <3> QED BY <1>1, <1>5, <3>1 DEF FilesInv, FilesTypeInv
  <2>3. IdentityInv'
    BY <1>1, <1>3, <1>5, <2>1 DEF FilesInv, IdentityInv, Consistent, Retires
  <2>4. CoverInv'
    BY <1>1, <1>5 DEF FilesInv, CoverInv, InOrder, F!Elements
  <2>5. PhaseInv'
    BY <1>1, <1>2, <1>5, <2>1 DEF FilesInv, PhaseInv, InOrder
  <2> QED BY <2>2, <2>3, <2>4, <2>5 DEF FilesInv
<1>6. CASE /\ disk[f] = None /\ F!rememberFailedDescriptor(f) /\ scanAt' = "check"
           /\ UNCHANGED <<looking, memo>>
  BY <1>4, <1>6, RememberedLeaves DEF FilesInv
<1>7. CASE /\ disk[f] # None /\ F!memoMatches(f) /\ F!Done(f) /\ scanAt' = "check"
           /\ UNCHANGED <<looking, memo>>
  <2>1. memo[f] # None /\ memo[f].id = disk[f].id /\ known[f] # None
        /\ known[f].content = memo[f].content
    BY <1>7 DEF F!memoMatches
  <2>2. memo[f].content = disk[f].content
    BY <1>3, <1>7, <2>1
       DEF FilesInv, IdentityInv, Consistent, Retires, FilesAssumption
  <2>3. InOrder(f)
    BY <2>1, <2>2 DEF InOrder
  <2> QED BY <1>4, <1>7, <2>3, DoneLeaves DEF FilesInv
<1>8. CASE /\ disk[f].kind = "large" /\ F!Done(f) /\ scanAt' = "check"
           /\ UNCHANGED <<looking, memo>>
  BY <1>4, <1>8, DoneLeaves DEF FilesInv, InOrder
<1>9. \/ /\ disk[f] = None /\ F!rememberFailedDescriptor(f) /\ scanAt' = "check"
         /\ UNCHANGED <<looking, memo>>
      \/ /\ disk[f] # None /\ F!memoMatches(f) /\ F!Done(f) /\ scanAt' = "check"
         /\ UNCHANGED <<looking, memo>>
      \/ /\ disk[f].kind = "large" /\ F!Done(f) /\ scanAt' = "check"
         /\ UNCHANGED <<looking, memo>>
      \/ /\ disk[f] # None /\ scanAt' = "read"
         /\ looking' = [file |-> f, id |-> disk[f].id]
         /\ UNCHANGED <<pending, failed, lost, memo>>
  BY DEF F!Stat, F!queues
<1> QED BY <1>5, <1>6, <1>7, <1>8, <1>9

(* What was read of f, when it was read with another identity or its own.  *)
LEMMA ReadIsConsistent ==
    ASSUME FilesInv, NEW f \in F!File, looking.file = f, disk[f] # None
    PROVE  /\ [id |-> looking.id, content |-> disk[f].content] \in FileEntry
           /\ Consistent(f, [id |-> looking.id, content |-> disk[f].content])
<1>1. looking.id \in Nat /\ disk[f].content \in Nat
  BY DEF FilesInv, FilesTypeInv
<1>2. PICK e : e = [id |-> looking.id, content |-> disk[f].content]
  OBVIOUS
<1>3. e \in FileEntry /\ e.id = looking.id /\ e.content = disk[f].content
  BY <1>1, <1>2 DEF FileEntry
<1>4. Retires(f, e.id, e.content)
  BY <1>3 DEF FilesInv, IdentityInv, Retires
<1> QED BY <1>2, <1>3, <1>4 DEF Consistent

(* What was read is known, returned, or a failure.                         *)
LEMMA ReadKeepsFiles == ASSUME FilesAssumption, FilesInv, F!Read PROVE FilesInv'
<1>1. PICK f : f = looking.file
  OBVIOUS
<1>2. /\ scanAt = "read" /\ scanAt' = "check" /\ looking' = F!NotLooking
      /\ UNCHANGED <<disk, incoming, changes, fresh, known, active, cursor, unreadable, due,
                     processed, complete>>
  BY DEF F!Read, F!world, F!enumeration, F!status
<1>3. f \in F!File /\ f \in pending /\ f \in processed /\ snapshots[f] = None /\ ~complete
  BY <1>1, <1>2 DEF FilesInv, FilesTypeInv, PhaseInv
<1>4. /\ looking'.file = 0 /\ looking' \in [file : 0..Files, id : Nat] /\ 0 \notin F!File
  BY <1>2, FilesAssumption DEF F!NotLooking, F!File, FilesAssumption
<1>5. PICK e : e = [id |-> looking.id, content |-> disk[f].content]
  OBVIOUS
<1>6. /\ memo \in [F!File -> {None} \cup FileEntry]
      /\ snapshots \in [F!File -> {None} \cup FileEntry] /\ failed \in Seq(F!File)
  BY DEF FilesInv, FilesTypeInv
<1>7. CASE /\ Leaves(f) /\ memo' = [memo EXCEPT ![f] = None] /\ UNCHANGED snapshots
  <2>1. memo' \in [F!File -> {None} \cup FileEntry]
        /\ \A g \in F!File : memo'[g] = None \/ memo'[g] = memo[g]
    BY <1>6, <1>7
  <2>2. FilesTypeInv'
    BY <1>2, <1>4, <1>7, <2>1 DEF FilesInv, FilesTypeInv, Leaves
  <2>3. IdentityInv'
    BY <1>2, <1>4, <1>7, <2>1 DEF FilesInv, IdentityInv, Consistent, Retires
  <2>4. CoverInv'
    BY <1>2, <1>3, <1>7, LeavingCovers
  <2>5. PhaseInv'
    BY <1>2, <1>3, <1>7 DEF FilesInv, PhaseInv, Leaves
  <2> QED BY <2>2, <2>3, <2>4, <2>5 DEF FilesInv
<1>8. ASSUME disk[f] # None, memo' = [memo EXCEPT ![f] = e]
      PROVE  /\ memo' \in [F!File -> {None} \cup FileEntry] /\ e \in FileEntry
             /\ \A g \in F!File : Consistent(g, memo'[g])
             /\ Consistent(f, e) /\ memo'[f] = e
  <2>1. e \in FileEntry /\ Consistent(f, e)
    BY <1>1, <1>3, <1>5, <1>8, ReadIsConsistent
  <2>2. memo' \in [F!File -> {None} \cup FileEntry] /\ memo'[f] = e
        /\ \A g \in F!File : g # f => memo'[g] = memo[g]
    BY <1>3, <1>6, <1>8, <2>1
  <2> QED BY <2>1, <2>2 DEF FilesInv, IdentityInv
<1>9. CASE /\ disk[f] # None /\ Leaves(f) /\ memo' = [memo EXCEPT ![f] = e]
           /\ UNCHANGED snapshots
  <2>1. FilesTypeInv'
    BY <1>2, <1>4, <1>8, <1>9 DEF FilesInv, FilesTypeInv, Leaves
  <2>2. IdentityInv'
    <3>1. \A g \in F!File : Consistent(g, memo'[g])
      BY <1>8, <1>9
    <3> QED BY <1>2, <1>4, <1>9, <3>1 DEF FilesInv, IdentityInv, Consistent, Retires
  <2>3. CoverInv'
    BY <1>2, <1>3, <1>9, LeavingCovers
  <2>4. PhaseInv'
    BY <1>2, <1>3, <1>9 DEF FilesInv, PhaseInv, Leaves
  <2> QED BY <2>1, <2>2, <2>3, <2>4 DEF FilesInv
<1>10. CASE /\ disk[f] # None /\ memo' = [memo EXCEPT ![f] = e]
            /\ snapshots' = [snapshots EXCEPT ![f] = e]
            /\ failed' = F!Without(failed, f) /\ UNCHANGED <<pending, lost>>
  <2>1. /\ failed' \in Seq(F!File)
        /\ \A g \in F!Elements(failed) : g # f => g \in F!Elements(failed')
    <3>1. PICK r : r = F!Without(failed, f)
      OBVIOUS
    <3> QED BY <1>6, <1>10, <3>1, WithoutIs
  <2>2. /\ snapshots' \in [F!File -> {None} \cup FileEntry] /\ snapshots'[f] = e
        /\ \A g \in F!File : g # f => snapshots'[g] = snapshots[g]
    BY <1>3, <1>6, <1>8, <1>10
  <2>3. FilesTypeInv'
    BY <1>2, <1>4, <1>8, <1>10, <2>1, <2>2 DEF FilesInv, FilesTypeInv
  <2>4. IdentityInv'
    <3>1. \A g \in F!File : Consistent(g, memo'[g]) /\ Consistent(g, snapshots'[g])
      BY <1>8, <1>10, <2>2 DEF FilesInv, IdentityInv
    <3> QED BY <1>2, <1>4, <3>1 DEF FilesInv, IdentityInv, Consistent, Retires
  <2>5. CoverInv'
    <3>1. \A g \in F!File : InOrder(g) => InOrder(g)'
      BY <1>2 DEF InOrder
    <3>2. \A g : g \in F!Elements(failed)' <=> g \in F!Elements(failed')
      BY DEF F!Elements
    <3> QED BY <1>2, <1>3, <1>10, <2>1, <3>1, <3>2, CoverKept DEF FilesInv
  <2>6. PhaseInv'
    BY <1>2, <1>3, <1>10, <2>2 DEF FilesInv, PhaseInv
  <2> QED BY <2>3, <2>4, <2>5, <2>6 DEF FilesInv
<1>11. CASE /\ F!rememberFailedDescriptor(f) /\ memo' = [memo EXCEPT ![f] = None]
            /\ UNCHANGED snapshots
  BY <1>3, <1>7, <1>11, RememberedLeaves DEF FilesInv
<1>12. CASE /\ disk[f] # None /\ known[f] # None /\ known[f].content = disk[f].content
            /\ memo' = [memo EXCEPT ![f] = e] /\ F!Done(f) /\ UNCHANGED snapshots
  BY <1>3, <1>9, <1>12, DoneLeaves DEF FilesInv, InOrder
<1>13. CASE disk[f] = None \/ disk[f].kind # "good"
  BY <1>1, <1>11, <1>13 DEF F!Read
<1>14. CASE ~(disk[f] = None \/ disk[f].kind # "good")
  <2>1. /\ memo' = [memo EXCEPT ![f] = e]
        /\ IF known[f] # None /\ known[f].content = disk[f].content
           THEN F!Done(f) /\ UNCHANGED snapshots
           ELSE /\ snapshots' = [snapshots EXCEPT ![f] = memo'[f]]
                /\ failed' = F!Without(failed, f) /\ UNCHANGED <<pending, lost>>
    BY <1>1, <1>5, <1>14 DEF F!Read
  <2>2. memo'[f] = e
    BY <1>8, <1>14, <2>1
  <2> QED BY <1>10, <1>12, <1>14, <2>1, <2>2
<1> QED BY <1>13, <1>14

(* What could not be read is a failure.                                    *)
LEMMA ReadFailsKeepsFiles == ASSUME FilesAssumption, FilesInv, F!ReadFails PROVE FilesInv'
<1>1. PICK f : f = looking.file
  OBVIOUS
<1>2. /\ scanAt = "read" /\ scanAt' = "check" /\ looking' = F!NotLooking
      /\ F!rememberFailedDescriptor(f) /\ memo' = [memo EXCEPT ![f] = None]
      /\ UNCHANGED <<disk, incoming, changes, fresh, known, active, cursor, unreadable, due,
                     processed, snapshots, complete>>
  BY <1>1 DEF F!ReadFails, F!world, F!enumeration, F!status
<1>3. f \in F!File /\ f \in pending /\ f \in processed /\ snapshots[f] = None /\ ~complete
  BY <1>1, <1>2 DEF FilesInv, FilesTypeInv, PhaseInv
<1>4. /\ looking'.file = 0 /\ looking' \in [file : 0..Files, id : Nat] /\ 0 \notin F!File
  BY <1>2, FilesAssumption DEF F!NotLooking, F!File, FilesAssumption
<1>5. Leaves(f)
  BY <1>2, <1>3, RememberedLeaves DEF FilesInv
<1>6. memo' \in [F!File -> {None} \cup FileEntry]
      /\ \A g \in F!File : memo'[g] = None \/ memo'[g] = memo[g]
  BY <1>2 DEF FilesInv, FilesTypeInv
<1>7. FilesTypeInv'
  BY <1>2, <1>4, <1>5, <1>6 DEF FilesInv, FilesTypeInv, Leaves
<1>8. IdentityInv'
  BY <1>2, <1>4, <1>6 DEF FilesInv, IdentityInv, Consistent, Retires
<1>9. CoverInv'
  BY <1>2, <1>3, <1>5, LeavingCovers
<1>10. PhaseInv'
  BY <1>2, <1>3, <1>5 DEF FilesInv, PhaseInv, Leaves
<1> QED BY <1>7, <1>8, <1>9, <1>10 DEF FilesInv

(* Another round.                                                          *)
LEMMA AgainKeepsFiles == ASSUME FilesInv, F!Again PROVE FilesInv'
<1>1. /\ scanAt \in {"walk", "check"} /\ scanAt' = "walk"
      /\ UNCHANGED <<disk, incoming, changes, fresh, known, active, cursor, unreadable, due,
                     pending, failed, lost, memo, looking, processed, snapshots, complete>>
  BY DEF F!Again, F!RoundEnds, F!world, F!enumeration, F!queues, F!status
<1>2. FilesTypeInv'
  BY <1>1 DEF FilesInv, FilesTypeInv
<1>3. IdentityInv'
  BY <1>1, IdentityKept DEF FilesInv
<1>4. CoverInv'
  BY <1>1 DEF FilesInv, CoverInv, InOrder, F!Elements
<1>5. PhaseInv'
  BY <1>1 DEF FilesInv, PhaseInv, InOrder
<1> QED BY <1>2, <1>3, <1>4, <1>5 DEF FilesInv

(* A complete scan: the enumeration has passed every file, none is left on *)
(* the page or among the failures, and none was dropped.                   *)
LEMMA CompleteIsInOrder ==
    ASSUME FilesInv, scanAt # "idle", F!scanStatusComplete
    PROVE  \A f \in F!File : InOrder(f)
<1>1. pending = {} /\ failed = <<>> /\ ~lost /\ ~unreadable /\ ~active
  BY DEF F!scanStatusComplete
<1>2. cursor = Files
  BY <1>1 DEF FilesInv, PhaseInv
<1>3. \A f \in F!File : f <= cursor
  BY <1>2 DEF F!File
<1>4. \A f : f \notin F!Elements(failed)
  BY <1>1 DEF F!Elements
<1> QED BY <1>1, <1>3, <1>4 DEF FilesInv, CoverInv

(* A scan ends complete only with every file in order.                     *)
LEMMA EndKeepsFiles ==
    ASSUME FilesInv, NEW dropped, F!End(dropped)
    PROVE  FilesInv'
<1>1. /\ scanAt \in {"walk", "check"} /\ scanAt' = "publish"
      /\ complete' = (F!scanStatusComplete /\ dropped = {})
      /\ snapshots' = [f \in F!File |-> IF f \in dropped THEN None ELSE snapshots[f]]
      /\ UNCHANGED <<disk, incoming, changes, fresh, known, active, cursor, unreadable, due,
                     pending, failed, lost, memo, looking>>
  BY DEF F!End, F!RoundEnds, F!world, F!enumeration, F!queues
<1>2. \A f \in F!File : snapshots'[f] = None \/ snapshots'[f] = snapshots[f]
  BY <1>1
<1>3. snapshots' \in [F!File -> {None} \cup FileEntry]
  BY <1>1 DEF FilesInv, FilesTypeInv
<1>4. FilesTypeInv'
  BY <1>1, <1>3 DEF FilesInv, FilesTypeInv
<1>5. IdentityInv'
  BY <1>1, <1>2, IdentityKept DEF FilesInv
<1>6. CoverInv'
  BY <1>1 DEF FilesInv, CoverInv, InOrder, F!Elements
<1>7. \A f \in F!File : InOrder(f) => InOrder(f)'
  BY <1>1 DEF InOrder
<1>8. complete' => pending' = {} /\ \A f \in F!File : InOrder(f)'
  BY <1>1, <1>7, CompleteIsInOrder DEF F!scanStatusComplete
<1>9. PhaseInv'
  <2>1. ~active' /\ (~due' \/ scanAt' # "idle") => cursor' = Files
    BY <1>1 DEF FilesInv, PhaseInv
  <2>2. ASSUME NEW f \in F!File, snapshots'[f] # None PROVE f \in pending'
    BY <1>1, <1>2, <2>2 DEF FilesInv, PhaseInv
  <2> QED BY <1>1, <1>8, <2>1, <2>2 DEF PhaseInv
<1> QED BY <1>4, <1>5, <1>6, <1>9 DEF FilesInv

-----------------------------------------------------------------------------
(* The rest of the cycle.                                                  *)

LEMMA PublishKeepsFiles == ASSUME FilesAssumption, FilesInv, F!Publish PROVE FilesInv'
<1>1. /\ scanAt = "publish" /\ scanAt' = "apply"
      /\ known' = [f \in F!File |-> IF snapshots[f] = None THEN known[f] ELSE snapshots[f]]
      /\ incoming' = [f \in F!File |-> IF snapshots[f] = None THEN incoming[f] ELSE None]
      /\ UNCHANGED <<disk, changes, fresh, active, cursor, unreadable, due, pending, failed,
                     lost, memo, looking, processed, snapshots, complete>>
  BY DEF F!Publish, F!enumeration, F!queues, F!status
<1>2. \A f \in F!File :
          \/ snapshots[f] = None /\ known'[f] = known[f] /\ incoming'[f] = incoming[f]
          \/ snapshots[f] # None /\ known'[f] = snapshots[f] /\ incoming'[f] = None
  BY <1>1
<1>3. /\ known' \in [F!File -> {None} \cup FileEntry]
      /\ incoming' \in [F!File -> {None} \cup Nat]
  BY <1>1 DEF FilesInv, FilesTypeInv
<1>4. FilesTypeInv'
  BY <1>1, <1>3 DEF FilesInv, FilesTypeInv
<1>5. IdentityInv'
  <2>1. /\ looking.id \in Nat /\ known \in [F!File -> {None} \cup FileEntry]
        /\ memo \in [F!File -> {None} \cup FileEntry]
        /\ snapshots \in [F!File -> {None} \cup FileEntry]
        /\ \A f \in F!File : disk[f] # None => disk[f].id \in Nat
    BY DEF FilesInv, FilesTypeInv
  <2>2. ASSUME NEW f \in F!File, NEW id \in Nat, NEW c, Retires(f, id, c)
        PROVE  Retires(f, id, c)'
    BY <1>1, <1>2, <2>2 DEF Retires, FilesAssumption
  <2>3. ASSUME NEW f \in F!File, NEW e \in {None} \cup FileEntry, Consistent(f, e)
        PROVE  e = None \/ e.id = None \/ Retires(f, e.id, e.content)'
    BY <2>2, <2>3 DEF Consistent, FileEntry
  <2>4. \A f \in F!File : Consistent(f, memo[f])' /\ Consistent(f, snapshots[f])'
    BY <1>1, <2>1, <2>3 DEF FilesInv, IdentityInv, Consistent
  <2>5. ASSUME NEW f \in F!File PROVE Consistent(f, known[f])'
    <3>1. PICK e \in {None} \cup FileEntry : e = known'[f] /\ Consistent(f, e)
      BY <1>2, <2>1 DEF FilesInv, IdentityInv
    <3> QED BY <2>3, <3>1 DEF Consistent
  <2>6. \A f \in F!File :
            /\ disk'[f] # None => disk'[f].content = disk'[f].id /\ disk'[f].id <= changes'
                                  /\ incoming'[f] # disk'[f].id
            /\ incoming'[f] # None => incoming'[f] <= changes'
            /\ looking'.file = f => looking'.id <= changes' /\ incoming'[f] # looking'.id
    BY <1>1, <1>2, <2>1 DEF FilesInv, IdentityInv, FilesAssumption
  <2> QED BY <2>4, <2>5, <2>6 DEF IdentityInv
<1>6. \A f \in F!File : InOrder(f) => InOrder(f)' \/ f \in pending
  BY <1>1, <1>2 DEF FilesInv, PhaseInv, InOrder
<1>7. CoverInv'
  BY <1>1, <1>6 DEF FilesInv, CoverInv, F!Elements
<1>8. PhaseInv'
  BY <1>1, <1>6 DEF FilesInv, PhaseInv
<1> QED BY <1>4, <1>5, <1>7, <1>8 DEF FilesInv

(* Nothing is published; the cycle goes on.                                *)
LEMMA PublishFailsKeepsFiles == ASSUME FilesInv, F!PublishFails PROVE FilesInv'
<1>1. /\ scanAt = "publish" /\ scanAt' = "apply"
      /\ UNCHANGED <<disk, incoming, changes, fresh, known, active, cursor, unreadable, due,
                     pending, failed, lost, memo, looking, processed, snapshots, complete>>
  BY DEF F!PublishFails, F!world, F!enumeration, F!queues, F!status
<1>2. FilesTypeInv'
  BY <1>1 DEF FilesInv, FilesTypeInv
<1>3. IdentityInv'
  BY <1>1, IdentityKept DEF FilesInv
<1>4. CoverInv'
  BY <1>1 DEF FilesInv, CoverInv, InOrder, F!Elements
<1>5. PhaseInv'
  BY <1>1 DEF FilesInv, PhaseInv, InOrder
<1> QED BY <1>2, <1>3, <1>4, <1>5 DEF FilesInv

(* What is written for a peer is known as written.                         *)
LEMMA ApplyKeepsFiles ==
    ASSUME FilesAssumption, FilesInv, NEW f \in F!File, F!Apply(f)
    PROVE  FilesInv'
<1>1. PICK c : c = incoming[f]
  OBVIOUS
<1>2. /\ scanAt = "apply" /\ c # None
      /\ disk' = [disk EXCEPT ![f] = [content |-> c, id |-> c, kind |-> "good"]]
      /\ known' = [known EXCEPT ![f] = [content |-> c, id |-> None]]
      /\ incoming' = [incoming EXCEPT ![f] = None]
      /\ UNCHANGED <<changes, fresh, active, cursor, unreadable, due, pending, failed,
                     lost, memo, scanAt, looking, processed, snapshots, complete>>
  BY <1>1 DEF F!Apply, F!enumeration, F!queues, F!scan, F!status
<1>3. /\ c \in Nat /\ c <= changes
      /\ disk \in [F!File -> {None} \cup [content : Nat, id : Nat, kind : Kinds]]
      /\ known \in [F!File -> {None} \cup FileEntry]
      /\ memo \in [F!File -> {None} \cup FileEntry]
      /\ snapshots \in [F!File -> {None} \cup FileEntry]
      /\ incoming \in [F!File -> {None} \cup Nat] /\ looking.id \in Nat
  BY <1>1, <1>2 DEF FilesInv, FilesTypeInv, IdentityInv
<1>4. [content |-> c, id |-> None] \in FileEntry
  BY <1>3 DEF FileEntry
<1>5. /\ disk'[f] = [content |-> c, id |-> c, kind |-> "good"]
      /\ \A g \in F!File : g # f => disk'[g] = disk[g]
      /\ disk' \in [F!File -> {None} \cup [content : Nat, id : Nat, kind : Kinds]]
  BY <1>2, <1>3
<1>6. /\ known'[f] = [content |-> c, id |-> None]
      /\ \A g \in F!File : g # f => known'[g] = known[g]
      /\ known' \in [F!File -> {None} \cup FileEntry]
  BY <1>2, <1>3, <1>4
<1>7. /\ incoming'[f] = None /\ \A g \in F!File : g # f => incoming'[g] = incoming[g]
      /\ incoming' \in [F!File -> {None} \cup Nat]
  BY <1>2, <1>3
<1>8. /\ disk'[f] # None /\ disk'[f].content = c /\ disk'[f].id = c
      /\ known'[f] # None /\ known'[f].content = c /\ known'[f].id = None
  <2>1. [content |-> c, id |-> c, kind |-> "good"] # None
    BY <1>3 DEF FilesAssumption
  <2>2. [content |-> c, id |-> None] # None
    BY <1>4 DEF FilesAssumption, FileEntry
  <2> QED BY <1>5, <1>6, <2>1, <2>2
<1>9. FilesTypeInv'
  BY <1>2, <1>5, <1>6, <1>7 DEF FilesInv, FilesTypeInv
<1>10. IdentityInv'
  <2>1. \A g \in F!File : disk[g] # None => disk[g].id \in Nat
    BY <1>3
  <2>2. ASSUME NEW g \in F!File, NEW id \in Nat, NEW d, Retires(g, id, d)
        PROVE  Retires(g, id, d)'
    <3>1. CASE g = f
      BY <1>1, <1>2, <1>5, <1>7, <1>8, <2>2, <3>1 DEF Retires, FilesAssumption
    <3>2. CASE g # f
      BY <1>2, <1>5, <1>7, <2>2, <3>2 DEF Retires
    <3> QED BY <3>1, <3>2
  <2>3. ASSUME NEW g \in F!File, NEW e \in {None} \cup FileEntry, Consistent(g, e)
        PROVE  e = None \/ e.id = None \/ Retires(g, e.id, e.content)'
    BY <2>2, <2>3 DEF Consistent, FileEntry
  <2>4. \A g \in F!File : Consistent(g, memo[g])' /\ Consistent(g, snapshots[g])'
    BY <1>2, <1>3, <2>3 DEF FilesInv, IdentityInv, Consistent
  <2>5. ASSUME NEW g \in F!File PROVE Consistent(g, known[g])'
    <3>1. CASE g = f
      BY <1>8, <3>1 DEF Consistent
    <3>2. CASE g # f
      <4>1. PICK e \in {None} \cup FileEntry : e = known'[g] /\ Consistent(g, e)
        BY <1>3, <1>6, <3>2 DEF FilesInv, IdentityInv
      <4> QED BY <2>3, <4>1 DEF Consistent
    <3> QED BY <3>1, <3>2
  <2>6. ASSUME NEW g \in F!File
        PROVE  /\ disk'[g] # None => disk'[g].content = disk'[g].id /\ disk'[g].id <= changes'
                                     /\ incoming'[g] # disk'[g].id
               /\ incoming'[g] # None => incoming'[g] <= changes'
               /\ looking'.file = g => looking'.id <= changes' /\ incoming'[g] # looking'.id
    <3>1. CASE g = f
      BY <1>2, <1>3, <1>7, <1>8, <3>1 DEF FilesInv, IdentityInv, FilesAssumption
    <3>2. CASE g # f
      BY <1>2, <1>5, <1>7, <3>2 DEF FilesInv, IdentityInv
    <3> QED BY <3>1, <3>2
  <2> QED BY <2>4, <2>5, <2>6 DEF IdentityInv
<1>11. \A g \in F!File : InOrder(g) => InOrder(g)'
  <2>1. ASSUME NEW g \in F!File, InOrder(g) PROVE InOrder(g)'
    <3>1. CASE g = f
      BY <1>8, <3>1 DEF InOrder
    <3>2. CASE g # f
      BY <1>2, <1>5, <1>6, <2>1, <3>2 DEF InOrder
    <3> QED BY <3>1, <3>2
  <2> QED BY <2>1
<1>12. CoverInv'
  BY <1>2, <1>11 DEF FilesInv, CoverInv, F!Elements
<1>13. PhaseInv'
  BY <1>2, <1>11 DEF FilesInv, PhaseInv
<1> QED BY <1>9, <1>10, <1>12, <1>13 DEF FilesInv

(* The claim of a complete scan ends with its cycle.                       *)
LEMMA CycleEndsKeepsFiles == ASSUME FilesInv, F!CycleEnds PROVE FilesInv'
<1>1. /\ scanAt = "apply" /\ scanAt' = "idle" /\ snapshots' = [f \in F!File |-> None]
      /\ complete' = FALSE
      /\ UNCHANGED <<disk, incoming, changes, fresh, known, active, cursor, unreadable, due,
                     pending, failed, lost, memo, looking, processed>>
  BY DEF F!CycleEnds, F!Nothing, F!world, F!enumeration, F!queues
<1>2. \A f \in F!File : snapshots'[f] = None
  BY <1>1
<1>3. FilesTypeInv'
  BY <1>1 DEF FilesInv, FilesTypeInv
<1>4. IdentityInv'
  BY <1>1, <1>2, IdentityKept DEF FilesInv
<1>5. CoverInv'
  BY <1>1 DEF FilesInv, CoverInv, InOrder, F!Elements
<1>6. PhaseInv'
  BY <1>1, <1>2 DEF FilesInv, PhaseInv
<1> QED BY <1>3, <1>4, <1>5, <1>6 DEF FilesInv

-----------------------------------------------------------------------------
(* The invariant.                                                          *)

LEMMA FilesInit == ASSUME FilesAssumption, F!Init PROVE FilesInv
<1>1. /\ disk \in [F!File -> {[content |-> 0, id |-> 0, kind |-> k] : k \in Kinds}]
      /\ known \in [F!File -> {None, [content |-> 0, id |-> 0]}]
      /\ incoming = [f \in F!File |-> None] /\ memo = [f \in F!File |-> None]
      /\ snapshots = [f \in F!File |-> None] /\ looking = F!NotLooking
      /\ due = TRUE /\ cursor = 0 /\ pending = {} /\ failed = <<>> /\ changes = 0
      /\ scanAt = "idle" /\ complete = FALSE
  BY DEF F!Init, F!Nothing
<1>2. ASSUME NEW k \in Kinds
      PROVE  [content |-> 0, id |-> 0, kind |-> k] \in [content : Nat, id : Nat, kind : Kinds]
  OBVIOUS
<1>3. \A f \in F!File : /\ disk[f] \in [content : Nat, id : Nat, kind : Kinds]
                        /\ disk[f].content = 0 /\ disk[f].id = 0
  BY <1>1, <1>2
<1>4. [content |-> 0, id |-> 0] \in FileEntry
  BY DEF FileEntry
<1>5. /\ disk \in [F!File -> {None} \cup [content : Nat, id : Nat, kind : Kinds]]
      /\ known \in [F!File -> {None} \cup FileEntry]
  BY <1>1, <1>3, <1>4
<1>6. looking \in [file : 0..Files, id : Nat] /\ looking.file \notin F!File
  BY <1>1 DEF F!NotLooking, F!File, FilesAssumption
<1>7. FilesTypeInv
  BY <1>1, <1>5, <1>6 DEF FilesTypeInv, FilesAssumption
<1>8. IdentityInv
  <2>1. \A f \in F!File : known[f] = None \/ known[f] = [content |-> 0, id |-> 0]
    BY <1>1
  <2>2. \A f \in F!File : incoming[f] = None /\ memo[f] = None /\ snapshots[f] = None
    BY <1>1
  <2>3. \A f \in F!File : Consistent(f, known[f])
    BY <1>1, <1>3, <2>1, <2>2 DEF Consistent, Retires, FilesAssumption
  <2> QED BY <1>1, <1>3, <1>6, <2>2, <2>3 DEF IdentityInv, Consistent, FilesAssumption
<1>9. CoverInv
  BY <1>1 DEF CoverInv, F!File, FilesAssumption
<1>10. PhaseInv
  BY <1>1 DEF PhaseInv
<1> QED BY <1>7, <1>8, <1>9, <1>10 DEF FilesInv

(* Each step keeps the invariant.                                          *)
LEMMA FilesNext ==
    ASSUME FilesAssumption, FilesInv, [F!Next]_scanVars
    PROVE  FilesInv'
<1>1. CASE UNCHANGED scanVars
  BY <1>1, FilesStutter
<1>2. CASE F!ScanStep
  BY <1>2, BeginKeepsFiles, AdvanceKeepsFiles, FinishEnumerationKeepsFiles, StatKeepsFiles,
     ReadKeepsFiles, AgainKeepsFiles, EndKeepsFiles, PublishKeepsFiles, ApplyKeepsFiles,
     CycleEndsKeepsFiles DEF F!ScanStep
<1>3. CASE \E f \in F!File : F!Write(f) \/ F!Remove(f) \/ F!Receive(f)
  BY <1>3, WriteKeepsFiles, RemoveKeepsFiles, ReceiveKeepsFiles
<1>4. CASE F!Tick \/ F!AdvanceFails \/ F!ReadFails \/ F!PublishFails
  BY <1>4, TickKeepsFiles, AdvanceFailsKeepsFiles, ReadFailsKeepsFiles,
     PublishFailsKeepsFiles
<1>5. CASE \E f \in F!File : snapshots[f] # None /\ F!Fault /\ F!End({f})
  BY <1>5, EndKeepsFiles
<1> QED BY <1>1, <1>2, <1>3, <1>4, <1>5 DEF F!Next

(* A step of another machine is a stutter of this one.                     *)
LEMMA FilesMove ==
    ASSUME [MCNext]_<<part, vars, ownVars, scanVars>>
    PROVE  [F!Next]_scanVars
BY DEF MCNext

(* So it holds throughout.                                                 *)
LEMMA FilesInvariance == MCSpec => []FilesInv
<1>1. MCInit => FilesInv
  BY FilesAssumption, FilesInit DEF MCInit
<1>2. FilesInv /\ [MCNext]_<<part, vars, ownVars, scanVars>> => FilesInv'
  BY FilesAssumption, FilesMove, FilesNext
<1> QED BY <1>1, <1>2, PTL DEF MCSpec

(* A version of a peer replaces no file of the user that a complete scan   *)
(* has not accounted for, for any number of files, any bounds of the page  *)
(* and of the registry, and any schedule of failures (boundedScan.ts;      *)
(* ordinaryApplyDecision in manager.ts).                                   *)
THEOREM UnseenFilesStay == MCSpec => NothingUnseenIsReplaced
<1>1. ASSUME FilesInv, NEW f \in F!File, F!Apply(f)
      PROVE  \/ disk[f] = None \/ (known[f] # None /\ disk[f].content = known[f].content)
             \/ f \in fresh \/ disk[f].kind = "large"
  BY <1>1 DEF F!Apply, F!ordinaryApplyDecision, FilesInv, PhaseInv, InOrder
<1>2. FilesInv =>
          [\A f \in F!File : F!Apply(f) =>
               \/ disk[f] = None \/ (known[f] # None /\ disk[f].content = known[f].content)
               \/ f \in fresh \/ disk[f].kind = "large"]_F!vars
  BY <1>1
<1> QED BY <1>2, FilesInvariance, PTL
       DEF NothingUnseenIsReplaced, F!NothingUnseenIsReplaced

-----------------------------------------------------------------------------
(* OwnStream: no sequence number is published twice.                       *)
(*                                                                         *)
(* The argument: a device that was never restored lacks only what was      *)
(* deleted, and that is below what it has acknowledged, hence below the    *)
(* checkpoint it absorbs; the walk passes the rest.  A restored device is  *)
(* held back by the head, unless that is outdated (blind).  Either way the *)
(* position is at the end of the stream whenever the device may publish.   *)

Cursor == [seq : Nat, hash : Nat]
Position == [seq : Nat, hash : Nat, cp : Cursor]

OwnTypeInv ==
    /\ stream \in Seq([seq : Nat, prev : Nat])
    /\ removed \subseteq DOMAIN stream /\ here \subseteq DOMAIN stream
    /\ backup.here \subseteq DOMAIN stream
    /\ head \in Nat /\ headHere \in Nat /\ backup.head \in Nat /\ ack \in Nat
    /\ cp \in Cursor /\ cpHere \in Cursor /\ backup.cp \in Cursor
    /\ mem \in Position /\ stateFile \in Position /\ backup.state \in Position

(* The sequence numbers have a greatest.                                   *)
BoundedInv == \E b \in Nat : \A i \in DOMAIN stream : stream[i].seq <= b

AbsorbedInv ==
    /\ stateFile.cp = mem.cp
    /\ ~restored => /\ DOMAIN stream \ removed \subseteq here
                    /\ \A i \in removed : stream[i].seq <= ack
                    /\ ack <= mem.cp.seq

AtTheEnd == \A i \in DOMAIN stream : stream[i].seq <= mem.seq
PlaceInv == pc # "idle" => blind \/ AtTheEnd

OwnInv == OwnTypeInv /\ BoundedInv /\ AbsorbedInv /\ PlaceInv

-----------------------------------------------------------------------------
(* The greatest of a bounded set; the newest event.                        *)

LEMMA LeastIs ==
    ASSUME NEW S, S \subseteq Nat, S # {}
    PROVE  \E m \in S : \A k \in S : m <= k
<1> DEFINE D == OpToRel(<, Nat)
<1>1. IsWellFoundedOn(D, Nat)
  BY NatLessThanWellFounded
<1>2. \A y, x \in Nat : y < x => <<y, x>> \in D
  BY DEF OpToRel
<1>3. PICK x \in S : \A y \in S : ~ (<<y, x>> \in D)
  <2> HIDE DEF D
  <2> QED BY <1>1, WFMin
<1> HIDE DEF D
<1>4. \A y \in S : ~ (y < x)
  BY <1>2, <1>3
<1> QED BY <1>3, <1>4

(* Events are numbered.                                                    *)
LEMMA EventsAre ==
    ASSUME OwnTypeInv
    PROVE  /\ DOMAIN stream = 1..Len(stream) /\ Len(stream) \in Nat
           /\ \A i \in DOMAIN stream : i \in Nat /\ stream[i].seq \in Nat
<1>1. PICK n \in Nat : n = Len(stream) /\ DOMAIN stream = 1..n
  BY LenProperties DEF OwnTypeInv
<1>2. \A i \in 1..n : stream[i] \in [seq : Nat, prev : Nat]
  BY <1>1, ElementOfSeq DEF OwnTypeInv
<1> QED BY <1>1, <1>2

(* Of some events one is the newest.                                       *)
LEMMA NewestOf ==
    ASSUME OwnTypeInv, BoundedInv, NEW T, T \subseteq DOMAIN stream, T # {}
    PROVE  \E i \in T : \A j \in T : stream[j].seq <= stream[i].seq
<1>1. PICK b \in Nat : \A i \in DOMAIN stream : stream[i].seq <= b
  BY DEF BoundedInv
<1>2. \A i \in T : stream[i].seq \in Nat /\ stream[i].seq <= b
  BY <1>1, EventsAre
<1>3. PICK R : R = {b - stream[i].seq : i \in T}
  OBVIOUS
<1>4. R \subseteq Nat /\ R # {}
  <2>1. \A i \in T : b - stream[i].seq \in Nat
    BY <1>2
  <2> QED BY <1>3, <2>1
<1>5. PICK r \in R : \A k \in R : r <= k
  BY <1>4, LeastIs
<1>6. PICK i \in T : r = b - stream[i].seq
  BY <1>3, <1>5
<1>7. ASSUME NEW j \in T PROVE stream[j].seq <= stream[i].seq
  <2>1. r <= b - stream[j].seq
    BY <1>3, <1>5
  <2> QED BY <1>2, <1>6, <2>1
<1> QED BY <1>7

(* The newest event is the newest.                                         *)
LEMMA NewestIs ==
    ASSUME OwnTypeInv, BoundedInv
    PROVE  O!Newest \in Nat /\ \A i \in DOMAIN stream : stream[i].seq <= O!Newest
<1>1. PICK d : d = DOMAIN stream
  OBVIOUS
<1>2. stream \in Seq([seq : Nat, prev : Nat])
  BY DEF OwnTypeInv
<1>3. CASE stream = <<>>
  BY <1>3 DEF O!Newest
<1>4. CASE stream # <<>>
  <2>1. DOMAIN stream # {}
    <3>1. Len(stream) # 0
      BY <1>2, <1>4, EmptySeq
    <3>2. 1 \in 1..Len(stream)
      BY <3>1, EventsAre
    <3> QED BY <3>2, EventsAre
  <2>2. PICK i \in DOMAIN stream : \A j \in DOMAIN stream : stream[j].seq <= stream[i].seq
    BY <2>1, NewestOf
  <2>3. stream[i].seq \in {stream[j].seq : j \in DOMAIN stream}
    OBVIOUS
  <2>4. PICK N : N = {stream[j].seq : j \in DOMAIN stream}
    OBVIOUS
  <2>5. O!Newest \in N /\ \A j \in DOMAIN stream : stream[j].seq <= O!Newest
    <3>1. O!Newest = CHOOSE n \in N : \A j \in DOMAIN stream : stream[j].seq <= n
      BY <1>4, <2>4 DEF O!Newest
    <3>2. \E n \in N : \A j \in DOMAIN stream : stream[j].seq <= n
      BY <2>2, <2>3, <2>4
    <3> QED BY <3>1, <3>2
  <2>6. \A j \in DOMAIN stream : stream[j].seq \in Nat
    BY EventsAre
  <2> QED BY <2>4, <2>5, <2>6
<1> QED BY <1>3, <1>4

(* The walk from a cursor passes what is in the replica.                   *)
LEMMA WalkIs ==
    ASSUME OwnTypeInv, BoundedInv, NEW from \in Cursor
    PROVE  /\ O!WalkEnd(from) \in Cursor /\ from.seq <= O!WalkEnd(from).seq
           /\ \A i \in here : stream[i].seq <= O!WalkEnd(from).seq
<1>1. PICK A : A = O!Above(from)
  OBVIOUS
<1>2. /\ A \subseteq DOMAIN stream /\ A \subseteq here /\ here \subseteq DOMAIN stream
      /\ \A i \in here : i \in A <=> stream[i].seq > from.seq
  BY <1>1 DEF O!Above, OwnTypeInv
<1>3. stream \in Seq([seq : Nat, prev : Nat]) /\ from.seq \in Nat
  BY DEF OwnTypeInv, Cursor
<1>4. \A i \in DOMAIN stream : i \in Nat /\ stream[i].seq \in Nat
  BY EventsAre
<1>5. CASE A = {}
  <2>1. O!WalkEnd(from) = from
    BY <1>1, <1>5 DEF O!WalkEnd
  <2>2. \A i \in here : stream[i].seq <= from.seq
    BY <1>2, <1>3, <1>4, <1>5
  <2> QED BY <1>3, <2>1, <2>2
<1>6. CASE A # {}
  <2>1. \E i \in A : \A j \in A : stream[j].seq <= stream[i].seq
    BY <1>2, <1>6, NewestOf
  <2>2. PICK last : last = CHOOSE i \in A : \A j \in A : stream[j].seq <= stream[i].seq
    OBVIOUS
  <2>3. last \in A /\ \A j \in A : stream[j].seq <= stream[last].seq
    BY <2>1, <2>2
  <2>4. O!WalkEnd(from) = [seq |-> stream[last].seq, hash |-> last]
    BY <1>1, <1>6, <2>2 DEF O!WalkEnd
  <2>5. PICK e : e = O!WalkEnd(from)
    OBVIOUS
  <2>6. e.seq = stream[last].seq /\ e \in Cursor
    BY <1>2, <1>4, <2>3, <2>4, <2>5 DEF Cursor
  <2>7. stream[last].seq > from.seq
    BY <1>2, <2>3
  <2>8. ASSUME NEW i \in here PROVE stream[i].seq <= e.seq
    BY <1>2, <1>3, <1>4, <2>3, <2>6, <2>7
  <2>9. from.seq <= e.seq
    BY <1>2, <1>3, <1>4, <2>3, <2>6, <2>7
  <2> QED BY <2>5, <2>6, <2>8, <2>9
<1> QED BY <1>5, <1>6

-----------------------------------------------------------------------------
(* The steps.                                                              *)

LEMMA OwnStutter == ASSUME OwnInv, UNCHANGED ownVars PROVE OwnInv'
<1>1. UNCHANGED <<stream, removed, head, cp, ack, here, headHere, cpHere, stateFile, mem, pc,
                  backup, restored, blind>>
  BY DEF ownVars
<1> QED BY <1>1 DEF OwnInv, OwnTypeInv, BoundedInv, AbsorbedInv, PlaceInv, AtTheEnd

(* Where the device has found its place it stands at the end.              *)
LEMMA FoundIsTheEnd ==
    ASSUME OwnInv, NEW pinned \in Cursor, NEW taken \in Cursor, NEW from \in Cursor,
           taken.seq >= mem.cp.seq, O!Begins(pinned, taken, from),
           O!HeadArrived(O!WalkEnd(from)), ~restored \/ headHere >= O!Newest
    PROVE  \A i \in DOMAIN stream : stream[i].seq <= O!WalkEnd(from).seq
<1>1. PICK e : e = O!WalkEnd(from)
  OBVIOUS
<1>2. /\ e \in Cursor /\ from.seq <= e.seq /\ \A i \in here : stream[i].seq <= e.seq
  BY <1>1, WalkIs DEF OwnInv
<1>3. /\ stream \in Seq([seq : Nat, prev : Nat]) /\ headHere \in Nat /\ ack \in Nat
      /\ mem.cp.seq \in Nat /\ here \subseteq DOMAIN stream
  BY DEF OwnInv, OwnTypeInv, Position, Cursor
<1>4. \A i \in DOMAIN stream : stream[i].seq \in Nat
  BY EventsAre DEF OwnInv
<1>5. e.seq \in Nat /\ from.seq \in Nat /\ taken.seq \in Nat /\ pinned.seq \in Nat
  BY <1>2 DEF Cursor
<1>6. CASE headHere >= O!Newest
  <2>1. e.seq >= headHere
    BY <1>1 DEF O!HeadArrived
  <2>2. O!Newest \in Nat /\ \A i \in DOMAIN stream : stream[i].seq <= O!Newest
    BY NewestIs DEF OwnInv
  <2> QED BY <1>1, <1>3, <1>4, <1>5, <1>6, <2>1, <2>2
<1>7. CASE ~restored
  <2>1. from.seq >= taken.seq
    BY <1>5 DEF O!Begins
  <2>2. ASSUME NEW i \in DOMAIN stream, i \notin here PROVE stream[i].seq <= e.seq
    <3>1. stream[i].seq <= ack /\ ack <= mem.cp.seq
      BY <1>7, <2>2 DEF OwnInv, AbsorbedInv
    <3> QED BY <1>2, <1>3, <1>4, <1>5, <2>1, <3>1, SMTT(30)
  <2> QED BY <1>1, <1>2, <2>2
<1> QED BY <1>6, <1>7

(* A refresh that finds the place finds the end.                           *)
LEMMA RefreshKeepsOwn == ASSUME OwnInv, O!Refresh PROVE OwnInv'
<1>1. PICK pinned : pinned = [seq |-> mem.seq, hash |-> mem.hash]
  OBVIOUS
<1>2. PICK taken : taken = O!absorb
  OBVIOUS
<1>3. PICK found : found = {from \in {pinned, taken} :
                       /\ ~O!ForkInSight /\ O!Begins(pinned, taken, from)
                       /\ O!Chained(from) /\ O!HeadArrived(O!WalkEnd(from))}
  OBVIOUS
<1>4. PICK end : end = IF found = {} THEN pinned ELSE O!WalkEnd(CHOOSE from \in found : TRUE)
  OBVIOUS
<1>5. /\ mem' = [seq |-> end.seq, hash |-> end.hash, cp |-> taken]
      /\ pc' = (IF found = {} THEN "idle" ELSE "ready")
      /\ stateFile' = (IF mem' = mem THEN stateFile ELSE mem')
      /\ blind' = (restored /\ headHere < O!Newest) /\ cpHere.seq >= mem.cp.seq
      /\ UNCHANGED <<stream, removed, head, cp, ack, here, headHere, cpHere, backup, restored>>
  BY <1>1, <1>2, <1>3, <1>4 DEF O!Refresh, O!folder, O!replica
<1>6. pinned \in Cursor /\ taken \in Cursor /\ taken.seq >= mem.cp.seq
  BY <1>1, <1>2 DEF OwnInv, OwnTypeInv, Position, Cursor, O!absorb
<1>7. found # {} => \E from \in found : end = O!WalkEnd(from)
  BY <1>4
<1>8. end \in Cursor
  BY <1>3, <1>4, <1>6, <1>7, WalkIs DEF OwnInv
<1>9. /\ mem' \in Position /\ mem'.seq = end.seq /\ mem'.cp = taken
      /\ stateFile' \in Position
  BY <1>5, <1>6, <1>8 DEF OwnInv, OwnTypeInv, Position, Cursor
<1>10. OwnTypeInv'
  BY <1>5, <1>9 DEF OwnInv, OwnTypeInv
<1>11. BoundedInv'
  BY <1>5 DEF OwnInv, BoundedInv
<1>12. AbsorbedInv'
  <2>1. stateFile'.cp = mem'.cp
    BY <1>5 DEF OwnInv, AbsorbedInv
  <2>2. ~restored => ack <= mem'.cp.seq
    BY <1>6, <1>9, SMTT(30) DEF OwnInv, AbsorbedInv, OwnTypeInv, Position, Cursor
  <2> QED BY <1>5, <2>1, <2>2 DEF OwnInv, AbsorbedInv
<1>13. PlaceInv'
  <2>1. SUFFICES ASSUME found # {}, ~blind' PROVE AtTheEnd'
    BY <1>5 DEF PlaceInv
  <2>2. PICK from \in found : end = O!WalkEnd(from)
    BY <1>7, <2>1
  <2>3. ~restored \/ headHere >= O!Newest
    <3>1. headHere \in Nat /\ O!Newest \in Nat
      BY NewestIs DEF OwnInv, OwnTypeInv
    <3>2. ~(restored /\ headHere < O!Newest)
      BY <1>5, <2>1
    <3> QED BY <3>1, <3>2
  <2>4. /\ from \in Cursor /\ O!Begins(pinned, taken, from)
        /\ O!HeadArrived(O!WalkEnd(from))
    BY <1>3, <1>6
  <2>5. \A i \in DOMAIN stream : stream[i].seq <= end.seq
    BY <1>6, <2>2, <2>3, <2>4, FoundIsTheEnd
  <2> QED BY <1>5, <1>9, <2>5 DEF AtTheEnd
<1> QED BY <1>10, <1>11, <1>12, <1>13 DEF OwnInv

(* What a publication appends.                                             *)
LEMMA PublishIs ==
    ASSUME OwnInv, O!Publish
    PROVE  /\ stream' = Append(stream, [seq |-> mem.seq + 1, prev |-> mem.hash])
           /\ stream' \in Seq([seq : Nat, prev : Nat])
           /\ DOMAIN stream' = DOMAIN stream \cup {Len(stream')}
           /\ Len(stream') \notin DOMAIN stream /\ Len(stream') \in Nat
           /\ \A i \in DOMAIN stream : stream'[i] = stream[i]
           /\ stream'[Len(stream')].seq = mem.seq + 1
           /\ mem.seq \in Nat /\ mem.hash \in Nat
<1>1. stream \in Seq([seq : Nat, prev : Nat]) /\ mem.seq \in Nat /\ mem.hash \in Nat
  BY DEF OwnInv, OwnTypeInv, Position
<1>2. PICK e : e = [seq |-> mem.seq + 1, prev |-> mem.hash] /\ e \in [seq : Nat, prev : Nat]
  <2>1. [seq |-> mem.seq + 1, prev |-> mem.hash] \in [seq : Nat, prev : Nat]
    BY <1>1
  <2> QED BY <2>1
<1>3. PICK n \in Nat : n = Len(stream) /\ DOMAIN stream = 1..n
  BY <1>1, LenProperties
<1>4. PICK r : r = Append(stream, e)
  OBVIOUS
<1>5. /\ r \in Seq([seq : Nat, prev : Nat]) /\ Len(r) = n + 1 /\ DOMAIN r = 1..(n + 1)
      /\ r[n + 1] = e /\ \A i \in 1..n : r[i] = stream[i]
  <2>1. PICK S : S = [seq : Nat, prev : Nat]
    OBVIOUS
  <2>2. stream \in Seq(S) /\ e \in S
    BY <1>1, <1>2, <2>1
  <2>3. /\ r \in Seq(S) /\ Len(r) = n + 1 /\ r[n + 1] = e
        /\ \A i \in 1..n : r[i] = stream[i]
    BY <1>3, <1>4, <2>2, AppendProperties
  <2>4. DOMAIN r = 1..(n + 1)
    BY <2>3, LenProperties
  <2> QED BY <2>1, <2>3, <2>4
<1>6. stream' = r
  BY <1>2, <1>4 DEF O!Publish
<1>7. 1..(n + 1) = (1..n) \cup {n + 1} /\ n + 1 \notin 1..n
  OBVIOUS
<1>8. e.seq = mem.seq + 1
  BY <1>2
<1> QED BY <1>1, <1>2, <1>3, <1>4, <1>5, <1>6, <1>7, <1>8

(* The device stays at the end as it publishes.                            *)
LEMMA PublishKeepsOwn == ASSUME OwnInv, O!Publish PROVE OwnInv'
<1>1. PICK n : n = Len(stream')
  OBVIOUS
<1>2. /\ stream' \in Seq([seq : Nat, prev : Nat])
      /\ DOMAIN stream' = DOMAIN stream \cup {n} /\ n \notin DOMAIN stream /\ n \in Nat
      /\ \A i \in DOMAIN stream : stream'[i] = stream[i]
      /\ stream'[n].seq = mem.seq + 1 /\ mem.seq \in Nat
  BY <1>1, PublishIs
<1>3. /\ pc = "ready" /\ here' = here \cup {n}
      /\ mem' = [mem EXCEPT !.seq = mem.seq + 1, !.hash = n]
      /\ UNCHANGED <<removed, head, cp, ack, headHere, cpHere, stateFile, backup, restored, blind>>
  BY <1>1 DEF O!Publish, O!history
<1>4. mem' \in Position /\ mem'.seq = mem.seq + 1 /\ mem'.cp = mem.cp
  <2>1. PICK m : m = mem
    OBVIOUS
  <2>2. m \in [seq : Nat, hash : Nat, cp : Cursor]
    BY <2>1 DEF OwnInv, OwnTypeInv, Position
  <2>3. PICK r : r = [m EXCEPT !.seq = m.seq + 1, !.hash = n]
    OBVIOUS
  <2>4. r \in [seq : Nat, hash : Nat, cp : Cursor] /\ r.seq = m.seq + 1 /\ r.cp = m.cp
    <3>1. m = [seq |-> m.seq, hash |-> m.hash, cp |-> m.cp] /\ m.seq \in Nat /\ m.cp \in Cursor
      BY <2>2
    <3>2. r = [seq |-> m.seq + 1, hash |-> n, cp |-> m.cp]
      BY <2>3, <3>1
    <3>3. m.seq + 1 \in Nat
      BY <3>1
    <3> QED BY <1>2, <3>1, <3>2, <3>3
  <2>5. mem' = r
    BY <1>3, <2>1, <2>3
  <2> QED BY <2>1, <2>4, <2>5 DEF Position
<1>5. \A i \in DOMAIN stream : stream[i].seq \in Nat
  BY EventsAre DEF OwnInv
<1>6. OwnTypeInv'
  BY <1>2, <1>3, <1>4 DEF OwnInv, OwnTypeInv
<1>7. BoundedInv'
  <2>1. PICK b \in Nat : \A i \in DOMAIN stream : stream[i].seq <= b
    BY DEF OwnInv, BoundedInv
  <2>2. \A i \in DOMAIN stream' : stream'[i].seq <= b + mem.seq + 1
    BY <1>2, <1>5, <2>1
  <2>3. b + mem.seq + 1 \in Nat
    BY <1>2
  <2> QED BY <2>2, <2>3 DEF BoundedInv
<1>8. AbsorbedInv'
  BY <1>2, <1>3, <1>4 DEF OwnInv, OwnTypeInv, AbsorbedInv
<1>9. PlaceInv'
  BY <1>2, <1>3, <1>4, <1>5 DEF OwnInv, PlaceInv, AtTheEnd
<1> QED BY <1>6, <1>7, <1>8, <1>9 DEF OwnInv

(* The save, the head, the end of the cycle, and a death.                  *)
LEMMA StateKeepsOwn ==
    ASSUME OwnInv,
           UNCHANGED <<stream, removed, cp, ack, here, cpHere, backup, restored, blind>>,
           head' \in Nat, headHere' \in Nat, stateFile' \in {stateFile, mem},
           mem' = mem \/ (mem' = stateFile /\ UNCHANGED stateFile /\ pc' = "idle"),
           pc = "idle" => pc' = "idle"
    PROVE  OwnInv'
<1>1. mem' \in Position /\ stateFile' \in Position
  BY DEF OwnInv, OwnTypeInv
<1>2. OwnTypeInv'
  BY <1>1 DEF OwnInv, OwnTypeInv
<1>3. BoundedInv'
  BY DEF OwnInv, BoundedInv
<1>4. AbsorbedInv'
  BY DEF OwnInv, AbsorbedInv
<1>5. PlaceInv'
  BY DEF OwnInv, PlaceInv, AtTheEnd
<1> QED BY <1>2, <1>3, <1>4, <1>5 DEF OwnInv

(* What is acknowledged has been absorbed.                                 *)
LEMMA AckKeepsOwn == ASSUME OwnInv, O!Ack PROVE OwnInv'
<1>1. /\ ack < mem.cp.seq /\ ack' = mem.cp.seq
      /\ UNCHANGED <<stream, removed, head, cp, here, headHere, cpHere, stateFile, mem, pc,
                     backup, restored, blind>>
  BY DEF O!Ack, O!replica, O!state, O!history
<1>2. mem.cp.seq \in Nat /\ ack \in Nat /\ removed \subseteq DOMAIN stream
  BY DEF OwnInv, OwnTypeInv, Position, Cursor
<1>3. \A i \in DOMAIN stream : stream[i].seq \in Nat
  BY EventsAre DEF OwnInv
<1>4. OwnTypeInv'
  BY <1>1, <1>2 DEF OwnInv, OwnTypeInv
<1>5. BoundedInv'
  BY <1>1 DEF OwnInv, BoundedInv
<1>6. AbsorbedInv'
  BY <1>1, <1>2, <1>3 DEF OwnInv, AbsorbedInv
<1>7. PlaceInv'
  BY <1>1 DEF OwnInv, PlaceInv, AtTheEnd
<1> QED BY <1>4, <1>5, <1>6, <1>7 DEF OwnInv

(* What is pruned was acknowledged.                                        *)
LEMMA PruneKeepsOwn == ASSUME OwnInv, O!Prune PROVE OwnInv'
<1>1. PICK folded : folded = {i \in DOMAIN stream : stream[i].seq <= cp.seq}
  OBVIOUS
<1>2. /\ ack = cp.seq /\ removed' = removed \cup folded
      /\ UNCHANGED <<stream, head, cp, ack, here, headHere, cpHere, stateFile, mem, pc,
                     backup, restored, blind>>
  BY <1>1 DEF O!Prune, O!replica, O!state, O!history
<1>3. folded \subseteq DOMAIN stream /\ \A i \in folded : stream[i].seq <= ack
  BY <1>1, <1>2
<1>4. OwnTypeInv'
  BY <1>2, <1>3 DEF OwnInv, OwnTypeInv
<1>5. BoundedInv'
  BY <1>2 DEF OwnInv, BoundedInv
<1>6. AbsorbedInv'
  BY <1>2, <1>3 DEF OwnInv, AbsorbedInv
<1>7. PlaceInv'
  BY <1>2 DEF OwnInv, PlaceInv, AtTheEnd
<1> QED BY <1>4, <1>5, <1>6, <1>7 DEF OwnInv

(* The provider, a peer's fold, the backup and the restore.                *)
LEMMA ReplicaKeepsOwn ==
    ASSUME OwnInv, UNCHANGED <<stream, removed, head, ack, stateFile, mem, pc, restored, blind>>,
           cp' \in Cursor, cpHere' \in Cursor, headHere' \in Nat,
           here' \subseteq DOMAIN stream, here \ removed \subseteq here',
           backup'.here \subseteq DOMAIN stream, backup'.state \in Position,
           backup'.head \in Nat, backup'.cp \in Cursor
    PROVE  OwnInv'
<1>1. OwnTypeInv'
  BY DEF OwnInv, OwnTypeInv
<1>2. BoundedInv'
  BY DEF OwnInv, BoundedInv
<1>3. AbsorbedInv'
  BY DEF OwnInv, AbsorbedInv
<1>4. PlaceInv'
  BY DEF OwnInv, PlaceInv, AtTheEnd
<1> QED BY <1>1, <1>2, <1>3, <1>4 DEF OwnInv

(* A restored device claims nothing until it refreshes.                    *)
LEMMA RestoreKeepsOwn == ASSUME OwnInv, O!Restore PROVE OwnInv'
<1>1. /\ restored' = TRUE /\ stateFile' = backup.state /\ mem' = stateFile' /\ pc' = "idle"
      /\ here' \in {here, backup.here} /\ headHere' \in {headHere, backup.head}
      /\ cpHere' \in {cpHere, backup.cp}
      /\ UNCHANGED <<stream, removed, head, cp, ack, backup, blind>>
  BY DEF O!Restore, O!folder
<1>2. OwnTypeInv'
  BY <1>1 DEF OwnInv, OwnTypeInv
<1>3. BoundedInv'
  BY <1>1 DEF OwnInv, BoundedInv
<1>4. AbsorbedInv'
  BY <1>1 DEF AbsorbedInv
<1>5. PlaceInv'
  BY <1>1 DEF PlaceInv
<1> QED BY <1>2, <1>3, <1>4, <1>5 DEF OwnInv

-----------------------------------------------------------------------------
(* The invariant.                                                          *)

LEMMA OwnInit == ASSUME O!Init PROVE OwnInv
<1>1. /\ stream = <<>> /\ removed = {} /\ head = 0 /\ cp = O!Nothing /\ ack = 0
      /\ here = {} /\ headHere = 0 /\ cpHere = O!Nothing
      /\ stateFile = O!NoBackup.state /\ mem = stateFile
      /\ pc = "idle" /\ backup = O!NoBackup /\ restored = FALSE
  BY DEF O!Init
<1>2. O!Nothing \in Cursor
  BY DEF O!Nothing, Cursor
<1>3. /\ O!NoBackup.state \in Position /\ O!NoBackup.state.cp = O!Nothing
      /\ O!NoBackup.here = {} /\ O!NoBackup.head = 0 /\ O!NoBackup.cp = O!Nothing
  BY <1>2 DEF O!NoBackup, Position
<1>4. stream \in Seq([seq : Nat, prev : Nat]) /\ DOMAIN stream = {}
  BY <1>1
<1>5. OwnTypeInv
  BY <1>1, <1>2, <1>3, <1>4 DEF OwnTypeInv
<1>6. BoundedInv
  BY <1>4 DEF BoundedInv
<1>7. AbsorbedInv
  BY <1>1, <1>2, <1>3, <1>4 DEF AbsorbedInv, O!Nothing, Cursor
<1>8. PlaceInv
  BY <1>1 DEF PlaceInv
<1> QED BY <1>5, <1>6, <1>7, <1>8 DEF OwnInv

(* Each step keeps the invariant.                                          *)
LEMMA OwnNext == ASSUME OwnInv, [O!Next]_ownVars PROVE OwnInv'
<1>1. CASE UNCHANGED ownVars
  BY <1>1, OwnStutter
<1>2. CASE O!Refresh \/ O!Publish \/ O!Ack \/ O!Prune \/ O!Restore
  BY <1>2, RefreshKeepsOwn, PublishKeepsOwn, AckKeepsOwn, PruneKeepsOwn, RestoreKeepsOwn
<1>3. /\ mem \in Position /\ stateFile \in Position /\ mem.seq \in Nat /\ backup.state \in Position
      /\ cp \in Cursor /\ cpHere \in Cursor /\ backup.cp \in Cursor
      /\ head \in Nat /\ headHere \in Nat /\ backup.head \in Nat
      /\ here \subseteq DOMAIN stream /\ backup.here \subseteq DOMAIN stream
  BY DEF OwnInv, OwnTypeInv, Position
<1>4. CASE O!EndCycle \/ O!Save \/ O!WriteHead \/ O!Crash
  <2>1. /\ UNCHANGED <<stream, removed, cp, ack, here, cpHere, backup, restored, blind>>
        /\ head' \in Nat /\ headHere' \in Nat /\ stateFile' \in {stateFile, mem}
        /\ mem' = mem \/ (mem' = stateFile /\ UNCHANGED stateFile /\ pc' = "idle")
        /\ pc = "idle" => pc' = "idle"
    BY <1>3, <1>4 DEF O!EndCycle, O!Save, O!WriteHead, O!Crash, O!folder, O!replica,
                      O!state, O!history
  <2> QED BY <2>1, StateKeepsOwn
<1>5. CASE O!Fold \/ O!Deliver \/ O!Backup
  <2>1. UNCHANGED <<stream, removed, head, ack, stateFile, mem, pc, restored, blind>>
    BY <1>5 DEF O!Fold, O!Deliver, O!Backup, O!folder, O!replica, O!state, O!history
  <2>2. cp' \in Cursor
    <3>1. CASE O!Fold
      <4>1. PICK i \in DOMAIN stream : cp' = [seq |-> stream[i].seq, hash |-> i]
        BY <3>1 DEF O!Fold
      <4>2. i \in Nat /\ stream[i].seq \in Nat
        BY EventsAre DEF OwnInv
      <4> QED BY <4>1, <4>2 DEF Cursor
    <3>2. CASE O!Deliver \/ O!Backup
      BY <1>3, <3>2 DEF O!Deliver, O!Backup, O!folder
    <3> QED BY <1>5, <3>1, <3>2
  <2>3. /\ cpHere' \in Cursor /\ headHere' \in Nat
        /\ here' \subseteq DOMAIN stream /\ here \ removed \subseteq here'
    BY <1>3, <1>5 DEF O!Fold, O!Deliver, O!Backup, O!replica
  <2>4. \/ backup' = backup
        \/ backup' = [state |-> stateFile, here |-> here, head |-> headHere, cp |-> cpHere]
    BY <1>5 DEF O!Fold, O!Deliver, O!Backup, O!history
  <2>5. /\ backup'.here \subseteq DOMAIN stream /\ backup'.state \in Position
        /\ backup'.head \in Nat /\ backup'.cp \in Cursor
    BY <1>3, <2>4
  <2> QED BY <2>1, <2>2, <2>3, <2>5, ReplicaKeepsOwn
<1> QED BY <1>1, <1>2, <1>4, <1>5 DEF O!Next, O!Cycle

(* A step of another machine is a stutter of this one.                     *)
LEMMA OwnMove ==
    ASSUME [MCNext]_<<part, vars, ownVars, scanVars>>
    PROVE  [O!Next]_ownVars
BY DEF MCNext

(* So it holds throughout.                                                 *)
LEMMA OwnInvariance == MCSpec => []OwnInv
<1>1. MCInit => OwnInv
  BY OwnInit DEF MCInit
<1>2. OwnInv /\ [MCNext]_<<part, vars, ownVars, scanVars>> => OwnInv'
  BY OwnMove, OwnNext
<1> QED BY <1>1, <1>2, PTL DEF MCSpec

(* Only publish adds to the stream.                                        *)
LEMMA OnlyPublishAppends ==
    ASSUME [O!Next]_ownVars
    PROVE  O!Publish \/ stream' = stream
BY DEF O!Next, O!Cycle, O!Refresh, O!EndCycle, O!Ack, O!Save, O!WriteHead, O!Crash, O!Fold,
       O!Prune, O!Deliver, O!Backup, O!Restore, O!folder, ownVars

(* A device publishes no sequence number twice, whatever it forgot, unless *)
(* it was restored from a backup and its last refresh saw an outdated      *)
(* head.json: for any number of events, faults, backups and prunes         *)
(* (recoverOwnStream and publish in repository.ts).                        *)
THEOREM NumbersAreOnce == MCSpec => NoFork
<1>1. ASSUME OwnInv, [O!Next]_ownVars, NEW i \in DOMAIN stream' \ DOMAIN stream
      PROVE  (\A j \in DOMAIN stream : stream[j].seq # stream'[i].seq) \/ blind
  <2>1. O!Publish
    BY <1>1, OnlyPublishAppends
  <2>2. stream'[i].seq = mem.seq + 1 /\ mem.seq \in Nat
    BY <1>1, <2>1, PublishIs
  <2>3. pc = "ready"
    BY <2>1 DEF O!Publish
  <2>4. \A j \in DOMAIN stream : stream[j].seq \in Nat
    BY <1>1, EventsAre DEF OwnInv
  <2> QED BY <1>1, <2>2, <2>3, <2>4 DEF OwnInv, PlaceInv, AtTheEnd
<1>2. OwnInv /\ [MCNext]_<<part, vars, ownVars, scanVars>> =>
          [\A i \in DOMAIN stream' \ DOMAIN stream :
               (\A j \in DOMAIN stream : stream[j].seq # stream'[i].seq) \/ blind]_O!vars
  BY <1>1, OwnMove
<1> QED BY <1>2, OwnInvariance, PTL DEF MCSpec, NoFork, O!NoFork
=============================================================================
