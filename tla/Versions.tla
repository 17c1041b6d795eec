------------------------------- MODULE Versions -------------------------------
(***************************************************************************)
(* The versions of one resource and the tips a device works with           *)
(* (src/src/protocol/reconciler.ts), shared by the modules about forks.    *)
(***************************************************************************)
EXTENDS Naturals, FiniteSets, Sequences, FiniteSetsExt

CONSTANT MaxVersions

VARIABLES
    log,       \* the versions published
    seen       \* seen[d]: the versions d has accepted

Device == {1, 2}

content(v) == log[v].content
Tips(S) == {v \in S : \A u \in S : v \notin log[u].past}
Conflict(T) == \E u, v \in T : content(u) # content(v)

(* compareTips: the newest first.                                          *)
Before(u, v) ==
    \/ log[u].lamport > log[v].lamport
    \/ log[u].lamport = log[v].lamport /\ log[u].by > log[v].by
Newest(T) == CHOOSE v \in T : \A u \in T \ {v} : Before(v, u)

(* findCommonParent: the newest version all tips descend from.             *)
Common(T) == {v \in DOMAIN log : \A t \in T : v \in log[t].past}

(* chooseActiveTip                                                         *)
Active(d) == LET T == Tips(seen[d]) IN IF T = {} \/ Conflict(T) THEN 0 ELSE Newest(T)

publish(d, c, parents, how) ==
    /\ Len(log) < MaxVersions
    /\ log' = Append(log,
          [by |-> d, content |-> c, how |-> how, parents |-> parents,
           past |-> parents \cup UNION {log[p].past : p \in parents},
           lamport |-> 1 + Max({0} \cup {log[v].lamport : v \in seen[d]})])
    /\ seen' = [seen EXCEPT ![d] = @ \cup {Len(log) + 1}]

(* The next version of the other device that is there with its parents.    *)
Accept(d) ==
    \E v \in DOMAIN log \ seen[d] :
        /\ \A u \in DOMAIN log : log[u].by = log[v].by /\ u < v => u \in seen[d]
        /\ log[v].parents \subseteq seen[d]
        /\ seen' = [seen EXCEPT ![d] = @ \cup {v}]
        /\ UNCHANGED log
=============================================================================
