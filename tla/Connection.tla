------------------------------ MODULE Connection ------------------------------
(***************************************************************************)
(* Which repository each Cursor window of a computer has open: Setup,      *)
(* Disconnect and the deferred open (src/src/sync/manager.ts, config.ts).  *)
(*                                                                         *)
(* Every window has its own copy of the configuration, read when it starts;*)
(* keys and disconnect markers are shared.  An open is under way across    *)
(* awaits, during which Setup or Disconnect may run.  The user runs one of *)
(* the two at a time.                                                      *)
(***************************************************************************)
EXTENDS Naturals, FiniteSets

CONSTANTS Window, Repo, None, MaxCommands

VARIABLES
    config, stored,     \* each window's copy; what a new window reads
    secrets, markers,   \* stored keys; markers of repositories left
    held, key,          \* per window: the open repository, whose key
    opening,            \* per window: the open under way
    op, target,         \* per window: Setup's or Disconnect's step, Setup's aim
    cycle,              \* per window: the repository a cycle works on
    probe,              \* per window: the marker it waits to see removed
    left,               \* history: repositories Disconnect has reported left
    commands

shared == <<stored, secrets, markers, left>>
vars == <<config, shared, held, key, opening, op, target, cycle, probe, commands>>

NoOpen == [root |-> None, current |-> FALSE]

Init ==
    \E r \in Repo :
        /\ config = [w \in Window |-> r] /\ stored = r /\ secrets = {r}
        /\ markers = {} /\ left = {}
        /\ held = [w \in Window |-> None] /\ key = [w \in Window |-> None]
        /\ opening = [w \in Window |-> NoOpen]
        /\ op = [w \in Window |-> "idle"] /\ target = [w \in Window |-> None]
        /\ cycle = [w \in Window |-> None] /\ probe = [w \in Window |-> None]
        /\ commands = 0

-----------------------------------------------------------------------------
(* Opening what is configured: any command, a cycle, an election may ask.  *)

Asks(w) ==
    /\ config[w] # None /\ held[w] # config[w]
    /\ opening[w] = NoOpen /\ config[w] \in secrets
    /\ opening' = [opening EXCEPT ![w] = [root |-> config[w], current |-> TRUE]]

FaultyBeginOpen(w) ==                \* the key is published before the awaits
    /\ Asks(w) /\ key' = [key EXCEPT ![w] = config[w]]
    /\ UNCHANGED <<config, shared, held, op, target, cycle, probe, commands>>

BeginOpen(w) ==
    Asks(w) /\ UNCHANGED <<config, shared, held, key, op, target, cycle, probe, commands>>

Relevant(w) == opening[w].current /\ config[w] = opening[w].root

FinishOpen(w, ok) ==
    /\ opening[w] # NoOpen /\ opening' = [opening EXCEPT ![w] = NoOpen]
    /\ IF ok /\ Relevant(w)
       THEN held' = [held EXCEPT ![w] = opening[w].root] /\ key' = [key EXCEPT ![w] = opening[w].root]
       ELSE UNCHANGED <<held, key>>
    /\ UNCHANGED <<config, shared, op, target, cycle, probe, commands>>

(* ++configuredOpenGeneration                                              *)
Outdate(w) == opening' = [opening EXCEPT ![w].current = FALSE]

-----------------------------------------------------------------------------
(* Cycles, and what a window does when it finds the device disconnected.   *)

LeftElsewhere(w) == held[w] \in markers

StandDown(w) ==
    /\ held[w] # None /\ cycle[w] = None /\ LeftElsewhere(w)
    /\ Outdate(w)
    /\ held' = [held EXCEPT ![w] = None] /\ key' = [key EXCEPT ![w] = None]
    /\ probe' = [probe EXCEPT ![w] = held[w]]
    /\ UNCHANGED <<config, shared, op, target, cycle, commands>>

BeginCycle(w) ==
    /\ held[w] # None /\ cycle[w] = None /\ ~LeftElsewhere(w)
    /\ cycle' = [cycle EXCEPT ![w] = held[w]]
    /\ UNCHANGED <<config, shared, held, key, opening, op, target, probe, commands>>

EndCycle(w) ==
    /\ cycle[w] # None /\ cycle' = [cycle EXCEPT ![w] = None]
    /\ UNCHANGED <<config, shared, held, key, opening, op, target, probe, commands>>

(* scheduleReconnectProbe: the marker is gone.                             *)
Reconnect(w) ==
    /\ probe[w] # None /\ held[w] = None /\ probe[w] \notin markers
    /\ probe' = [probe EXCEPT ![w] = None]
    /\ IF config[w] \in secrets /\ opening[w] = NoOpen
       THEN opening' = [opening EXCEPT ![w] = [root |-> config[w], current |-> TRUE]]
       ELSE UNCHANGED opening
    /\ UNCHANGED <<config, shared, held, key, op, target, cycle, commands>>

(* The window is closed, and another one opened.                           *)
Reload(w) ==
    /\ op[w] = "idle"
    /\ config' = [config EXCEPT ![w] = stored]
    /\ held' = [held EXCEPT ![w] = None] /\ key' = [key EXCEPT ![w] = None]
    /\ opening' = [opening EXCEPT ![w] = NoOpen]
    /\ cycle' = [cycle EXCEPT ![w] = None] /\ probe' = [probe EXCEPT ![w] = None]
    /\ UNCHANGED <<shared, op, target, commands>>

-----------------------------------------------------------------------------
(* Setup: the new repository is open before anything running is torn down. *)

UserIsFree == \A w \in Window : op[w] = "idle"
Command == UserIsFree /\ commands < MaxCommands /\ commands' = commands + 1

SetupOpens(w, r, ok) ==
    /\ Command
    /\ IF ok THEN /\ op' = [op EXCEPT ![w] = "install"] /\ target' = [target EXCEPT ![w] = r]
                  /\ Outdate(w)
       ELSE UNCHANGED <<op, target, opening>>
    /\ UNCHANGED <<config, shared, held, key, cycle, probe>>

SetupInstalls(w) ==
    /\ op[w] = "install" /\ cycle[w] = None
    /\ held' = [held EXCEPT ![w] = target[w]] /\ key' = [key EXCEPT ![w] = target[w]]
    /\ op' = [op EXCEPT ![w] = "store"]
    /\ UNCHANGED <<config, shared, opening, target, cycle, probe, commands>>

(* setRepository: the new key, the path, and the old key goes.             *)
SetupStores(w) ==
    /\ op[w] = "store" /\ op' = [op EXCEPT ![w] = "rejoin"]
    /\ secrets' = (secrets \ {config[w]}) \cup {target[w]}
    /\ config' = [config EXCEPT ![w] = target[w]] /\ stored' = target[w]
    /\ UNCHANGED <<markers, left, held, key, opening, target, cycle, probe, commands>>

(* The marker named by the open repository goes; Setup fails without one.  *)
SetupRejoins(w) ==
    /\ op[w] = "rejoin" /\ op' = [op EXCEPT ![w] = "idle"]
    /\ markers' = markers \ {held[w]} /\ left' = left \ {held[w]}
    /\ target' = [target EXCEPT ![w] = None]
    /\ UNCHANGED <<config, stored, secrets, held, key, opening, cycle, probe, commands>>

-----------------------------------------------------------------------------
(* Disconnect.                                                             *)

DisconnectBegins(w) ==
    /\ Command /\ config[w] # None
    /\ op' = [op EXCEPT ![w] = "leave"] /\ Outdate(w)
    /\ probe' = [probe EXCEPT ![w] = None]
    /\ UNCHANGED <<config, shared, held, key, target, cycle>>

Leaving(w) == IF held[w] # None THEN held[w] ELSE config[w]

DisconnectMarks(w) ==
    /\ op[w] = "leave" /\ cycle[w] = None
    /\ markers' = markers \cup {Leaving(w)}
    /\ target' = [target EXCEPT ![w] = Leaving(w)]
    /\ held' = [held EXCEPT ![w] = None] /\ key' = [key EXCEPT ![w] = None]
    /\ op' = [op EXCEPT ![w] = "forget"]
    /\ UNCHANGED <<config, stored, secrets, left, opening, cycle, probe, commands>>

(* clearRepository: the key, then the path.                                *)
ForgetKey(w) ==
    /\ op[w] = "forget" /\ op' = [op EXCEPT ![w] = "clear"]
    /\ secrets' = secrets \ {config[w]}
    /\ UNCHANGED <<config, stored, markers, left, held, key, opening, target, cycle, probe, commands>>

ForgetPath(w) ==
    /\ op[w] = "clear" /\ op' = [op EXCEPT ![w] = "idle"]
    /\ config' = [config EXCEPT ![w] = None] /\ stored' = None
    /\ left' = left \cup {target[w]} /\ target' = [target EXCEPT ![w] = None]
    /\ UNCHANGED <<secrets, markers, held, key, opening, cycle, probe, commands>>

-----------------------------------------------------------------------------
Next ==
    \E w \in Window :
        \/ BeginOpen(w)
        \/ \E ok \in BOOLEAN : FinishOpen(w, ok)
        \/ StandDown(w) \/ BeginCycle(w) \/ EndCycle(w) \/ Reconnect(w) \/ Reload(w)
        \/ \E r \in Repo, ok \in BOOLEAN : SetupOpens(w, r, ok)
        \/ SetupInstalls(w) \/ SetupStores(w) \/ SetupRejoins(w)
        \/ DisconnectBegins(w) \/ DisconnectMarks(w) \/ ForgetKey(w) \/ ForgetPath(w)

Spec == Init /\ [][Next]_vars

-----------------------------------------------------------------------------
(* A window that has a repository open has that repository's key, whole:   *)
(* overlapping opens, Setup and Disconnect leave neither a wiped key nor   *)
(* another one in place (the comment at manager.ts:7297).                  *)
KeyIsWhole == \A w \in Window : held[w] # None => key[w] = held[w]

(* Once Disconnect has told the user that synchronization has stopped in   *)
(* every window, no window begins a cycle in that repository until Setup   *)
(* connects it again - although windows see neither each other nor the     *)
(* configuration, and opens begun before are still under way.              *)
StandsDown ==
    [][\A w \in Window : cycle[w] = None /\ cycle'[w] # None => cycle'[w] \notin left]_vars
=============================================================================
