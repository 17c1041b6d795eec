------------------------------ MODULE MCDevice ------------------------------
(***************************************************************************)
(* Machines of one computer that share no state in the code: the lock file,*)
(* which repository each window has open, who may launch a helper, the     *)
(* local state file, a workspace's database on its way to another computer, *)
(* and the scan of the chats.  A behaviour is one of one of them, chosen   *)
(* at the start, so that their states add up and do not multiply.          *)
(***************************************************************************)
EXTENDS FileLock

CONSTANTS Repo, MaxCommands, MaxClaims, Value, MaxWrites, MaxIds, MaxRowWrites, Chats, Limit, MaxChanges

(* What stands for no process, record or number is none of them; at least  *)
(* one message can be published.                                           *)
ASSUME DeviceAssumption ==
    /\ "dead" \notin Process /\ Value # {} /\ None \notin Value
    /\ None \notin [id : Nat, value : Value, failed : BOOLEAN]
    /\ None \notin [workspace : {"source", "target", "canonical", "other"},
                    value : Value, column : {None} \cup Value]

ASSUME ScanAssumption ==
    /\ Chats \in Nat /\ Limit \in Nat \ {0} /\ None \notin Nat
    /\ None \notin [head : Nat, first : Nat, last : Nat, body : Nat]
    /\ None \notin [content : [head : Nat, first : Nat, last : Nat, body : Nat], head : Nat]
    /\ None \notin [cursor : Nat, again : BOOLEAN, fp : Nat]

VARIABLES
    part,
    config, stored, secrets, markers, held, key, opening, op, target, cycle, probe,
    left, commands,
    claimFile, step, nonce, active, veto, waiting, reports, issued,
    file, writes, readable, owner, memory, digest, sight, ready, at, ids, saved,
    db, schema, rowWrites, capture, event, merge, preflight, backup, sealed,
    rows, born, generation, recorded, swapped, settled, pending, counted, oversized,
    current, header, audit, audited, deep, due, read, result, changes, unreadable

connectionVars == <<config, stored, secrets, markers, held, key, opening, op, target,
                    cycle, probe, left, commands>>
claimVars == <<claimFile, step, nonce, active, veto, waiting, reports, issued>>
stateVars == <<file, writes, readable, owner, memory, digest, sight, ready, at, ids, saved>>
rowVars == <<db, schema, rowWrites, capture, event, merge, preflight, backup, sealed>>

scanVars == <<rows, born, generation, recorded, swapped, settled, pending, counted,
              oversized, current, header, audit, audited, deep, due, read, result,
              changes, unreadable>>
allVars == <<part, vars, connectionVars, claimVars, stateVars, rowVars, scanVars>>

(* A state of the repository in which nothing has been recorded.           *)
FirstValue == CHOOSE v \in Value : TRUE

C == INSTANCE Connection WITH Window <- Process
A == INSTANCE ApplyClaim WITH Host <- Process
S == INSTANCE LocalState WITH Absent <- None, MayBeUnreadable <- FALSE,
                              Placeholder <- FirstValue

R == INSTANCE WorkspaceRows WITH writes <- rowWrites, MaxWrites <- MaxRowWrites,
                                 scan <- capture, step <- merge

Q == INSTANCE ChatScan

MCInit ==
    /\ part \in {"lock", "connection", "claim", "state", "rows", "chats"}
    /\ Init /\ C!Init /\ A!Init /\ S!Init /\ R!Init /\ Q!Init
    /\ part # "lock" => path = None
    /\ stored = CHOOSE r \in Repo : TRUE
    /\ part # "state" => file = None
    /\ part # "rows" => schema = [s \in R!Side |-> "none"]
    /\ IF part = "chats"
       THEN recorded[1] # None /\ \A c \in born : recorded[c] # None
       ELSE born = {}

Only(p) ==
    /\ UNCHANGED part
    /\ p # "lock" => UNCHANGED vars
    /\ p # "connection" => UNCHANGED connectionVars
    /\ p # "claim" => UNCHANGED claimVars
    /\ p # "state" => UNCHANGED stateVars
    /\ p # "rows" => UNCHANGED rowVars
    /\ p # "chats" => UNCHANGED scanVars

MCNext ==
    \/ part = "lock" /\ Next /\ Only("lock")
    \/ part = "connection" /\ C!Next /\ Only("connection")
    \/ part = "claim" /\ A!Next /\ Only("claim")
    \/ part = "state" /\ S!Next /\ Only("state")
    \/ part = "rows" /\ R!Next /\ Only("rows")
    \/ part = "chats" /\ Q!Next /\ Only("chats")

(* The bounds of the workspace rows are not all reached together: two      *)
(* writes, or one, to the layout perhaps, and a second attempt of the scan.*)
FewWrites ==
    rowWrites = 2 => capture.attempt <= 1 /\ \A s \in R!Side : db[s].layout = FirstValue

(* The fairness of FileLock and of ChatScan; the other machines have none. *)
MCSpec ==
    /\ MCInit
    /\ [][MCNext]_allVars
    /\ \A p \in Process :
           /\ WF_vars(part = "lock" /\ p \in Live
                      /\ (Contend(p) \/ Touch(p) \/ ReleaseRemove(p)))
           /\ SF_vars(part = "lock" /\ p \in Live /\ Release(p))
    /\ WF_vars(part = "lock" /\ Age)
    /\ WF_scanVars(part = "chats" /\ Q!Scan)
    /\ SF_scanVars(part = "chats" /\ Q!Publish) /\ SF_scanVars(part = "chats" /\ Q!Tick)

(* The key a window works with belongs to the repository it has open.    *)
KeyIsWhole == C!KeyIsWhole
(* At most one helper waits for Cursor to close.                          *)
OneHelperWaits == A!OneHelperWaits
(* The state file holds the last state a window saved under the lock.     *)
FileIsWhatWasSaved == S!FileIsWhatWasSaved
(* A merge into a workspace database takes nothing its backup lacks.      *)
WriteIsUndoable == R!WriteIsUndoable
(* A scan that is saved would not have found anything new.                *)
SettledIsKnown == Q!SettledIsKnown
(* What Cursor has written is published in the end.                       *)
WrittenIsPublished == Q!WrittenIsPublished
=============================================================================
