---------------------------- MODULE ChatsProofs ----------------------------
(***************************************************************************)
(* What is proved about damaged chats, for any number of chats, devices    *)
(* and messages: the catalog of what can still be read (RecoveryCatalog),  *)
(* and the repair from the history (ChatRepair).                           *)
(***************************************************************************)
EXTENDS MCChats, FiniteSetTheorems, SequenceTheorems, WellFoundedInduction, TLAPS

-----------------------------------------------------------------------------
(* RecoveryCatalog.                                                        *)
(*                                                                         *)
(* The argument: while the database is what it was when the build began,   *)
(* each chat that the pages have passed is either done - counted, and, if  *)
(* it lacks something that can be saved, in the catalog as it is - or      *)
(* among the observations of this page (CoverInv).  A verdict on what the  *)
(* catalog has is not overtaken before the entry is written, because only  *)
(* the build writes artifacts (InputInv).                                  *)

ContentSet == [core : Nat, damage : Nat]
EntrySet == [status : {"ready", "changed", "unknown", "skipped-body", "skipped-limit"},
             core : Nat, damage : Nat]
Item == [chat : R!Chat, content : ContentSet]
Building == {"page", "observe", "recheck", "write", "upsert"}
AtEntry == {"recheck", "write", "upsert"}

CatalogTypeInv ==
    /\ db \in [R!Chat -> ContentSet \cup {None}]
    /\ kind \in [R!Chat -> {"readable", "unknown", "bodyless"}]
    /\ cost \in [R!Chat -> Nat]
    /\ catalog \in [R!Chat -> EntrySet \cup {None}]
    /\ at \in Building \cup {"idle", "complete", "incomplete", "cancelled"}
    /\ at \in Building => snap \in [R!Chat -> ContentSet \cup {None}]
    /\ pos \in 0..N /\ last = pos /\ probed \in Nat /\ writes \in Nat
    /\ broken \in Seq(Item)

(* The entry being made.                                                   *)
EntryInv ==
    /\ broken # <<>>
    /\ input = [entry |-> input.entry, verified |-> input.verified]
    /\ input.entry = R!Entry(input.entry.status)
    /\ input.entry \in EntrySet
    /\ at \in {"recheck", "write"} => input.entry.status = "ready"
    /\ \/ at = "upsert" /\ input.entry.status = "ready"
       \/ input.verified
       \/ R!Observed.chat \notin R!Ready
       \/ ~R!Intact(R!Observed.chat)
InputInv == at \in AtEntry => EntryInv

(* What a complete build promises of a chat.                               *)
Done(c) ==
    db[c] # None =>
        /\ db[c].damage # 0 \/ kind[c] = "unknown" => c \in told
        /\ kind[c] = "readable" /\ db[c].damage # 0 /\ cost[c] <= MaxProbes
           => c \in R!Ready /\ R!Of(c) = db[c]

Listed(c) == \E i \in 1..Len(broken) : broken[i].chat = c
Stands(b) == db[b.chat] = b.content /\ kind[b.chat] # "unknown"

Covered ==
    /\ snap = db
    /\ \A c \in R!Chat : c <= pos => Done(c) \/ Listed(c)
    /\ \A i \in 1..Len(broken) : Stands(broken[i])
    /\ at \in AtEntry /\ kind[R!Observed.chat] = "readable" => input.entry.status = "ready"
CoverInv == at \in Building /\ ~changed => Covered

(* A page that is not full has come to the end.                            *)
EndInv == at \in AtEntry \cup {"observe"} /\ ~full => R!Following = {}

CatalogInv == CatalogTypeInv /\ InputInv /\ CoverInv /\ EndInv

(* A set of numbers has a least element.                                   *)
LEMMA HasLeast ==
    ASSUME NEW S, S \subseteq Nat, S # {}
    PROVE  \E m \in S : \A k \in S : m <= k
<1> DEFINE D == OpToRel(<, Nat)
<1>1. IsWellFoundedOn(D, Nat)
  BY NatLessThanWellFounded
<1>2. \A y, x \in Nat : y < x => <<y, x>> \in D
  BY DEF OpToRel
<1>3. PICK x \in S : \A y \in S : ~ (<<y, x>> \in D)
  <2> HIDE DEF D
  <2> QED BY <1>1, WFMin
<1> HIDE DEF D
<1>4. \A y \in S : ~ (y < x)
  BY <1>2, <1>3
<1> QED BY <1>3, <1>4

(* The next row is the first after the position.                           *)
LEMMA RowIs ==
    ASSUME R!Following # {}, ChatsAssumption
    PROVE  /\ R!Row \in R!Following
           /\ \A e \in R!Following : R!Row <= e
<1>1. R!Following \subseteq Nat
  BY DEF R!Following, R!Chat, ChatsAssumption
<1>2. \E m \in R!Following : \A k \in R!Following : m <= k
  BY <1>1, HasLeast
<1> QED BY <1>2 DEF R!Row

(* The first observation, and the rest.                                    *)
LEMMA ObservedIs ==
    ASSUME CatalogTypeInv, broken # <<>>
    PROVE  /\ R!Observed = broken[1] /\ R!Observed \in Item
           /\ 1 \in 1..Len(broken)
           /\ Tail(broken) \in Seq(Item) /\ Len(Tail(broken)) = Len(broken) - 1
           /\ \A i \in 1..Len(Tail(broken)) : Tail(broken)[i] = broken[i + 1]
<1>1. broken \in Seq(Item)
  BY DEF CatalogTypeInv
<1>2. /\ Head(broken) = broken[1] /\ Len(broken) \in Nat \ {0}
      /\ Head(broken) \in Item
      /\ Tail(broken) \in Seq(Item) /\ Len(Tail(broken)) = Len(broken) - 1
      /\ \A i \in 1..Len(Tail(broken)) : Tail(broken)[i] = broken[i + 1]
  BY <1>1, HeadTailProperties
<1> QED BY <1>2 DEF R!Observed

(* What is neither the database nor the build leaves the invariant alone.  *)
catalogState == <<db, kind, cost, catalog, at, changed, snap, pos, last, probed, broken,
                  full, told, input, writes>>

LEMMA SameCatalog ==
    ASSUME CatalogInv, UNCHANGED catalogState, files' \subseteq files
    PROVE  CatalogInv'
<1>1. CatalogTypeInv'
  BY DEF CatalogInv, CatalogTypeInv, catalogState
<1>2. R!Observed' = R!Observed /\ R!Ready' = R!Ready /\ R!Following' = R!Following
  BY DEF catalogState, R!Observed, R!Ready, R!Following
<1>3. \A c : R!Intact(c)' => R!Intact(c)
  BY DEF catalogState, R!Intact
<1>4. R!Entry(input.entry.status)' = R!Entry(input.entry.status)
  BY <1>2 DEF catalogState, R!Entry
<1>5. InputInv'
  BY <1>2, <1>3, <1>4 DEF CatalogInv, InputInv, EntryInv, catalogState
<1>6. CoverInv'
  BY <1>2 DEF CatalogInv, CoverInv, Covered, Done, Listed, Stands, catalogState, R!Of
<1>7. EndInv'
  BY <1>2 DEF CatalogInv, EndInv, catalogState
<1> QED BY <1>1, <1>5, <1>6, <1>7 DEF CatalogInv

(* Cursor's writes are seen by the build (Change).                         *)
LEMMA CursorCatalog ==
    ASSUME CatalogInv, R!CursorWrites, ChatsAssumption
    PROVE  CatalogInv'
<1>1. PICK c \in R!Chat, v \in ContentSet \cup {None},
               k \in {"readable", "unknown", "bodyless"} :
          /\ db' = [db EXCEPT ![c] = v] /\ kind' = [kind EXCEPT ![c] = k]
          /\ writes' = writes + 1 /\ changed' = (at # "idle")
          /\ UNCHANGED <<cost, catalog, files, at, snap, pos, last, examined, probed, broken,
                         full, told, input, opening>>
  <2>1. ASSUME NEW text \in Nat, NEW damage \in Nat
        PROVE  R!Content(text, damage) \in ContentSet
    BY DEF R!Content, ContentSet
  <2>2. writes \in Nat /\ writes + 1 \in Nat /\ 0 \in Nat
    BY DEF CatalogInv, CatalogTypeInv
  <2>3. PICK c \in R!Chat :
            \/ \E v \in {None, R!Content(writes, 0)} : R!Change(c, v, kind[c])
            \/ db[c] # None /\ \E m \in {0, writes + 1} :
                                  R!Change(c, R!Content(db[c].core, m), kind[c])
            \/ db[c] # None /\ R!Change(c, R!Content(writes, writes + 1), "bodyless")
    BY DEF R!CursorWrites
  <2>4. kind[c] \in {"readable", "unknown", "bodyless"}
    BY DEF CatalogInv, CatalogTypeInv
  <2>5. db[c] # None => db[c].core \in Nat
    BY DEF CatalogInv, CatalogTypeInv, ContentSet
  <2>6. CASE \E v \in {None, R!Content(writes, 0)} : R!Change(c, v, kind[c])
    <3>1. PICK v \in {None, R!Content(writes, 0)} : R!Change(c, v, kind[c])
      BY <2>6
    <3>2. v \in ContentSet \cup {None}
      BY <2>1, <2>2
    <3>3. /\ db' = [db EXCEPT ![c] = v] /\ kind' = [kind EXCEPT ![c] = kind[c]]
          /\ writes' = writes + 1 /\ changed' = (at # "idle")
          /\ UNCHANGED <<cost, catalog, files, at, snap, pos, last, examined, probed, broken,
                         full, told, input, opening>>
      BY <3>1 DEF R!Change, R!page
    <3> QED BY <2>3, <2>4, <3>2, <3>3
  <2>7. CASE db[c] # None /\ \E m \in {0, writes + 1} :
                                  R!Change(c, R!Content(db[c].core, m), kind[c])
    <3>1. PICK m \in {0, writes + 1} : R!Change(c, R!Content(db[c].core, m), kind[c])
      BY <2>7
    <3>2. R!Content(db[c].core, m) \in ContentSet \cup {None}
      BY <2>1, <2>2, <2>5, <2>7
    <3>3. /\ db' = [db EXCEPT ![c] = R!Content(db[c].core, m)] /\ kind' = [kind EXCEPT ![c] = kind[c]]
          /\ writes' = writes + 1 /\ changed' = (at # "idle")
          /\ UNCHANGED <<cost, catalog, files, at, snap, pos, last, examined, probed, broken,
                         full, told, input, opening>>
      BY <3>1 DEF R!Change, R!page
    <3> QED BY <2>3, <2>4, <3>2, <3>3
  <2>8. CASE R!Change(c, R!Content(writes, writes + 1), "bodyless")
    <3>1. R!Content(writes, writes + 1) \in ContentSet \cup {None}
      BY <2>1, <2>2
    <3>2. /\ db' = [db EXCEPT ![c] = R!Content(writes, writes + 1)] /\ kind' = [kind EXCEPT ![c] = "bodyless"]
          /\ writes' = writes + 1 /\ changed' = (at # "idle")
          /\ UNCHANGED <<cost, catalog, files, at, snap, pos, last, examined, probed, broken,
                         full, told, input, opening>>
      BY <2>8 DEF R!Change, R!page
    <3> QED BY <2>3, <3>1, <3>2
  <2> QED BY <2>3, <2>6, <2>7, <2>8
<1>3. CatalogTypeInv'
  BY <1>1 DEF CatalogInv, CatalogTypeInv
<1>4. R!Observed' = R!Observed /\ R!Ready' = R!Ready /\ R!Following' = R!Following
  BY <1>1 DEF R!Observed, R!Ready, R!Following
<1>5. InputInv'
  <2>1. R!Entry(input.entry.status)' = R!Entry(input.entry.status)
    BY <1>1, <1>4 DEF R!Entry
  <2> QED BY <1>1, <1>4, <2>1 DEF CatalogInv, InputInv, EntryInv, R!Intact
<1>6. CoverInv'
  BY <1>1 DEF CoverInv, Building
<1>7. EndInv'
  BY <1>1, <1>4 DEF CatalogInv, EndInv
<1> QED BY <1>3, <1>5, <1>6, <1>7 DEF CatalogInv

(* A build that has ended claims nothing.                                  *)
LEMMA EndsCatalog ==
    ASSUME CatalogInv, NEW how \in {"complete", "incomplete", "cancelled", "idle"},
           R!Ends(how)
    PROVE  CatalogInv'
<1>1. /\ at' = how
      /\ UNCHANGED <<db, kind, cost, catalog, files, changed, snap, pos, last, examined, probed,
                     broken, full, told, opening, writes, losses>>
  BY DEF R!Ends, R!page
<1>2. at' \notin Building /\ at' \notin AtEntry \cup {"observe"}
  BY <1>1 DEF Building, AtEntry
<1>3. CatalogTypeInv'
  BY <1>1, <1>2 DEF CatalogInv, CatalogTypeInv
<1> QED BY <1>2, <1>3 DEF CatalogInv, InputInv, CoverInv, EndInv

(* A build begins at the first chat of the database as it is (BeginBuild). *)
LEMMA BeginCatalog ==
    ASSUME CatalogInv, R!BeginBuild, ChatsAssumption
    PROVE  CatalogInv'
<1>1. /\ at' = "page" /\ last' = 0 /\ pos' = 0 /\ probed' = 0 /\ broken' = <<>> /\ full' = FALSE
      /\ snap' = db
      /\ UNCHANGED <<db, kind, cost, catalog, files, input, opening, writes, losses>>
  BY DEF R!BeginBuild, R!EmptyPage
<1>2. CatalogTypeInv'
  <2>1. <<>> \in Seq(Item) /\ 0 \in 0..N
    BY EmptySeq DEF ChatsAssumption
  <2> QED BY <1>1, <2>1 DEF CatalogInv, CatalogTypeInv, Building
<1>3. InputInv' /\ EndInv'
  BY <1>1 DEF InputInv, EndInv, AtEntry
<1>4. CoverInv'
  <2>1. \A c \in R!Chat : ~ (c <= 0)
    BY DEF R!Chat, ChatsAssumption
  <2>2. Len(<<>>) = 0
    BY EmptySeq
  <2> QED BY <1>1, <2>1, <2>2 DEF CoverInv, Covered, AtEntry
<1> QED BY <1>2, <1>3, <1>4 DEF CatalogInv

(* A chat of the page is consumed, or left for the next (Examine).         *)
LEMMA ExamineCatalog ==
    ASSUME CatalogInv, R!Examine, ChatsAssumption
    PROVE  CatalogInv'
<1>1. /\ at = "page" /\ R!Following # {}
      /\ UNCHANGED <<db, kind, cost, catalog, files, changed, snap, input, opening, writes, losses>>
  BY DEF R!Examine
<1>2. PICK c \in R!Following : c = R!Row /\ \A e \in R!Following : c <= e
  BY <1>1, RowIs
<1>3. /\ c \in R!Chat /\ c > pos /\ snap[c] # None /\ c \in 0..N
      /\ \A e \in R!Chat : e > pos /\ e < c => snap[e] = None
  BY <1>2 DEF R!Following, R!Chat, ChatsAssumption
<1>4. /\ snap[c] \in ContentSet /\ cost[c] \in Nat /\ probed \in Nat /\ MaxProbes \in Nat
      /\ broken \in Seq(Item) /\ pos \in 0..N /\ last = pos
  BY <1>1, <1>3 DEF CatalogInv, CatalogTypeInv, Building, ChatsAssumption
<1>5. \/ /\ at' = "observe" /\ full'
         /\ UNCHANGED <<pos, last, probed, broken, told>>
      \/ /\ kind[c] = "unknown" \/ cost[c] > MaxProbes
         /\ pos' = c /\ last' = c /\ told' = told \cup {c} /\ broken' = broken
         /\ probed' = probed
         /\ at' = "page" \/ (at' = "observe" /\ full')
      \/ /\ kind[c] # "unknown" /\ at' = "page"
         /\ pos' = c /\ last' = c /\ told' = told /\ probed' = probed + cost[c]
         /\ broken' = IF snap[c].damage # 0
                      THEN Append(broken, [chat |-> c, content |-> snap[c]]) ELSE broken
  BY <1>1, <1>2, <1>4 DEF R!Examine, R!LeaveForNextPage, R!Consume, R!TooMany
<1>6. /\ at' \in {"page", "observe"} /\ (at' = "observe" => full')
      /\ pos' \in {pos, c} /\ last' = pos' /\ probed' \in Nat
  BY <1>1, <1>4, <1>5
<1>7. /\ Len(broken) \in Nat /\ Len(broken') \in Nat /\ Len(broken) <= Len(broken')
      /\ broken' \in Seq(Item)
      /\ \A i \in 1..Len(broken) : broken'[i] = broken[i]
      /\ \/ broken' = broken
         \/ /\ Len(broken') = Len(broken) + 1
            /\ broken'[Len(broken')] = [chat |-> c, content |-> snap[c]]
            /\ kind[c] # "unknown"
      /\ \/ pos' = pos /\ told' = told
         \/ pos' = c /\ told' = told \cup {c} /\ (kind[c] = "unknown" \/ cost[c] > MaxProbes)
         \/ pos' = c /\ told' = told /\ kind[c] # "unknown" /\ snap[c].damage = 0
         \/ pos' = c /\ told' = told /\ \E i \in 1..Len(broken') : broken'[i].chat = c
  <2>1. [chat |-> c, content |-> snap[c]] \in Item
    BY <1>3, <1>4 DEF Item
  <2>2. CASE broken' = Append(broken, [chat |-> c, content |-> snap[c]])
             /\ kind[c] # "unknown" /\ pos' = c /\ told' = told
    <3> DEFINE o == [chat |-> c, content |-> snap[c]]
    <3>1. /\ broken' \in Seq(Item) /\ Len(broken) \in Nat /\ Len(broken') = Len(broken) + 1
          /\ \A i \in 1..Len(broken) : broken'[i] = broken[i]
          /\ broken'[Len(broken) + 1] = o
      <4> HIDE DEF o
      <4>1. o \in Item /\ broken' = Append(broken, o)
        BY <2>1, <2>2 DEF o
      <4> QED BY <4>1, <1>4, AppendProperties
    <3>2. Len(broken') \in 1..Len(broken') /\ broken'[Len(broken')].chat = c
      BY <3>1
    <3> QED BY <2>2, <3>1, <3>2
  <2>3. CASE broken' = broken
    <3>1. Len(broken) \in Nat
      BY <1>4, LenProperties
    <3> QED BY <1>1, <1>4, <1>5, <2>2, <2>3, <3>1
  <2> QED BY <1>5, <2>2, <2>3
<1>8. CatalogTypeInv'
  <2>1. pos' \in 0..N
    BY <1>3, <1>4, <1>6
  <2> QED BY <1>1, <1>6, <1>7, <2>1 DEF CatalogInv, CatalogTypeInv, Building
<1>9. InputInv' /\ EndInv'
  BY <1>6 DEF InputInv, EndInv, AtEntry
<1>10. ASSUME ~changed'
       PROVE  Covered'
  <2>1. Covered /\ snap = db /\ snap' = db'
    BY <1>1, <1>10 DEF CatalogInv, CoverInv, Covered, Building
  <2>2. ASSUME NEW e \in R!Chat, e <= pos'
        PROVE  Done(e)' \/ Listed(e)'
    <3>1. CASE e <= pos
      <4>1. Done(e) => Done(e)'
        BY <1>1, <1>7 DEF Done, R!Of, R!Ready
      <4>2. Listed(e) => Listed(e)'
        BY <1>7 DEF Listed
      <4> QED BY <2>1, <3>1, <4>1, <4>2 DEF Covered
    <3>2. CASE e > pos /\ e < c
      BY <1>1, <1>3, <2>1, <3>2 DEF Done
    <3>3. CASE e = c /\ pos' = c
      <4>1. CASE c \in told' /\ (kind[c] = "unknown" \/ cost[c] > MaxProbes)
        BY <1>1, <1>3, <1>4, <3>3, <4>1 DEF Done
      <4>2. CASE kind[c] # "unknown" /\ snap[c].damage = 0
        BY <1>1, <2>1, <3>3, <4>2 DEF Done
      <4>3. CASE \E i \in 1..Len(broken') : broken'[i].chat = c
        BY <3>3, <4>3 DEF Listed
      <4>4. pos # c
        BY <1>3, <1>4
      <4> QED BY <1>7, <3>3, <4>1, <4>2, <4>3, <4>4
    <3>4. e \in Nat /\ c \in Nat /\ pos \in Nat
      BY <1>3, <1>4 DEF R!Chat
    <3> QED BY <1>6, <2>2, <3>1, <3>2, <3>3, <3>4
  <2>3. ASSUME NEW i \in 1..Len(broken')
        PROVE  Stands(broken[i])'
    <3>1. CASE i \in 1..Len(broken)
      BY <1>1, <1>7, <2>1, <3>1 DEF Covered, Stands
    <3>2. CASE i \notin 1..Len(broken)
      <4>1. /\ broken'[i] = [chat |-> c, content |-> snap[c]] /\ kind[c] # "unknown"
        BY <1>7, <2>3, <3>2
      <4> QED BY <1>1, <2>1, <4>1 DEF Stands
    <3> QED BY <3>1, <3>2
  <2>4. at' \notin AtEntry
    BY <1>6 DEF AtEntry
  <2> QED BY <2>1, <2>2, <2>3, <2>4 DEF Covered
<1> QED BY <1>8, <1>9, <1>10 DEF CatalogInv, CoverInv

(* The page is at its end (WalkEnds).                                      *)
LEMMA WalkCatalog ==
    ASSUME CatalogInv, R!WalkEnds
    PROVE  CatalogInv'
<1>1. /\ at = "page" /\ at' = "observe" /\ R!Following = {}
      /\ UNCHANGED <<db, kind, cost, catalog, files, changed, snap, pos, last, probed, broken,
                     full, told, input, writes>>
  BY DEF R!WalkEnds, R!page
<1>2. CatalogTypeInv'
  BY <1>1 DEF CatalogInv, CatalogTypeInv, Building
<1>3. R!Following' = {} /\ R!Observed' = R!Observed
  BY <1>1 DEF R!Following, R!Observed
<1>4. InputInv' /\ EndInv'
  BY <1>1, <1>3 DEF InputInv, EndInv, AtEntry
<1>5. CoverInv'
  BY <1>1
     DEF CatalogInv, CoverInv, Covered, Done, Listed, Stands, R!Of, R!Ready, Building,
          AtEntry
<1> QED BY <1>2, <1>4, <1>5 DEF CatalogInv

(* The next page begins at the first chat that was left (NextPage).        *)
LEMMA NextPageCatalog ==
    ASSUME CatalogInv, R!NextPage
    PROVE  CatalogInv'
<1>1. /\ at = "observe" /\ at' = "page" /\ broken = <<>> /\ broken' = <<>> /\ probed' = 0
      /\ pos' = last' /\ snap' = db
      /\ UNCHANGED <<db, kind, cost, catalog, files, changed, last, told, input, writes>>
  BY DEF R!NextPage, R!EmptyPage
<1>2. pos' = pos
  BY <1>1 DEF CatalogInv, CatalogTypeInv
<1>3. CatalogTypeInv'
  BY <1>1, <1>2 DEF CatalogInv, CatalogTypeInv, Building
<1>4. InputInv' /\ EndInv'
  BY <1>1 DEF InputInv, EndInv, AtEntry
<1>5. CoverInv'
  BY <1>1, <1>2
  DEF CatalogInv, CoverInv, Covered, Done, Listed, Stands, R!Of, R!Ready, Building, AtEntry
<1> QED BY <1>3, <1>4, <1>5 DEF CatalogInv

(* An observation is done with: it is in the catalog, as it stands.        *)
LEMMA Covers ==
    ASSUME CatalogInv, NEW o, o = R!Observed, broken # <<>>, at \in Building, at' = "observe",
           UNCHANGED <<db, kind, cost, snap, pos, last, changed, full>>,
           broken' = Tail(broken), told' = told \cup {o.chat},
           \A c \in R!Chat : c # o.chat => catalog'[c] = catalog[c],
           Covered /\ kind[o.chat] = "readable"
           => o.chat \in R!Ready' /\ R!Of(o.chat)' = o.content
    PROVE  CoverInv'
<1> SUFFICES ASSUME ~changed
             PROVE  Covered'
  BY DEF CoverInv
<1>1. Covered
  BY DEF CatalogInv, CoverInv
<1>2. o = R!Observed
  OBVIOUS
<1>3. /\ o = broken[1] /\ o \in Item /\ 1 \in 1..Len(broken)
      /\ Len(Tail(broken)) = Len(broken) - 1
      /\ \A i \in 1..Len(Tail(broken)) : Tail(broken)[i] = broken[i + 1]
  BY <1>2, ObservedIs DEF CatalogInv
<1>4. o.chat \in R!Chat /\ Len(broken) \in Nat
  <2>1. broken \in Seq(Item)
    BY DEF CatalogInv, CatalogTypeInv
  <2> QED BY <1>3, <2>1, LenProperties DEF Item
<1>5. db[o.chat] = o.content
  BY <1>1, <1>3 DEF Covered, Stands
<1>6. ASSUME NEW c \in R!Chat, c <= pos'
      PROVE  Done(c)' \/ Listed(c)'
  <2>1. CASE c = o.chat
    <3>1. kind[c] = "readable" => c \in R!Ready' /\ R!Of(c)' = db[c]
      BY <1>1, <1>2, <1>5, <2>1 DEF R!Of
    <3>2. c \in told' /\ kind' = kind /\ db' = db /\ cost' = cost
      BY <1>2, <2>1
    <3>3. Done(c)'
      BY <3>1, <3>2 DEF Done
    <3> QED BY <3>3
  <2>2. CASE c # o.chat
    <3>1. Done(c) => Done(c)'
      BY <1>2, <2>2 DEF Done, R!Of, R!Ready
    <3>2. ASSUME Listed(c)
          PROVE  Listed(c)'
      <4>1. PICK i \in 1..Len(broken) : broken[i].chat = c
        BY <3>2 DEF Listed
      <4>2. i - 1 \in 1..Len(Tail(broken)) /\ Tail(broken)[i - 1] = broken[i]
        BY <1>3, <1>4, <2>2, <4>1
      <4> QED BY <4>1, <4>2 DEF Listed
    <3>3. Done(c) \/ Listed(c)
      BY <1>1, <1>6 DEF Covered
    <3> QED BY <3>1, <3>2, <3>3
  <2> QED BY <2>1, <2>2
<1>7. ASSUME NEW i \in 1..Len(broken')
      PROVE  Stands(broken[i])'
  <2>1. i + 1 \in 1..Len(broken) /\ broken'[i] = broken[i + 1]
    BY <1>3, <1>4, <1>7
  <2> QED BY <1>1, <2>1 DEF Covered, Stands
<1>8. at' \notin AtEntry /\ snap' = db'
  BY <1>1 DEF AtEntry, Covered
<1> QED BY <1>6, <1>7, <1>8 DEF Covered

(* An observation is in the catalog already, or an entry is made of it, or *)
(* there is no room (Observe).                                             *)
LEMMA ObserveCatalog ==
    ASSUME CatalogInv, R!Observe, ChatsAssumption
    PROVE  CatalogInv'
<1>1. /\ at = "observe" /\ broken # <<>>
      /\ UNCHANGED <<db, kind, cost, catalog, files, changed, snap, pos, last, examined, probed,
                     full, opening, writes, losses>>
  BY DEF R!Observe
<1>2. PICK o \in Item : o = R!Observed /\ o = broken[1] /\ 1 \in 1..Len(broken)
  BY <1>1, ObservedIs DEF CatalogInv
<1>3. o.chat \in R!Chat /\ o.content \in ContentSet
  BY <1>2 DEF Item
<1>4. CASE /\ o.chat \in R!Ready /\ R!Of(o.chat) = o.content
           /\ broken' = Tail(broken) /\ told' = told \cup {o.chat}
           /\ UNCHANGED <<at, input>>
  <2>1. CatalogTypeInv'
    BY <1>1, <1>4, ObservedIs DEF CatalogInv, CatalogTypeInv, Building
  <2>2. InputInv' /\ EndInv'
    BY <1>1, <1>4 DEF CatalogInv, InputInv, EndInv, AtEntry, R!Following
  <2>3. R!Ready' = R!Ready /\ R!Of(o.chat)' = R!Of(o.chat)
    BY <1>1 DEF R!Ready, R!Of
  <2>4. CoverInv'
    BY <1>1, <1>2, <1>4, <2>3, Covers DEF Building
  <2> QED BY <2>1, <2>2, <2>4 DEF CatalogInv
<1>5. CASE at' = "incomplete" /\ UNCHANGED broken
  <2>1. CatalogTypeInv'
    BY <1>1, <1>5 DEF CatalogInv, CatalogTypeInv, Building
  <2> QED BY <1>5, <2>1 DEF CatalogInv, InputInv, CoverInv, EndInv, AtEntry, Building
<1>6. CASE /\ input' = [entry |-> R!Entry(R!Extraction(o.chat)),
                        verified |-> o.chat \in R!Ready /\ R!Intact(o.chat)]
           /\ at' = (IF R!Extraction(o.chat) = "ready" THEN "recheck" ELSE "upsert")
           /\ UNCHANGED <<broken, told>>
  <2>1. CatalogTypeInv'
    BY <1>1, <1>6 DEF CatalogInv, CatalogTypeInv, Building
  <2>2. R!Observed' = R!Observed /\ R!Ready' = R!Ready /\ R!Following' = R!Following
    BY <1>1, <1>6 DEF R!Observed, R!Ready, R!Following
  <2>3. R!Intact(o.chat)' = R!Intact(o.chat)
    BY <1>1 DEF R!Intact
  <2>4. PICK st : st = R!Extraction(o.chat)
    OBVIOUS
  <2>5. st \in {"unknown", "changed", "skipped-body", "ready"}
    BY <2>4 DEF R!Extraction
  <2>6. PICK en : en = [status |-> st, core |-> o.content.core, damage |-> o.content.damage]
    OBVIOUS
  <2>7. R!Entry(R!Extraction(o.chat)) = en /\ en.status = st
    BY <1>2, <2>4, <2>6 DEF R!Entry
  <2>8. en \in EntrySet
    BY <1>3, <2>5, <2>6 DEF EntrySet, ContentSet
  <2>9. R!Entry(st)' = en
    BY <1>2, <2>2, <2>6 DEF R!Entry
  <2>10. input'.entry = en /\ input'.verified = (o.chat \in R!Ready /\ R!Intact(o.chat))
         /\ input' = [entry |-> input'.entry, verified |-> input'.verified]
    BY <1>6, <2>7
  <2>11. EntryInv'
    <3>1. broken' # <<>>
      BY <1>1, <1>6
    <3>2. at' \in {"recheck", "write"} => st = "ready"
      BY <1>6, <2>4
    <3>3. \/ input'.verified \/ o.chat \notin R!Ready \/ ~R!Intact(o.chat)
      BY <2>10
    <3> QED BY <1>2, <2>2, <2>3, <2>7, <2>8, <2>9, <2>10, <3>1, <3>2, <3>3 DEF EntryInv
  <2>12. InputInv'
    BY <2>11 DEF InputInv
  <2>13. CoverInv'
    <3> SUFFICES ASSUME ~changed
                 PROVE  Covered'
      BY <1>1 DEF CoverInv
    <3>1. Covered
      BY <1>1 DEF CatalogInv, CoverInv, Building
    <3>2. db[o.chat] = o.content /\ o.content # None
      BY <1>2, <1>3, <3>1 DEF Covered, Stands, ContentSet, ChatsAssumption
    <3>3. kind[o.chat] = "readable" => st = "ready"
      BY <1>2, <2>4, <3>2 DEF R!Extraction
    <3>4. kind'[R!Observed'.chat] = "readable" => input'.entry.status = "ready"
      BY <1>1, <1>2, <2>2, <2>7, <2>10, <3>3
    <3> QED BY <1>1, <1>6, <3>1, <3>4 DEF Covered, Done, Listed, Stands, R!Of, R!Ready
  <2>14. EndInv'
    BY <1>1, <2>2 DEF CatalogInv, EndInv
  <2> QED BY <2>1, <2>12, <2>13, <2>14 DEF CatalogInv
<1>7. \/ /\ o.chat \in R!Ready /\ R!Of(o.chat) = o.content
         /\ broken' = Tail(broken) /\ told' = told \cup {o.chat}
         /\ UNCHANGED <<at, input>>
      \/ at' = "incomplete" /\ UNCHANGED broken
      \/ /\ input' = [entry |-> R!Entry(R!Extraction(o.chat)),
                       verified |-> o.chat \in R!Ready /\ R!Intact(o.chat)]
         /\ at' = (IF R!Extraction(o.chat) = "ready" THEN "recheck" ELSE "upsert")
         /\ UNCHANGED <<broken, told>>
  BY <1>2 DEF R!Observe
<1> QED BY <1>4, <1>5, <1>6, <1>7

(* The chat is looked at once more: it is as it was observed, or it is     *)
(* another by now (Recheck).                                               *)
LEMMA RecheckCatalog ==
    ASSUME CatalogInv, R!Recheck
    PROVE  CatalogInv'
<1>1. /\ at = "recheck"
      /\ UNCHANGED <<db, kind, cost, catalog, files, changed, snap, pos, last, probed, broken,
                     full, told, writes>>
  BY DEF R!Recheck, R!page
<1>2. \/ at' = "write" /\ input' = input
      \/ /\ at' = "upsert" /\ input' = [input EXCEPT !.entry = R!Entry("changed")]
         /\ db[R!Observed.chat] # R!Observed.content
  BY DEF R!Recheck
<1>3. /\ EntryInv /\ input.entry.status = "ready"
      /\ R!Observed = broken[1] /\ R!Observed \in Item /\ 1 \in 1..Len(broken)
  BY <1>1, ObservedIs DEF CatalogInv, InputInv, AtEntry, EntryInv
<1>4. CatalogTypeInv'
  BY <1>1, <1>2 DEF CatalogInv, CatalogTypeInv, Building
<1>5. R!Observed' = R!Observed /\ R!Ready' = R!Ready /\ R!Following' = R!Following
  BY <1>1 DEF R!Observed, R!Ready, R!Following
<1>6. /\ R!Intact(R!Observed.chat)' = R!Intact(R!Observed.chat)
      /\ \A st : R!Entry(st)' = R!Entry(st)
  BY <1>1, <1>5 DEF R!Intact, R!Entry
<1>7. CASE at' = "write" /\ input' = input
  <2>1. EntryInv'
    BY <1>1, <1>3, <1>5, <1>6, <1>7 DEF EntryInv
  <2>2. CoverInv'
    BY <1>1, <1>5, <1>7
    DEF CatalogInv, CoverInv, Covered, Done, Listed, Stands, R!Of, R!Ready, Building, AtEntry
  <2>3. InputInv' /\ EndInv'
    BY <1>1, <1>5, <2>1 DEF CatalogInv, InputInv, EndInv, AtEntry
  <2> QED BY <1>4, <2>2, <2>3 DEF CatalogInv
<1>8. CASE /\ at' = "upsert" /\ input' = [input EXCEPT !.entry = R!Entry("changed")]
           /\ db[R!Observed.chat] # R!Observed.content
  <2>1. PICK en, ver : input = [entry |-> en, verified |-> ver]
    BY <1>3 DEF EntryInv
  <2>2. PICK co : co = R!Observed.content
    OBVIOUS
  <2>3. R!Entry("changed") = [status |-> "changed", core |-> co.core, damage |-> co.damage]
    BY <2>2 DEF R!Entry
  <2>4. R!Entry("changed") \in EntrySet
    BY <1>3, <2>2, <2>3 DEF Item, ContentSet, EntrySet
  <2>5. /\ input' = [entry |-> R!Entry("changed"), verified |-> ver]
        /\ input'.entry = R!Entry("changed") /\ input'.verified = ver /\ input.verified = ver
        /\ R!Entry("changed").status = "changed"
        /\ input' = [entry |-> input'.entry, verified |-> input'.verified]
    BY <1>8, <2>1, <2>3
  <2>6. \/ ver \/ R!Observed.chat \notin R!Ready \/ ~R!Intact(R!Observed.chat)
    BY <1>1, <1>3, <2>5 DEF EntryInv
  <2>7. broken' # <<>>
    BY <1>1, <1>3 DEF EntryInv
  <2>8. EntryInv'
    BY <1>5, <1>6, <1>8, <2>4, <2>5, <2>6, <2>7 DEF EntryInv
  <2>9. CoverInv'
    <3>1. Covered => db[R!Observed.chat] = R!Observed.content
      BY <1>3 DEF Covered, Stands
    <3>2. changed
      BY <1>1, <1>8, <3>1 DEF CatalogInv, CoverInv, Building
    <3> QED BY <1>1, <3>2 DEF CoverInv
  <2>10. InputInv' /\ EndInv'
    BY <1>1, <1>5, <2>8 DEF CatalogInv, InputInv, EndInv, AtEntry
  <2> QED BY <1>4, <2>9, <2>10 DEF CatalogInv
<1> QED BY <1>2, <1>7, <1>8

(* The artifact is written, or there is no room for it (Write).            *)
LEMMA WriteCatalog ==
    ASSUME CatalogInv, R!Write
    PROVE  CatalogInv'
<1>1. /\ at = "write"
      /\ UNCHANGED <<db, kind, cost, changed, snap, pos, last, probed, broken, full, told, writes>>
  BY DEF R!Write, R!page
<1>2. /\ EntryInv /\ input.entry.status = "ready"
      /\ R!Observed = broken[1] /\ R!Observed \in Item
  BY <1>1, ObservedIs DEF CatalogInv, InputInv, AtEntry, EntryInv
<1>3. \/ /\ at' = "incomplete" /\ input' = None /\ UNCHANGED files
         /\ \/ catalog' = catalog
            \/ catalog' = [catalog EXCEPT ![R!Observed.chat] = R!Entry("skipped-limit")]
      \/ at' = "upsert" /\ UNCHANGED <<input, catalog>>
  BY DEF R!Write
<1>4. CASE /\ at' = "incomplete"
           /\ \/ catalog' = catalog
              \/ catalog' = [catalog EXCEPT ![R!Observed.chat] = R!Entry("skipped-limit")]
  <2>1. PICK o \in Item : o = R!Observed
    BY <1>2
  <2>2. o.chat \in R!Chat /\ o.content.core \in Nat /\ o.content.damage \in Nat
    BY DEF Item, ContentSet
  <2>3. R!Entry("skipped-limit") \in EntrySet
    BY <2>1, <2>2 DEF R!Entry, EntrySet
  <2>4. catalog' \in [R!Chat -> EntrySet \cup {None}]
    BY <1>4, <2>1, <2>2, <2>3 DEF CatalogInv, CatalogTypeInv
  <2>5. CatalogTypeInv'
    BY <1>1, <1>4, <2>4 DEF CatalogInv, CatalogTypeInv, Building
  <2> QED BY <1>4, <2>5 DEF CatalogInv, InputInv, CoverInv, EndInv, AtEntry, Building
<1>5. CASE at' = "upsert" /\ UNCHANGED <<input, catalog>>
  <2>1. CatalogTypeInv'
    BY <1>1, <1>5 DEF CatalogInv, CatalogTypeInv, Building
  <2>2. R!Observed' = R!Observed /\ R!Ready' = R!Ready /\ R!Following' = R!Following
    BY <1>1, <1>5 DEF R!Observed, R!Ready, R!Following
  <2>3. \A st : R!Entry(st)' = R!Entry(st)
    BY <2>2 DEF R!Entry
  <2>4. EntryInv'
    BY <1>1, <1>2, <1>5, <2>2, <2>3 DEF EntryInv
  <2>5. InputInv' /\ EndInv'
    BY <1>1, <2>2, <2>4 DEF CatalogInv, InputInv, EndInv, AtEntry
  <2>6. CoverInv'
    BY <1>1, <1>5, <2>2
    DEF CatalogInv, CoverInv, Covered, Done, Listed, Stands, R!Of, R!Ready, Building, AtEntry
  <2> QED BY <2>1, <2>5, <2>6 DEF CatalogInv
<1> QED BY <1>3, <1>4, <1>5

(* The entry is put into the catalog, unless it would replace what was     *)
(* verified with less (Upsert).                                            *)
LEMMA UpsertCatalog ==
    ASSUME CatalogInv, R!Upsert, ChatsAssumption
    PROVE  CatalogInv'
<1>1. /\ at = "upsert" /\ at' = "observe" /\ broken' = Tail(broken)
      /\ told' = told \cup {R!Observed.chat}
      /\ catalog' = IF R!Retains THEN catalog
                    ELSE [catalog EXCEPT ![R!Observed.chat] = input.entry]
      /\ UNCHANGED <<db, kind, cost, files, changed, snap, pos, last, probed, full, writes>>
  BY DEF R!Upsert
<1>2. EntryInv
  BY <1>1 DEF CatalogInv, InputInv, AtEntry
<1>3. PICK o \in Item : o = R!Observed
  BY <1>2, ObservedIs DEF CatalogInv, EntryInv
<1>4. o.chat \in R!Chat /\ o.content \in ContentSet
  BY DEF Item
<1>5. PICK en \in EntrySet : en = input.entry /\ en = R!Entry(en.status)
  BY <1>2 DEF EntryInv
<1>6. /\ catalog \in [R!Chat -> EntrySet \cup {None}]
      /\ catalog' \in [R!Chat -> EntrySet \cup {None}]
      /\ \A c \in R!Chat : c # o.chat => catalog'[c] = catalog[c]
      /\ ~R!Retains => catalog'[o.chat] = en
  BY <1>1, <1>3, <1>4, <1>5 DEF CatalogInv, CatalogTypeInv
<1>7. CatalogTypeInv'
  BY <1>1, <1>2, <1>6, ObservedIs DEF CatalogInv, CatalogTypeInv, EntryInv, Building
<1>8. InputInv' /\ EndInv'
  BY <1>1 DEF CatalogInv, InputInv, EndInv, AtEntry, R!Following
<1>9. CoverInv'
  <2>1. ASSUME Covered, kind[o.chat] = "readable"
        PROVE  o.chat \in R!Ready' /\ R!Of(o.chat)' = o.content
    <3>1. en.status = "ready"
      BY <1>1, <1>3, <1>5, <2>1 DEF Covered, AtEntry
    <3>2. ~R!Retains
      BY <1>5, <3>1 DEF R!Retains
    <3>3. /\ catalog'[o.chat] = en /\ en # None
          /\ en.core = o.content.core /\ en.damage = o.content.damage
      <4>1. en # None
        BY DEF EntrySet, ChatsAssumption
      <4>2. en = [status |-> en.status, core |-> o.content.core, damage |-> o.content.damage]
        BY <1>3, <1>5 DEF R!Entry
      <4> QED BY <1>6, <3>2, <4>1, <4>2
    <3>4. o.content = [core |-> o.content.core, damage |-> o.content.damage]
      BY <1>4 DEF ContentSet
    <3>5. o.chat \in R!Ready'
      BY <1>4, <3>1, <3>3 DEF R!Ready
    <3>6. R!Of(o.chat)' = o.content
      BY <3>3, <3>4 DEF R!Of, R!Content
    <3> QED BY <3>5, <3>6
  <2>2. at \in Building /\ broken # <<>>
    BY <1>1, <1>2 DEF Building, EntryInv
  <2> QED BY <1>1, <1>3, <1>6, <2>1, <2>2, Covers
<1> QED BY <1>7, <1>8, <1>9 DEF CatalogInv

(* Every step of the machine.                                              *)
LEMMA CatalogStep ==
    ASSUME CatalogInv, R!CursorWrites \/ R!LosesFile \/ R!Build \/ R!Open, ChatsAssumption
    PROVE  CatalogInv'
<1>1. CASE R!LosesFile
  BY <1>1, SameCatalog DEF R!LosesFile, R!build, R!page, catalogState
<1>2. CASE R!Open
  BY <1>2, SameCatalog
  DEF R!Open, R!Choose, R!ChooseDamaged, R!GiveUp, R!Verify, R!Stage, R!Reinspect, R!Goes,
      R!Opening, R!build, R!page, catalogState
<1>3. CASE R!Finish \/ R!Cancel \/ R!Crash \/ R!Forget \/ R!UpsertFails
  <2>1. \E how \in {"complete", "incomplete", "cancelled", "idle"} : R!Ends(how)
    BY <1>3 DEF R!Finish, R!Cancel, R!Crash, R!Forget, R!UpsertFails
  <2> QED BY <2>1, EndsCatalog
<1> QED BY <1>1, <1>2, <1>3, CursorCatalog, BeginCatalog, ExamineCatalog, WalkCatalog,
           NextPageCatalog, ObserveCatalog, RecheckCatalog, WriteCatalog, UpsertCatalog
        DEF R!Build

(* At first nothing is built.                                              *)
LEMMA CatalogInit ==
    ASSUME R!Init, ChatsAssumption
    PROVE  CatalogInv
<1>1. PICK c \in R!Chat, k \in {"readable", "unknown", "bodyless"}, n \in 1..MaxCost :
          kind = R!AllBut(c, "readable", k) /\ cost = R!AllBut(c, 1, n)
  BY DEF R!Init
<1>2. /\ kind \in [R!Chat -> {"readable", "unknown", "bodyless"}]
      /\ cost \in [R!Chat -> Nat]
  BY <1>1 DEF R!AllBut, ChatsAssumption
<1>3. db \in [R!Chat -> ContentSet \cup {None}]
  <2>1. R!Content(0, 0) \in ContentSet /\ R!Content(0, 1) \in ContentSet
    BY DEF R!Content, ContentSet
  <2>2. db \in [R!Chat -> {R!Content(0, 0), R!Content(0, 1)}]
    BY DEF R!Init
  <2> QED BY <2>1, <2>2
<1>4. <<>> \in Seq(Item) /\ 0 \in 0..N
  BY EmptySeq DEF ChatsAssumption
<1>5. CatalogTypeInv
  BY <1>2, <1>3, <1>4 DEF R!Init, CatalogTypeInv, Building
<1> QED BY <1>5 DEF R!Init, CatalogInv, InputInv, CoverInv, EndInv, AtEntry, Building

LEMMA CatalogAlways == MCSpec => []CatalogInv
<1> USE ChatsAssumption
<1>1. MCInit => CatalogInv
  BY CatalogInit DEF MCInit
<1>2. ASSUME CatalogInv, [MCNext]_<<part, vars, catalogVars>>
      PROVE  CatalogInv'
  <2>1. CASE UNCHANGED catalogVars
    BY <1>2, <2>1, SameCatalog DEF catalogVars, catalogState
  <2>2. CASE R!CursorWrites \/ R!LosesFile \/ R!Build \/ R!Open
    BY <1>2, <2>2, CatalogStep
  <2> QED BY <1>2, <2>1, <2>2 DEF MCNext, R!Next
<1> QED BY <1>1, <1>2, PTL DEF MCSpec

(* A build that reports no limit, no change and no cancellation has missed *)
(* no damaged chat (buildVisibleChatRecoveryCatalog): the text of each is  *)
(* in the catalog as it is, or the chat was counted with a reason why not. *)
THEOREM NothingIsMissed == MCSpec => CompleteMissesNothing
<1>1. ASSUME CatalogInv, [MCNext]_<<part, vars, catalogVars>>, at' = "complete", at # "complete",
             NEW c \in R!Chat
      PROVE  Done(c)
  <2>1. R!Finish /\ ~changed
    <3>1. R!Build
      BY <1>1
         DEF MCNext, R!Next, R!CursorWrites, R!Change, R!LosesFile, R!build, R!Open,
              R!Choose,
                  R!ChooseDamaged, R!GiveUp, R!Verify, R!Stage, R!Reinspect, R!Goes, R!Opening,
                  catalogVars
    <3> QED BY <1>1, <3>1
            DEF R!Build, R!BeginBuild, R!Examine, R!WalkEnds, R!NextPage, R!Finish, R!Cancel,
                R!Crash, R!Forget, R!Observe, R!Recheck, R!Write, R!Upsert, R!UpsertFails, R!Ends
  <2>2. at = "observe" /\ broken = <<>> /\ ~full
    BY <2>1 DEF R!Finish
  <2>3. Covered /\ R!Following = {}
    BY <1>1, <2>1, <2>2 DEF CatalogInv, CoverInv, EndInv, Building
  <2>4. ~Listed(c)
    BY <2>2, EmptySeq DEF Listed
  <2>5. CASE c <= pos
    BY <2>3, <2>4, <2>5 DEF Covered
  <2>6. CASE c > pos
    BY <2>3, <2>6 DEF Covered, R!Following, Done
  <2>7. pos \in 0..N /\ c \in 1..N
    BY <1>1 DEF CatalogInv, CatalogTypeInv, R!Chat
  <2> QED BY <2>5, <2>6, <2>7, ChatsAssumption DEF ChatsAssumption
<1>2. ASSUME CatalogInv, [MCNext]_<<part, vars, catalogVars>>
      PROVE  at' = "complete" /\ at # "complete"
             => \A c \in R!Chat : db[c] # None =>
                   /\ db[c].damage # 0 \/ kind[c] = "unknown" => c \in told
                   /\ kind[c] = "readable" /\ db[c].damage # 0 /\ cost[c] <= MaxProbes
                      => c \in R!Ready /\ R!Of(c) = db[c]
  BY <1>1, <1>2 DEF Done
<1> QED
  BY <1>2, CatalogAlways, PTL
     DEF MCSpec, CompleteMissesNothing, R!CompleteMissesNothing

(* An artifact that was verified stays in the catalog until a newer one    *)
(* takes its place, whatever becomes of the chat (recoveryCatalog.ts).     *)
THEOREM ReadyStays == MCSpec => ReadyIsKept
<1>1. ASSUME CatalogInv, [MCNext]_<<part, vars, catalogVars>>, NEW c \in R!Ready, R!Intact(c)
      PROVE  c \in R!Ready'
  <2>1. CASE catalog' = catalog
    BY <2>1 DEF R!Ready
  <2>2. CASE R!Write /\ catalog' # catalog
    <3>1. EntryInv /\ at = "write"
      BY <1>1, <2>2 DEF CatalogInv, InputInv, AtEntry, R!Write
    <3>2. /\ R!Observed.chat \in R!Ready /\ ~input.verified
          /\ catalog' = [catalog EXCEPT ![R!Observed.chat] = R!Entry("skipped-limit")]
      BY <2>2 DEF R!Write
    <3>3. c # R!Observed.chat
      BY <1>1, <3>1, <3>2 DEF EntryInv
    <3> QED BY <1>1, <3>2, <3>3 DEF R!Ready, CatalogInv, CatalogTypeInv
  <2>3. CASE R!Upsert /\ catalog' # catalog
    <3>1. EntryInv /\ at = "upsert"
      BY <1>1, <2>3 DEF CatalogInv, InputInv, AtEntry, R!Upsert
    <3>2. ~R!Retains /\ catalog' = [catalog EXCEPT ![R!Observed.chat] = input.entry]
      BY <2>3 DEF R!Upsert
    <3>3. CASE c # R!Observed.chat
      BY <1>1, <3>2, <3>3 DEF R!Ready, CatalogInv, CatalogTypeInv
    <3>4. CASE c = R!Observed.chat
      <4>1. input.entry.status = "ready" /\ input.entry # None
        BY <1>1, <3>1, <3>2, <3>4, ChatsAssumption
           DEF EntryInv, R!Retains, EntrySet, ChatsAssumption
      <4> QED BY <1>1, <3>2, <3>4, <4>1 DEF R!Ready, CatalogInv, CatalogTypeInv
    <3> QED BY <3>3, <3>4
  <2>4. \/ catalog' = catalog \/ R!Write \/ R!Upsert
    BY <1>1
    DEF MCNext, R!Next, R!CursorWrites, R!Change, R!LosesFile, R!Open, R!Choose, R!ChooseDamaged,
        R!GiveUp, R!Verify, R!Stage, R!Reinspect, R!Goes, R!Opening, R!Build, R!BeginBuild,
        R!Examine, R!WalkEnds, R!NextPage, R!Finish, R!Cancel, R!Crash, R!Forget, R!Observe,
        R!Recheck, R!UpsertFails, R!Ends, catalogVars
  <2> QED BY <2>1, <2>2, <2>3, <2>4
<1>2. ASSUME CatalogInv, [MCNext]_<<part, vars, catalogVars>>
      PROVE  \A c \in R!Ready : R!Intact(c) => c \in R!Ready'
  BY <1>1, <1>2
<1> QED BY <1>2, CatalogAlways, PTL DEF MCSpec, ReadyIsKept, R!ReadyIsKept

-----------------------------------------------------------------------------
(* ChatRepair.                                                             *)
(*                                                                         *)
(* The argument: a core is remembered only of a version (CoreInv); a plan  *)
(* is of versions that stay, and the audit that Reinspect takes for the    *)
(* plan's own misses exactly what the plan's source carries (PlanInv).     *)

CoreSet == [rows : [Keys -> Nat], refs : SUBSET Keys]
FingerprintSet == [refs : SUBSET Keys, rows : UNION {[s -> Nat] : s \in SUBSET Keys}]
VersionSet == [rows : [Keys -> Nat], refs : SUBSET Keys, blobs : SUBSET Blobs,
               kind : {"put", "enrich", "repair"}, origin : Devices,
               fingerprint : FingerprintSet \cup {None}]
PlanSet == [tip : Nat, source : Nat, fingerprint : FingerprintSet, fresh : CoreSet \cup {None}]

RepairTypeInv ==
    /\ rows \in [Devices -> [Keys -> Nat]]
    /\ refs \in [Devices -> SUBSET Keys]
    /\ blobs \in [Devices -> SUBSET Blobs]
    /\ proj \in [Devices -> 0..Tip]
    /\ core \in [Devices -> CoreSet \cup {None}]
    /\ versions \in Seq(VersionSet) /\ Tip > 0
    /\ plan \in [Devices -> PlanSet \cup {None}]
    /\ changes \in Nat

CoreInv == \A d \in Devices : core[d] # None => \E i \in 1..Tip : Core(versions[i]) = core[d]

PlanOK(p) ==
    /\ p.source \in 1..p.tip /\ p.tip <= Tip
    /\ \A k \in p.fingerprint.refs :
          ~Usable(p.fingerprint.rows[k]) => Usable(versions[p.source].rows[k])
    /\ p.fresh # None =>
          \A k \in p.fresh.refs : ~Usable(p.fresh.rows[k]) => Usable(versions[p.source].rows[k])
PlanInv == \A d \in Devices : plan[d] # None => PlanOK(plan[d])

RepairInv == RepairTypeInv /\ CoreInv /\ PlanInv /\ RepairIsWhole

(* A set of numbers that are not above a number has a greatest element.    *)
LEMMA HasGreatest ==
    ASSUME NEW n \in Nat, NEW S, S \subseteq 0..n, S # {}
    PROVE  \E m \in S : \A k \in S : k <= m
<1> DEFINE D == {k \in 0..n : n - k \in S}
<1>1. \A k \in S : n - k \in D /\ k \in 0..n /\ n - (n - k) = k
  OBVIOUS
<1>2. D \subseteq Nat /\ D # {}
  <2>1. PICK k \in S : n - k \in D
    BY <1>1
  <2>2. D \subseteq Nat
    OBVIOUS
  <2> HIDE DEF D
  <2> QED BY <2>1, <2>2
<1>3. PICK d \in D : \A e \in D : d <= e
  <2> HIDE DEF D
  <2> QED BY <1>2, HasLeast
<1>4. n - d \in S /\ d \in 0..n
  OBVIOUS
<1>5. \A k \in S : k <= n - d
  <2> HIDE DEF D
  <2>1. \A k \in S : d <= n - k /\ k \in 0..n
    BY <1>1, <1>3
  <2> QED BY <1>4, <2>1
<1> QED BY <1>4, <1>5

(* What is appended comes last, and the rest stays.                        *)
LEMMA Appended ==
    ASSUME RepairTypeInv, NEW v \in VersionSet, versions' = Append(versions, v)
    PROVE  /\ Tip \in Nat /\ Tip > 0 /\ Tip' = Tip + 1
           /\ versions' \in Seq(VersionSet) /\ versions'[Tip + 1] = v
           /\ \A i \in 1..Tip : versions'[i] = versions[i]
BY AppendProperties, LenProperties DEF RepairTypeInv, Tip

LEMMA TipIs ==
    ASSUME RepairTypeInv
    PROVE  /\ Tip \in Nat /\ Tip > 0 /\ Tip \in 1..Tip
           /\ \A i \in 1..Tip : versions[i] \in VersionSet
           /\ versions[Tip] \in VersionSet
BY LenProperties, ElementOfSeq DEF RepairTypeInv, Tip

(* Plans keep what they are made of.                                       *)
LEMMA SamePlans ==
    ASSUME RepairInv, Tip <= Tip', Tip' \in Nat, \A i \in 1..Tip : versions'[i] = versions[i],
           \A d \in Devices : plan'[d] # None => plan[d] # None /\ plan'[d] = plan[d]
    PROVE  PlanInv'
<1> SUFFICES ASSUME NEW d \in Devices, plan'[d] # None
             PROVE  PlanOK(plan[d])'
  BY DEF PlanInv
<1>1. PICK p \in PlanSet : p = plan[d] /\ p = plan'[d] /\ PlanOK(p)
  BY DEF RepairInv, RepairTypeInv, PlanInv
<1>2. p.source \in 1..p.tip /\ p.tip <= Tip /\ p.tip \in Nat /\ Tip \in Nat
  BY <1>1, TipIs DEF PlanOK, PlanSet, RepairInv
<1>3. p.source \in 1..Tip /\ p.tip <= Tip'
  BY <1>2
<1>4. versions'[p.source] = versions[p.source]
  BY <1>3
<1> QED BY <1>1, <1>2, <1>3, <1>4 DEF PlanOK

(* What was published stays whole.                                         *)
LEMMA SameWhole ==
    ASSUME RepairInv,
           \/ UNCHANGED versions
           \/ \E v \in VersionSet : v.kind # "repair" /\ versions' = Append(versions, v)
    PROVE  RepairIsWhole'
<1>1. CASE UNCHANGED versions
  BY <1>1 DEF RepairInv, RepairIsWhole, Unavailable, Tip
<1>2. CASE \E v \in VersionSet : v.kind # "repair" /\ versions' = Append(versions, v)
  <2>1. PICK v \in VersionSet : v.kind # "repair" /\ versions' = Append(versions, v)
    BY <1>2
  <2>2. /\ Tip \in Nat /\ Tip > 0 /\ Tip' = Tip + 1 /\ versions'[Tip + 1] = v
        /\ \A i \in 1..Tip : versions'[i] = versions[i]
    BY <2>1, Appended DEF RepairInv
  <2>3. ASSUME NEW i \in 2..Tip', versions'[i].kind = "repair"
        PROVE  i \in 2..Tip /\ versions'[i] = versions[i] /\ versions'[i - 1] = versions[i - 1]
    <3>1. i # Tip + 1
      BY <2>1, <2>2, <2>3
    <3>2. i \in 2..Tip /\ i \in 1..Tip /\ i - 1 \in 1..Tip
      BY <2>2, <3>1
    <3> QED BY <2>2, <3>2
  <2> QED BY <2>3 DEF RepairInv, RepairIsWhole, Unavailable
<1> QED BY <1>1, <1>2

(* Cursor's changes are to the chat alone (Say, Rewrite, Lose).            *)
LEMMA CursorRepair ==
    ASSUME RepairInv, NEW d \in Devices, Say(d) \/ Rewrite(d) \/ Lose(d)
    PROVE  RepairInv'
<1>1. /\ UNCHANGED <<blobs, proj, core, versions, plan>> /\ changes' \in Nat
      /\ \E k \in Keys, v \in Nat :
            /\ rows' = [rows EXCEPT ![d][k] = v]
            /\ \/ refs' = refs
               \/ refs' = [refs EXCEPT ![d] = @ \cup {k}]
  <2>1. changes \in Nat /\ rows \in [Devices -> [Keys -> Nat]]
    BY DEF RepairInv, RepairTypeInv
  <2>2. CASE Say(d)
    <3>1. PICK k \in Keys : rows' = [rows EXCEPT ![d][k] = changes']
                           /\ refs' = [refs EXCEPT ![d] = @ \cup {k}]
      BY <2>2 DEF Say, Put
    <3>2. changes' \in Nat /\ UNCHANGED <<blobs, proj, core, versions, plan>>
      BY <2>1, <2>2 DEF Say, Change
    <3> QED BY <3>1, <3>2
  <2>3. CASE Rewrite(d)
    <3>1. PICK k \in refs[d] : rows' = [rows EXCEPT ![d][k] = changes']
      BY <2>3 DEF Rewrite, Put
    <3>2. changes' \in Nat /\ UNCHANGED <<refs, blobs, proj, core, versions, plan>>
      BY <2>1, <2>3 DEF Rewrite, Change
    <3>3. k \in Keys
      BY DEF RepairInv, RepairTypeInv
    <3> QED BY <3>1, <3>2, <3>3
  <2>4. CASE Lose(d)
    BY <2>1, <2>4 DEF Lose, Fault, Put, Present, Absent, Unreadable
  <2> QED BY <2>2, <2>3, <2>4
<1>2. PICK k \in Keys, v \in Nat :
            /\ rows' = [rows EXCEPT ![d][k] = v]
            /\ \/ refs' = refs
               \/ refs' = [refs EXCEPT ![d] = @ \cup {k}]
  BY <1>1
<1>3. rows' \in [Devices -> [Keys -> Nat]] /\ refs' \in [Devices -> SUBSET Keys]
  <2>1. rows \in [Devices -> [Keys -> Nat]] /\ refs \in [Devices -> SUBSET Keys]
    BY DEF RepairInv, RepairTypeInv
  <2>2. rows[d] \in [Keys -> Nat] /\ refs[d] \cup {k} \in SUBSET Keys
    BY <2>1
  <2>3. [rows[d] EXCEPT ![k] = v] \in [Keys -> Nat]
    BY <2>2
  <2>4. refs' \in [Devices -> SUBSET Keys]
    BY <1>2, <2>1, <2>2
  <2>5. rows' = [rows EXCEPT ![d] = [rows[d] EXCEPT ![k] = v]]
    BY <1>2
  <2>6. rows' \in [Devices -> [Keys -> Nat]]
    BY <2>1, <2>3, <2>5
  <2> QED BY <2>4, <2>6
<1>4. RepairTypeInv'
  BY <1>1, <1>3 DEF RepairInv, RepairTypeInv, Tip
<1>5. CoreInv' /\ PlanInv' /\ RepairIsWhole'
  BY <1>1 DEF RepairInv, CoreInv, Core, PlanInv, PlanOK, RepairIsWhole, Unavailable, Tip
<1> QED BY <1>4, <1>5 DEF RepairInv

LEMMA LocalIs ==
    ASSUME RepairTypeInv, NEW d \in Devices
    PROVE  /\ Local(d) \in CoreSet /\ Local(d) = [rows |-> rows[d], refs |-> refs[d]]
           /\ fingerprint(d) \in FingerprintSet
           /\ fingerprint(d).refs = refs[d]
           /\ \A k \in refs[d] : fingerprint(d).rows[k] = rows[d][k]
<1>1. rows[d] \in [Keys -> Nat] /\ refs[d] \in SUBSET Keys
  BY DEF RepairTypeInv
<1>2. PICK f : f = [k \in refs[d] |-> rows[d][k]]
  OBVIOUS
<1>3. f \in [refs[d] -> Nat] /\ \A k \in refs[d] : f[k] = rows[d][k]
  BY <1>1, <1>2
<1>4. fingerprint(d) = [refs |-> refs[d], rows |-> f]
  BY <1>2 DEF fingerprint
<1>5. f \in UNION {[s -> Nat] : s \in SUBSET Keys}
  BY <1>1, <1>3
<1> QED BY <1>1, <1>3, <1>4, <1>5 DEF Local, CoreSet, FingerprintSet

(* What the scan of a cycle publishes is what it remembers (Capture).      *)
LEMMA CaptureRepair ==
    ASSUME RepairInv, NEW d \in Devices, Capture(d)
    PROVE  RepairInv'
<1>1. /\ core' = [core EXCEPT ![d] = Local(d)]
      /\ UNCHANGED <<rows, refs, blobs, plan, changes>>
      /\ \/ Local(d) = Core(versions[Tip]) /\ UNCHANGED <<versions, proj>>
         \/ /\ versions' = Append(versions, Version(Local(d), blobs[d], "put", d, None))
            /\ proj' = [proj EXCEPT ![d] = Tip + 1]
  BY DEF Capture, chat, Publish
<1>2. PICK lo \in CoreSet : lo = Local(d)
  BY LocalIs DEF RepairInv
<1>3. core' \in [Devices -> CoreSet \cup {None}] /\ core'[d] = lo
      /\ \A e \in Devices : e # d => core'[e] = core[e]
  BY <1>1, <1>2 DEF RepairInv, RepairTypeInv
<1>4. CASE lo = Core(versions[Tip]) /\ UNCHANGED <<versions, proj>>
  <2>1. RepairTypeInv'
    BY <1>1, <1>3, <1>4 DEF RepairInv, RepairTypeInv, Tip
  <2>2. CoreInv'
    <3>1. Core(versions[Tip])' = lo /\ Tip' = Tip /\ \A i : Core(versions[i])' = Core(versions[i])
      BY <1>4 DEF Core, Tip
    <3>2. Tip \in 1..Tip
      BY TipIs DEF RepairInv
    <3> QED BY <1>3, <3>1, <3>2 DEF RepairInv, CoreInv
  <2>3. PlanInv' /\ RepairIsWhole'
    BY <1>1, <1>4 DEF RepairInv, PlanInv, PlanOK, RepairIsWhole, Unavailable, Tip
  <2> QED BY <2>1, <2>2, <2>3 DEF RepairInv
<1>5. CASE /\ versions' = Append(versions, Version(lo, blobs[d], "put", d, None))
           /\ proj' = [proj EXCEPT ![d] = Tip + 1]
  <2>1. PICK v \in VersionSet : /\ v = Version(lo, blobs[d], "put", d, None)
                               /\ v.rows = lo.rows /\ v.refs = lo.refs /\ v.kind = "put"
    <3>1. blobs[d] \in SUBSET Blobs /\ lo.rows \in [Keys -> Nat] /\ lo.refs \in SUBSET Keys
      BY <1>2 DEF RepairInv, RepairTypeInv, CoreSet
    <3>2. d \in Devices /\ None \in FingerprintSet \cup {None}
      OBVIOUS
    <3>3. Version(lo, blobs[d], "put", d, None) \in VersionSet
      BY <3>1, <3>2 DEF Version, VersionSet
    <3>4. /\ Version(lo, blobs[d], "put", d, None).rows = lo.rows
          /\ Version(lo, blobs[d], "put", d, None).refs = lo.refs
          /\ Version(lo, blobs[d], "put", d, None).kind = "put"
      BY DEF Version
    <3> QED BY <3>3, <3>4
  <2>2. /\ Tip \in Nat /\ Tip > 0 /\ Tip' = Tip + 1
        /\ versions' \in Seq(VersionSet) /\ versions'[Tip + 1] = v
        /\ \A i \in 1..Tip : versions'[i] = versions[i]
    BY <1>5, <2>1, Appended DEF RepairInv
  <2>3. RepairTypeInv'
    <3>1. proj' \in [Devices -> 0..Tip']
      BY <1>5, <2>2 DEF RepairInv, RepairTypeInv
    <3> QED BY <1>1, <1>3, <2>2, <3>1 DEF RepairInv, RepairTypeInv
  <2>4. CoreInv'
    <3>1. PICK n : n = Tip + 1
      OBVIOUS
    <3>2. Core(versions[n])' = lo
      <4>1. lo = [rows |-> lo.rows, refs |-> lo.refs]
        BY DEF CoreSet
      <4>2. Core(versions[n])' = [rows |-> v.rows, refs |-> v.refs]
        BY <2>2, <3>1 DEF Core
      <4> QED BY <2>1, <4>1, <4>2
    <3>3. \A i \in 1..Tip : Core(versions[i])' = Core(versions[i])
      BY <2>2 DEF Core
    <3>4. n \in 1..Tip' /\ \A i \in 1..Tip : i \in 1..Tip'
      BY <2>2, <3>1
    <3>5. ASSUME NEW e \in Devices, core'[e] # None
          PROVE  \E i \in 1..Tip' : Core(versions[i])' = core'[e]
      <4>1. CASE e = d
        BY <1>3, <3>2, <3>4, <4>1
      <4>2. CASE e # d
        <5>1. PICK i \in 1..Tip : Core(versions[i]) = core[e]
          BY <1>3, <3>5, <4>2 DEF RepairInv, CoreInv
        <5> QED BY <1>3, <3>3, <3>4, <4>2, <5>1
      <4> QED BY <4>1, <4>2
    <3> QED BY <3>5 DEF CoreInv
  <2>5. PlanInv'
    BY <1>1, <2>2, SamePlans
  <2>6. RepairIsWhole'
    BY <1>5, <2>1, SameWhole
  <2> QED BY <2>3, <2>4, <2>5, <2>6 DEF RepairInv
<1> QED BY <1>1, <1>2, <1>4, <1>5

(* A published version disturbs nothing that is remembered or planned.     *)
LEMMA PublishRepairInv ==
    ASSUME RepairInv, NEW v \in VersionSet, versions' = Append(versions, v),
           UNCHANGED <<rows, refs, blobs, proj, core, changes>>,
           plan' \in [Devices -> PlanSet \cup {None}],
           \A d \in Devices : plan'[d] # None => plan[d] # None /\ plan'[d] = plan[d]
    PROVE  RepairTypeInv' /\ CoreInv' /\ PlanInv'
<1>1. /\ Tip \in Nat /\ Tip > 0 /\ Tip' = Tip + 1
      /\ versions' \in Seq(VersionSet)
      /\ \A i \in 1..Tip : versions'[i] = versions[i]
  BY Appended DEF RepairInv
<1>2. \A i \in 0..Tip : i \in 0..Tip'
  BY <1>1
<1>3. RepairTypeInv'
  BY <1>1, <1>2 DEF RepairInv, RepairTypeInv
<1>4. PlanInv'
  <2>1. Tip <= Tip' /\ Tip' \in Nat
    BY <1>1
  <2> QED BY <1>1, <2>1, SamePlans
<1>5. \A i \in 1..Tip : i \in 1..Tip' /\ Core(versions[i])' = Core(versions[i])
  <2>1. \A i \in 1..Tip : i \in 1..Tip'
    BY <1>1
  <2> QED BY <1>1, <2>1 DEF Core
<1>6. CoreInv'
  BY <1>1, <1>5 DEF RepairInv, CoreInv
<1> QED BY <1>3, <1>4, <1>6

(* The blobs are completed (Enrich).                                       *)
LEMMA EnrichRepair ==
    ASSUME RepairInv, NEW d \in Devices, Enrich(d)
    PROVE  RepairInv'
<1>1. PICK tip \in VersionSet : tip = versions[Tip]
  BY TipIs DEF RepairInv
<1>2. PICK all \in SUBSET Blobs : all = collectLiveAgentKv(d, tip)
  BY DEF collectLiveAgentKv, VersionSet, RepairInv, RepairTypeInv
<1>3. /\ versions' = Append(versions, plannedEnrichment(d, tip, all))
      /\ UNCHANGED <<rows, refs, blobs, proj, core, plan, changes>>
  BY <1>1, <1>2 DEF Enrich, Publish, chat
<1>4. plannedEnrichment(d, tip, all) \in VersionSet /\ plannedEnrichment(d, tip, all).kind # "repair"
  <2>1. tip.rows \in [Keys -> Nat] /\ tip.refs \in SUBSET Keys
    BY DEF VersionSet
  <2>2. None \in FingerprintSet \cup {None}
    OBVIOUS
  <2>3. PICK how \in {"put", "enrich"} : how = IF all = Blobs THEN "put" ELSE "enrich"
    OBVIOUS
  <2> QED BY <2>1, <2>2, <2>3 DEF plannedEnrichment, Version, VersionSet
<1>5. RepairTypeInv' /\ CoreInv' /\ PlanInv'
  <2>1. plan' \in [Devices -> PlanSet \cup {None}]
    BY <1>3 DEF RepairInv, RepairTypeInv
  <2> QED BY <1>3, <1>4, <2>1, PublishRepairInv
<1>6. RepairIsWhole'
  BY <1>3, <1>4, SameWhole
<1> QED BY <1>5, <1>6 DEF RepairInv

(* A plan is made, dropped, or audited once more; what the audit misses is *)
(* what the plan's source carries (Plan, Discard, Reinspect).              *)
LEMMA PlanRepair ==
    ASSUME RepairInv, NEW d \in Devices, Plan(d) \/ Discard(d) \/ Reinspect(d)
    PROVE  RepairInv'
<1>1. UNCHANGED <<rows, refs, blobs, proj, core, versions, changes>>
  BY DEF Plan, Discard, Reinspect, chat
<1>2. CoreInv' /\ RepairIsWhole' /\ Tip' = Tip
  BY <1>1 DEF RepairInv, CoreInv, Core, RepairIsWhole, Unavailable, Tip
<1>3. PICK f \in FingerprintSet : /\ f = fingerprint(d) /\ f.refs = refs[d]
                                 /\ \A k \in refs[d] : f.rows[k] = rows[d][k]
  BY LocalIs DEF RepairInv
<1>4. PICK lo \in CoreSet : lo = Local(d) /\ lo.rows = rows[d] /\ lo.refs = refs[d]
  BY LocalIs DEF RepairInv
<1>5. \E p \in PlanSet \cup {None} :
          plan' = [plan EXCEPT ![d] = p] /\ (p # None => PlanOK(p))
  <2>1. CASE Discard(d)
    BY <2>1 DEF Discard
  <2>2. CASE Plan(d)
    <3>1. PICK i \in 1..Tip :
            /\ Carries(i, Lost(d))
            /\ plan' = [plan EXCEPT ![d] = [tip |-> Tip, source |-> i,
                                           fingerprint |-> f, fresh |-> None]]
      BY <1>3, <2>2 DEF Plan, Sources
    <3>2. PICK p : p = [tip |-> Tip, source |-> i, fingerprint |-> f, fresh |-> None]
      OBVIOUS
    <3>3. p \in PlanSet
      <4>1. Tip \in Nat /\ i \in Nat /\ None \in CoreSet \cup {None}
        BY TipIs DEF RepairInv
      <4> QED BY <3>2, <4>1 DEF PlanSet
    <3>4. \A k \in f.refs : ~Usable(f.rows[k]) => Usable(versions[i].rows[k])
      BY <1>3, <1>4, <3>1 DEF Carries, Lost, Unavailable
    <3>5. Tip \in Nat
      BY TipIs DEF RepairInv
    <3>6. PlanOK(p)
      BY <3>2, <3>4, <3>5 DEF PlanOK
    <3> QED BY <3>1, <3>2, <3>3, <3>6
  <2>3. CASE Reinspect(d)
    <3>1. PICK q \in PlanSet : q = plan[d] /\ PlanOK(q)
      BY <2>3 DEF Reinspect, RepairInv, RepairTypeInv, PlanInv
    <3>2. f = q.fingerprint /\ plan' = [plan EXCEPT ![d].fresh = lo]
      BY <1>3, <1>4, <2>3, <3>1 DEF Reinspect
    <3>3. q = [tip |-> q.tip, source |-> q.source, fingerprint |-> q.fingerprint, fresh |-> q.fresh]
      BY DEF PlanSet
    <3>4. PICK p : p = [tip |-> q.tip, source |-> q.source, fingerprint |-> f, fresh |-> lo]
      OBVIOUS
    <3>5. plan' = [plan EXCEPT ![d] = p]
      <4>1. plan' = [plan EXCEPT ![d] = [q EXCEPT !.fresh = lo]]
        BY <3>1, <3>2
      <4>2. [q EXCEPT !.fresh = lo] = p
        BY <3>2, <3>3, <3>4
      <4> QED BY <4>1, <4>2
    <3>6. p \in PlanSet
      BY <3>4 DEF PlanSet
    <3>7. PlanOK(p)
      BY <1>3, <1>4, <3>1, <3>2, <3>4 DEF PlanOK
    <3> QED BY <3>5, <3>6, <3>7
  <2> QED BY <2>1, <2>2, <2>3
<1>6. PICK p \in PlanSet \cup {None} : plan' = [plan EXCEPT ![d] = p] /\ (p # None => PlanOK(p))
  BY <1>5
<1>7. RepairTypeInv'
  <2>1. plan' \in [Devices -> PlanSet \cup {None}]
    BY <1>6 DEF RepairInv, RepairTypeInv
  <2> QED BY <1>1, <1>2, <2>1 DEF RepairInv, RepairTypeInv
<1>8. PlanInv'
  <2>1. \A r : PlanOK(r) => PlanOK(r)'
    BY <1>1, <1>2 DEF PlanOK
  <2>2. \A e \in Devices : plan'[e] # None => PlanOK(plan'[e])
    BY <1>6 DEF RepairInv, RepairTypeInv, PlanInv
  <2> QED BY <2>1, <2>2 DEF PlanInv
<1> QED BY <1>2, <1>7, <1>8 DEF RepairInv

(* The helper applies the tip, and remembers the tip's core or none.       *)
LEMMA AppliedRepair ==
    ASSUME RepairInv, NEW d \in Devices, NEW newRows \in [Keys -> Nat], NEW newRefs \in SUBSET Keys,
           NEW hash \in {None, Core(versions[Tip])},
           Applied(d, versions[Tip], newRows, newRefs, hash)
    PROVE  RepairInv'
<1>1. PICK v \in VersionSet : v = versions[Tip]
  BY TipIs DEF RepairInv
<1>2. /\ rows' = [rows EXCEPT ![d] = newRows] /\ refs' = [refs EXCEPT ![d] = newRefs]
      /\ blobs' = [blobs EXCEPT ![d] = @ \cup v.blobs]
      /\ proj' = [proj EXCEPT ![d] = Tip] /\ core' = [core EXCEPT ![d] = hash]
      /\ UNCHANGED <<versions, plan, changes>>
  BY <1>1 DEF Applied
<1>3. Tip \in Nat /\ Tip > 0 /\ Tip \in 1..Tip /\ Tip \in 0..Tip /\ Tip' = Tip
  BY <1>2, TipIs DEF RepairInv, Tip
<1>4. hash \in CoreSet \cup {None}
  BY <1>1 DEF Core, CoreSet, VersionSet
<1>5. v.blobs \in SUBSET Blobs
  BY DEF VersionSet
<1>6. RepairTypeInv'
  BY <1>2, <1>3, <1>4, <1>5 DEF RepairInv, RepairTypeInv
<1>7. CoreInv'
  <2>1. \A i : Core(versions[i])' = Core(versions[i])
    BY <1>2 DEF Core
  <2>2. core \in [Devices -> CoreSet \cup {None}]
    BY DEF RepairInv, RepairTypeInv
  <2> QED BY <1>2, <1>3, <2>1, <2>2 DEF RepairInv, CoreInv
<1>8. PlanInv' /\ RepairIsWhole'
  BY <1>2, <1>3 DEF RepairInv, PlanInv, PlanOK, RepairIsWhole, Unavailable
<1> QED BY <1>6, <1>7, <1>8 DEF RepairInv

(* What a repair is built of (buildChatRepairSnapshot).                    *)
LEMMA SnapshotIs ==
    ASSUME RepairInv, NEW lo \in CoreSet, NEW source \in 1..Tip,
           \A k \in lo.refs : ~Usable(lo.rows[k]) => Usable(versions[source].rows[k])
    PROVE  \E new \in CoreSet :
             /\ new = buildChatRepairSnapshot(lo, source) /\ new.refs = lo.refs
             /\ \A k \in lo.refs : Usable(new.rows[k])
             /\ \A k \in Keys : Usable(versions[Tip].rows[k]) => Usable(new.rows[k])
<1> DEFINE stored(k) == {i \in source..Tip : Usable(versions[i].rows[k])}
           value(k) ==
             IF Usable(lo.rows[k]) THEN lo.rows[k]
             ELSE IF stored(k) # {} THEN NewestUsable(stored(k), k)
             ELSE IF lo.rows[k] # Absent \/ \E i \in source..Tip : versions[i].rows[k] # Absent
             THEN Unreadable ELSE Absent
<1>1. /\ Tip \in Nat /\ source \in Nat /\ source \in source..Tip /\ Tip \in source..Tip
      /\ \A i \in source..Tip : i \in 1..Tip /\ i \in 0..Tip
      /\ \A i \in 1..Tip : versions[i] \in VersionSet
  BY TipIs DEF RepairInv
<1>2. ASSUME NEW k \in Keys, stored(k) # {}
      PROVE  Usable(NewestUsable(stored(k), k)) /\ NewestUsable(stored(k), k) \in Nat
  <2>1. stored(k) \subseteq 0..Tip
    BY <1>1
  <2>2. \E m \in stored(k) : \A j \in stored(k) : j <= m
    <3> HIDE DEF stored
    <3> QED BY <1>1, <1>2, <2>1, HasGreatest
  <2>3. PICK m \in stored(k) : NewestUsable(stored(k), k) = versions[m].rows[k]
    <3> HIDE DEF stored
    <3> QED BY <2>2 DEF NewestUsable
  <2>4. versions[m] \in VersionSet /\ Usable(versions[m].rows[k])
    BY <1>1
  <2>5. versions[m].rows[k] \in Nat
    BY <2>4 DEF VersionSet
  <2> QED BY <2>3, <2>4, <2>5
<1>3. ASSUME NEW k \in Keys
      PROVE  /\ value(k) \in Nat
             /\ Usable(lo.rows[k]) \/ stored(k) # {} => Usable(value(k))
  <2>1. lo.rows[k] \in Nat /\ Unreadable \in Nat /\ Absent \in Nat
    BY DEF CoreSet, Unreadable, Absent
  <2> HIDE DEF stored
  <2> QED BY <1>2, <2>1
<1>4. PICK f : f = [k \in Keys |-> value(k)]
  OBVIOUS
<1>5. f \in [Keys -> Nat] /\ \A k \in Keys : f[k] = value(k)
  <2> HIDE DEF value
  <2> QED BY <1>3, <1>4
<1>6. buildChatRepairSnapshot(lo, source) = [rows |-> f, refs |-> lo.refs]
  BY <1>4 DEF buildChatRepairSnapshot
<1>7. lo.refs \in SUBSET Keys
  BY DEF CoreSet
<1>8. [rows |-> f, refs |-> lo.refs] \in CoreSet
  BY <1>5, <1>7 DEF CoreSet
<1>9. ASSUME NEW k \in lo.refs
      PROVE  Usable(f[k])
  <2>1. Usable(lo.rows[k]) \/ stored(k) # {}
    BY <1>1
  <2> HIDE DEF value, stored
  <2> QED BY <1>3, <1>5, <1>7, <2>1
<1>10. ASSUME NEW k \in Keys, Usable(versions[Tip].rows[k])
       PROVE  Usable(f[k])
  <2>1. stored(k) # {}
    BY <1>1, <1>10
  <2> HIDE DEF value, stored
  <2> QED BY <1>3, <1>5, <2>1
<1> QED BY <1>6, <1>8, <1>9, <1>10

(* A repair is published over the tip it was planned over (PublishRepair). *)
LEMMA RepairRepair ==
    ASSUME RepairInv, NEW d \in Devices, PublishRepair(d)
    PROVE  RepairInv'
<1>1. PICK p \in PlanSet : p = plan[d] /\ PlanOK(p) /\ p.fresh # None /\ p.tip = Tip
  BY DEF PublishRepair, RepairInv, RepairTypeInv, PlanInv
<1>2. PICK lo \in CoreSet : lo = p.fresh
  BY <1>1 DEF PlanSet
<1>3. PICK new \in CoreSet :
         /\ new = buildChatRepairSnapshot(lo, p.source) /\ new.refs = lo.refs
         /\ \A k \in lo.refs : Usable(new.rows[k])
         /\ \A k \in Keys : Usable(versions[Tip].rows[k]) => Usable(new.rows[k])
  <2>1. p.source \in 1..Tip
    BY <1>1 DEF PlanOK
  <2>2. \A k \in lo.refs : ~Usable(lo.rows[k]) => Usable(versions[p.source].rows[k])
    BY <1>1, <1>2 DEF PlanOK
  <2> QED BY <2>1, <2>2, SnapshotIs
<1>4. PICK all \in SUBSET Blobs : all = UNION {versions[i].blobs : i \in p.source..Tip}
  <2>1. ASSUME NEW i \in p.source..Tip
        PROVE  versions[i].blobs \in SUBSET Blobs
    <3>1. i \in 1..Tip
      BY <1>1, TipIs DEF PlanOK, RepairInv
    <3>2. versions[i] \in VersionSet
      BY <3>1, TipIs DEF RepairInv
    <3> QED BY <3>2 DEF VersionSet
  <2> QED BY <2>1
<1>5. PICK v : v = Version(new, all, "repair", d, p.fingerprint)
  OBVIOUS
<1>6. /\ versions' = Append(versions, v) /\ plan' = [plan EXCEPT ![d] = None]
      /\ UNCHANGED <<rows, refs, blobs, proj, core, changes>>
  BY <1>1, <1>2, <1>3, <1>4, <1>5 DEF PublishRepair, Publish, chat
<1>7. /\ v \in VersionSet /\ v.rows = new.rows /\ v.refs = new.refs
  <2>1. /\ new.rows \in [Keys -> Nat] /\ new.refs \in SUBSET Keys
        /\ p.fingerprint \in FingerprintSet \cup {None}
    BY DEF CoreSet, PlanSet
  <2> QED BY <1>5, <2>1 DEF Version, VersionSet
<1>8. RepairTypeInv' /\ CoreInv' /\ PlanInv'
  <2>1. /\ plan' \in [Devices -> PlanSet \cup {None}]
        /\ \A e \in Devices : plan'[e] # None => plan[e] # None /\ plan'[e] = plan[e]
    BY <1>6 DEF RepairInv, RepairTypeInv
  <2> QED BY <1>6, <1>7, <2>1, PublishRepairInv
<1>9. RepairIsWhole'
  <2>1. /\ Tip \in Nat /\ Tip > 0 /\ Tip' = Tip + 1 /\ versions'[Tip + 1] = v
        /\ \A i \in 1..Tip : versions'[i] = versions[i]
    BY <1>6, <1>7, Appended DEF RepairInv
  <2> SUFFICES ASSUME NEW i \in 2..Tip', versions'[i].kind = "repair"
               PROVE  /\ Unavailable(versions'[i]) = {}
                      /\ \A k \in Keys : Usable(versions'[i - 1].rows[k])
                                         => Usable(versions'[i].rows[k])
    BY DEF RepairIsWhole, Unavailable
  <2>2. CASE i \in 2..Tip
    <3>1. versions'[i] = versions[i] /\ versions'[i - 1] = versions[i - 1]
      <4>1. i \in 1..Tip /\ i - 1 \in 1..Tip
        BY <2>1, <2>2
      <4> QED BY <2>1, <4>1
    <3> QED BY <2>2, <3>1 DEF RepairInv, RepairIsWhole
  <2>3. CASE i = Tip + 1
    <3>1. versions'[i] = v /\ versions'[i - 1] = versions[Tip]
      <4>1. i - 1 = Tip /\ Tip \in 1..Tip
        BY <2>1, <2>3
      <4> QED BY <2>1, <2>3, <4>1
    <3>2. Unavailable(v) = {}
      BY <1>3, <1>7 DEF Unavailable
    <3> QED BY <1>3, <1>7, <3>1, <3>2
  <2> QED BY <2>1, <2>2, <2>3
<1> QED BY <1>8, <1>9 DEF RepairInv

(* What the helper does with the tip.                                      *)
LEMMA HelperRepair ==
    ASSUME RepairInv, NEW d \in Devices,
           \/ upsertChat(d) \/ applyAgentKvEnrichment(d)
           \/ Materialize(d) \/ RetainComplete(d) \/ repairUnavailableChatBubbles(d)
    PROVE  RepairInv'
<1>1. PICK v \in VersionSet : v = versions[Tip]
  BY TipIs DEF RepairInv
<1>2. v.rows \in [Keys -> Nat] /\ v.refs \in SUBSET Keys
  BY DEF VersionSet
<1>3. rows[d] \in [Keys -> Nat] /\ refs[d] \in SUBSET Keys
  BY DEF RepairInv, RepairTypeInv
<1>4. \A r, t \in [Keys -> Nat] : Over(r, t) \in [Keys -> Nat]
  BY DEF Over
<1>5. \A lo : localChatCoreHash(lo, Core(v)) \in {None, Core(v)}
  BY DEF localChatCoreHash
<1>6. CASE upsertChat(d)
  <2>1. Applied(d, versions[Tip], Over(v.rows, rows[d]), v.refs, Core(versions[Tip]))
    BY <1>1, <1>6 DEF upsertChat, Applied
  <2> QED BY <1>2, <1>3, <1>4, <2>1, AppliedRepair
<1>7. CASE applyAgentKvEnrichment(d)
  <2>1. PICK h : h = localChatCoreHash(Local(d), Core(v))
    OBVIOUS
  <2>2. Applied(d, versions[Tip], rows[d], refs[d], h)
    BY <1>1, <1>7, <2>1 DEF applyAgentKvEnrichment, Applied
  <2> QED BY <1>1, <1>3, <1>5, <2>1, <2>2, AppliedRepair
<1>8. CASE Materialize(d)
  <2>1. Applied(d, versions[Tip], v.rows, v.refs, Core(versions[Tip]))
    BY <1>1, <1>8 DEF Materialize, Applied
  <2> QED BY <1>2, <2>1, AppliedRepair
<1>9. CASE RetainComplete(d)
  <2>1. PICK added \in [Keys -> Nat] : added = IF refs[d] = v.refs THEN Over(rows[d], v.rows) ELSE rows[d]
    BY <1>2, <1>3, <1>4
  <2>2. PICK h : h = localChatCoreHash([rows |-> added, refs |-> refs[d]], Core(v))
    OBVIOUS
  <2>3. Applied(d, versions[Tip], added, refs[d], h)
    BY <1>1, <1>9, <2>1, <2>2 DEF RetainComplete, Applied
  <2> QED BY <1>1, <1>3, <1>5, <2>2, <2>3, AppliedRepair
<1>10. CASE repairUnavailableChatBubbles(d)
  <2>1. PICK new \in [Keys -> Nat] : new = repairedRows(Local(d), v)
    BY <1>2, <1>3 DEF repairedRows, Local
  <2>2. PICK h : h = localChatCoreHash([rows |-> new, refs |-> refs[d]], Core(v))
    OBVIOUS
  <2>3. Applied(d, versions[Tip], new, refs[d], h)
    BY <1>1, <1>10, <2>1, <2>2 DEF repairUnavailableChatBubbles, Applied
  <2> QED BY <1>1, <1>3, <1>5, <2>2, <2>3, AppliedRepair
<1> QED BY <1>6, <1>7, <1>8, <1>9, <1>10

(* At first there is one version, that some devices have applied.          *)
LEMMA RepairInit ==
    ASSUME Init, ChatsAssumption
    PROVE  RepairInv
<1>1. PICK n, first :
          /\ n \in Keys
          /\ first = [rows |-> [k \in Keys |-> IF k <= n THEN 1 + k ELSE Absent], refs |-> 1..n]
          /\ proj \in [Devices -> {0, 1}]
          /\ rows = [d \in Devices |-> IF proj[d] = 1 THEN first.rows ELSE Nothing]
          /\ refs = [d \in Devices |-> IF proj[d] = 1 THEN first.refs ELSE {}]
          /\ blobs \in [Devices -> {{b} : b \in Blobs}]
          /\ core = [d \in Devices |-> IF proj[d] = 1 THEN first ELSE None]
          /\ \E d \in Devices :
                proj[d] = 1 /\ versions = <<Version(first, blobs[d], "put", d, None)>>
          /\ plan = [d \in Devices |-> None]
          /\ changes = Said
  BY DEF Init
<1>2. first \in CoreSet /\ first.rows \in [Keys -> Nat] /\ first.refs \in SUBSET Keys
  <2>1. [k \in Keys |-> IF k <= n THEN 1 + k ELSE Absent] \in [Keys -> Nat]
    BY DEF Absent, ChatsAssumption
  <2>2. 1..n \in SUBSET Keys
    BY <1>1 DEF ChatsAssumption
  <2> QED BY <1>1, <2>1, <2>2 DEF CoreSet
<1>3. Nothing \in [Keys -> Nat]
  BY DEF Nothing, Absent
<1>4. blobs \in [Devices -> SUBSET Blobs]
  BY <1>1
<1>5. PICK d, v :
          /\ d \in Devices /\ v = Version(first, blobs[d], "put", d, None)
          /\ versions = <<v>>
  BY <1>1
<1>6. v \in VersionSet /\ Core(v) = first
  <2>1. blobs[d] \in SUBSET Blobs /\ None \in FingerprintSet \cup {None}
    BY <1>4, <1>5
  <2>2. first = [rows |-> first.rows, refs |-> first.refs]
    BY <1>2 DEF CoreSet
  <2> QED BY <1>2, <1>5, <2>1, <2>2 DEF Version, VersionSet, Core
<1>7. Tip = 1 /\ versions \in Seq(VersionSet) /\ versions[1] = v
  BY <1>5, <1>6 DEF Tip
<1>8. RepairTypeInv
  <2>1. Said \in Nat
    BY FS_CardinalityType DEF Said, ChatsAssumption
  <2>2. proj \in [Devices -> 0..Tip]
    BY <1>1, <1>7
  <2>3. rows \in [Devices -> [Keys -> Nat]] /\ refs \in [Devices -> SUBSET Keys]
    BY <1>1, <1>2, <1>3
  <2>4. core \in [Devices -> CoreSet \cup {None}] /\ plan \in [Devices -> PlanSet \cup {None}]
    BY <1>1, <1>2
  <2> QED BY <1>1, <1>4, <1>7, <2>1, <2>2, <2>3, <2>4 DEF RepairTypeInv
<1>9. CoreInv
  <2>1. 1 \in 1..Tip /\ Core(versions[1]) = first
    BY <1>6, <1>7
  <2>2. \A e \in Devices : core[e] \in {first, None}
    BY <1>1
  <2> QED BY <2>1, <2>2 DEF CoreInv
<1>10. PlanInv /\ RepairIsWhole
  BY <1>1, <1>7 DEF PlanInv, RepairIsWhole
<1> QED BY <1>8, <1>9, <1>10 DEF RepairInv

LEMMA RepairAlways == MCSpec => []RepairInv
<1> USE ChatsAssumption
<1>1. MCInit => RepairInv
  BY RepairInit DEF MCInit
<1>2. ASSUME RepairInv, [MCNext]_<<part, vars, catalogVars>>
      PROVE  RepairInv'
  <2>1. CASE UNCHANGED vars
    BY <1>2, <2>1
    DEF vars, RepairInv, RepairTypeInv, CoreInv, Core, PlanInv, PlanOK, RepairIsWhole,
        Unavailable, Tip
  <2>2. CASE Next
    BY <1>2, <2>2, CursorRepair, CaptureRepair, EnrichRepair, PlanRepair, RepairRepair,
       HelperRepair
    DEF Next
  <2> QED BY <1>2, <2>1, <2>2 DEF MCNext
<1> QED BY <1>1, <1>2, PTL DEF MCSpec

(* What a device takes for settled, and will not look at again, is what    *)
(* was published (localChatCoreHash, and the scan's rememberChatHash).     *)
THEOREM SettledWasPublished == MCSpec => []SettledIsPublished
<1>1. ASSUME RepairInv
      PROVE  SettledIsPublished
  <2>1. \A d \in Devices : Local(d) \in CoreSet
    BY <1>1, LocalIs DEF RepairInv
  <2>2. None \notin CoreSet
    BY ChatsAssumption DEF ChatsAssumption, CoreSet
  <2> QED BY <1>1, <2>1, <2>2 DEF RepairInv, CoreInv, SettledIsPublished, Settled
<1> QED BY <1>1, RepairAlways, PTL

(* A repair shows nothing that cannot be read, and carries every message   *)
(* that can be read in the version it replaces (repair.ts:2369).           *)
THEOREM RepairsAreWhole == MCSpec => []RepairIsWhole
<1>1. RepairInv => RepairIsWhole
  BY DEF RepairInv
<1> QED BY <1>1, RepairAlways, PTL

(* A repair or an enrichment hides nothing and changes nothing that the    *)
(* device can show (database.ts:1854), whatever was said since.            *)
THEOREM RepairsHideNothing == MCSpec => RepairHidesNothing
<1>1. ASSUME RepairInv, Next, NEW d \in Devices, proj'[d] # proj[d],
             versions'[proj'[d]].kind \in {"repair", "enrich"},
             NEW k \in refs[d], Usable(rows[d][k])
      PROVE  k \in refs'[d] /\ rows'[d][k] = rows[d][k]
  <2>1. /\ rows \in [Devices -> [Keys -> Nat]] /\ refs \in [Devices -> SUBSET Keys]
        /\ proj \in [Devices -> 0..Tip]
    BY <1>1 DEF RepairInv, RepairTypeInv
  <2>2. k \in Keys /\ rows[d][k] # Absent
    BY <1>1, <2>1 DEF Usable, Absent, Unreadable
  <2>3. PICK e \in Devices :
          \/ Say(e) \/ Rewrite(e) \/ Lose(e) \/ Enrich(e)
          \/ Plan(e) \/ Discard(e) \/ Reinspect(e) \/ PublishRepair(e)
          \/ Capture(e) \/ upsertChat(e) \/ applyAgentKvEnrichment(e)
          \/ Materialize(e) \/ RetainComplete(e) \/ repairUnavailableChatBubbles(e)
    BY <1>1 DEF Next
  <2>4. CASE UNCHANGED proj
    BY <1>1, <2>4
  <2>5. CASE Capture(e) /\ proj' # proj
    <3>1. /\ versions' = Append(versions, Version(Local(e), blobs[e], "put", e, None))
          /\ proj' = [proj EXCEPT ![e] = Tip + 1]
      BY <2>5 DEF Capture, Publish
    <3>2. e = d
      BY <1>1, <2>1, <3>1
    <3>3. Version(Local(e), blobs[e], "put", e, None).kind = "put"
      BY DEF Version
    <3>4. versions'[Tip + 1] = Version(Local(e), blobs[e], "put", e, None)
      BY <1>1, <3>1, <3>3, AppendProperties DEF RepairInv, RepairTypeInv, Tip
    <3> QED BY <1>1, <2>1, <3>1, <3>2, <3>3, <3>4
  <2>6. CASE \E newRows, newRefs, hash : Applied(e, versions[Tip], newRows, newRefs, hash)
    <3>1. proj' = [proj EXCEPT ![e] = Tip] /\ versions' = versions
      BY <2>6 DEF Applied
    <3>2. e = d /\ proj'[d] = Tip /\ versions[Tip].kind \in {"repair", "enrich"}
      BY <1>1, <2>1, <3>1
    <3>3. CASE upsertChat(d)
      BY <3>2, <3>3 DEF upsertChat, Queued
    <3>4. CASE applyAgentKvEnrichment(d)
      BY <2>1, <3>4 DEF applyAgentKvEnrichment, Applied
    <3>5. CASE Materialize(d)
      BY <3>5 DEF Materialize, Gone, Local
    <3>6. CASE RetainComplete(d)
      BY <2>1, <2>2, <3>6 DEF RetainComplete, Applied, Over
    <3>7. CASE repairUnavailableChatBubbles(d)
      BY <1>1, <2>1, <2>2, <3>7
      DEF repairUnavailableChatBubbles, Applied, repairedRows, Unavailable, Local
    <3>8. Say(d) \/ Rewrite(d) \/ Lose(d) \/ Capture(d) \/ Enrich(d) \/ Plan(d) \/ Discard(d)
          \/ Reinspect(d) \/ PublishRepair(d) => FALSE
      BY <1>1, <3>1, <3>2
      DEF Say, Rewrite, Lose, Enrich, Plan, Discard, Reinspect, PublishRepair, Capture
    <3> QED BY <2>3, <3>2, <3>3, <3>4, <3>5, <3>6, <3>7, <3>8
  <2>7. \/ UNCHANGED proj \/ (Capture(e) /\ proj' # proj)
        \/ \E newRows, newRefs, hash : Applied(e, versions[Tip], newRows, newRefs, hash)
    BY <2>3
    DEF Say, Rewrite, Lose, Enrich, Plan, Discard, Reinspect, PublishRepair, upsertChat,
        applyAgentKvEnrichment, Materialize, RetainComplete, repairUnavailableChatBubbles
  <2> QED BY <2>4, <2>5, <2>6, <2>7
<1>2. ASSUME RepairInv, [MCNext]_<<part, vars, catalogVars>>
      PROVE  \A d \in Devices :
               proj'[d] # proj[d] /\ versions'[proj'[d]].kind \in {"repair", "enrich"}
               => \A k \in refs[d] : Usable(rows[d][k])
                                     => k \in refs'[d] /\ rows'[d][k] = rows[d][k]
  <2>1. CASE UNCHANGED vars
    BY <2>1 DEF vars
  <2>2. CASE Next
    BY <1>1, <1>2, <2>2
  <2> QED BY <1>2, <2>1, <2>2 DEF MCNext
<1> QED BY <1>2, RepairAlways, PTL DEF MCSpec, RepairHidesNothing

=============================================================================
