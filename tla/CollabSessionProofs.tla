------------------------ MODULE CollabSessionProofs ------------------------
(***************************************************************************)
(* The rooms of a collaboration session, for any number of sockets, edits, *)
(* terminations, rooms, failures and restarts: the disconnect grace runs    *)
(* where it must and nowhere else, and what the row holds is on the screen. *)
(***************************************************************************)
EXTENDS CollabSession, FiniteSetTheorems, TLAPS

USE OwnerAssumption, BoundsAssumption

-----------------------------------------------------------------------------
(* The invariants *)

(* Nobody is in an entry that was not made yet, and the ids behind a        *)
(* callback, a termination or activeSessions are those of entries that were. *)
EntriesAreMade ==
  /\ current <= made
  /\ \A i \in EntryId : i > made => entry[i].conns = {}
  /\ \A t \in Ends : end[t].entry <= made
  /\ \A s \in Sockets : sock[s].entry <= made

(* A termination has marked the entry it captured, and once past its first *)
(* statement there is one.                                                  *)
EndsMarkRooms ==
  \A t \in Ends :
    /\ end[t].phase \in {"sql", "flush", "closing"} /\ end[t].entry # 0
         => entry[end[t].entry].terminating
    /\ end[t].phase \in {"flush", "closing"} => end[t].entry # 0

RoomsAreFinite == \A i \in EntryId : IsFiniteSet(entry[i].conns)

(* The inductive invariant of the rooms. *)
EntryInv == RoomInv /\ EntriesAreMade /\ EndsMarkRooms /\ RoomsAreFinite

(* Every copy of the document on its way to the row is part of the live     *)
(* one, and a socket that is about to join brings what the row holds,        *)
(* unless the live document has it already.                                 *)
CopiesAreOld ==
  /\ \A d \in saving : d \subseteq ydoc
  /\ \A t \in Ends : end[t].snap \subseteq ydoc

ReadersAreCurrent ==
  failures = 0 =>
    \A s \in Sockets : sock[s].phase = "read" => saved \subseteq ydoc \union sock[s].doc

DocInv == TypeOK /\ CopiesAreOld /\ ReadersAreCurrent /\ RoomShowsWhatIsSaved

-----------------------------------------------------------------------------
(* Type correctness *)

LEMMA HeardTypes ==
  ASSUME NEW ent \in [EntryId -> EntryType], NEW cur
  PROVE  Heard(ent, cur) \in [EntryId -> EntryType]
  BY DEF Heard, EntryType

LEMMA BeginEndTypes ==
  ASSUME TypeOK, NEW t \in Ends, NEW ent \in [EntryId -> EntryType], BeginEnd(t, ent)
  PROVE  TypeOK'
<1> DEFINE quiet == [ent EXCEPT ![current] = [@ EXCEPT !.terminating = TRUE, !.grace = "off",
                                                       !.idle = FALSE, !.hears = FALSE]]
<1>1. quiet \in [EntryId -> EntryType]
  BY DEF EntryType
<1>2. Heard(quiet, current) \in [EntryId -> EntryType]
  BY <1>1, HeardTypes
<1>3. entry' \in [EntryId -> EntryType] /\ ydoc' \in Doc
  BY <1>2 DEF BeginEnd, TypeOK, Doc
<1>4. end' \in [Ends -> EndType]
  BY DEF BeginEnd, TypeOK, EndType, Doc
<1>. QED BY <1>3, <1>4 DEF BeginEnd, TypeOK

LEMMA DocTypes ==
  /\ {} \in Doc
  /\ \A c, d \in Doc : c \union d \in Doc
  BY DEF Doc

LEMMA TypesInitially == Init => TypeOK
  BY DEF Init, TypeOK, Doc, EntryType, Blank, SocketType, NewSocket, EndType, FreeEnd

LEMMA TypesPreserved ==
  ASSUME TypeOK, [Next]_vars
  PROVE  TypeOK'
<1> USE DEF TypeOK
<1>1. CASE CreateSession BY <1>1 DEF CreateSession
<1>2. ASSUME NEW s \in Sockets, Connect(s) PROVE TypeOK'
  BY <1>2 DEF Connect, SocketType
<1>3. ASSUME NEW s \in Sockets, RowRead(s) PROVE TypeOK'
  <2>1. sock' \in [Sockets -> SocketType]
    BY <1>3 DEF RowRead, SocketType
  <2>2. failures' \in 0..MaxFailures
    BY <1>3 DEF RowRead
  <2>. QED BY <1>3, <2>1, <2>2 DEF RowRead
<1>4. ASSUME NEW s \in Sockets, RejectEnded(s) PROVE TypeOK'
  BY <1>4, DocTypes DEF RejectEnded, SocketType
<1>5. ASSUME NEW s \in Sockets, Join(s) PROVE TypeOK'
  <2>1. AfterUpdate(entry, current, sock[s].doc) \in [EntryId -> EntryType]
    <3>1. Heard(entry, current) \in [EntryId -> EntryType]
      BY HeardTypes
    <3>. QED BY <3>1 DEF AfterUpdate
  <2>2. ASSUME NEW ent \in [EntryId -> EntryType], NEW i \in EntryId
        PROVE  WithSocket(ent, i, s) \in [EntryId -> EntryType]
    <3> DEFINE old == IF current = i THEN ent[i]
                      ELSE [Blank EXCEPT !.hears = TRUE, !.idle = TRUE]
    <3>1. old \in EntryType
      BY DEF EntryType, Blank
    <3> HIDE DEF old
    <3>2. [old EXCEPT !.conns = old.conns \union {s},
                      !.grace = IF Cardinality(old.conns \union {s}) >= 2 THEN "off" ELSE @]
            \in EntryType
      BY <3>1 DEF EntryType
    <3>3. WithSocket(ent, i, s) =
            [ent EXCEPT ![i] =
               [old EXCEPT !.conns = old.conns \union {s},
                           !.grace = IF Cardinality(old.conns \union {s}) >= 2 THEN "off" ELSE @]]
      BY DEF WithSocket, old
    <3>. QED BY <3>2, <3>3
  <2>5. entry' \in [EntryId -> EntryType]
    BY <1>5, <2>1, <2>2 DEF Join
  <2>3. made' \in 0..MaxEntries /\ current' \in 0..MaxEntries
    BY <1>5 DEF Join, JoinedEntry, EntryId
  <2>4. sock[s].doc \in Doc
    BY DEF SocketType
  <2>6. ydoc' \in Doc
    <3>1. ydoc' = ydoc \union sock[s].doc
      BY <1>5 DEF Join
    <3>. QED BY <2>4, <3>1, DocTypes
  <2>7. sock' \in [Sockets -> SocketType]
    <3>1. JoinedEntry \in 0..MaxEntries
      BY <1>5 DEF Join, EntryId
    <3>2. sock' = [sock EXCEPT ![s].phase = "joined", ![s].entry = JoinedEntry, ![s].doc = {}]
      BY <1>5 DEF Join
    <3>. QED BY <3>1, <3>2, DocTypes DEF SocketType
  <2>. QED BY <1>5, <2>5, <2>3, <2>6, <2>7 DEF Join
<1>6. ASSUME NEW s \in Sockets, ClientCloses(s) PROVE TypeOK'
  <2>1. sock' \in [Sockets -> SocketType]
    BY <1>6 DEF ClientCloses, SocketType
  <2>2. ASSUME NEW i \in EntryId PROVE AfterClose(i, s) \in EntryType
    BY <2>2 DEF AfterClose, EntryType
  <2>3. entry' \in [EntryId -> EntryType]
    BY <1>6, <2>2 DEF ClientCloses
  <2>. QED BY <1>6, <2>1, <2>3 DEF ClientCloses
<1>7. ASSUME NEW s \in Sockets, ClientSeesEnd(s) PROVE TypeOK'
  BY <1>6, <1>7 DEF ClientSeesEnd
<1>8. ASSUME NEW s \in Sockets, NEW e \in Edits, Edit(s, e) PROVE TypeOK'
  BY <1>8, HeardTypes DEF Edit, Doc
<1>9. ASSUME NEW i \in EntryId, SaveFires(i) PROVE TypeOK'
  BY <1>9 DEF SaveFires, EntryType
<1>10. ASSUME NEW d \in saving, SaveLands(d) PROVE TypeOK'
  BY <1>10 DEF SaveLands
<1>11. ASSUME NEW t \in Ends, NEW i \in EntryId, GraceFires(i, t) \/ InactivityFires(i, t)
       PROVE  TypeOK'
  <2>1. /\ [entry EXCEPT ![i].grace = "spent"] \in [EntryId -> EntryType]
        /\ [entry EXCEPT ![i].idle = FALSE] \in [EntryId -> EntryType]
    BY DEF EntryType
  <2>. QED BY <1>11, <2>1, BeginEndTypes DEF GraceFires, InactivityFires
<1>12. ASSUME NEW t \in Ends, EndRequested(t) PROVE TypeOK'
  BY <1>12 DEF EndRequested, EndType
<1>13. ASSUME NEW t \in Ends, EndBegins(t) PROVE TypeOK'
  BY <1>13, BeginEndTypes DEF EndBegins
<1>14. ASSUME NEW t \in Ends, EndStatusWritten(t) PROVE TypeOK'
  <2>1. end' \in [Ends -> EndType]
    BY <1>14, DocTypes DEF EndStatusWritten, EndType, FreeEnd
  <2>. QED BY <1>14, <2>1 DEF EndStatusWritten
<1>15. ASSUME NEW t \in Ends, EndFlushed(t) PROVE TypeOK'
  <2>1. end' \in [Ends -> EndType]
    BY <1>15, DocTypes DEF EndFlushed, EndType
  <2>2. saved' \in Doc
    BY <1>15 DEF EndFlushed, EndType
  <2>. QED BY <1>15, <2>1, <2>2 DEF EndFlushed
<1>16. ASSUME NEW t \in Ends, EndCloses(t) PROVE TypeOK'
  <2>1. FreeEnd \in EndType
    BY DocTypes DEF EndType, FreeEnd
  <2>2. end' \in [Ends -> EndType]
    BY <1>16, <2>1 DEF EndCloses
  <2>3. ASSUME NEW s \in Sockets PROVE sock'[s] \in SocketType
    <3>1. [sock[s] EXCEPT !.open = FALSE, !.phase = "done"] \in SocketType
      BY DEF SocketType
    <3>. QED BY <1>16, <3>1 DEF EndCloses
  <2>4. sock' \in [Sockets -> SocketType]
    BY <1>16, <2>3 DEF EndCloses
  <2>5. ASSUME NEW i \in EntryId PROVE [entry EXCEPT ![i].conns = {}] \in [EntryId -> EntryType]
    BY DEF EntryType
  <2>6. entry' \in [EntryId -> EntryType]
    <3>1. CASE end[t].entry \in EntryId
      BY <1>16, <2>5, <3>1 DEF EndCloses
    <3>2. CASE end[t].entry \notin EntryId
      BY <1>16, <3>2 DEF EndCloses
    <3>. QED BY <3>1, <3>2
  <2>7. current' = 0 /\ UNCHANGED <<status, saved, ydoc, made, saving, failures, crashes>>
    BY <1>16 DEF EndCloses
  <2>. QED BY <2>2, <2>4, <2>6, <2>7
<1>17. CASE Crash
  <2>1. /\ crashes' \in 0..MaxCrashes /\ current' = 0 /\ saving' = {} /\ ydoc' = {}
        /\ UNCHANGED <<status, saved, made, failures>>
    BY <1>17 DEF Crash
  <2>2. entry' \in [EntryId -> EntryType]
    <3>1. Blank \in EntryType
      BY DEF EntryType, Blank
    <3>2. entry' = [i \in EntryId |-> Blank]
      BY <1>17 DEF Crash
    <3>. QED BY <3>1, <3>2
  <2>3. [NewSocket EXCEPT !.phase = "done"] \in SocketType
    <3>1. NewSocket \in SocketType
      BY DocTypes DEF NewSocket, SocketType
    <3>2. \A k \in SocketType : [k EXCEPT !.phase = "done"] \in SocketType
      BY DEF SocketType
    <3>. QED BY <3>1, <3>2
  <2>4. sock' \in [Sockets -> SocketType]
    BY <1>17, <2>3 DEF Crash
  <2>5. FreeEnd \in EndType
    BY DocTypes DEF EndType, FreeEnd
  <2>6. end' \in [Ends -> EndType]
    BY <1>17, <2>5 DEF Crash
  <2>. QED BY <2>1, <2>2, <2>4, <2>6, DocTypes
<1>18. CASE UNCHANGED vars BY <1>18 DEF vars
<1>. QED
  BY <1>1, <1>2, <1>3, <1>4, <1>5, <1>6, <1>7, <1>8, <1>9, <1>10, <1>11, <1>12, <1>13, <1>14,
     <1>15, <1>16, <1>17, <1>18 DEF Next

-----------------------------------------------------------------------------
(* The rooms *)

(* What GraceWatchesShortRooms says of a step. *)
GraceWatched ==
  \A i \in EntryId :
    crashes' = crashes =>
      /\ entry[i].grace = "armed" /\ entry'[i].grace # "armed" =>
           Cardinality(entry'[i].conns) >= 2 \/ entry'[i].terminating \/ i # current
      /\ Cardinality(entry'[i].conns) < Cardinality(entry[i].conns) =>
           \/ entry'[i].grace # "off"
           \/ Cardinality(entry'[i].conns) >= 2
           \/ entry'[i].terminating

(* An entry looks the same to the rooms: only its timers and saves differ. *)
SameRoom(e, f) ==
  e.conns = f.conns /\ e.grace = f.grace /\ e.terminating = f.terminating

LEMMA HeardIsSameRoom ==
  ASSUME NEW ent \in [EntryId -> EntryType], NEW cur, NEW i \in EntryId
  PROVE  SameRoom(Heard(ent, cur)[i], ent[i])
  BY DEF Heard, EntryType, SameRoom

LEMMA RoomSizes ==
  ASSUME RoomsAreFinite, NEW i \in EntryId
  PROVE  Cardinality(entry[i].conns) \in Nat
  BY FS_CardinalityType DEF RoomsAreFinite

(* A step that leaves the rooms alone; terminations may go on. *)
LEMMA RoomsStay ==
  ASSUME EntryInv, TypeOK',
         \A i \in EntryId : SameRoom(entry'[i], entry[i]),
         current' = current, made' = made,
         \A s \in Sockets : sock'[s].entry = sock[s].entry,
         \A t \in Ends :
           /\ end'[t].entry <= made
           /\ end'[t].phase \in {"sql", "flush", "closing"} =>
                end[t].phase \in {"sql", "flush", "closing"} /\ end'[t].entry = end[t].entry
           /\ end'[t].phase \in {"flush", "closing"} => end'[t].entry # 0
  PROVE  EntryInv' /\ GraceWatched
<1> USE DEF EntryInv
<1>1. GraceOnlyInShortRooms'
  BY DEF RoomInv, GraceOnlyInShortRooms, SameRoom
<1>2. RoomsAreFinite'
  BY DEF RoomsAreFinite, SameRoom
<1>3. EntriesAreMade'
  BY DEF EntriesAreMade, SameRoom
<1>4. EndsMarkRooms'
  <2>1. ASSUME NEW t \in Ends, end'[t].phase \in {"sql", "flush", "closing"}, end'[t].entry # 0
        PROVE  entry'[end'[t].entry].terminating
    <3>1. end'[t].entry \in EntryId
      BY <2>1 DEF TypeOK, EndType, EntryId
    <3>. QED BY <2>1, <3>1 DEF EndsMarkRooms, SameRoom
  <2>. QED BY <2>1 DEF EndsMarkRooms
<1>5. GraceWatched
  BY RoomSizes DEF GraceWatched, SameRoom
<1>. QED BY <1>1, <1>2, <1>3, <1>4, <1>5 DEF RoomInv

(* terminateSession marks the current entry, if there is one. *)
LEMMA BeginEndRooms ==
  ASSUME EntryInv, TypeOK', NEW t \in Ends, NEW ent \in [EntryId -> EntryType],
         \A i \in EntryId :
           /\ ent[i].conns = entry[i].conns /\ ent[i].terminating = entry[i].terminating
           /\ ent[i].grace \in {entry[i].grace, "spent"},
         BeginEnd(t, ent)
  PROVE  EntryInv' /\ GraceWatched
<1> USE DEF EntryInv
<1> DEFINE quiet == [ent EXCEPT ![current] = [@ EXCEPT !.terminating = TRUE, !.grace = "off",
                                                       !.idle = FALSE, !.hears = FALSE]]
<1>1. /\ UNCHANGED <<current, made, sock>>
      /\ end' = [end EXCEPT ![t] = [phase |-> "sql", entry |-> current, snap |-> {}]]
  BY DEF BeginEnd
<1>2. ASSUME NEW i \in EntryId
      PROVE  /\ entry'[i].conns = entry[i].conns
             /\ i = current => entry'[i].terminating /\ entry'[i].grace = "off"
             /\ i # current => /\ entry'[i].terminating = entry[i].terminating
                              /\ entry'[i].grace \in {entry[i].grace, "spent"}
  <2>1. CASE current = 0
    BY <1>2, <2>1 DEF BeginEnd, EntryId
  <2>2. CASE current # 0
    <3>1. entry' = Heard(quiet, current)
      BY <2>2 DEF BeginEnd
    <3>2. quiet \in [EntryId -> EntryType]
      BY DEF EntryType
    <3>3. SameRoom(entry'[i], quiet[i])
      BY <3>1, <3>2, HeardIsSameRoom
    <3>4. i = current => quiet[i].terminating /\ quiet[i].grace = "off" /\ quiet[i].conns = ent[i].conns
      BY DEF EntryType
    <3>5. i # current => quiet[i] = ent[i]
      OBVIOUS
    <3> HIDE DEF quiet
    <3>. QED BY <3>3, <3>4, <3>5 DEF SameRoom
  <2>. QED BY <2>1, <2>2
<1>3. GraceOnlyInShortRooms'
  BY <1>2 DEF RoomInv, GraceOnlyInShortRooms
<1>4. RoomsAreFinite'
  BY <1>2 DEF RoomsAreFinite
<1>5. EntriesAreMade'
  BY <1>1, <1>2 DEF EntriesAreMade, RoomInv, TypeOK
<1>6. EndsMarkRooms'
  <2>1. ASSUME NEW u \in Ends, end'[u].phase \in {"sql", "flush", "closing"}, end'[u].entry # 0
        PROVE  entry'[end'[u].entry].terminating
    <3>1. end'[u].entry \in EntryId
      BY <2>1 DEF TypeOK, EndType, EntryId
    <3>2. CASE u = t
      BY <1>1, <1>2, <2>1, <3>1, <3>2 DEF RoomInv, TypeOK
    <3>3. CASE u # t
      BY <1>1, <1>2, <2>1, <3>1, <3>3 DEF EndsMarkRooms, RoomInv, TypeOK
    <3>. QED BY <3>2, <3>3
  <2>2. ASSUME NEW u \in Ends, end'[u].phase \in {"flush", "closing"} PROVE end'[u].entry # 0
    BY <1>1, <2>2 DEF EndsMarkRooms, RoomInv, TypeOK
  <2>. QED BY <2>1, <2>2 DEF EndsMarkRooms
<1>7. GraceWatched
  BY <1>2, RoomSizes DEF GraceWatched
<1>. QED BY <1>3, <1>4, <1>5, <1>6, <1>7 DEF RoomInv

(* A socket joins the current room, or a new one. *)
LEMMA JoinRooms ==
  ASSUME EntryInv, TypeOK', NEW s \in Sockets, Join(s)
  PROVE  EntryInv' /\ GraceWatched
<1> USE DEF EntryInv
<1> DEFINE heard == AfterUpdate(entry, current, sock[s].doc)
           n == JoinedEntry
           room == entry'[n].conns
<1>0. TypeOK
  BY DEF RoomInv
<1>1. n \in EntryId /\ current' = n /\ made' = IF current = 0 THEN made + 1 ELSE made
  BY DEF Join
<1>2. heard \in [EntryId -> EntryType] /\ \A i \in EntryId : SameRoom(heard[i], entry[i])
  <2>1. Heard(entry, current) \in [EntryId -> EntryType]
    BY <1>0, HeardTypes DEF TypeOK
  <2>2. ASSUME NEW i \in EntryId PROVE SameRoom(heard[i], entry[i])
    BY <1>0, HeardIsSameRoom DEF AfterUpdate, SameRoom, TypeOK
  <2>. QED BY <1>0, <2>1, <2>2 DEF AfterUpdate, TypeOK
<1>3. entry' = WithSocket(heard, n, s)
  BY DEF Join
<1>4. ASSUME NEW i \in EntryId, i # n PROVE SameRoom(entry'[i], entry[i])
  <2> HIDE DEF heard, n
  <2>. QED BY <1>1, <1>2, <1>3, <1>4 DEF WithSocket
<1>5. n = current \/ (current = 0 /\ n = made + 1)
  BY DEF JoinedEntry
<1>6. /\ room = entry[n].conns \union {s}
      /\ IF n = current THEN /\ entry'[n].terminating = entry[n].terminating
                             /\ entry'[n].grace \in {entry[n].grace, "off"}
                             /\ Cardinality(room) < 2 => entry'[n].grace = entry[n].grace
                        ELSE ~entry'[n].terminating /\ entry'[n].grace = "off"
      /\ Cardinality(room) >= 2 => entry'[n].grace = "off"
  <2> DEFINE old == IF current = n THEN heard[n]
                    ELSE [Blank EXCEPT !.hears = TRUE, !.idle = TRUE]
             conns == old.conns \union {s}
  <2>1. entry'[n] = [old EXCEPT !.conns = conns,
                                !.grace = IF Cardinality(conns) >= 2 THEN "off" ELSE @]
    BY <1>1, <1>2, <1>3 DEF WithSocket
  <2>2. old \in EntryType
    BY <1>1, <1>2 DEF EntryType, Blank
  <2>3. IF n = current THEN SameRoom(old, entry[n])
        ELSE old.conns = {} /\ ~old.terminating /\ old.grace = "off" /\ entry[n].conns = {}
    BY <1>0, <1>1, <1>2, <1>5 DEF Blank, EntriesAreMade, TypeOK
  <2> HIDE DEF old, heard, n
  <2>4. /\ room = conns
        /\ entry'[n].grace = IF Cardinality(conns) >= 2 THEN "off" ELSE old.grace
        /\ entry'[n].terminating = old.terminating
    BY <2>1, <2>2 DEF EntryType
  <2>5. IsFiniteSet(conns) /\ Cardinality(conns) \in Nat
    <3>1. IsFiniteSet(old.conns)
      BY <1>1, <2>3, FS_EmptySet DEF RoomsAreFinite, SameRoom
    <3>. QED BY <3>1, FS_AddElement, FS_CardinalityType
  <2>. QED BY <2>3, <2>4, <2>5 DEF SameRoom
<1>7. IsFiniteSet(room) /\ Cardinality(room) \in Nat /\ Cardinality(room) >= Cardinality(entry[n].conns)
  <2>1. IsFiniteSet(entry[n].conns)
    BY <1>1 DEF RoomsAreFinite
  <2> HIDE DEF n, room
  <2>2. room = entry[n].conns \union {s}
    BY <1>6
  <2>3. \A S : IsFiniteSet(S) =>
          /\ IsFiniteSet(S \union {s})
          /\ Cardinality(S) \in Nat /\ Cardinality(S \union {s}) \in Nat
          /\ Cardinality(S \union {s}) >= Cardinality(S)
    <3>1. SUFFICES ASSUME NEW S, IsFiniteSet(S)
                   PROVE  /\ IsFiniteSet(S \union {s})
                          /\ Cardinality(S) \in Nat /\ Cardinality(S \union {s}) \in Nat
                          /\ Cardinality(S \union {s}) >= Cardinality(S)
      OBVIOUS
    <3>2. /\ IsFiniteSet(S \union {s})
          /\ Cardinality(S \union {s}) = IF s \in S THEN Cardinality(S) ELSE Cardinality(S) + 1
      BY <3>1, FS_AddElement
    <3>3. Cardinality(S) \in Nat
      BY <3>1, FS_CardinalityType
    <3>. QED BY <3>2, <3>3
  <2>. QED BY <2>1, <2>2, <2>3
<1> HIDE DEF n, room
<1>8. GraceOnlyInShortRooms'
  <2>1. ASSUME NEW i \in EntryId, entry'[i].grace = "armed"
        PROVE  Cardinality(entry'[i].conns) < 2 /\ ~entry'[i].terminating
    <3>1. CASE i = n
      <4>1. entry'[n].grace = "armed" /\ Cardinality(room) < 2
        BY <1>6, <1>7, <2>1, <3>1
      <4>2. n = current /\ entry[n].grace = "armed" /\ entry'[n].terminating = entry[n].terminating
        BY <1>6, <4>1
      <4>3. ~entry[n].terminating
        BY <1>1, <4>2 DEF RoomInv, GraceOnlyInShortRooms
      <4>. QED BY <3>1, <4>1, <4>2, <4>3 DEF room
    <3>2. CASE i # n
      BY <1>4, <2>1, <3>2 DEF RoomInv, GraceOnlyInShortRooms, SameRoom
    <3>. QED BY <3>1, <3>2
  <2>. QED BY <2>1 DEF GraceOnlyInShortRooms
<1>9. RoomsAreFinite'
  BY <1>4, <1>7 DEF RoomsAreFinite, SameRoom, room
<1>10. EntriesAreMade'
  <2>1. n <= made' /\ made <= made' /\ made' \in Nat /\ made \in Nat /\ EntryId \subseteq Nat
    BY <1>0, <1>1, <1>5 DEF TypeOK, EntriesAreMade, EntryId
  <2>2. ASSUME NEW i \in EntryId, i > made' PROVE entry'[i].conns = {}
    BY <1>4, <2>1, <2>2 DEF EntriesAreMade, SameRoom
  <2>3. ASSUME NEW t \in Ends PROVE end'[t].entry <= made'
    BY <1>0, <2>1 DEF EntriesAreMade, Join, TypeOK, EndType
  <2>4. ASSUME NEW x \in Sockets PROVE sock'[x].entry <= made'
    <3>1. sock'[x].entry = IF x = s THEN n ELSE sock[x].entry
      BY <1>0 DEF Join, TypeOK, SocketType, n
    <3>. QED BY <1>0, <2>1, <3>1 DEF EntriesAreMade, TypeOK, SocketType
  <2>. QED BY <1>1, <2>1, <2>2, <2>3, <2>4 DEF EntriesAreMade
<1>11. EndsMarkRooms'
  <2>1. end' = end
    BY DEF Join
  <2>2. ASSUME NEW t \in Ends, end[t].phase \in {"sql", "flush", "closing"}, end[t].entry # 0
        PROVE  entry'[end[t].entry].terminating
    <3>1. end[t].entry \in EntryId /\ end[t].entry <= made /\ entry[end[t].entry].terminating
      BY <1>0, <2>2 DEF TypeOK, EndType, EntryId, EntriesAreMade, EndsMarkRooms
    <3>2. n # current => end[t].entry # n
      BY <1>0, <1>5, <3>1 DEF TypeOK
    <3>. QED BY <1>4, <1>6, <3>1, <3>2 DEF SameRoom
  <2>. QED BY <2>1, <2>2 DEF EndsMarkRooms
<1>12. GraceWatched
  <2>1. ASSUME NEW i \in EntryId, i # n PROVE Cardinality(entry'[i].conns) >= Cardinality(entry[i].conns)
    BY <1>4, <2>1, RoomSizes DEF SameRoom
  <2>2. Cardinality(entry'[n].conns) >= Cardinality(entry[n].conns)
    BY <1>7 DEF room
  <2>3. ASSUME NEW i \in EntryId PROVE ~ Cardinality(entry'[i].conns) < Cardinality(entry[i].conns)
    <3>1. Cardinality(entry[i].conns) \in Nat /\ Cardinality(entry'[i].conns) \in Nat
      BY <1>9, RoomSizes, FS_CardinalityType DEF RoomsAreFinite
    <3>. QED BY <2>1, <2>2, <3>1
  <2>4. ASSUME NEW i \in EntryId, entry[i].grace = "armed", entry'[i].grace # "armed"
        PROVE  Cardinality(entry'[i].conns) >= 2 \/ i # current
    <3>1. i = n
      BY <1>4, <2>4 DEF SameRoom
    <3>2. CASE n = current
      <4>1. ~ Cardinality(room) < 2
        BY <1>6, <2>4, <3>1, <3>2
      <4>. QED BY <1>7, <3>1, <4>1 DEF room
    <3>. QED BY <3>1, <3>2
  <2>. QED BY <2>3, <2>4 DEF GraceWatched
<1>. QED BY <1>8, <1>9, <1>10, <1>11, <1>12 DEF RoomInv

(* A socket leaves its room, which may then be short. *)
LEMMA CloseRooms ==
  ASSUME EntryInv, TypeOK', NEW s \in Sockets, ClientCloses(s)
  PROVE  EntryInv' /\ GraceWatched
<1> USE DEF EntryInv
<1> DEFINE n == sock[s].entry
<1>0. TypeOK /\ crashes' = crashes
  BY DEF RoomInv, ClientCloses
<1>1. /\ UNCHANGED <<end, current, made>>
      /\ \A x \in Sockets : sock'[x].entry = sock[x].entry
  BY <1>0 DEF ClientCloses, TypeOK, SocketType
<1>2. CASE sock[s].phase # "joined" \/ n \notin EntryId
  <2>1. entry' = entry
    BY <1>0, <1>2 DEF ClientCloses, TypeOK
  <2>2. ASSUME NEW t \in Ends PROVE end[t].phase \in {"flush", "closing"} => end[t].entry # 0
    BY <2>2 DEF EndsMarkRooms
  <2>. QED BY <1>1, <2>1, <2>2, RoomsStay DEF SameRoom, EntriesAreMade
<1>3. CASE sock[s].phase = "joined" /\ n \in EntryId
  <2> DEFINE room == entry[n].conns \ {s}
  <2>1. entry' = [entry EXCEPT ![n] = AfterClose(n, s)]
    BY <1>3 DEF ClientCloses
  <2>2. entry[n] \in EntryType
    BY <1>0, <1>3 DEF TypeOK
  <2>3. /\ \A i \in EntryId \ {n} : entry'[i] = entry[i]
        /\ entry'[n] = AfterClose(n, s)
    BY <1>0, <1>3, <2>1 DEF TypeOK
  <2>4. /\ entry'[n].conns = room
        /\ entry'[n].terminating = entry[n].terminating
        /\ entry'[n].grace = IF ~entry[n].terminating /\ Cardinality(room) < 2 /\ entry[n].grace = "off"
                              THEN "armed" ELSE entry[n].grace
    BY <2>2, <2>3 DEF AfterClose, EntryType
  <2>5. /\ IsFiniteSet(room)
        /\ Cardinality(room) \in Nat /\ Cardinality(entry[n].conns) \in Nat
        /\ Cardinality(room) <= Cardinality(entry[n].conns)
    <3>1. IsFiniteSet(entry[n].conns)
      BY <1>3 DEF RoomsAreFinite
    <3>2. room \in SUBSET entry[n].conns
      OBVIOUS
    <3> HIDE DEF room
    <3>. QED BY <3>1, <3>2, FS_Subset, FS_CardinalityType
  <2>6. entry[n].grace = "armed" => Cardinality(entry[n].conns) < 2 /\ ~entry[n].terminating
    BY <1>3 DEF RoomInv, GraceOnlyInShortRooms
  <2> HIDE DEF room, n
  <2>7. GraceOnlyInShortRooms'
    <3>1. entry'[n].grace = "armed" => Cardinality(entry'[n].conns) < 2 /\ ~entry'[n].terminating
      BY <2>4, <2>5, <2>6
    <3>. QED BY <2>3, <3>1 DEF RoomInv, GraceOnlyInShortRooms
  <2>8. RoomsAreFinite'
    BY <2>3, <2>4, <2>5 DEF RoomsAreFinite
  <2>9. EntriesAreMade'
    <3>1. ASSUME NEW i \in EntryId, i > made PROVE entry'[i].conns = {}
      BY <2>3, <2>4, <3>1 DEF EntriesAreMade, room
    <3>. QED BY <1>1, <3>1 DEF EntriesAreMade
  <2>10. EndsMarkRooms'
    <3>1. ASSUME NEW t \in Ends, end[t].phase \in {"sql", "flush", "closing"}, end[t].entry # 0
          PROVE  entry'[end[t].entry].terminating
      <4>1. end[t].entry \in EntryId /\ entry[end[t].entry].terminating
        BY <1>0, <3>1 DEF EndsMarkRooms, TypeOK, EndType, EntryId
      <4>. QED BY <2>3, <2>4, <4>1
    <3>. QED BY <1>1, <3>1 DEF EndsMarkRooms
  <2>11. GraceWatched
    <3>1. ASSUME NEW i \in EntryId, i # n PROVE ~ Cardinality(entry'[i].conns) < Cardinality(entry[i].conns)
      BY <2>3, <3>1, RoomSizes
    <3>2. entry[n].grace = "armed" => entry'[n].grace = "armed"
      BY <2>4
    <3>3. \/ entry'[n].grace # "off" \/ Cardinality(entry'[n].conns) >= 2 \/ entry'[n].terminating
      BY <2>4, <2>5
    <3>. QED BY <2>3, <3>1, <3>2, <3>3 DEF GraceWatched
  <2>. QED BY <2>7, <2>8, <2>9, <2>10, <2>11 DEF RoomInv
<1>. QED BY <1>2, <1>3

(* The room of a termination is emptied; it was marked before. *)
LEMMA EndClosesRooms ==
  ASSUME EntryInv, TypeOK', NEW t \in Ends, EndCloses(t)
  PROVE  EntryInv' /\ GraceWatched
<1> USE DEF EntryInv
<1> DEFINE n == end[t].entry
<1>0. TypeOK
  BY DEF RoomInv
<1>1. n \in EntryId /\ entry[n].terminating
  <2>1. end[t].phase = "closing" /\ end[t] \in EndType
    BY <1>0 DEF EndCloses, TypeOK
  <2>2. n # 0 /\ entry[n].terminating
    BY <2>1 DEF EndsMarkRooms
  <2>. QED BY <2>1, <2>2 DEF EndType, EntryId
<1>2. /\ \A i \in EntryId \ {n} : entry'[i] = entry[i]
      /\ entry'[n].conns = {} /\ entry'[n].grace = entry[n].grace
      /\ entry'[n].terminating = entry[n].terminating
  BY <1>0, <1>1 DEF EndCloses, TypeOK, EntryType
<1>3. /\ made' = made /\ current' = 0
      /\ end' = [end EXCEPT ![t] = FreeEnd]
  BY DEF EndCloses
<1>4. \A x \in Sockets : sock'[x].entry = sock[x].entry
  BY <1>0 DEF EndCloses, TypeOK, SocketType
<1> HIDE DEF n
<1>5. GraceOnlyInShortRooms'
  BY <1>1, <1>2 DEF RoomInv, GraceOnlyInShortRooms
<1>6. RoomsAreFinite'
  BY <1>1, <1>2, FS_EmptySet DEF RoomsAreFinite
<1>7. EntriesAreMade'
  <2>1. ASSUME NEW u \in Ends PROVE end'[u].entry <= made
    BY <1>0, <1>3 DEF EntriesAreMade, FreeEnd, TypeOK
  <2>2. ASSUME NEW i \in EntryId, i > made PROVE entry'[i].conns = {}
    BY <1>2, <2>2 DEF EntriesAreMade
  <2>. QED BY <1>0, <1>3, <1>4, <2>1, <2>2 DEF EntriesAreMade, TypeOK
<1>8. EndsMarkRooms'
  <2>1. ASSUME NEW u \in Ends, u # t
        PROVE  /\ end'[u].phase \in {"sql", "flush", "closing"} /\ end'[u].entry # 0
                    => entry'[end'[u].entry].terminating
               /\ end'[u].phase \in {"flush", "closing"} => end'[u].entry # 0
    <3>1. end'[u] = end[u]
      BY <1>0, <1>3, <2>1 DEF TypeOK
    <3>2. end[u].entry # 0 => end[u].entry \in EntryId
      BY <1>0 DEF TypeOK, EndType, EntryId
    <3>. QED BY <1>1, <1>2, <3>1, <3>2 DEF EndsMarkRooms
  <2>2. end'[t] = FreeEnd
    BY <1>0, <1>3 DEF TypeOK
  <2>. QED BY <2>1, <2>2 DEF EndsMarkRooms, FreeEnd
<1>9. GraceWatched
  <2>1. ASSUME NEW i \in EntryId, i # n
        PROVE  entry'[i] = entry[i] /\ Cardinality(entry[i].conns) \in Nat
    BY <1>2, <2>1, RoomSizes
  <2>2. entry'[n].terminating
    BY <1>1, <1>2
  <2>. QED BY <2>1, <2>2 DEF GraceWatched
<1>. QED BY <1>5, <1>6, <1>7, <1>8, <1>9 DEF RoomInv

(* After a restart every room is new. *)
LEMMA CrashRooms ==
  ASSUME EntryInv, TypeOK', Crash
  PROVE  EntryInv' /\ GraceWatched
<1> USE DEF EntryInv
<1>0. TypeOK
  BY DEF RoomInv
<1>1. /\ entry' = [i \in EntryId |-> Blank] /\ current' = 0 /\ made' = made
      /\ end' = [t \in Ends |-> FreeEnd] /\ crashes' = crashes + 1
  BY DEF Crash
<1>2. ASSUME NEW s \in Sockets PROVE sock'[s].entry \in {0, sock[s].entry}
  BY <1>0 DEF Crash, NewSocket
<1>3. GraceOnlyInShortRooms'
  BY <1>1 DEF GraceOnlyInShortRooms, Blank
<1>4. RoomsAreFinite'
  BY <1>1, FS_EmptySet DEF RoomsAreFinite, Blank
<1>5. EntriesAreMade'
  <2>1. \A i \in EntryId : entry'[i].conns = {}
    BY <1>1 DEF Blank
  <2>2. \A t \in Ends : end'[t].entry = 0
    BY <1>1 DEF FreeEnd
  <2>3. made \in Nat
    BY <1>0 DEF TypeOK
  <2>. QED BY <1>1, <1>2, <2>1, <2>2, <2>3 DEF EntriesAreMade
<1>6. EndsMarkRooms'
  BY <1>1 DEF EndsMarkRooms, FreeEnd
<1>7. GraceWatched
  BY <1>0, <1>1 DEF GraceWatched, TypeOK
<1>. QED BY <1>3, <1>4, <1>5, <1>6, <1>7 DEF RoomInv

LEMMA RoomsPreserved ==
  ASSUME EntryInv, [Next]_vars
  PROVE  EntryInv' /\ GraceWatched
<1>0. TypeOK /\ TypeOK'
  BY TypesPreserved DEF EntryInv, RoomInv
<1>1. ASSUME NEW t \in Ends
      PROVE  /\ end[t].entry <= made
             /\ end[t].phase \in {"flush", "closing"} => end[t].entry # 0
  BY DEF EntryInv, EntriesAreMade, EndsMarkRooms
<1>2. CASE CreateSession \/ UNCHANGED vars \/ \E d \in saving : SaveLands(d)
  BY <1>0, <1>1, <1>2, RoomsStay DEF CreateSession, SaveLands, vars, SameRoom
<1>3. ASSUME NEW s \in Sockets, Connect(s) \/ RowRead(s) \/ RejectEnded(s)
      PROVE  EntryInv' /\ GraceWatched
  <2>1. \A x \in Sockets : sock'[x].entry = sock[x].entry
    BY <1>0, <1>3 DEF Connect, RowRead, RejectEnded, TypeOK, SocketType
  <2>2. UNCHANGED <<entry, current, made, end>>
    BY <1>3 DEF Connect, RowRead, RejectEnded
  <2>. QED BY <1>0, <1>1, <2>1, <2>2, RoomsStay DEF SameRoom
<1>4. ASSUME NEW s \in Sockets, NEW e \in Edits, Edit(s, e) PROVE EntryInv' /\ GraceWatched
  <2>1. \A i \in EntryId : SameRoom(entry'[i], entry[i])
    BY <1>0, <1>4, HeardIsSameRoom DEF Edit, TypeOK
  <2>. QED BY <1>0, <1>1, <1>4, <2>1, RoomsStay DEF Edit
<1>5. ASSUME NEW i \in EntryId, SaveFires(i) PROVE EntryInv' /\ GraceWatched
  <2>1. \A k \in EntryId : SameRoom(entry'[k], entry[k])
    BY <1>0, <1>5 DEF SaveFires, TypeOK, EntryType, SameRoom
  <2>. QED BY <1>0, <1>1, <1>5, <2>1, RoomsStay DEF SaveFires
<1>6. ASSUME NEW t \in Ends, NEW i \in EntryId, GraceFires(i, t) \/ InactivityFires(i, t)
      PROVE  EntryInv' /\ GraceWatched
  <2>1. CASE GraceFires(i, t)
    <3> DEFINE ent == [entry EXCEPT ![i].grace = "spent"]
    <3>1. ent \in [EntryId -> EntryType]
      BY <1>0 DEF TypeOK, EntryType
    <3>2. \A k \in EntryId : /\ ent[k].conns = entry[k].conns
                             /\ ent[k].terminating = entry[k].terminating
                             /\ ent[k].grace \in {entry[k].grace, "spent"}
      BY <1>0 DEF TypeOK, EntryType
    <3> HIDE DEF ent
    <3>. QED BY <1>0, <2>1, <3>1, <3>2, BeginEndRooms DEF GraceFires, ent
  <2>2. CASE InactivityFires(i, t)
    <3> DEFINE ent == [entry EXCEPT ![i].idle = FALSE]
    <3>1. ent \in [EntryId -> EntryType]
      BY <1>0 DEF TypeOK, EntryType
    <3>2. \A k \in EntryId : /\ ent[k].conns = entry[k].conns
                             /\ ent[k].terminating = entry[k].terminating
                             /\ ent[k].grace \in {entry[k].grace, "spent"}
      BY <1>0 DEF TypeOK, EntryType
    <3> HIDE DEF ent
    <3>. QED BY <1>0, <2>2, <3>1, <3>2, BeginEndRooms DEF InactivityFires, ent
  <2>. QED BY <1>6, <2>1, <2>2
<1>7. ASSUME NEW t \in Ends, EndBegins(t) PROVE EntryInv' /\ GraceWatched
  BY <1>0, <1>7, BeginEndRooms DEF EndBegins, TypeOK
<1>8. ASSUME NEW t \in Ends, EndRequested(t) \/ EndStatusWritten(t) \/ EndFlushed(t)
      PROVE  EntryInv' /\ GraceWatched
  <2>1. ASSUME NEW u \in Ends
        PROVE  /\ end'[u].entry <= made
               /\ end'[u].phase \in {"sql", "flush", "closing"} =>
                    end[u].phase \in {"sql", "flush", "closing"} /\ end'[u].entry = end[u].entry
               /\ end'[u].phase \in {"flush", "closing"} => end'[u].entry # 0
    <3>1. u # t => end'[u] = end[u]
      BY <1>0, <1>8 DEF EndRequested, EndStatusWritten, EndFlushed, TypeOK
    <3>2. /\ end'[t].entry <= made
          /\ end'[t].phase \in {"sql", "flush", "closing"} =>
               end[t].phase \in {"sql", "flush", "closing"} /\ end'[t].entry = end[t].entry
          /\ end'[t].phase \in {"flush", "closing"} => end'[t].entry # 0
      <4>1. CASE EndRequested(t)
        BY <1>0, <1>1, <4>1 DEF EndRequested, TypeOK, EndType
      <4>2. CASE EndStatusWritten(t)
        <5>1. end'[t] = IF end[t].entry = 0 THEN FreeEnd
                        ELSE [end[t] EXCEPT !.phase = "flush", !.snap = ydoc]
          BY <1>0, <4>2 DEF EndStatusWritten, TypeOK
        <5>. QED BY <1>0, <1>1, <4>2, <5>1 DEF EndStatusWritten, TypeOK, EndType, FreeEnd
      <4>3. CASE EndFlushed(t)
        BY <1>0, <1>1, <4>3 DEF EndFlushed, TypeOK, EndType
      <4>. QED BY <1>8, <4>1, <4>2, <4>3
    <3>. QED BY <1>1, <3>1, <3>2
  <2>2. UNCHANGED <<entry, current, made, sock>>
    BY <1>8 DEF EndRequested, EndStatusWritten, EndFlushed
  <2>. QED BY <1>0, <2>1, <2>2, RoomsStay DEF SameRoom
<1>. QED
  BY <1>0, <1>2, <1>3, <1>4, <1>5, <1>6, <1>7, <1>8, JoinRooms, CloseRooms, EndClosesRooms,
     CrashRooms DEF Next, ClientSeesEnd

LEMMA RoomsInitially == Init => EntryInv
<1>1. SUFFICES ASSUME Init PROVE EntryInv
  OBVIOUS
<1>2. GraceOnlyInShortRooms /\ EntriesAreMade /\ EndsMarkRooms
  BY <1>1 DEF Init, GraceOnlyInShortRooms, EntriesAreMade, EndsMarkRooms, Blank, FreeEnd, NewSocket
<1>3. RoomsAreFinite
  BY <1>1, FS_EmptySet DEF Init, RoomsAreFinite, Blank
<1>. QED BY <1>1, <1>2, <1>3, TypesInitially DEF EntryInv, RoomInv

LEMMA RoomsAlways == Spec => []EntryInv
<1>1. EntryInv /\ [Next]_vars => EntryInv'
  BY RoomsPreserved
<1>. QED BY <1>1, RoomsInitially, PTL DEF Spec

(* The disconnect grace runs only in rooms that are short and not being     *)
(* ended, and the variables keep their types.                               *)
THEOREM RoomsAreSound == Spec => []RoomInv
<1>1. EntryInv => RoomInv
  BY DEF EntryInv
<1>. QED BY <1>1, RoomsAlways, PTL

(* A grace that runs ends only as the room fills up or is being ended, and  *)
(* a room that a socket left short has one: nobody waits without a limit.   *)
THEOREM NobodyWaitsWithoutLimit == Spec => GraceWatchesShortRooms
<1>1. EntryInv /\ [Next]_vars => [GraceWatched]_vars
  BY RoomsPreserved
<1>. QED BY <1>1, RoomsAlways, PTL DEF Spec, GraceWatchesShortRooms, GraceWatched

-----------------------------------------------------------------------------
(* The document *)

(* A step that only adds to the live document: whatever is newly written to *)
(* the row or copied for it is part of it, and new readers have the row.    *)
LEMMA DocGrows ==
  ASSUME DocInv, TypeOK',
         ydoc \subseteq ydoc',
         \A d \in saving' : d \in saving \/ d \subseteq ydoc,
         \A t \in Ends : end'[t].snap = end[t].snap \/ end'[t].snap \subseteq ydoc,
         saved' = saved \/ saved' \subseteq ydoc,
         failures' = 0 => failures = 0,
         failures' = 0 => \A s \in Sockets : sock'[s].phase = "read" =>
           \/ sock[s].phase = "read" /\ sock'[s].doc = sock[s].doc
           \/ saved \subseteq sock'[s].doc,
         failures' = 0 /\ current' # 0 => current # 0 \/ saved \subseteq ydoc'
  PROVE  DocInv'
<1> USE DEF DocInv
<1>1. CopiesAreOld'
  BY DEF CopiesAreOld
<1>2. ReadersAreCurrent'
  BY DEF ReadersAreCurrent
<1>3. RoomShowsWhatIsSaved'
  BY DEF RoomShowsWhatIsSaved
<1>. QED BY <1>1, <1>2, <1>3

LEMMA BeginEndDoc ==
  ASSUME DocInv, TypeOK', NEW t \in Ends, NEW ent, BeginEnd(t, ent)
  PROVE  DocInv'
<1>1. /\ UNCHANGED <<saved, current, sock, saving, failures>>
      /\ ydoc \subseteq ydoc'
      /\ end' = [end EXCEPT ![t] = [phase |-> "sql", entry |-> current, snap |-> {}]]
  BY DEF BeginEnd
<1>2. \A u \in Ends : end'[u].snap = end[u].snap \/ end'[u].snap \subseteq ydoc
  BY <1>1 DEF DocInv, TypeOK
<1>. QED BY <1>1, <1>2, DocGrows

LEMMA DocPreserved ==
  ASSUME DocInv, [Next]_vars
  PROVE  DocInv'
<1>0. TypeOK /\ TypeOK'
  BY TypesPreserved DEF DocInv
<1>1. CASE CreateSession \/ UNCHANGED vars
  BY <1>0, <1>1, DocGrows DEF CreateSession, vars
<1>2. ASSUME NEW s \in Sockets, Connect(s) \/ RejectEnded(s) \/ ClientCloses(s) PROVE DocInv'
  <2>1. UNCHANGED <<saved, ydoc, current, end, saving, failures>>
    BY <1>2 DEF Connect, RejectEnded, ClientCloses
  <2>2. \A x \in Sockets : sock'[x].phase = "read" =>
          sock[x].phase = "read" /\ sock'[x].doc = sock[x].doc
    BY <1>0, <1>2 DEF Connect, RejectEnded, ClientCloses, TypeOK, SocketType
  <2>. QED BY <1>0, <2>1, <2>2, DocGrows
<1>3. ASSUME NEW s \in Sockets, RowRead(s) PROVE DocInv'
  <2>1. UNCHANGED <<saved, ydoc, current, end, saving>>
    BY <1>3 DEF RowRead
  <2>2. failures' = failures \/ failures' = failures + 1
    BY <1>3 DEF RowRead
  <2>3. failures' = failures => \A x \in Sockets : sock'[x].phase = "read" =>
          \/ sock[x].phase = "read" /\ sock'[x].doc = sock[x].doc
          \/ saved \subseteq sock'[x].doc
    BY <1>0, <1>3 DEF RowRead, TypeOK, SocketType
  <2>. QED BY <1>0, <2>1, <2>2, <2>3, DocGrows DEF TypeOK
<1>4. ASSUME NEW s \in Sockets, Join(s) PROVE DocInv'
  <2>1. /\ ydoc' = ydoc \union sock[s].doc /\ sock[s].phase = "read"
        /\ UNCHANGED <<saved, end, saving, failures>>
    BY <1>4 DEF Join
  <2>2. \A x \in Sockets : sock'[x].phase = "read" =>
          sock[x].phase = "read" /\ sock'[x].doc = sock[x].doc
    BY <1>0, <1>4 DEF Join, TypeOK, SocketType
  <2>3. failures = 0 => saved \subseteq ydoc'
    BY <2>1 DEF DocInv, ReadersAreCurrent
  <2>. QED BY <1>0, <2>1, <2>2, <2>3, DocGrows
<1>5. ASSUME NEW s \in Sockets, NEW e \in Edits, Edit(s, e) PROVE DocInv'
  BY <1>0, <1>5, DocGrows DEF Edit
<1>6. ASSUME NEW i \in EntryId, SaveFires(i) PROVE DocInv'
  BY <1>0, <1>6, DocGrows DEF SaveFires
<1>7. ASSUME NEW d \in saving, SaveLands(d) PROVE DocInv'
  <2>1. d \subseteq ydoc
    BY DEF DocInv, CopiesAreOld
  <2>2. /\ UNCHANGED <<ydoc, current, end, sock>> /\ saving' = saving \ {d}
        /\ saved' = saved \/ saved' = d
        /\ failures' = failures \/ failures' = failures + 1
    BY <1>7 DEF SaveLands
  <2>. QED BY <1>0, <2>1, <2>2, DocGrows DEF TypeOK
<1>8. ASSUME NEW t \in Ends, NEW i \in EntryId, GraceFires(i, t) \/ InactivityFires(i, t)
      PROVE  DocInv'
  BY <1>0, <1>8, BeginEndDoc DEF GraceFires, InactivityFires
<1>9. ASSUME NEW t \in Ends, EndBegins(t) PROVE DocInv'
  BY <1>0, <1>9, BeginEndDoc DEF EndBegins
<1>10. ASSUME NEW t \in Ends, EndRequested(t) \/ EndStatusWritten(t) PROVE DocInv'
  <2>1. UNCHANGED <<saved, ydoc, current, sock, saving>>
    BY <1>10 DEF EndRequested, EndStatusWritten
  <2>2. failures' = failures \/ failures' = failures + 2
    BY <1>10 DEF EndRequested, EndStatusWritten
  <2>3. \A u \in Ends : end'[u].snap = end[u].snap \/ end'[u].snap \subseteq ydoc
    <3>1. CASE EndRequested(t)
      BY <1>0, <3>1 DEF EndRequested, TypeOK, EndType
    <3>2. CASE EndStatusWritten(t)
      <4>1. ASSUME NEW u \in Ends, u # t PROVE end'[u] = end[u]
        BY <1>0, <3>2, <4>1 DEF EndStatusWritten, TypeOK
      <4>2. end'[t] = IF end[t].entry = 0 THEN FreeEnd
                      ELSE [end[t] EXCEPT !.phase = "flush", !.snap = ydoc]
        BY <1>0, <3>2 DEF EndStatusWritten, TypeOK
      <4>3. end'[t].snap \subseteq ydoc
        BY <1>0, <4>2 DEF FreeEnd, TypeOK, EndType
      <4>. QED BY <4>1, <4>3
    <3>. QED BY <1>10, <3>1, <3>2
  <2>. QED BY <1>0, <2>1, <2>2, <2>3, DocGrows DEF TypeOK
<1>11. ASSUME NEW t \in Ends, EndFlushed(t) PROVE DocInv'
  <2>1. UNCHANGED <<ydoc, current, sock, saving>>
    BY <1>11 DEF EndFlushed
  <2>2. failures' = failures \/ failures' = failures + 1
    BY <1>11 DEF EndFlushed
  <2>3. \A u \in Ends : end'[u].snap = end[u].snap \/ end'[u].snap \subseteq ydoc
    BY <1>0, <1>11 DEF EndFlushed, TypeOK, EndType
  <2>4. saved' = saved \/ saved' \subseteq ydoc
    BY <1>11 DEF EndFlushed, DocInv, CopiesAreOld
  <2>. QED BY <1>0, <2>1, <2>2, <2>3, <2>4, DocGrows DEF TypeOK
<1>12. ASSUME NEW t \in Ends, EndCloses(t) PROVE DocInv'
  <2>1. UNCHANGED <<saved, ydoc, saving, failures>> /\ current' = 0
    BY <1>12 DEF EndCloses
  <2>2. \A x \in Sockets : sock'[x].phase = "read" =>
          sock[x].phase = "read" /\ sock'[x].doc = sock[x].doc
    BY <1>0, <1>12 DEF EndCloses, TypeOK, SocketType
  <2>3. \A u \in Ends : end'[u].snap = end[u].snap \/ end'[u].snap \subseteq ydoc
    BY <1>0, <1>12 DEF EndCloses, FreeEnd, TypeOK
  <2>. QED BY <1>0, <2>1, <2>2, <2>3, DocGrows
<1>13. CASE Crash
  <2>1. /\ current' = 0 /\ saving' = {} /\ \A t \in Ends : end'[t].snap = {}
        /\ \A s \in Sockets : sock'[s].phase # "read"
    BY <1>13 DEF Crash, FreeEnd, NewSocket
  <2>. QED BY <1>0, <2>1 DEF DocInv, CopiesAreOld, ReadersAreCurrent, RoomShowsWhatIsSaved
<1>. QED
  BY <1>1, <1>2, <1>3, <1>4, <1>5, <1>6, <1>7, <1>8, <1>9, <1>10, <1>11, <1>12, <1>13
  DEF Next, ClientSeesEnd

(* A live room shows all that the row holds, as long as no read or write    *)
(* failed, whatever terminations, restarts and joins interleave.            *)
THEOREM SavedWorkIsShown == Spec => []RoomShowsWhatIsSaved
<1>1. Init => DocInv
  BY TypesInitially DEF Init, DocInv, CopiesAreOld, ReadersAreCurrent, RoomShowsWhatIsSaved,
     FreeEnd, NewSocket
<1>2. DocInv /\ [Next]_vars => DocInv'
  BY DocPreserved
<1>3. DocInv => RoomShowsWhatIsSaved
  BY DEF DocInv
<1>. QED BY <1>1, <1>2, <1>3, PTL DEF Spec

=============================================================================
