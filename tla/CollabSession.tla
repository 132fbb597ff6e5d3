---------------------------- MODULE CollabSession ----------------------------
(***************************************************************************)
(* One collaboration session of the collaboration service: its row in the  *)
(* database, the Yjs document held by y-websocket, the activeSessions      *)
(* entry of the SessionManager with its timers, the websockets of the two  *)
(* users, and the terminations in progress                                 *)
(* (services/collaboration-service/src/index.ts and                        *)
(* services/SessionManager.ts).  Sessions share nothing but the process,   *)
(* so one docName stands for all.                                          *)
(*                                                                         *)
(* A step is the code between two awaits or the body of one callback; the  *)
(* event loop interleaves them freely.  Time is not modelled: an armed     *)
(* timer may fire at any moment.  The state in the entry and in the        *)
(* document dies with the process, the row survives.                       *)
(***************************************************************************)
EXTENDS Naturals, FiniteSets

CONSTANTS
  Sockets,        \* one per websocket ever opened; a reconnect is a new one
  Users,          \* the two users of the session
  Owner,          \* the user behind each socket
  Edits,          \* what users type
  Ends,           \* slots for concurrent terminations
  MaxEntries,     \* bound: activeSessions entries ever made for this docName
  MaxFailures,    \* bound: failing database writes
  MaxCrashes      \* bound: restarts of the service

ASSUME OwnerAssumption == Owner \in [Sockets -> Users]
ASSUME BoundsAssumption == MaxEntries \in Nat /\ MaxFailures \in Nat /\ MaxCrashes \in Nat

(* The sys map's status = terminated, the end mark in the document. *)
Ended == "ended"

Doc == SUBSET (Edits \union {Ended})

EntryId == 1..MaxEntries

(* What the code keeps in ActiveSessionData.  A grace timer is "spent" when *)
(* it has fired and its handle was not cleared.  hears: the update listener *)
(* is registered; dirty: its debounced save is scheduled.                   *)
EntryType ==
  [conns : SUBSET Sockets, grace : {"off", "armed", "spent"}, idle : BOOLEAN,
   terminating : BOOLEAN, hears : BOOLEAN, dirty : BOOLEAN]

Blank == [conns |-> {}, grace |-> "off", idle |-> FALSE,
          terminating |-> FALSE, hears |-> FALSE, dirty |-> FALSE]

(* A socket awaits the row ("reading"), has it but has not resumed         *)
(* ("read"), or has been handed to the SessionManager ("joined").          *)
SocketType ==
  [phase : {"new", "reading", "read", "joined", "done"}, open : BOOLEAN,
   entry : 0..MaxEntries, ended : BOOLEAN, doc : Doc]

EndType ==
  [phase : {"free", "checked", "sql", "flush", "closing"},
   entry : 0..MaxEntries, snap : Doc]

VARIABLES
  status,     \* Session.status: "none" before the row exists
  saved,      \* Session.docState
  ydoc,       \* the Y.Doc y-websocket keeps for docName
  current,    \* activeSessions.get(docName), 0 for none
  made,       \* how many entries were made
  entry,      \* the entries, reachable or only captured by callbacks
  sock,       \* the websockets
  end,        \* the terminations in progress
  saving,     \* document states sent to the database by debounced saves
  failures,   \* failed writes so far
  crashes     \* restarts so far

vars ==
  <<status, saved, ydoc, current, made, entry, sock, end, saving, failures, crashes>>

NewSocket ==
  [phase |-> "new", open |-> FALSE, entry |-> 0, ended |-> FALSE, doc |-> {}]

FreeEnd == [phase |-> "free", entry |-> 0, snap |-> {}]

TypeOK ==
  /\ status \in {"none", "active", "terminated"}
  /\ saved \in Doc
  /\ ydoc \in Doc
  /\ current \in 0..MaxEntries
  /\ made \in 0..MaxEntries
  /\ entry \in [EntryId -> EntryType]
  /\ sock \in [Sockets -> SocketType]
  /\ end \in [Ends -> EndType]
  /\ saving \in SUBSET Doc
  /\ failures \in 0..MaxFailures
  /\ crashes \in 0..MaxCrashes

Init ==
  /\ status = "none"
  /\ saved = {}
  /\ ydoc = {}
  /\ current = 0
  /\ made = 0
  /\ entry = [i \in EntryId |-> Blank]
  /\ sock = [s \in Sockets |-> NewSocket]
  /\ end = [t \in Ends |-> FreeEnd]
  /\ saving = {}
  /\ failures = 0
  /\ crashes = 0

(* handleUpdate of every registered listener, given the entries and the    *)
(* current one: each schedules its save, and resets the inactivity timer   *)
(* of the entry activeSessions holds, which need not be its own.           *)
Heard(ent, cur) ==
  [i \in EntryId |->
     [ent[i] EXCEPT !.dirty = @ \/ ent[i].hears,
                    !.idle = @ \/ (i = cur /\ \E j \in EntryId : ent[j].hears)]]

(* A Yjs update reaches the listeners only if it changes the document. *)
AfterUpdate(ent, cur, new) == IF new \subseteq ydoc THEN ent ELSE Heard(ent, cur)

-----------------------------------------------------------------------------
(* The row *)

(* SessionService.createSession, by the match.found consumer or by          *)
(* POST /sessions; a second call finds the row, or loses with P2002.        *)
CreateSession ==
  /\ status = "none"
  /\ status' = "active"
  /\ UNCHANGED <<saved, ydoc, current, made, entry, sock, end, saving, failures, crashes>>

-----------------------------------------------------------------------------
(* Websockets *)

(* The upgrade is accepted for any docName; setupWSConnection binds the     *)
(* socket to the document and the row is asked for.                         *)
Connect(s) ==
  /\ sock[s].phase = "new"
  /\ sock' = [sock EXCEPT ![s].phase = "reading", ![s].open = TRUE]
  /\ UNCHANGED <<status, saved, ydoc, current, made, entry, end, saving, failures, crashes>>

(* The database answers; a failed read (or no row) counts as not ended. *)
RowRead(s) ==
  /\ sock[s].phase = "reading"
  /\ \/ /\ sock' = [sock EXCEPT ![s].phase = "read",
                                ![s].ended = status = "terminated",
                                ![s].doc = saved]
        /\ UNCHANGED failures
     \/ /\ failures < MaxFailures
        /\ failures' = failures + 1
        /\ sock' = [sock EXCEPT ![s].phase = "read"]
  /\ UNCHANGED <<status, saved, ydoc, current, made, entry, end, saving, crashes>>

RejectEnded(s) ==
  /\ sock[s].phase = "read"
  /\ sock[s].ended
  /\ sock' = [sock EXCEPT ![s].phase = "done", ![s].open = FALSE, ![s].doc = {}]
  /\ UNCHANGED <<status, saved, ydoc, current, made, entry, end, saving, failures, crashes>>

(* The entry handleConnection adds the socket to, and the entries then. *)
JoinedEntry == IF current # 0 THEN current ELSE made + 1

(* Mutant: the grace goes on although the room is full again. *)
WithSocketKeepingGrace(ent, i, s) ==
  LET old == IF current = i THEN ent[i]
             ELSE [Blank EXCEPT !.hears = TRUE, !.idle = TRUE]
  IN  [ent EXCEPT ![i] = [old EXCEPT !.conns = old.conns \union {s}]]

(* Mutant: any join clears the grace. *)
WithSocketClearingGrace(ent, i, s) ==
  LET old == IF current = i THEN ent[i]
             ELSE [Blank EXCEPT !.hears = TRUE, !.idle = TRUE]
  IN  [ent EXCEPT ![i] = [old EXCEPT !.conns = old.conns \union {s}, !.grace = "off"]]

(* Mutant: the inactivity timer is armed by the first update only. *)
WithSocketUntimed(ent, i, s) ==
  LET old == IF current = i THEN ent[i] ELSE [Blank EXCEPT !.hears = TRUE]
      conns == old.conns \union {s}
  IN  [ent EXCEPT ![i] =
         [old EXCEPT !.conns = conns,
                     !.grace = IF Cardinality(conns) >= 2 THEN "off" ELSE @]]

WithSocket(ent, i, s) ==
  LET old == IF current = i THEN ent[i]
             ELSE [Blank EXCEPT !.hears = TRUE, !.idle = TRUE]
      conns == old.conns \union {s}
  IN  [ent EXCEPT ![i] =
         [old EXCEPT !.conns = conns,
                     !.grace = IF Cardinality(conns) >= 2 THEN "off" ELSE @]]

(* Mutant: the document of the row is not merged. *)
JoinUnloaded(s) ==
  /\ sock[s].phase = "read"
  /\ ~sock[s].ended
  /\ JoinedEntry \in EntryId
  /\ entry' = WithSocket(entry, JoinedEntry, s)
  /\ current' = JoinedEntry
  /\ made' = IF current = 0 THEN made + 1 ELSE made
  /\ sock' = [sock EXCEPT ![s].phase = "joined", ![s].entry = JoinedEntry, ![s].doc = {}]
  /\ UNCHANGED <<status, saved, ydoc, end, saving, failures, crashes>>

(* The row was not ended when it was read: its document is merged into the  *)
(* live one and the socket joins the room.  A socket that closed meanwhile  *)
(* joins as well, and its close handler never runs.                         *)
Join(s) ==
  /\ sock[s].phase = "read"
  /\ ~sock[s].ended
  /\ JoinedEntry \in EntryId
  /\ ydoc' = ydoc \union sock[s].doc
  /\ entry' = WithSocket(AfterUpdate(entry, current, sock[s].doc), JoinedEntry, s)
  /\ current' = JoinedEntry
  /\ made' = IF current = 0 THEN made + 1 ELSE made
  /\ sock' = [sock EXCEPT ![s].phase = "joined", ![s].entry = JoinedEntry, ![s].doc = {}]
  /\ UNCHANGED <<status, saved, end, saving, failures, crashes>>

(* Entry i after the close handler of socket s: a disconnect grace starts  *)
(* unless the room is being ended, still full, or has one already.          *)
AfterClose(i, s) ==
  LET conns == entry[i].conns \ {s}
      short == ~entry[i].terminating /\ Cardinality(conns) < 2
  IN  [entry[i] EXCEPT !.conns = conns,
                       !.grace = IF short /\ @ = "off" THEN "armed" ELSE @]

(* A client goes away: tab closed, network lost, page left. *)
ClientCloses(s) ==
  /\ sock[s].open
  /\ sock' = [sock EXCEPT ![s].open = FALSE,
                          ![s].phase = IF @ = "joined" THEN "done" ELSE @]
  /\ entry' = IF sock[s].phase = "joined"
              THEN [entry EXCEPT ![sock[s].entry] = AfterClose(sock[s].entry, s)]
              ELSE entry
  /\ UNCHANGED <<status, saved, ydoc, current, made, end, saving, failures, crashes>>

(* CodeEditor's observer of the sys map: the client of an ended document    *)
(* disconnects by itself.                                                   *)
ClientSeesEnd(s) == Ended \in ydoc /\ ClientCloses(s)

(* y-websocket syncs from the upgrade on, also while the row is read. *)
Edit(s, e) ==
  /\ sock[s].open
  /\ e \notin ydoc
  /\ ydoc' = ydoc \union {e}
  /\ entry' = Heard(entry, current)
  /\ UNCHANGED <<status, saved, current, made, sock, end, saving, failures, crashes>>

-----------------------------------------------------------------------------
(* Debounced saves *)

SaveFires(i) ==
  /\ entry[i].dirty
  /\ entry' = [entry EXCEPT ![i].dirty = FALSE]
  /\ saving' = saving \union {ydoc}
  /\ UNCHANGED <<status, saved, ydoc, current, made, sock, end, failures, crashes>>

(* The update of a missing row throws; every error is only logged. *)
SaveLands(d) ==
  /\ d \in saving
  /\ saving' = saving \ {d}
  /\ \/ /\ saved' = IF status = "none" THEN saved ELSE d
        /\ UNCHANGED failures
     \/ /\ failures < MaxFailures
        /\ failures' = failures + 1
        /\ UNCHANGED saved
  /\ UNCHANGED <<status, ydoc, current, made, entry, sock, end, crashes>>

-----------------------------------------------------------------------------
(* Terminations *)

(* terminateSession up to its first await, in slot t: the timers and the   *)
(* listener of the current entry go, the end mark enters the document.      *)
BeginEnd(t, ent) ==
  LET quiet == [ent EXCEPT ![current] =
                  [@ EXCEPT !.terminating = TRUE, !.grace = "off",
                            !.idle = FALSE, !.hears = FALSE]]
  IN  /\ end' = [end EXCEPT ![t] = [phase |-> "sql", entry |-> current, snap |-> {}]]
      /\ IF current = 0
         THEN entry' = ent /\ UNCHANGED ydoc
         ELSE /\ entry' = Heard(quiet, current)
              /\ ydoc' = ydoc \union {Ended}
      /\ UNCHANGED <<status, saved, current, made, sock, saving, failures, crashes>>

GraceFires(i, t) ==
  /\ entry[i].grace = "armed"
  /\ end[t].phase = "free"
  /\ BeginEnd(t, [entry EXCEPT ![i].grace = "spent"])

InactivityFires(i, t) ==
  /\ entry[i].idle
  /\ end[t].phase = "free"
  /\ BeginEnd(t, [entry EXCEPT ![i].idle = FALSE])

(* PATCH /sessions/:id/terminate by one of the users: the row must be there *)
(* and not ended when it is read.                                           *)
EndRequested(t) ==
  /\ end[t].phase = "free"
  /\ status = "active"
  /\ end' = [end EXCEPT ![t].phase = "checked"]
  /\ UNCHANGED <<status, saved, ydoc, current, made, entry, sock, saving, failures, crashes>>

EndBegins(t) == end[t].phase = "checked" /\ BeginEnd(t, entry)

(* The raw UPDATE of the status, its fallback, or neither; then the final   *)
(* state of the document is encoded.                                        *)
EndStatusWritten(t) ==
  /\ end[t].phase = "sql"
  /\ \/ /\ status' = IF status = "none" THEN "none" ELSE "terminated"
        /\ UNCHANGED failures
     \/ /\ failures + 1 < MaxFailures    \* both statements fail
        /\ failures' = failures + 2
        /\ UNCHANGED status
  /\ end' = [end EXCEPT ![t] = IF end[t].entry = 0 THEN FreeEnd
                               ELSE [@ EXCEPT !.phase = "flush", !.snap = ydoc]]
  /\ UNCHANGED <<saved, ydoc, current, made, entry, sock, saving, crashes>>

(* Mutant: the final state is not written. *)
EndNotFlushed(t) ==
  /\ end[t].phase = "flush"
  /\ end' = [end EXCEPT ![t] = [@ EXCEPT !.phase = "closing", !.snap = {}]]
  /\ UNCHANGED <<status, saved, ydoc, current, made, entry, sock, saving, failures, crashes>>

EndFlushed(t) ==
  /\ end[t].phase = "flush"
  /\ \/ /\ saved' = IF status = "none" THEN saved ELSE end[t].snap
        /\ UNCHANGED failures
     \/ /\ failures < MaxFailures
        /\ failures' = failures + 1
        /\ UNCHANGED saved
  /\ end' = [end EXCEPT ![t] = [@ EXCEPT !.phase = "closing", !.snap = {}]]
  /\ UNCHANGED <<status, ydoc, current, made, entry, sock, saving, crashes>>

(* Mutant: the entry stays in activeSessions. *)
EndClosesKeepingEntry(t) ==
  /\ end[t].phase = "closing"
  /\ sock' = [s \in Sockets |->
                IF s \in entry[end[t].entry].conns
                THEN [sock[s] EXCEPT !.open = FALSE, !.phase = "done"] ELSE sock[s]]
  /\ entry' = [entry EXCEPT ![end[t].entry].conns = {}]
  /\ end' = [end EXCEPT ![t] = FreeEnd]
  /\ UNCHANGED <<status, saved, ydoc, current, made, saving, failures, crashes>>

(* A second later the sockets of the captured entry are closed (their close *)
(* handlers find terminating set), and whatever activeSessions holds for    *)
(* docName by then is dropped.                                              *)
EndCloses(t) ==
  /\ end[t].phase = "closing"
  /\ sock' = [s \in Sockets |->
                IF s \in entry[end[t].entry].conns
                THEN [sock[s] EXCEPT !.open = FALSE, !.phase = "done"] ELSE sock[s]]
  /\ entry' = [entry EXCEPT ![end[t].entry].conns = {}]
  /\ current' = 0
  /\ end' = [end EXCEPT ![t] = FreeEnd]
  /\ UNCHANGED <<status, saved, ydoc, made, saving, failures, crashes>>

-----------------------------------------------------------------------------
(* The process dies: all but the row is gone. *)
Crash ==
  /\ crashes < MaxCrashes
  /\ crashes' = crashes + 1
  /\ ydoc' = {}
  /\ current' = 0
  /\ entry' = [i \in EntryId |-> Blank]
  /\ sock' = [s \in Sockets |->
                IF sock[s].phase = "new" THEN sock[s]
                ELSE [NewSocket EXCEPT !.phase = "done"]]
  /\ end' = [t \in Ends |-> FreeEnd]
  /\ saving' = {}
  /\ UNCHANGED <<status, saved, made, failures>>

Next ==
  \/ CreateSession
  \/ \E s \in Sockets :
       \/ Connect(s) \/ RowRead(s) \/ RejectEnded(s) \/ Join(s)
       \/ ClientCloses(s) \/ ClientSeesEnd(s)
       \/ \E e \in Edits : Edit(s, e)
  \/ \E i \in EntryId : SaveFires(i)
  \/ \E d \in saving : SaveLands(d)
  \/ \E t \in Ends :
       \/ \E i \in EntryId : GraceFires(i, t) \/ InactivityFires(i, t)
       \/ EndRequested(t) \/ EndBegins(t) \/ EndStatusWritten(t)
       \/ EndFlushed(t) \/ EndCloses(t)
  \/ Crash

Spec == Init /\ [][Next]_vars

(* Promises resolve and timers fire; a client that sees the end mark leaves. *)
(* Users owe nothing.                                                        *)
Fairness ==
  /\ \A s \in Sockets :
       /\ WF_vars(RowRead(s)) /\ WF_vars(RejectEnded(s)) /\ WF_vars(Join(s))
       /\ WF_vars(ClientSeesEnd(s))
  /\ \A i \in EntryId :
       /\ WF_vars(SaveFires(i))
       /\ WF_vars(\E t \in Ends : GraceFires(i, t))
       /\ WF_vars(\E t \in Ends : InactivityFires(i, t))
  /\ \A d \in Doc : WF_vars(SaveLands(d))
  /\ \A t \in Ends :
       /\ WF_vars(EndBegins(t)) /\ WF_vars(EndStatusWritten(t))
       /\ WF_vars(EndFlushed(t)) /\ WF_vars(EndCloses(t))

FairSpec == Spec /\ Fairness

-----------------------------------------------------------------------------
(* Properties *)

(* A room never has its disconnect grace running while two sockets are in   *)
(* it, and none runs in a room that is being ended (SessionManager, comments *)
(* at the join and in the close handler).                                   *)
GraceOnlyInShortRooms ==
  \A i \in EntryId :
    entry[i].grace = "armed" => Cardinality(entry[i].conns) < 2 /\ ~entry[i].terminating

(* The rooms of a session have their shape, and the grace its limits.       *)
RoomInv == TypeOK /\ GraceOnlyInShortRooms

(* A running grace ends only because the room filled up again or is being   *)
(* ended, and a room that loses a socket and is short then has it running:  *)
(* nobody waits for an absent peer without a limit.                         *)
GraceWatchesShortRooms ==
  [][\A i \in EntryId :
       crashes' = crashes =>
         /\ entry[i].grace = "armed" /\ entry'[i].grace # "armed" =>
              Cardinality(entry'[i].conns) >= 2 \/ entry'[i].terminating \/ i # current
         /\ Cardinality(entry'[i].conns) < Cardinality(entry[i].conns) =>
              \/ entry'[i].grace # "off"
              \/ Cardinality(entry'[i].conns) >= 2
              \/ entry'[i].terminating]_vars

(* Everybody leaves an ended session: whoever is connected when the row     *)
(* says terminated is disconnected, also a client whose connection was      *)
(* accepted on a row read before the end.                                   *)
NobodyStaysInAnEndedSession ==
  \A s \in Sockets : (status = "terminated" /\ sock[s].open) ~> ~sock[s].open

(* A room does not outlive its users: once an entry exists it goes away     *)
(* again (README, "Session management": inactivity and disconnect limits).  *)
EveryRoomEnds == \A i \in EntryId : (current = i) ~> (current # i)

(* Whatever is in the document of an active session not being ended reaches *)
(* the row unless a statement fails, even what was typed while the first    *)
(* socket waited for the row and no listener heard it (README, "State       *)
(* persistence").                                                           *)
EveryEditIsSaved ==
  \A e \in Edits :
    (/\ status = "active"
     /\ e \in ydoc
     /\ current # 0
     /\ ~entry[current].terminating) ~> (e \in saved \/ failures > 0)

(* A live room shows at least what the row holds, also after a restart and  *)
(* when several sockets load the row at once, as long as no read fails      *)
(* (README: "the persisted state is loaded into a fresh Yjs document").     *)
RoomShowsWhatIsSaved == current # 0 /\ failures = 0 => saved \subseteq ydoc

=============================================================================
