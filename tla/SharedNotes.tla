------------------------------- MODULE SharedNotes -------------------------------
(***************************************************************************)
(* Shared notes: the handlers of routes/notes.py over the tables of notes  *)
(* and versions, the cleanup of expired notes (main.py), and the pages     *)
(* that show the notes (SharedNotes.tsx), which fetch the list once and    *)
(* follow the messages of a WebSocket.  A handler's step ends where it     *)
(* awaits; every statement and commit runs in the database's own thread.   *)
(***************************************************************************)
EXTENDS Naturals, FiniteSets, Sequences, Functions

CONSTANTS
  Pages,
  Ids,          \* notes, each posted once
  Draft,        \* what is posted: Ids -> [content, author]
  Edits,        \* [content, author] editors write, each once
  Nobody,       \* a caller that shows no list: a script, or pinToNotes
  Gone,         \* no row, nothing held
  Idle,         \* no request
  NoFetch,
  MaxHandlers,  \* bound: requests under way
  MaxFetches,   \* bound: requests for the list under way, per page
  MaxDeletes,   \* bound
  MaxFaults     \* bound: failing requests and statements, lost publishes,
                \* cut connections and restarts of the server

Written == Range(Draft) \cup Edits
Rows == [content : {r.content : r \in Written}, author : {r.author : r \in Written}]

ASSUME NotesAssumption ==
  /\ DOMAIN Draft = Ids /\ Written \subseteq Rows
  /\ Nobody \notin Pages /\ Gone \notin Pages \cup {Nobody}
  /\ {MaxHandlers, MaxFetches, MaxDeletes, MaxFaults} \subseteq Nat

Handlers == 1..MaxHandlers
Fetches  == 1..MaxFetches

VARIABLES
  rows, versions,   \* shared_notes, note_versions per note
  old,              \* notes created more than 24 hours ago
  handler,          \* per slot the request it serves
  shown,            \* per page and note: the copies in its list
  fetch,            \* per page and slot: the answer of GET /api/notes under way
  open, wire,       \* pages whose socket is open, messages under way
  posted,           \* which page, or Nobody, posted a note, or Gone
  edits,            \* edits to come
  deletes, faults,  \* bounds
  behind,           \* history: pages with a reason to differ from the table
  unversioned       \* history: notes whose posting ended between the commit
                    \* of the row and that of the first version

tables == <<rows, versions, old>>
lists  == <<shown, fetch>>
links  == <<open, wire>>
bounds == <<posted, edits, deletes, faults>>
told   == <<behind, unversioned>>
vars == <<tables, handler, lists, links, bounds, told>>

Fault == faults > 0 /\ faults' = faults - 1

-----------------------------------------------------------------------------
(* Requests                                                                *)

Available(h) == handler[h] = Idle /\ \A g \in Handlers : g < h => handler[g] # Idle
At(h, place) == handler[h] # Idle /\ handler[h].at = place
Goto(h, place) == handler' = [handler EXCEPT ![h].at = place]
Hold(h, place, row) == handler' = [handler EXCEPT ![h].at = place, ![h].row = row]

(* An exception: the answer is 500, the page notes an error.               *)
Fails(h) == handler' = [handler EXCEPT ![h] = Idle]

Fetching(p) == \E k \in Fetches : fetch[p][k] # NoFetch

(* History of a commit for note n: another request for the note may carry  *)
(* an older state to the pages, a list under way does not hold it.         *)
Committed(n, h) ==
  behind' = behind \cup
    IF \E g \in Handlers \ {h} : handler[g] # Idle /\ handler[g].id = n THEN Pages
    ELSE {p \in Pages : Fetching(p)}

(* POST /api/notes: the row is committed.                                  *)
Create(h, n, p) ==
  /\ Available(h) /\ posted[n] = Gone /\ posted' = [posted EXCEPT ![n] = p]
  /\ rows' = [rows EXCEPT ![n] = Draft[n]]
  /\ handler' = [handler EXCEPT ![h] =
                   [op |-> "created", at |-> "reread", id |-> n, page |-> p,
                    row |-> Gone, new |-> Gone]]
  /\ Committed(n, h)
  /\ UNCHANGED <<versions, old, lists, links, edits, deletes, faults, unversioned>>

(* It is read again, which raises when it has gone (and whenever the       *)
(* database does: RequestFails), ...                                       *)
Reread(h) ==
  /\ At(h, "reread")
  /\ LET n == handler[h].id
     IN  IF rows[n] = Gone THEN Fails(h) ELSE Hold(h, "version", rows[n])
  /\ UNCHANGED <<tables, lists, links, bounds, told>>

(* ... and its first version is committed, by a second commit.             *)
AddVersion(h) ==
  /\ At(h, "version") /\ Goto(h, "refresh")
  /\ versions' = [versions EXCEPT ![handler[h].id] = @ \cup {handler[h].row}]
  /\ UNCHANGED <<rows, old, lists, links, bounds, told>>

(* PUT /api/notes/{id} of a note that exists: the row is read.             *)
ReadForUpdate(h, n, new) ==
  /\ Available(h) /\ rows[n] # Gone
  /\ new \in edits /\ edits' = edits \ {new}
  /\ handler' = [handler EXCEPT ![h] =
                   [op |-> "updated", at |-> "write", id |-> n, page |-> Nobody,
                    row |-> rows[n], new |-> new]]
  /\ UNCHANGED <<tables, lists, links, posted, deletes, faults, told>>

(* The columns that differ from what was read.                             *)
Changed(from, to, now) ==
  [content |-> IF to.content = from.content THEN now.content ELSE to.content,
   author  |-> IF to.author = from.author THEN now.author ELSE to.author]

(* Mutant of WriteUpdate: the version is built from the row as read.       *)
WriteUpdateOldVersion(h) ==
  /\ At(h, "write")
  /\ LET n == handler[h].id  from == handler[h].row  to == handler[h].new
     IN  IF rows[n] = Gone /\ from # to
         THEN Fails(h) /\ UNCHANGED <<rows, versions, behind>>
         ELSE /\ rows' = [rows EXCEPT ![n] = IF @ = Gone THEN Gone
                                             ELSE Changed(from, to, @)]
              /\ versions' = [versions EXCEPT ![n] = @ \cup {from}]
              /\ Goto(h, "refresh") /\ Committed(n, h)
  /\ UNCHANGED <<old, lists, links, bounds, unversioned>>

(* The changed columns and the version are committed together; an UPDATE   *)
(* that finds no row raises, a missing one does not.                       *)
WriteUpdate(h) ==
  /\ At(h, "write")
  /\ LET n == handler[h].id  from == handler[h].row  to == handler[h].new
     IN  IF rows[n] = Gone /\ from # to
         THEN Fails(h) /\ UNCHANGED <<rows, versions, behind>>
         ELSE /\ rows' = [rows EXCEPT ![n] = IF @ = Gone THEN Gone
                                             ELSE Changed(from, to, @)]
              /\ versions' = [versions EXCEPT ![n] = @ \cup {to}]
              /\ Goto(h, "refresh") /\ Committed(n, h)
  /\ UNCHANGED <<old, lists, links, bounds, unversioned>>

(* db.refresh: what the message and the answer carry is what is stored by  *)
(* now.                                                                    *)
Refresh(h) ==
  /\ At(h, "refresh")
  /\ LET n == handler[h].id
     IN  IF rows[n] = Gone THEN Fails(h) ELSE Hold(h, "publish", rows[n])
  /\ UNCHANGED <<tables, lists, links, bounds, told>>

(* DELETE /api/notes/{id} of a note that exists; a page deletes what it    *)
(* shows.                                                                  *)
ReadForDelete(h, p, n) ==
  /\ Available(h) /\ rows[n] # Gone
  /\ p \in Pages => shown[p][n] # <<>>
  /\ deletes > 0 /\ deletes' = deletes - 1
  /\ handler' = [handler EXCEPT ![h] =
                   [op |-> "deleted", at |-> "delete", id |-> n, page |-> p,
                    row |-> Gone, new |-> Gone]]
  /\ UNCHANGED <<tables, lists, links, posted, edits, faults, told>>

DeleteRow(h) ==
  /\ At(h, "delete") /\ Goto(h, "publish")
  /\ rows' = [rows EXCEPT ![handler[h].id] = Gone]
  /\ Committed(handler[h].id, h)
  /\ UNCHANGED <<versions, old, lists, links, bounds, unversioned>>

Sent(h) == [type |-> handler[h].op, id |-> handler[h].id, row |-> handler[h].row]

(* pubsub_publish: the message goes to every open socket, ...              *)
Publish(h) ==
  /\ At(h, "publish") /\ Goto(h, "respond")
  /\ wire' = [p \in Pages |-> IF p \in open THEN Append(wire[p], Sent(h)) ELSE wire[p]]
  /\ behind' = behind \cup (Pages \ open)
  /\ UNCHANGED <<tables, lists, open, bounds, unversioned>>

(* ... or nowhere, without Redis: the request succeeds all the same.       *)
PublishFails(h) ==
  /\ At(h, "publish") /\ Goto(h, "respond") /\ Fault
  /\ behind' = Pages
  /\ UNCHANGED <<tables, lists, links, posted, edits, deletes, unversioned>>

(* The step that comes next raises, on a locked or lost database, or the   *)
(* answer does not arrive.  What is committed stays, its message is not    *)
(* sent.                                                                   *)
RequestFails(h) ==
  /\ handler[h] # Idle /\ handler[h].at # "publish" /\ Fails(h) /\ Fault
  /\ behind' = IF handler[h].at \in {"reread", "version", "refresh"} THEN Pages ELSE behind
  /\ unversioned' = unversioned \cup
       IF handler[h].at \in {"reread", "version"} THEN {handler[h].id} ELSE {}
  /\ UNCHANGED <<tables, lists, links, posted, edits, deletes>>

(* The server stops and is started again: requests, sockets and what is    *)
(* under way on them are gone.                                             *)
Restart ==
  /\ Fault
  /\ handler' = [h \in Handlers |-> Idle]
  /\ fetch' = [p \in Pages |-> [k \in Fetches |-> NoFetch]]
  /\ open' = {} /\ wire' = [p \in Pages |-> <<>>]
  /\ behind' = IF \E h \in Handlers : handler[h] # Idle /\ handler[h].at \in
                                     {"reread", "version", "refresh", "publish"}
               THEN Pages ELSE behind \cup {p \in Pages : wire[p] # <<>> \/ Fetching(p)}
  /\ unversioned' = unversioned \cup
       {n \in Ids : \E h \in Handlers : /\ At(h, "reread") \/ At(h, "version")
                                        /\ handler[h].id = n}
  /\ UNCHANGED <<tables, shown, posted, edits, deletes>>

-----------------------------------------------------------------------------
(* Pages                                                                   *)

(* The answer reaches the page: a posted note is put in front, whether or  *)
(* not its message has come before; a deleted one disappears.              *)
Respond(h) ==
  /\ At(h, "respond") /\ handler' = [handler EXCEPT ![h] = Idle]
  /\ LET n == handler[h].id  p == handler[h].page
     IN  IF p \notin Pages THEN UNCHANGED shown
         ELSE IF handler[h].op = "deleted" THEN shown' = [shown EXCEPT ![p][n] = <<>>]
         ELSE shown' = [shown EXCEPT ![p][n] = <<handler[h].row>> \o @]
  /\ UNCHANGED <<tables, fetch, links, bounds, told>>

(* fetchNotes, on mounting or on Refresh: the notes of the last 24 hours.  *)
StartFetch(p) ==
  /\ \E k \in Fetches :
       /\ fetch[p][k] = NoFetch
       /\ fetch' = [fetch EXCEPT ![p][k] =
                      [n \in Ids |-> IF n \in old THEN Gone ELSE rows[n]]]
  /\ behind' = IF (\A h \in Handlers : handler[h] = Idle) /\ wire[p] = <<>> /\ ~Fetching(p)
               THEN behind \ {p} ELSE behind
  /\ UNCHANGED <<tables, handler, shown, links, bounds, unversioned>>

(* Mutant of FetchAnswered: the answer is merged into the list.            *)
FetchAnsweredMerging(p) ==
  \E k \in Fetches :
    /\ fetch[p][k] # NoFetch /\ fetch' = [fetch EXCEPT ![p][k] = NoFetch]
    /\ shown' = [shown EXCEPT ![p] =
                   [n \in Ids |-> IF fetch[p][k][n] = Gone THEN shown[p][n]
                                  ELSE <<fetch[p][k][n]>>]]
    /\ UNCHANGED <<tables, handler, links, bounds, told>>

(* setNotes(data): the list is replaced.                                   *)
FetchAnswered(p) ==
  \E k \in Fetches :
    /\ fetch[p][k] # NoFetch /\ fetch' = [fetch EXCEPT ![p][k] = NoFetch]
    /\ shown' = [shown EXCEPT ![p] =
                   [n \in Ids |-> IF fetch[p][k][n] = Gone THEN <<>>
                                  ELSE <<fetch[p][k][n]>>]]
    /\ UNCHANGED <<tables, handler, links, bounds, told>>

(* It fails: the list stays as it is.                                      *)
FetchFails(p) ==
  \E k \in Fetches :
    /\ fetch[p][k] # NoFetch /\ fetch' = [fetch EXCEPT ![p][k] = NoFetch]
    /\ Fault /\ behind' = behind \cup {p}
    /\ UNCHANGED <<tables, handler, shown, links, posted, edits, deletes, unversioned>>

Connect(p) ==
  /\ p \notin open /\ open' = open \cup {p}
  /\ UNCHANGED <<tables, handler, lists, wire, bounds, told>>

(* The connection is lost with what is under way.  Three seconds later the *)
(* page connects again; it does not fetch the list.                        *)
Cut(p) ==
  /\ p \in open /\ open' = open \ {p} /\ Fault
  /\ wire' = [wire EXCEPT ![p] = <<>>]
  /\ behind' = IF wire[p] = <<>> THEN behind ELSE behind \cup {p}
  /\ UNCHANGED <<tables, handler, lists, posted, edits, deletes, unversioned>>

(* Mutant of Merged: a note_created is not compared with the list.         *)
MergedBlindly(m, copies) ==
  CASE m.type = "created" -> <<m.row>> \o copies
    [] m.type = "updated" -> [i \in DOMAIN copies |-> m.row]
    [] m.type = "deleted" -> <<>>

(* What a message makes of the copies of its note.                         *)
Merged(m, copies) ==
  CASE m.type = "created" -> IF copies = <<>> THEN <<m.row>> ELSE copies
    [] m.type = "updated" -> [i \in DOMAIN copies |-> m.row]
    [] m.type = "deleted" -> <<>>

Receive(p) ==
  /\ wire[p] # <<>> /\ wire' = [wire EXCEPT ![p] = Tail(@)]
  /\ LET m == Head(wire[p])
     IN  shown' = [shown EXCEPT ![p][m.id] = Merged(m, @)]
  /\ UNCHANGED <<tables, handler, fetch, open, bounds, told>>

-----------------------------------------------------------------------------
(* 24 hours pass: no list holds the note from now on ...                   *)
GrowOld(n) ==
  /\ posted[n] # Gone /\ n \notin old /\ old' = old \cup {n}
  /\ UNCHANGED <<rows, versions, handler, lists, links, bounds, told>>

(* ... and the cleanup loop deletes it, without a message.                 *)
CleanUp ==
  /\ \E n \in old : rows[n] # Gone
  /\ rows' = [n \in Ids |-> IF n \in old THEN Gone ELSE rows[n]]
  /\ UNCHANGED <<versions, old, handler, lists, links, bounds, told>>

-----------------------------------------------------------------------------
Init ==
  /\ rows = [n \in Ids |-> Gone] /\ versions = [n \in Ids |-> {}] /\ old = {}
  /\ handler = [h \in Handlers |-> Idle]
  /\ shown = [p \in Pages |-> [n \in Ids |-> <<>>]]
  /\ fetch = [p \in Pages |-> [k \in Fetches |-> NoFetch]]
  /\ open = {} /\ wire = [p \in Pages |-> <<>>]
  /\ posted = [n \in Ids |-> Gone] /\ edits = Edits /\ deletes = MaxDeletes /\ faults = MaxFaults
  /\ behind = Pages /\ unversioned = {}

Serve(h) == \/ Reread(h) \/ AddVersion(h) \/ WriteUpdate(h) \/ DeleteRow(h) \/ Refresh(h)
            \/ Publish(h) \/ PublishFails(h) \/ Respond(h) \/ RequestFails(h)

Next ==
  \/ \E h \in Handlers :
       \/ Serve(h)
       \/ \E n \in Ids : \/ \E e \in Edits : ReadForUpdate(h, n, e)
                         \/ \E p \in Pages \cup {Nobody} :
                              Create(h, n, p) \/ ReadForDelete(h, p, n)
  \/ \E p \in Pages : \/ StartFetch(p) \/ FetchAnswered(p) \/ FetchFails(p)
                      \/ Connect(p) \/ Cut(p) \/ Receive(p)
  \/ \E n \in Ids : GrowOld(n)
  \/ CleanUp \/ Restart

Spec == Init /\ [][Next]_vars

-----------------------------------------------------------------------------
Request == [op : {"created", "updated", "deleted"},
            at : {"reread", "version", "write", "delete", "refresh", "publish", "respond"},
            id : Ids, page : Pages \cup {Nobody},
            row : {Gone} \cup Rows, new : {Gone} \cup Edits]
Message == [type : {"created", "updated", "deleted"}, id : Ids, row : {Gone} \cup Rows]

(* What stands for nothing is nothing that is held.                        *)
ASSUME MarkersAssumption ==
  /\ Gone \notin Rows /\ Idle \notin Request
  /\ NoFetch \notin [Ids -> {Gone} \cup Rows]

(* The tables, requests, lists and connections; a note in the table or     *)
(* with a version has been posted.                                         *)
TypeOK ==
  /\ rows \in [Ids -> {Gone} \cup Rows] /\ versions \in [Ids -> SUBSET Rows]
  /\ \A n \in Ids : rows[n] # Gone \/ versions[n] # {} => posted[n] # Gone
  /\ posted \in [Ids -> {Gone, Nobody} \cup Pages] /\ \A n \in old : posted[n] # Gone
  /\ handler \in [Handlers -> {Idle} \cup Request]
  /\ shown \in [Pages -> [Ids -> Seq(Rows)]]
  /\ fetch \in [Pages -> [Fetches -> {NoFetch} \cup [Ids -> {Gone} \cup Rows]]]
  /\ open \subseteq Pages /\ wire \in [Pages -> Seq(Message)]
  /\ edits \subseteq Edits /\ deletes \in 0..MaxDeletes /\ faults \in 0..MaxFaults
  /\ behind \subseteq Pages /\ unversioned \subseteq Ids

Stored(n) == IF rows[n] = Gone THEN {} ELSE {rows[n]}
Agrees(p) == \A n \in Ids \ old : Range(shown[p][n]) = Stored(n)
Quiet(p) == (\A h \in Handlers : handler[h] = Idle) /\ wire[p] = <<>> /\ ~Fetching(p)

(* Once requests, answers and messages are through, a page shows what is   *)
(* stored, unless it is behind: since its last list was asked for with     *)
(* nothing under way, a message of it was lost or never sent (no socket,   *)
(* no Redis, a request that died after its commit), a list failed or was   *)
(* under way during a commit, or two requests for one note overlapped.     *)
AgreesAtRest == \A p \in Pages : Quiet(p) /\ p \notin behind => Agrees(p)

(* A list shows a note twice only where it was posted, and never thrice:   *)
(* of message, answer and list each may come first.                        *)
CopiesOnlyOfOwn ==
  \A p \in Pages, n \in Ids :
    Len(shown[p][n]) <= IF posted[n] = p THEN 2 ELSE 1

(* What a page shows, however old the list or message that brought it and  *)
(* whatever edits it mixes, is in the history of the note: no text and no  *)
(* author on a page is without a version, the posted ones apart.           *)
ShownIsRecorded ==
  \A p \in Pages, n \in Ids : \A r \in Range(shown[p][n]) :
    /\ \E v \in versions[n] \cup {Draft[n]} : v.content = r.content
    /\ \E v \in versions[n] \cup {Draft[n]} : v.author = r.author

(* What overlapping edits leave in a row was written by some edit, column  *)
(* by column, and its history tells: no text, and no author, is without a  *)
(* version once the posting is through.  Only what was posted may be       *)
(* missing, and only for a posting that ended between its two commits.     *)
Recorded(n) == versions[n] \cup IF n \in unversioned THEN {Draft[n]} ELSE {}

HistoryKnowsColumns ==
  \A n \in Ids :
    rows[n] # Gone /\ (\A h \in Handlers : At(h, "reread") \/ At(h, "version")
                                           => handler[h].id # n) =>
      /\ \E v \in Recorded(n) : v.content = rows[n].content
      /\ \E v \in Recorded(n) : v.author = rows[n].author
================================================================================
