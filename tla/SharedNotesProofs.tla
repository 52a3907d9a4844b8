---------------------------- MODULE SharedNotesProofs ----------------------------
(***************************************************************************)
(* TypeOK, CopiesOnlyOfOwn, HistoryKnowsColumns, AgreesAtRest and          *)
(* ShownIsRecorded, for any number of pages, notes, requests and edits.    *)
(*                                                                         *)
(* CopiesOnlyOfOwn is not inductive: a note that a page shows twice would  *)
(* be shown thrice by the answer to its posting.  The invariant adds that  *)
(* it is shown twice only once that answer has been given, and that there  *)
(* is one posting per note, made by the page that posted it.               *)
(*                                                                         *)
(* AgreesAtRest speaks of the state after the last message; AInv says what *)
(* each message, list and answer on the way there will bring to a page     *)
(* that is not behind.  ShownIsRecorded speaks of the pages alone;         *)
(* AllRecorded says the same of every row that is on its way to one.       *)
(* HistoryKnowsColumns lacks what a posting under way is about to store as *)
(* its version (ColumnsKnown); of a posting that dies before, AllRecorded  *)
(* knows that what is stored was posted or has a version.                  *)
(***************************************************************************)
EXTENDS SharedNotes, SequenceTheorems, TLAPS

(* Requests as they are at their places: what they have read so far.       *)
Underway ==
  {r \in Request :
     /\ r.at \in {"reread", "version"} => r.op = "created"
     /\ r.at = "write" => r.op = "updated" /\ r.new \in Edits
     /\ r.at = "delete" => r.op = "deleted"
     /\ r.at = "refresh" => r.op # "deleted"
     /\ r.at \in {"version", "write"} => r.row \in Rows
     /\ r.at \in {"publish", "respond"} /\ r.op # "deleted" => r.row \in Rows
     /\ r.op = "updated" => r.page = Nobody}

(* Messages that bring a note bring its row.                               *)
Sendable == {m \in Message : m.type # "deleted" => m.row \in Rows}

(* A posting for note n has not been answered.                             *)
Posting(h, n) == handler[h] # Idle /\ handler[h].op = "created" /\ handler[h].id = n

TablesOK ==
  /\ rows \in [Ids -> {Gone} \cup Rows] /\ versions \in [Ids -> SUBSET Rows]
  /\ posted \in [Ids -> {Gone, Nobody} \cup Pages]
  /\ old \subseteq Ids
  /\ \A n \in Ids : rows[n] # Gone \/ versions[n] # {} \/ n \in old => posted[n] # Gone

HandlersOK ==
  /\ handler \in [Handlers -> {Idle} \cup Underway]
  /\ \A h \in Handlers : handler[h] # Idle =>
       /\ posted[handler[h].id] # Gone
       /\ handler[h].op = "created" => handler[h].page = posted[handler[h].id]
  /\ \A g, h \in Handlers : \A n \in Ids : Posting(g, n) /\ Posting(h, n) => g = h

ListsOK ==
  /\ shown \in [Pages -> [Ids -> Seq(Rows)]]
  /\ fetch \in [Pages -> [Fetches -> {NoFetch} \cup [Ids -> {Gone} \cup Rows]]]

LinksOK == open \subseteq Pages /\ wire \in [Pages -> Seq(Sendable)]

BoundsOK ==
  /\ edits \subseteq Edits /\ deletes \in 0..MaxDeletes /\ faults \in 0..MaxFaults
  /\ behind \subseteq Pages /\ unversioned \subseteq Ids

(* How often page p may show note n by now.                                *)
Limit(p, n) ==
  IF posted[n] = p /\ \A h \in Handlers : ~Posting(h, n) THEN 2 ELSE 1

CopiesOK == \A p \in Pages, n \in Ids : Len(shown[p][n]) <= Limit(p, n)

IInv == TablesOK /\ HandlersOK /\ ListsOK /\ LinksOK /\ BoundsOK /\ CopiesOK

-----------------------------------------------------------------------------
(* A request goes on, or ends: nobody else posts, and limits only grow.    *)
LEMMA HandlerStep ==
  ASSUME IInv, NEW h \in Handlers, handler[h] # Idle, UNCHANGED posted,
         NEW r \in {Idle} \cup Underway, handler' = [handler EXCEPT ![h] = r],
         r # Idle => /\ r.op = handler[h].op /\ r.id = handler[h].id
                     /\ r.page = handler[h].page
  PROVE  /\ HandlersOK'
         /\ \A p \in Pages, n \in Ids : Limit(p, n) <= Limit(p, n)'
         /\ UNCHANGED shown => CopiesOK'
<1>1. \A g \in Handlers : handler'[g] = IF g = h THEN r ELSE handler[g]
  BY DEF IInv, HandlersOK
<1>2. \A g \in Handlers : \A n \in Ids : Posting(g, n)' => Posting(g, n)
  BY <1>1 DEF Posting
<1>3. HandlersOK'
  <2>1. handler' \in [Handlers -> {Idle} \cup Underway]
    BY DEF IInv, HandlersOK
  <2>2. ASSUME NEW g \in Handlers, handler'[g] # Idle
        PROVE  /\ posted[handler'[g].id] # Gone
               /\ handler'[g].op = "created" => handler'[g].page = posted[handler'[g].id]
    BY <1>1, <2>2 DEF IInv, HandlersOK
  <2>3. \A f, g \in Handlers : \A n \in Ids : Posting(f, n)' /\ Posting(g, n)' => f = g
    BY <1>2 DEF IInv, HandlersOK
  <2> QED BY <2>1, <2>2, <2>3 DEF HandlersOK
<1>4. \A p \in Pages, n \in Ids : Limit(p, n) <= Limit(p, n)'
  BY <1>2 DEF Limit
<1>5. ASSUME UNCHANGED shown PROVE CopiesOK'
  <2>1. \A p \in Pages, n \in Ids : Limit(p, n) \in Nat /\ Limit(p, n)' \in Nat
    BY DEF Limit
  <2>2. \A p \in Pages, n \in Ids : Len(shown[p][n]) \in Nat
    BY LenProperties DEF IInv, ListsOK
  <2> QED BY <1>4, <1>5, <2>1, <2>2 DEF IInv, CopiesOK
<1> QED BY <1>3, <1>4, <1>5

(* A request that begins, other than a posting.                            *)
LEMMA BeginStep ==
  ASSUME IInv, NEW h \in Handlers, handler[h] = Idle, UNCHANGED <<posted, shown>>,
         NEW r \in Underway, handler' = [handler EXCEPT ![h] = r],
         r.op # "created", posted[r.id] # Gone
  PROVE  HandlersOK' /\ CopiesOK'
<1>1. \A g \in Handlers : handler'[g] = IF g = h THEN r ELSE handler[g]
  BY DEF IInv, HandlersOK
<1>2. \A g \in Handlers : \A n \in Ids : Posting(g, n)' => Posting(g, n)
  BY <1>1 DEF Posting
<1>3. \A g \in Handlers : \A n \in Ids : Posting(g, n) => Posting(g, n)'
  BY <1>1 DEF Posting
<1>4. HandlersOK'
  <2>1. handler' \in [Handlers -> {Idle} \cup Underway]
    BY DEF IInv, HandlersOK
  <2>2. ASSUME NEW g \in Handlers, handler'[g] # Idle
        PROVE  /\ posted[handler'[g].id] # Gone
               /\ handler'[g].op = "created" => handler'[g].page = posted[handler'[g].id]
    BY <1>1, <2>2 DEF IInv, HandlersOK
  <2>3. \A f, g \in Handlers : \A n \in Ids : Posting(f, n)' /\ Posting(g, n)' => f = g
    BY <1>2 DEF IInv, HandlersOK
  <2> QED BY <2>1, <2>2, <2>3 DEF HandlersOK
<1>5. \A p \in Pages, n \in Ids : Limit(p, n)' = Limit(p, n)
  BY <1>2, <1>3 DEF Limit
<1> QED BY <1>4, <1>5 DEF IInv, CopiesOK

-----------------------------------------------------------------------------
LEMMA InitInv == Init => IInv
<1> SUFFICES ASSUME Init PROVE IInv
  OBVIOUS
<1>1. TablesOK /\ LinksOK /\ BoundsOK
  BY NotesAssumption DEF Init, TablesOK, LinksOK, BoundsOK
<1>2. HandlersOK
  BY DEF Init, HandlersOK, Posting
<1>3. ListsOK
  BY DEF Init, ListsOK
<1>4. CopiesOK
  <2>1. \A p \in Pages, n \in Ids : shown[p][n] = <<>>
    BY DEF Init
  <2> QED BY <2>1 DEF CopiesOK, Limit
<1> QED BY <1>1, <1>2, <1>3, <1>4 DEF IInv

LEMMA CommittedOK ==
  ASSUME BoundsOK, NEW n, NEW h, Committed(n, h) PROVE behind' \subseteq Pages
BY DEF BoundsOK, Committed

(* A note is posted: its first request.                                    *)
LEMMA CreateInv ==
  ASSUME IInv, NEW h \in Handlers, NEW n \in Ids, NEW p \in Pages \cup {Nobody},
         Create(h, n, p)
  PROVE  IInv'
<1> DEFINE r == [op |-> "created", at |-> "reread", id |-> n, page |-> p,
                 row |-> Gone, new |-> Gone]
<1>1. /\ handler[h] = Idle /\ posted[n] = Gone /\ p # Gone
      /\ posted' = [posted EXCEPT ![n] = p] /\ rows' = [rows EXCEPT ![n] = Draft[n]]
      /\ handler' = [handler EXCEPT ![h] = r]
      /\ UNCHANGED <<versions, old, lists, links, edits, deletes, faults>>
  BY NotesAssumption DEF Create, Available
<1>2. r \in Underway
  BY DEF Underway, Request
<1>3. Draft[n] \in Rows
  BY NotesAssumption DEF Written, Range
<1>4. TablesOK'
  BY <1>1, <1>3 DEF IInv, TablesOK
<1>5. \A g \in Handlers : handler'[g] = IF g = h THEN r ELSE handler[g]
  BY <1>1 DEF IInv, HandlersOK
<1>6. \A m \in Ids : posted'[m] = IF m = n THEN p ELSE posted[m]
  BY <1>1 DEF IInv, TablesOK
<1>7. \A g \in Handlers : handler[g] # Idle => handler[g].id \in Ids \ {n}
  BY <1>1 DEF IInv, HandlersOK, Underway, Request
<1>8. HandlersOK'
  <2>1. handler' \in [Handlers -> {Idle} \cup Underway]
    BY <1>1, <1>2 DEF IInv, HandlersOK
  <2>2. ASSUME NEW g \in Handlers, handler'[g] # Idle
        PROVE  /\ posted'[handler'[g].id] # Gone
               /\ handler'[g].op = "created" => handler'[g].page = posted'[handler'[g].id]
    BY <1>1, <1>5, <1>6, <1>7, <2>2 DEF IInv, HandlersOK
  <2>3. \A f, g \in Handlers : \A m \in Ids : Posting(f, m)' /\ Posting(g, m)' => f = g
    BY <1>5, <1>7 DEF IInv, HandlersOK, Posting
  <2> QED BY <2>1, <2>2, <2>3 DEF HandlersOK
<1>9. CopiesOK'
  <2>1. ASSUME NEW q \in Pages, NEW m \in Ids PROVE Len(shown'[q][m]) <= Limit(q, m)'
    <3>1. CASE m = n
      <4>1. Limit(q, m) = 1
        BY <1>1, <3>1, NotesAssumption DEF Limit
      <4>2. Limit(q, m)' = 1 \/ Limit(q, m)' = 2
        BY DEF Limit
      <4>3. Len(shown[q][m]) \in Nat /\ shown' = shown
        BY <1>1, LenProperties DEF IInv, ListsOK, lists
      <4> QED BY <4>1, <4>2, <4>3 DEF IInv, CopiesOK
    <3>2. CASE m # n
      <4>1. \A g \in Handlers : Posting(g, m)' <=> Posting(g, m)
        BY <1>1, <1>5, <3>2 DEF Posting
      <4>2. Limit(q, m)' = Limit(q, m)
        BY <1>6, <3>2, <4>1 DEF Limit
      <4> QED BY <1>1, <4>2 DEF IInv, CopiesOK, lists
    <3> QED BY <3>1, <3>2
  <2> QED BY <2>1 DEF CopiesOK
<1>10. ListsOK' /\ LinksOK' /\ BoundsOK'
  BY <1>1, CommittedOK DEF IInv, ListsOK, LinksOK, BoundsOK, lists, links, Create
<1> QED BY <1>4, <1>8, <1>9, <1>10 DEF IInv

(* An edit or a deletion begins.                                           *)
LEMMA ReadForUpdateInv ==
  ASSUME IInv, NEW h \in Handlers, NEW n \in Ids, NEW e \in Edits, ReadForUpdate(h, n, e)
  PROVE  IInv'
<1> DEFINE r == [op |-> "updated", at |-> "write", id |-> n, page |-> Nobody,
                 row |-> rows[n], new |-> e]
<1>1. r \in Underway
  BY DEF ReadForUpdate, IInv, TablesOK, Underway, Request
<1>2. HandlersOK' /\ CopiesOK'
  <2>1. posted[r.id] # Gone
    BY DEF ReadForUpdate, IInv, TablesOK
  <2> QED BY <1>1, <2>1, BeginStep DEF ReadForUpdate, Available, lists
<1>3. TablesOK' /\ ListsOK' /\ LinksOK' /\ BoundsOK'
  BY DEF ReadForUpdate, IInv, TablesOK, ListsOK, LinksOK, BoundsOK, tables, lists, links, told
<1> QED BY <1>2, <1>3 DEF IInv

LEMMA ReadForDeleteInv ==
  ASSUME IInv, NEW h \in Handlers, NEW n \in Ids, NEW p \in Pages \cup {Nobody},
         ReadForDelete(h, p, n)
  PROVE  IInv'
<1> DEFINE r == [op |-> "deleted", at |-> "delete", id |-> n, page |-> p,
                 row |-> Gone, new |-> Gone]
<1>1. r \in Underway
  BY DEF Underway, Request
<1>2. HandlersOK' /\ CopiesOK'
  <2>1. posted[r.id] # Gone
    BY DEF ReadForDelete, IInv, TablesOK
  <2> QED BY <1>1, <2>1, BeginStep DEF ReadForDelete, Available, lists
<1>3. TablesOK' /\ ListsOK' /\ LinksOK'
  BY DEF ReadForDelete, IInv, TablesOK, ListsOK, LinksOK, tables, lists, links
<1>4. BoundsOK'
  BY NotesAssumption DEF ReadForDelete, IInv, BoundsOK, told
<1> QED BY <1>2, <1>3, <1>4 DEF IInv

-----------------------------------------------------------------------------
(* The steps of a request that change no list: it goes on or fails.        *)
LEMMA ServeStep ==
  ASSUME IInv, NEW h \in Handlers, handler[h] # Idle, UNCHANGED <<posted, lists>>,
         NEW r \in {Idle} \cup Underway, handler' = [handler EXCEPT ![h] = r],
         r # Idle => /\ r.op = handler[h].op /\ r.id = handler[h].id
                     /\ r.page = handler[h].page
  PROVE  HandlersOK' /\ CopiesOK' /\ ListsOK'
<1>1. HandlersOK' /\ CopiesOK'
  BY HandlerStep DEF lists
<1>2. ListsOK'
  BY DEF IInv, ListsOK, lists
<1> QED BY <1>1, <1>2

LEMMA RequestAt ==
  ASSUME IInv, NEW h \in Handlers, NEW place, At(h, place)
  PROVE  handler[h] # Idle /\ handler[h] \in Underway /\ handler[h].at = place
BY DEF At, IInv, HandlersOK

LEMMA RereadInv == ASSUME IInv, NEW h \in Handlers, Reread(h) PROVE IInv'
<1> DEFINE n == handler[h].id
           r == IF rows[n] = Gone THEN Idle
                ELSE [handler[h] EXCEPT !.at = "version", !.row = rows[n]]
<1>1. handler[h] # Idle /\ handler[h] \in Underway /\ handler[h].at = "reread"
  BY RequestAt DEF Reread
<1>2. handler' = [handler EXCEPT ![h] = r]
  BY DEF Reread, Fails, Hold
<1>3. rows[n] \in {Gone} \cup Rows
  BY <1>1 DEF IInv, TablesOK, Underway, Request
<1>4. /\ r \in {Idle} \cup Underway
      /\ r # Idle => r.op = handler[h].op /\ r.id = handler[h].id /\ r.page = handler[h].page
  BY <1>1, <1>3 DEF Underway, Request
<1>5. UNCHANGED <<tables, lists, links, bounds, told>>
  BY DEF Reread
<1>6. HandlersOK' /\ CopiesOK' /\ ListsOK'
  BY <1>1, <1>2, <1>4, <1>5, ServeStep DEF bounds
<1>7. TablesOK' /\ LinksOK' /\ BoundsOK'
  BY <1>5 DEF IInv, TablesOK, LinksOK, BoundsOK, tables, links, bounds, told
<1> QED BY <1>6, <1>7 DEF IInv

LEMMA AddVersionInv == ASSUME IInv, NEW h \in Handlers, AddVersion(h) PROVE IInv'
<1> DEFINE r == [handler[h] EXCEPT !.at = "refresh"]
<1>1. handler[h] # Idle /\ handler[h] \in Underway /\ handler[h].at = "version"
  BY RequestAt DEF AddVersion
<1>2. handler' = [handler EXCEPT ![h] = r]
  BY DEF AddVersion, Goto
<1>3. /\ r \in Underway
      /\ r.op = handler[h].op /\ r.id = handler[h].id /\ r.page = handler[h].page
  BY <1>1 DEF Underway, Request
<1>4. UNCHANGED <<rows, old, lists, links, bounds, told>>
  BY DEF AddVersion
<1>5. HandlersOK' /\ CopiesOK' /\ ListsOK'
  BY <1>1, <1>2, <1>3, <1>4, ServeStep DEF bounds
<1>6. TablesOK'
  <2>1. handler[h].id \in Ids /\ handler[h].row \in Rows /\ posted[handler[h].id] # Gone
    BY <1>1 DEF IInv, HandlersOK, Underway, Request
  <2> QED BY <1>4, <2>1 DEF AddVersion, IInv, TablesOK, bounds
<1>7. LinksOK' /\ BoundsOK'
  BY <1>4 DEF IInv, LinksOK, BoundsOK, links, bounds, told
<1> QED BY <1>5, <1>6, <1>7 DEF IInv

(* A row whose columns come from an edit or from itself.                   *)
LEMMA ChangedRow ==
  ASSUME NEW from, NEW to \in Rows, NEW now \in Rows PROVE Changed(from, to, now) \in Rows
BY DEF Changed, Rows

LEMMA WriteUpdateInv == ASSUME IInv, NEW h \in Handlers, WriteUpdate(h) PROVE IInv'
<1> DEFINE n == handler[h].id  from == handler[h].row  to == handler[h].new
           r == IF rows[n] = Gone /\ from # to THEN Idle
                ELSE [handler[h] EXCEPT !.at = "refresh"]
<1>1. handler[h] # Idle /\ handler[h] \in Underway /\ handler[h].at = "write"
  BY RequestAt DEF WriteUpdate
<1>2. n \in Ids /\ to \in Rows /\ posted[n] # Gone
  BY <1>1, NotesAssumption DEF IInv, HandlersOK, Underway, Request, Written
<1>3. handler' = [handler EXCEPT ![h] = r]
  BY DEF WriteUpdate, Fails, Goto
<1>4. /\ r \in {Idle} \cup Underway
      /\ r # Idle => r.op = handler[h].op /\ r.id = handler[h].id /\ r.page = handler[h].page
  BY <1>1 DEF Underway, Request
<1>5. UNCHANGED <<old, lists, links, bounds, unversioned>>
  BY DEF WriteUpdate
<1>6. HandlersOK' /\ CopiesOK' /\ ListsOK'
  BY <1>1, <1>3, <1>4, <1>5, ServeStep DEF bounds
<1>7. TablesOK'
  <2>1. CASE rows[n] = Gone /\ from # to
    BY <1>5, <2>1 DEF WriteUpdate, IInv, TablesOK, bounds
  <2>2. CASE ~(rows[n] = Gone /\ from # to)
    <3>1. /\ rows' = [rows EXCEPT ![n] = IF @ = Gone THEN Gone ELSE Changed(from, to, @)]
          /\ versions' = [versions EXCEPT ![n] = @ \cup {to}]
      BY <2>2 DEF WriteUpdate
    <3>2. rows[n] # Gone => Changed(from, to, rows[n]) \in Rows
      BY <1>2, ChangedRow DEF IInv, TablesOK
    <3> QED BY <1>2, <1>5, <3>1, <3>2 DEF IInv, TablesOK, bounds
  <2> QED BY <2>1, <2>2
<1>8. LinksOK' /\ BoundsOK'
  <2>1. behind' \subseteq Pages
    BY CommittedOK DEF WriteUpdate, IInv, BoundsOK
  <2> QED BY <1>5, <2>1 DEF IInv, LinksOK, BoundsOK, links, bounds, told
<1> QED BY <1>6, <1>7, <1>8 DEF IInv

LEMMA DeleteRowInv == ASSUME IInv, NEW h \in Handlers, DeleteRow(h) PROVE IInv'
<1> DEFINE r == [handler[h] EXCEPT !.at = "publish"]
<1>1. handler[h] # Idle /\ handler[h] \in Underway /\ handler[h].at = "delete"
  BY RequestAt DEF DeleteRow
<1>2. handler' = [handler EXCEPT ![h] = r]
  BY DEF DeleteRow, Goto
<1>3. /\ r \in Underway
      /\ r.op = handler[h].op /\ r.id = handler[h].id /\ r.page = handler[h].page
  BY <1>1 DEF Underway, Request
<1>4. UNCHANGED <<versions, old, lists, links, bounds, unversioned>>
  BY DEF DeleteRow
<1>5. HandlersOK' /\ CopiesOK' /\ ListsOK'
  BY <1>1, <1>2, <1>3, <1>4, ServeStep DEF bounds
<1>6. TablesOK'
  BY <1>4 DEF DeleteRow, IInv, TablesOK, bounds
<1>7. LinksOK' /\ BoundsOK'
  <2>1. behind' \subseteq Pages
    BY CommittedOK DEF DeleteRow, IInv
  <2> QED BY <1>4, <2>1 DEF IInv, LinksOK, BoundsOK, links, bounds, told
<1> QED BY <1>5, <1>6, <1>7 DEF IInv

LEMMA RefreshInv == ASSUME IInv, NEW h \in Handlers, Refresh(h) PROVE IInv'
<1> DEFINE n == handler[h].id
           r == IF rows[n] = Gone THEN Idle
                ELSE [handler[h] EXCEPT !.at = "publish", !.row = rows[n]]
<1>1. handler[h] # Idle /\ handler[h] \in Underway /\ handler[h].at = "refresh"
  BY RequestAt DEF Refresh
<1>2. handler' = [handler EXCEPT ![h] = r]
  BY DEF Refresh, Fails, Hold
<1>3. rows[n] \in {Gone} \cup Rows
  BY <1>1 DEF IInv, TablesOK, Underway, Request
<1>4. /\ r \in {Idle} \cup Underway
      /\ r # Idle => r.op = handler[h].op /\ r.id = handler[h].id /\ r.page = handler[h].page
  BY <1>1, <1>3 DEF Underway, Request
<1>5. UNCHANGED <<tables, lists, links, bounds, told>>
  BY DEF Refresh
<1>6. HandlersOK' /\ CopiesOK' /\ ListsOK'
  BY <1>1, <1>2, <1>4, <1>5, ServeStep DEF bounds
<1>7. TablesOK' /\ LinksOK' /\ BoundsOK'
  BY <1>5 DEF IInv, TablesOK, LinksOK, BoundsOK, tables, links, bounds, told
<1> QED BY <1>6, <1>7 DEF IInv

LEMMA SentOK ==
  ASSUME NEW h \in Handlers, handler[h] \in Underway, handler[h].at = "publish"
  PROVE  Sent(h) \in Sendable
BY DEF Underway, Request, Sent, Sendable, Message

LEMMA PublishInv ==
  ASSUME IInv, NEW h \in Handlers, Publish(h) \/ PublishFails(h) PROVE IInv'
<1> DEFINE r == [handler[h] EXCEPT !.at = "respond"]
<1>1. handler[h] # Idle /\ handler[h] \in Underway /\ handler[h].at = "publish"
  BY RequestAt DEF Publish, PublishFails
<1>2. handler' = [handler EXCEPT ![h] = r]
  BY DEF Publish, PublishFails, Goto
<1>3. /\ r \in Underway
      /\ r.op = handler[h].op /\ r.id = handler[h].id /\ r.page = handler[h].page
  BY <1>1 DEF Underway, Request
<1>4. UNCHANGED <<tables, lists, open, posted, edits, deletes>>
  BY DEF Publish, PublishFails, links, bounds, told
<1>5. HandlersOK' /\ CopiesOK' /\ ListsOK'
  BY <1>1, <1>2, <1>3, <1>4, ServeStep
<1>6. TablesOK'
  BY <1>4 DEF IInv, TablesOK, tables
<1>7. LinksOK'
  <2>1. CASE Publish(h)
    <3>1. \A p \in Pages : Append(wire[p], Sent(h)) \in Seq(Sendable)
      BY <1>1, SentOK DEF IInv, LinksOK
    <3> QED BY <1>4, <2>1, <3>1 DEF Publish, IInv, LinksOK
  <2>2. CASE PublishFails(h)
    BY <2>2 DEF PublishFails, IInv, LinksOK, links
  <2> QED BY <2>1, <2>2
<1>8. BoundsOK'
  BY <1>4, NotesAssumption DEF Publish, PublishFails, Fault, IInv, BoundsOK, bounds, told
<1> QED BY <1>5, <1>6, <1>7, <1>8 DEF IInv

-----------------------------------------------------------------------------
(* A list changes in what it shows of one note.                            *)
LEMMA ShownStep ==
  ASSUME IInv, NEW p \in Pages, NEW n \in Ids, NEW s \in Seq(Rows),
         shown' = [shown EXCEPT ![p][n] = s], UNCHANGED fetch
  PROVE  /\ ListsOK'
         /\ \A q \in Pages, m \in Ids :
              shown'[q][m] = IF q = p /\ m = n THEN s ELSE shown[q][m]
BY DEF IInv, ListsOK

(* Limits that do not shrink hold, where nothing is added.                 *)
LEMMA LimitsKept ==
  ASSUME IInv, NEW p \in Pages, NEW n \in Ids,
         \A q \in Pages, m \in Ids : Limit(q, m) <= Limit(q, m)',
         \A q \in Pages, m \in Ids : q # p \/ m # n => shown'[q][m] = shown[q][m],
         Len(shown'[p][n]) \in Nat, Len(shown'[p][n]) <= Limit(p, n)'
  PROVE  CopiesOK'
<1>1. \A q \in Pages, m \in Ids :
        /\ Limit(q, m) \in Nat /\ Limit(q, m)' \in Nat /\ Len(shown[q][m]) \in Nat
        /\ Len(shown[q][m]) <= Limit(q, m)
  BY LenProperties DEF Limit, IInv, ListsOK, CopiesOK
<1>2. ASSUME NEW q \in Pages, NEW m \in Ids PROVE Len(shown'[q][m]) <= Limit(q, m)'
  <2>1. CASE q = p /\ m = n
    BY <2>1
  <2>2. CASE q # p \/ m # n
    BY <1>1, <2>2
  <2> QED BY <2>1, <2>2
<1> QED BY <1>2 DEF CopiesOK

LEMMA RespondInv == ASSUME IInv, NEW h \in Handlers, Respond(h) PROVE IInv'
<1>1. handler[h] # Idle /\ handler[h] \in Underway /\ handler[h].at = "respond"
  BY RequestAt DEF Respond
<1>2. PICK n \in Ids, p \in Pages \cup {Nobody} : handler[h].id = n /\ handler[h].page = p
  BY <1>1 DEF Underway, Request
<1>3. UNCHANGED <<tables, fetch, links, bounds, told>> /\ handler' = [handler EXCEPT ![h] = Idle]
  BY DEF Respond
<1>4. HandlersOK' /\ \A q \in Pages, m \in Ids : Limit(q, m) <= Limit(q, m)'
  BY <1>1, <1>3, HandlerStep DEF bounds
<1>5. TablesOK' /\ LinksOK' /\ BoundsOK'
  BY <1>3 DEF IInv, TablesOK, LinksOK, BoundsOK, tables, links, bounds, told
<1>6. ListsOK' /\ CopiesOK'
  <2>1. CASE p \notin Pages
    <3>1. UNCHANGED shown
      BY <1>2, <2>1 DEF Respond
    <3> QED BY <1>1, <1>3, <3>1, HandlerStep DEF IInv, ListsOK, bounds
  <2>2. CASE p \in Pages /\ handler[h].op = "deleted"
    <3>1. shown' = [shown EXCEPT ![p][n] = <<>>]
      BY <1>2, <2>2 DEF Respond
    <3>2. /\ ListsOK' /\ shown'[p][n] = <<>>
          /\ \A q \in Pages, m \in Ids : q # p \/ m # n => shown'[q][m] = shown[q][m]
      <4>1. <<>> \in Seq(Rows) /\ p \in Pages /\ UNCHANGED fetch
        BY <1>3, <2>2
      <4>2. /\ ListsOK'
            /\ \A q \in Pages, m \in Ids :
                 shown'[q][m] = IF q = p /\ m = n THEN <<>> ELSE shown[q][m]
        BY <3>1, <4>1, ShownStep
      <4> QED BY <4>1, <4>2
    <3>3. Len(shown'[p][n]) = 0 /\ 0 <= Limit(p, n)'
      BY <3>2 DEF Limit
    <3> QED BY <1>2, <1>4, <2>2, <3>2, <3>3, LimitsKept
  <2>3. CASE p \in Pages /\ handler[h].op # "deleted"
    <3>1. PICK s : s = <<handler[h].row>> \o shown[p][n] /\ shown' = [shown EXCEPT ![p][n] = s]
      BY <1>2, <2>3 DEF Respond
    <3>2. handler[h].row \in Rows /\ handler[h].op = "created" /\ posted[n] = p
      BY <1>1, <1>2, <2>3, NotesAssumption DEF IInv, HandlersOK, Underway, Request
    <3>3. shown[p][n] \in Seq(Rows)
      BY <1>2, <2>3 DEF IInv, ListsOK
    <3>4. s \in Seq(Rows) /\ Len(s) = 1 + Len(shown[p][n]) /\ Len(shown[p][n]) \in Nat
      BY <3>1, <3>2, <3>3
    <3>5. Posting(h, n)
      BY <1>1, <1>2, <3>2 DEF Posting
    <3>6. Len(shown[p][n]) <= 1
      BY <1>2, <2>3, <3>5 DEF IInv, CopiesOK, Limit
    <3>7. \A g \in Handlers : ~Posting(g, n)'
      <4>1. \A g \in Handlers : g # h => ~Posting(g, n)
        BY <1>2, <3>5 DEF IInv, HandlersOK
      <4>2. \A g \in Handlers : handler'[g] = IF g = h THEN Idle ELSE handler[g]
        BY <1>3 DEF IInv, HandlersOK
      <4> QED BY <4>1, <4>2 DEF Posting
    <3>8. Limit(p, n)' = 2
      BY <1>3, <3>2, <3>7 DEF Limit, bounds
    <3>9. /\ ListsOK' /\ shown'[p][n] = s
          /\ \A q \in Pages, m \in Ids : q # p \/ m # n => shown'[q][m] = shown[q][m]
      <4>1. s \in Seq(Rows) /\ p \in Pages /\ UNCHANGED fetch
        BY <1>3, <2>3, <3>1, <3>4
      <4>2. shown' = [shown EXCEPT ![p][n] = s]
        BY <3>1
      <4>3. /\ ListsOK'
            /\ \A q \in Pages, m \in Ids :
                 shown'[q][m] = IF q = p /\ m = n THEN s ELSE shown[q][m]
        BY <4>1, <4>2, ShownStep
      <4> QED BY <4>1, <4>3
    <3> QED BY <1>2, <1>4, <2>3, <3>4, <3>6, <3>8, <3>9, LimitsKept
  <2> QED BY <2>1, <2>2, <2>3
<1> QED BY <1>4, <1>5, <1>6 DEF IInv

(* What leaves requests, postings and lists alone.                         *)
LEMMA NothingHappens ==
  ASSUME IInv, UNCHANGED <<handler, posted>>
  PROVE  /\ HandlersOK'
         /\ \A p \in Pages, n \in Ids : Limit(p, n)' = Limit(p, n)
         /\ UNCHANGED shown => CopiesOK'
<1>1. HandlersOK'
  BY DEF IInv, HandlersOK, Posting
<1>2. \A p \in Pages, n \in Ids : Limit(p, n)' = Limit(p, n)
  BY DEF Limit, Posting
<1> QED BY <1>1, <1>2 DEF IInv, CopiesOK

LEMMA StartFetchInv == ASSUME IInv, NEW p \in Pages, StartFetch(p) PROVE IInv'
<1>1. UNCHANGED <<tables, handler, shown, links, bounds, unversioned>>
  BY DEF StartFetch
<1>2. TablesOK' /\ LinksOK' /\ BoundsOK'
  BY <1>1 DEF StartFetch, IInv, TablesOK, LinksOK, BoundsOK, tables, links, bounds, told
<1>3. ListsOK'
  BY <1>1 DEF StartFetch, IInv, TablesOK, ListsOK
<1> QED BY <1>1, <1>2, <1>3, NothingHappens DEF IInv, bounds

LEMMA FetchAnsweredInv == ASSUME IInv, NEW p \in Pages, FetchAnswered(p) PROVE IInv'
<1>1. PICK k \in Fetches :
        /\ fetch[p][k] # NoFetch /\ fetch' = [fetch EXCEPT ![p][k] = NoFetch]
        /\ shown' = [shown EXCEPT ![p] =
                       [n \in Ids |-> IF fetch[p][k][n] = Gone THEN <<>>
                                      ELSE <<fetch[p][k][n]>>]]
        /\ UNCHANGED <<tables, handler, links, bounds, told>>
  BY DEF FetchAnswered
<1>2. TablesOK' /\ LinksOK' /\ BoundsOK'
  BY <1>1 DEF IInv, TablesOK, LinksOK, BoundsOK, tables, links, bounds, told
<1>3. fetch[p][k] \in [Ids -> {Gone} \cup Rows]
  BY <1>1 DEF IInv, ListsOK
<1>4. \A n \in Ids : /\ shown'[p][n] \in Seq(Rows) /\ Len(shown'[p][n]) <= 1
                      /\ Len(shown'[p][n]) \in Nat
  BY <1>1, <1>3 DEF IInv, ListsOK
<1>5. \A q \in Pages : q # p => shown'[q] = shown[q]
  BY <1>1 DEF IInv, ListsOK
<1>6. ListsOK'
  <2>1. fetch' \in [Pages -> [Fetches -> {NoFetch} \cup [Ids -> {Gone} \cup Rows]]]
    BY <1>1 DEF IInv, ListsOK
  <2>2. [n \in Ids |-> IF fetch[p][k][n] = Gone THEN <<>> ELSE <<fetch[p][k][n]>>]
          \in [Ids -> Seq(Rows)]
    BY <1>3
  <2> QED BY <1>1, <2>1, <2>2 DEF IInv, ListsOK
<1>7. CopiesOK'
  <2>1. ASSUME NEW q \in Pages, NEW m \in Ids PROVE Len(shown'[q][m]) <= Limit(q, m)'
    <3>1. Limit(q, m)' = Limit(q, m) /\ (Limit(q, m) = 1 \/ Limit(q, m) = 2)
      BY <1>1, NothingHappens DEF Limit, bounds
    <3>2. CASE q = p
      BY <1>4, <3>1, <3>2
    <3>3. CASE q # p
      BY <1>5, <3>1, <3>3 DEF IInv, CopiesOK
    <3> QED BY <3>2, <3>3
  <2> QED BY <2>1 DEF CopiesOK
<1> QED BY <1>1, <1>2, <1>6, <1>7, NothingHappens DEF IInv, bounds

LEMMA FetchFailsInv == ASSUME IInv, NEW p \in Pages, FetchFails(p) PROVE IInv'
<1>1. UNCHANGED <<tables, handler, shown, links, posted, edits, deletes>>
  BY DEF FetchFails
<1>2. TablesOK' /\ LinksOK' /\ ListsOK'
  BY <1>1 DEF FetchFails, IInv, TablesOK, LinksOK, ListsOK, tables, links
<1>3. BoundsOK'
  BY <1>1, NotesAssumption DEF FetchFails, Fault, IInv, BoundsOK
<1> QED BY <1>1, <1>2, <1>3, NothingHappens DEF IInv

LEMMA ConnectionInv == ASSUME IInv, NEW p \in Pages, Connect(p) \/ Cut(p) PROVE IInv'
<1>1. UNCHANGED <<tables, handler, lists, posted, edits, deletes>>
  BY DEF Connect, Cut, bounds
<1>2. TablesOK' /\ ListsOK'
  BY <1>1 DEF IInv, TablesOK, ListsOK, tables, lists
<1>3. LinksOK'
  <2>1. <<>> \in Seq(Sendable) /\ wire \in [Pages -> Seq(Sendable)] /\ open \subseteq Pages
    BY DEF IInv, LinksOK
  <2>2. wire' = wire \/ wire' = [wire EXCEPT ![p] = <<>>]
    BY DEF Connect, Cut
  <2>3. wire' \in [Pages -> Seq(Sendable)]
    BY <2>1, <2>2
  <2>4. open' \subseteq Pages
    BY <2>1 DEF Connect, Cut
  <2> QED BY <2>3, <2>4 DEF LinksOK
<1>4. BoundsOK'
  BY <1>1, NotesAssumption DEF Connect, Cut, Fault, IInv, BoundsOK, bounds, told
<1> QED BY <1>1, <1>2, <1>3, <1>4, NothingHappens DEF IInv, lists

(* A message adds a copy where there is none, and keeps or takes others.   *)
LEMMA MergedCopies ==
  ASSUME NEW m \in Sendable, NEW copies \in Seq(Rows)
  PROVE  /\ Merged(m, copies) \in Seq(Rows) /\ Len(Merged(m, copies)) \in Nat
         /\ Len(Merged(m, copies)) <= 1 \/ Len(Merged(m, copies)) = Len(copies)
<1>1. m.type \in {"created", "updated", "deleted"}
  BY DEF Sendable, Message
<1>2. CASE m.type = "created"
  BY <1>2 DEF Merged, Sendable
<1>3. CASE m.type = "updated"
  <2>1. m.row \in Rows
    BY <1>3 DEF Sendable
  <2>2. Merged(m, copies) = [i \in 1..Len(copies) |-> m.row] /\ Len(copies) \in Nat
    BY <1>3, LenProperties DEF Merged
  <2> QED BY <2>1, <2>2
<1>4. CASE m.type = "deleted"
  BY <1>4 DEF Merged
<1> QED BY <1>1, <1>2, <1>3, <1>4

LEMMA ReceiveInv == ASSUME IInv, NEW p \in Pages, Receive(p) PROVE IInv'
<1>1. /\ wire[p] # <<>> /\ wire' = [wire EXCEPT ![p] = Tail(@)]
      /\ UNCHANGED <<tables, handler, fetch, open, bounds, told>>
  BY DEF Receive
<1>2. PICK m \in Sendable : m = Head(wire[p])
  BY <1>1, HeadTailProperties DEF IInv, LinksOK
<1>3. PICK n \in Ids : n = m.id
  BY DEF Sendable, Message
<1>4. shown[p][n] \in Seq(Rows) /\ Len(shown[p][n]) \in Nat
  BY LenProperties DEF IInv, ListsOK
<1>5. PICK s \in Seq(Rows) :
        /\ shown' = [shown EXCEPT ![p][n] = s] /\ Len(s) \in Nat
        /\ Len(s) <= 1 \/ Len(s) = Len(shown[p][n])
  <2>1. shown' = [shown EXCEPT ![p][n] = Merged(m, shown[p][n])]
    BY <1>2, <1>3 DEF Receive
  <2> QED BY <1>4, <2>1, MergedCopies
<1>6. /\ ListsOK'
      /\ \A q \in Pages, i \in Ids :
           shown'[q][i] = IF q = p /\ i = n THEN s ELSE shown[q][i]
  BY <1>1, <1>5, ShownStep
<1>7. HandlersOK' /\ \A q \in Pages, i \in Ids : Limit(q, i)' = Limit(q, i)
  BY <1>1, NothingHappens DEF bounds
<1>8. TablesOK' /\ BoundsOK'
  BY <1>1 DEF IInv, TablesOK, BoundsOK, tables, bounds, told
<1>9. LinksOK'
  <2>1. Tail(wire[p]) \in Seq(Sendable)
    BY <1>1, HeadTailProperties DEF IInv, LinksOK
  <2> QED BY <1>1, <2>1 DEF IInv, LinksOK
<1>10. CopiesOK'
  <2>1. \A q \in Pages, i \in Ids : Limit(q, i) \in {1, 2}
    BY DEF Limit
  <2>2. Len(shown[p][n]) <= Limit(p, n)
    BY DEF IInv, CopiesOK
  <2>3. Len(s) <= Limit(p, n)'
    BY <1>4, <1>5, <1>7, <2>1, <2>2
  <2>4. \A q \in Pages, i \in Ids : Limit(q, i) <= Limit(q, i)'
    BY <1>7, <2>1
  <2>5. /\ \A q \in Pages, i \in Ids : q # p \/ i # n => shown'[q][i] = shown[q][i]
        /\ shown'[p][n] = s
    BY <1>6
  <2> QED BY <1>5, <2>3, <2>4, <2>5, LimitsKept
<1> QED BY <1>6, <1>7, <1>8, <1>9, <1>10 DEF IInv

LEMMA AgeInv == ASSUME IInv, (\E n \in Ids : GrowOld(n)) \/ CleanUp PROVE IInv'
<1>1. UNCHANGED <<versions, handler, lists, links, bounds, told>>
  BY DEF GrowOld, CleanUp
<1>2. TablesOK'
  <2>1. CASE \E n \in Ids : GrowOld(n)
    BY <1>1, <2>1 DEF GrowOld, IInv, TablesOK, bounds
  <2>2. CASE CleanUp
    BY <1>1, <2>2 DEF CleanUp, IInv, TablesOK, bounds
  <2> QED BY <2>1, <2>2
<1>3. ListsOK' /\ LinksOK' /\ BoundsOK'
  BY <1>1 DEF IInv, ListsOK, LinksOK, BoundsOK, lists, links, bounds, told
<1> QED BY <1>1, <1>2, <1>3, NothingHappens DEF IInv, lists, bounds

(* A request dies, or all of them do: no posting is left that was not.     *)
LEMMA RequestFailsInv == ASSUME IInv, NEW h \in Handlers, RequestFails(h) PROVE IInv'
<1>1. handler[h] # Idle /\ handler' = [handler EXCEPT ![h] = Idle]
  BY DEF RequestFails, Fails
<1>2. UNCHANGED <<tables, lists, links, posted, edits, deletes>>
  BY DEF RequestFails
<1>3. HandlersOK' /\ CopiesOK' /\ ListsOK'
  BY <1>1, <1>2, ServeStep
<1>4. TablesOK' /\ LinksOK'
  BY <1>2 DEF IInv, TablesOK, LinksOK, tables, links
<1>5. BoundsOK'
  <2>1. handler[h].id \in Ids
    BY <1>1 DEF IInv, HandlersOK, Underway, Request
  <2>2. behind' \subseteq Pages /\ unversioned' \subseteq Ids
    BY <2>1 DEF RequestFails, IInv, BoundsOK
  <2> QED BY <1>2, <2>2, NotesAssumption DEF RequestFails, Fault, IInv, BoundsOK
<1> QED BY <1>3, <1>4, <1>5 DEF IInv

LEMMA RestartInv == ASSUME IInv, Restart PROVE IInv'
<1>1. /\ handler' = [h \in Handlers |-> Idle]
      /\ fetch' = [p \in Pages |-> [k \in Fetches |-> NoFetch]]
      /\ open' = {} /\ wire' = [p \in Pages |-> <<>>]
      /\ UNCHANGED <<tables, shown, posted, edits, deletes>>
  BY DEF Restart
<1>2. HandlersOK'
  BY <1>1 DEF HandlersOK, Posting
<1>3. TablesOK' /\ LinksOK' /\ ListsOK'
  BY <1>1 DEF IInv, TablesOK, LinksOK, ListsOK, tables
<1>4. BoundsOK'
  <2>1. behind' \subseteq Pages /\ unversioned' \subseteq Ids
    BY DEF Restart, IInv, BoundsOK
  <2> QED BY <1>1, <2>1, NotesAssumption DEF Restart, Fault, IInv, BoundsOK
<1>5. CopiesOK'
  <2>1. \A p \in Pages, n \in Ids : Limit(p, n) <= Limit(p, n)'
    BY <1>1 DEF Limit, Posting
  <2>2. \A p \in Pages, n \in Ids : Limit(p, n) \in Nat /\ Limit(p, n)' \in Nat
    BY DEF Limit
  <2>3. \A p \in Pages, n \in Ids : Len(shown[p][n]) \in Nat
    BY LenProperties DEF IInv, ListsOK
  <2> QED BY <1>1, <2>1, <2>2, <2>3 DEF IInv, CopiesOK
<1> QED BY <1>2, <1>3, <1>4, <1>5 DEF IInv

LEMMA NextInv == IInv /\ [Next]_vars => IInv'
<1> SUFFICES ASSUME IInv, [Next]_vars PROVE IInv'
  OBVIOUS
<1>1. ASSUME NEW h \in Handlers, Serve(h) PROVE IInv'
  BY <1>1, RereadInv, AddVersionInv, WriteUpdateInv, DeleteRowInv, RefreshInv,
     PublishInv, RespondInv, RequestFailsInv DEF Serve
<1>2. ASSUME NEW h \in Handlers, NEW n \in Ids,
             \/ \E e \in Edits : ReadForUpdate(h, n, e)
             \/ \E p \in Pages \cup {Nobody} : Create(h, n, p) \/ ReadForDelete(h, p, n)
      PROVE  IInv'
  BY <1>2, CreateInv, ReadForUpdateInv, ReadForDeleteInv
<1>3. ASSUME NEW p \in Pages,
             \/ StartFetch(p) \/ FetchAnswered(p) \/ FetchFails(p)
             \/ Connect(p) \/ Cut(p) \/ Receive(p)
      PROVE  IInv'
  BY <1>3, StartFetchInv, FetchAnsweredInv, FetchFailsInv, ConnectionInv, ReceiveInv
<1>4. ASSUME UNCHANGED vars PROVE IInv'
  <2>1. TablesOK' /\ ListsOK' /\ LinksOK' /\ BoundsOK'
    BY <1>4 DEF IInv, vars, tables, lists, links, bounds, told,
                TablesOK, ListsOK, LinksOK, BoundsOK
  <2> QED BY <1>4, <2>1, NothingHappens DEF IInv, vars, lists, bounds
<1> QED BY <1>1, <1>2, <1>3, <1>4, AgeInv, RestartInv DEF Next

-----------------------------------------------------------------------------
(* The tables, requests, lists and connections keep their shape, and no    *)
(* note is stored or has a version that was not posted (routes/notes.py,   *)
(* SharedNotes.tsx).                                                       *)
THEOREM NotesTypeOK == Spec => []TypeOK
<1>1. IInv => TypeOK
  <2> SUFFICES ASSUME IInv PROVE TypeOK
    OBVIOUS
  <2>1. handler \in [Handlers -> {Idle} \cup Request]
    BY DEF IInv, HandlersOK, Underway
  <2>2. wire \in [Pages -> Seq(Message)]
    <3>1. Sendable \subseteq Message
      BY DEF Sendable
    <3>2. \A p \in Pages : wire[p] \in Seq(Message)
      BY <3>1, SeqMonotonic DEF IInv, LinksOK
    <3> QED BY <3>2 DEF IInv, LinksOK
  <2> QED BY <2>1, <2>2 DEF TypeOK, IInv, TablesOK, ListsOK, LinksOK, BoundsOK
<1> QED BY InitInv, NextInv, <1>1, PTL DEF Spec

(* However lists, messages and the answer to its posting come, a list      *)
(* shows a note twice only where it was posted, and never thrice           *)
(* (SharedNotes.tsx: handleAddNote, fetchNotes, onmessage).                 *)
THEOREM NoNeedlessCopies == Spec => []CopiesOnlyOfOwn
<1>1. IInv => CopiesOnlyOfOwn
  <2> SUFFICES ASSUME IInv, NEW p \in Pages, NEW n \in Ids
               PROVE  Len(shown[p][n]) <= IF posted[n] = p THEN 2 ELSE 1
    BY DEF CopiesOnlyOfOwn
  <2>1. Len(shown[p][n]) \in Nat
    BY LenProperties DEF IInv, ListsOK
  <2>2. Len(shown[p][n]) <= Limit(p, n)
    BY DEF IInv, CopiesOK
  <2> QED BY <2>1, <2>2 DEF Limit
<1> QED BY InitInv, NextInv, <1>1, PTL DEF Spec

-----------------------------------------------------------------------------
(* Requests for note n: all of them, those that have yet to commit or to   *)
(* begin a deletion, those committed with their message to come, and those *)
(* that carry the row they send or have sent.                              *)
For(h, n) == handler[h] # Idle /\ handler[h].id = n
Writing(h) == handler[h].at \in {"write", "delete"}
Unsent(h, n) == For(h, n) /\ handler[h].at \in {"reread", "version", "refresh", "publish"}
Published(h) == handler[h].at = "publish" \/ handler[h].at = "respond"

(* As long as a page is not behind, one request for a note is past its     *)
(* commit at a time, what it sends is stored, and deletions leave nothing. *)
RequestsOK(n) ==
  /\ \A g, h \in Handlers : For(g, n) /\ For(h, n) /\ ~Writing(g) /\ ~Writing(h) => g = h
  /\ \A h \in Handlers : For(h, n) =>
       /\ handler[h].op # "deleted" \/ Writing(h) => rows[n] # Gone
       /\ handler[h].op = "deleted" /\ ~Writing(h) => rows[n] = Gone
       /\ handler[h].op # "deleted" /\ Published(h) => handler[h].row = rows[n]

(* Messages under way for note n: none, one of type t, in the order of     *)
(* their commits, and the last one with row r.                             *)
Clear(w, n) == \A i \in DOMAIN w : w[i].id # n
Has(w, n, t) == \E i \in DOMAIN w : w[i].id = n /\ w[i].type = t
InOrder(w, n) ==
  \A i, j \in DOMAIN w :
    i < j /\ w[i].id = n /\ w[j].id = n =>
      w[j].type # "created" /\ (w[i].type = "deleted" => w[j].type = "deleted")
LastIs(w, n, r) ==
  \A i \in DOMAIN w :
    w[i].id = n /\ (\A j \in DOMAIN w : i < j => w[j].id # n) => w[i].row = r

(* Nothing more will be sent for note n; page p shows it or is about to.   *)
Settled(n) == \A h \in Handlers : ~Unsent(h, n)
Kept(p, n) == shown[p][n] # <<>> \/ Has(wire[p], n, "created")

(* What page p knows of note n, or will from the messages and the list     *)
(* under way: ...                                                          *)
WireOK(p, n) ==
  InOrder(wire[p], n) /\ (Has(wire[p], n, "deleted") => rows[n] = Gone)
(* ... once all is sent, the last message, or the list, is what is stored, *)
SettledOK(p, n) ==
  Settled(n) =>
    /\ rows[n] = Gone =>
         \/ Has(wire[p], n, "deleted")
         \/ Clear(wire[p], n) /\ (~Fetching(p) => shown[p][n] = <<>>)
    /\ rows[n] # Gone =>
         /\ LastIs(wire[p], n, rows[n])
         /\ ~Fetching(p) =>
              /\ Kept(p, n)
              /\ ~Has(wire[p], n, "updated") => Range(shown[p][n]) \subseteq {rows[n]}
(* ... before, nothing is known of a new note, and a changed one is shown, *)
UnsentOK(p, n) ==
  \A h \in Handlers : Unsent(h, n) =>
    /\ handler[h].op = "created" =>
         Clear(wire[p], n) /\ (~Fetching(p) => Range(shown[p][n]) \subseteq {rows[n]})
    /\ handler[h].op = "updated" /\ ~Fetching(p) => Kept(p, n)
(* ... and a list under way holds what is stored.                          *)
FetchOK(p, n) ==
  \A k \in Fetches : fetch[p][k] # NoFetch => fetch[p][k][n] = rows[n]

UnpostedOK == \A n \in Ids : posted[n] = Gone => \A p \in Pages : Clear(wire[p], n)
Ready(p, n) == RequestsOK(n) /\ WireOK(p, n) /\ SettledOK(p, n) /\ UnsentOK(p, n) /\ FetchOK(p, n)
PagesOK == \A p \in Pages \ behind : \A n \in Ids \ old : Ready(p, n)
AInv == UnpostedOK /\ PagesOK

-----------------------------------------------------------------------------
(* What a message at the end, or the loss of the one in front, does to the *)
(* messages for a note.                                                    *)
LEMMA AppendFacts ==
  ASSUME NEW S, NEW w \in Seq(S), NEW m \in S
  PROVE  /\ Len(w) \in Nat /\ DOMAIN w = 1..Len(w)
         /\ DOMAIN Append(w, m) = 1..(Len(w) + 1)
         /\ Append(w, m)[Len(w) + 1] = m
         /\ \A i \in 1..Len(w) : Append(w, m)[i] = w[i]
OBVIOUS

LEMMA TailFacts ==
  ASSUME NEW S, NEW w \in Seq(S), w # <<>>
  PROVE  /\ Len(w) \in Nat \ {0} /\ DOMAIN w = 1..Len(w) /\ Head(w) = w[1]
         /\ DOMAIN Tail(w) = 1..(Len(w) - 1)
         /\ \A i \in 1..(Len(w) - 1) : Tail(w)[i] = w[i + 1]
BY EmptySeq

LEMMA AppendOther ==
  ASSUME NEW S, NEW w \in Seq(S), NEW m \in S, NEW n, m.id # n, NEW r
  PROVE  /\ Clear(w, n) <=> Clear(Append(w, m), n)
         /\ \A t : Has(w, n, t) <=> Has(Append(w, m), n, t)
         /\ InOrder(w, n) => InOrder(Append(w, m), n)
         /\ LastIs(w, n, r) => LastIs(Append(w, m), n, r)
<1> DEFINE k == Len(w)  v == Append(w, m)
<1>1. /\ k \in Nat /\ DOMAIN w = 1..k /\ DOMAIN v = 1..(k + 1)
      /\ v[k + 1] = m /\ \A i \in 1..k : v[i] = w[i]
  BY AppendFacts
<1> HIDE DEF k, v
<1>2. \A i \in 1..(k + 1) : v[i].id = n => i \in 1..k
  BY <1>1
<1>3. \A i \in 1..k : i \in 1..(k + 1)
  BY <1>1
<1>4. Clear(w, n) <=> Clear(v, n)
  BY <1>1, <1>2, <1>3 DEF Clear
<1>5. ASSUME NEW t PROVE Has(w, n, t) <=> Has(v, n, t)
  BY <1>1, <1>2, <1>3 DEF Has
<1>6. InOrder(w, n) => InOrder(v, n)
  BY <1>1, <1>2 DEF InOrder
<1>7. ASSUME LastIs(w, n, r) PROVE LastIs(v, n, r)
  BY <1>1, <1>2, <1>3, <1>7 DEF LastIs
<1> QED BY <1>4, <1>5, <1>6, <1>7 DEF v

LEMMA AppendOwn ==
  ASSUME NEW S, NEW w \in Seq(S), NEW m \in S, NEW n, m.id = n
  PROVE  /\ \A t : Has(Append(w, m), n, t) <=> Has(w, n, t) \/ m.type = t
         /\ InOrder(w, n) /\ (m.type = "created" => Clear(w, n))
            /\ (Has(w, n, "deleted") => m.type = "deleted") => InOrder(Append(w, m), n)
         /\ LastIs(Append(w, m), n, m.row)
<1> DEFINE k == Len(w)  v == Append(w, m)
<1>1. /\ k \in Nat /\ DOMAIN w = 1..k /\ DOMAIN v = 1..(k + 1)
      /\ v[k + 1] = m /\ \A i \in 1..k : v[i] = w[i]
  BY AppendFacts
<1> HIDE DEF k, v
<1>2. /\ \A i \in 1..(k + 1) : i \in 1..k \/ i = k + 1
      /\ \A i \in 1..k : i \in 1..(k + 1) /\ i < k + 1
      /\ k + 1 \in 1..(k + 1)
  BY <1>1
<1>3. ASSUME NEW t PROVE Has(v, n, t) <=> Has(w, n, t) \/ m.type = t
  BY <1>1, <1>2 DEF Has
<1>4. ASSUME InOrder(w, n), m.type = "created" => Clear(w, n),
             Has(w, n, "deleted") => m.type = "deleted"
      PROVE  InOrder(v, n)
  <2>1. ASSUME NEW i \in 1..(k + 1), NEW j \in 1..(k + 1), i < j, v[i].id = n, v[j].id = n
        PROVE  v[j].type # "created" /\ (v[i].type = "deleted" => v[j].type = "deleted")
    <3>1. i \in 1..k /\ v[i] = w[i]
      BY <1>1, <2>1
    <3>2. CASE j \in 1..k
      BY <1>1, <1>4, <2>1, <3>1, <3>2 DEF InOrder
    <3>3. CASE j = k + 1
      BY <1>1, <1>4, <2>1, <3>1, <3>3 DEF Clear, Has
    <3> QED BY <1>2, <3>2, <3>3
  <2> QED BY <1>1, <2>1 DEF InOrder
<1>5. LastIs(v, n, m.row)
  BY <1>1, <1>2 DEF LastIs
<1> QED BY <1>3, <1>4, <1>5 DEF v

LEMMA TailOther ==
  ASSUME NEW S, NEW w \in Seq(S), w # <<>>, NEW n, Head(w).id # n, NEW r
  PROVE  /\ Clear(w, n) <=> Clear(Tail(w), n)
         /\ \A t : Has(w, n, t) <=> Has(Tail(w), n, t)
         /\ InOrder(w, n) => InOrder(Tail(w), n)
         /\ LastIs(w, n, r) => LastIs(Tail(w), n, r)
<1> DEFINE k == Len(w)  v == Tail(w)
<1>1. /\ k \in Nat \ {0} /\ DOMAIN w = 1..k /\ DOMAIN v = 1..(k - 1)
      /\ w[1].id # n /\ \A i \in 1..(k - 1) : v[i] = w[i + 1]
  BY TailFacts
<1> HIDE DEF k, v
<1>2. \A i \in 1..(k - 1) : i + 1 \in 1..k
  BY <1>1
<1>3. \A i \in 1..k : w[i].id = n => i - 1 \in 1..(k - 1) /\ v[i - 1] = w[i]
  <2>1. ASSUME NEW i \in 1..k, i # 1 PROVE i - 1 \in 1..(k - 1) /\ (i - 1) + 1 = i
    BY <1>1, <2>1
  <2> QED BY <1>1, <2>1
<1>4. Clear(w, n) <=> Clear(v, n)
  BY <1>1, <1>2, <1>3 DEF Clear
<1>5. ASSUME NEW t PROVE Has(w, n, t) <=> Has(v, n, t)
  <2>1. ASSUME NEW i \in 1..k, w[i].id = n, w[i].type = t PROVE Has(v, n, t)
    BY <1>1, <1>3, <2>1 DEF Has
  <2>2. ASSUME NEW i \in 1..(k - 1), v[i].id = n, v[i].type = t PROVE Has(w, n, t)
    BY <1>1, <1>2, <2>2 DEF Has
  <2> QED BY <1>1, <2>1, <2>2 DEF Has
<1>6. ASSUME InOrder(w, n) PROVE InOrder(v, n)
  <2>1. ASSUME NEW i \in 1..(k - 1), NEW j \in 1..(k - 1), i < j, v[i].id = n, v[j].id = n
        PROVE  v[j].type # "created" /\ (v[i].type = "deleted" => v[j].type = "deleted")
    <3>1. /\ i + 1 \in 1..k /\ j + 1 \in 1..k /\ i + 1 < j + 1
          /\ w[i + 1] = v[i] /\ w[j + 1] = v[j]
      BY <1>1, <1>2, <2>1
    <3> QED BY <1>1, <1>6, <2>1, <3>1 DEF InOrder
  <2> QED BY <1>1, <2>1 DEF InOrder
<1>7. ASSUME LastIs(w, n, r) PROVE LastIs(v, n, r)
  <2>1. ASSUME NEW i \in 1..(k - 1), v[i].id = n, \A j \in 1..(k - 1) : i < j => v[j].id # n
        PROVE  v[i].row = r
    <3>1. i + 1 \in 1..k /\ w[i + 1] = v[i]
      BY <1>1, <1>2
    <3>2. ASSUME NEW j \in 1..k, i + 1 < j PROVE w[j].id # n
      <4>1. j - 1 \in 1..(k - 1) /\ i < j - 1
        BY <1>1, <3>2
      <4> QED BY <1>3, <2>1, <4>1
    <3> QED BY <1>1, <1>7, <2>1, <3>1, <3>2 DEF LastIs
  <2> QED BY <1>1, <2>1 DEF LastIs
<1> QED BY <1>4, <1>5, <1>6, <1>7 DEF v

LEMMA TailOwn ==
  ASSUME NEW S, NEW w \in Seq(S), w # <<>>, NEW n, Head(w).id = n, NEW r,
         InOrder(w, n)
  PROVE  /\ \A t : Has(w, n, t) <=> Has(Tail(w), n, t) \/ Head(w).type = t
         /\ InOrder(Tail(w), n) /\ ~Has(Tail(w), n, "created")
         /\ Head(w).type = "deleted" => Clear(Tail(w), n) \/ Has(Tail(w), n, "deleted")
         /\ LastIs(w, n, r) => LastIs(Tail(w), n, r)
         /\ LastIs(w, n, r) /\ Clear(Tail(w), n) => Head(w).row = r
<1> DEFINE k == Len(w)  v == Tail(w)
<1>1. /\ k \in Nat \ {0} /\ DOMAIN w = 1..k /\ DOMAIN v = 1..(k - 1) /\ Head(w) = w[1]
      /\ \A i \in 1..(k - 1) : v[i] = w[i + 1]
  BY TailFacts
<1> HIDE DEF k, v
<1>0. \A i, j \in 1..k :
        i < j /\ w[i].id = n /\ w[j].id = n =>
          w[j].type # "created" /\ (w[i].type = "deleted" => w[j].type = "deleted")
  BY <1>1 DEF InOrder
<1>2. /\ \A i \in 1..(k - 1) : i + 1 \in 1..k /\ 1 < i + 1
      /\ 1 \in 1..k
  BY <1>1
<1>3. \A i \in 1..k : i = 1 \/ (i - 1 \in 1..(k - 1) /\ v[i - 1] = w[i])
  <2>1. ASSUME NEW i \in 1..k, i # 1 PROVE i - 1 \in 1..(k - 1) /\ (i - 1) + 1 = i
    BY <1>1, <2>1
  <2> QED BY <1>1, <2>1
<1>4. ASSUME NEW t PROVE Has(w, n, t) <=> Has(v, n, t) \/ Head(w).type = t
  <2>1. ASSUME NEW i \in 1..k, w[i].id = n, w[i].type = t PROVE Has(v, n, t) \/ w[1].type = t
    BY <1>1, <1>3, <2>1 DEF Has
  <2>2. ASSUME NEW i \in 1..(k - 1), v[i].id = n, v[i].type = t PROVE Has(w, n, t)
    BY <1>1, <1>2, <2>2 DEF Has
  <2>3. w[1].id = n
    BY <1>1
  <2> QED BY <1>1, <1>2, <2>1, <2>2, <2>3 DEF Has
<1>5. \A i \in 1..(k - 1) : v[i].id = n =>
        v[i].type # "created" /\ (Head(w).type = "deleted" => v[i].type = "deleted")
  <2>1. ASSUME NEW i \in 1..(k - 1), v[i].id = n
        PROVE  v[i].type # "created" /\ (w[1].type = "deleted" => v[i].type = "deleted")
    <3>1. w[1].id = n /\ i + 1 \in 1..k /\ 1 \in 1..k /\ 1 < i + 1 /\ w[i + 1] = v[i]
      BY <1>1, <1>2
    <3> QED BY <1>0, <2>1, <3>1
  <2> QED BY <1>1, <2>1
<1>6. InOrder(v, n)
  <2>1. ASSUME NEW i \in 1..(k - 1), NEW j \in 1..(k - 1), i < j, v[i].id = n, v[j].id = n
        PROVE  v[j].type # "created" /\ (v[i].type = "deleted" => v[j].type = "deleted")
    <3>1. /\ i + 1 \in 1..k /\ j + 1 \in 1..k /\ i + 1 < j + 1
          /\ w[i + 1] = v[i] /\ w[j + 1] = v[j]
      BY <1>1, <1>2, <2>1
    <3> QED BY <1>0, <2>1, <3>1
  <2> QED BY <1>1, <2>1 DEF InOrder
<1>7. /\ ~Has(v, n, "created")
      /\ Head(w).type = "deleted" => Clear(v, n) \/ Has(v, n, "deleted")
  BY <1>1, <1>5 DEF Has, Clear
<1>8. ASSUME LastIs(w, n, r) PROVE LastIs(v, n, r)
  <2>1. ASSUME NEW i \in 1..(k - 1), v[i].id = n, \A j \in 1..(k - 1) : i < j => v[j].id # n
        PROVE  v[i].row = r
    <3>1. i + 1 \in 1..k /\ w[i + 1] = v[i]
      BY <1>1, <1>2
    <3>2. ASSUME NEW j \in 1..k, i + 1 < j PROVE w[j].id # n
      <4>1. j - 1 \in 1..(k - 1) /\ i < j - 1 /\ j # 1
        BY <1>1, <3>2
      <4> QED BY <1>3, <2>1, <4>1
    <3> QED BY <1>1, <1>8, <2>1, <3>1, <3>2 DEF LastIs
  <2> QED BY <1>1, <2>1 DEF LastIs
<1>9. ASSUME LastIs(w, n, r), Clear(v, n) PROVE Head(w).row = r
  <2>1. \A j \in 1..k : 1 < j => w[j].id # n
    BY <1>1, <1>3, <1>9 DEF Clear
  <2> QED BY <1>1, <1>2, <1>9, <2>1 DEF LastIs
<1> QED BY <1>4, <1>6, <1>7, <1>8, <1>9 DEF v

-----------------------------------------------------------------------------
(* A step that leaves the requests for a note, its row, its copies and the *)
(* lists under way alone, and concerns other messages.                     *)
LEMMA ReadyKept ==
  ASSUME NEW p \in Pages, NEW n \in Ids, Ready(p, n),
         rows'[n] = rows[n], shown'[p][n] = shown[p][n], fetch'[p] = fetch[p],
         \A h \in Handlers : For(h, n) \/ For(h, n)' => handler'[h] = handler[h],
         Clear(wire[p], n) <=> Clear(wire'[p], n),
         \A t : Has(wire[p], n, t) <=> Has(wire'[p], n, t),
         InOrder(wire[p], n) => InOrder(wire'[p], n),
         LastIs(wire[p], n, rows[n]) => LastIs(wire'[p], n, rows[n])
  PROVE  Ready(p, n)'
<1>1. \A h \in Handlers : /\ For(h, n)' <=> For(h, n)
                          /\ For(h, n) => handler'[h] = handler[h]
  BY DEF For
<1>2. \A h \in Handlers : Unsent(h, n)' <=> Unsent(h, n)
  BY <1>1 DEF Unsent
<1>3. RequestsOK(n)'
  BY <1>1 DEF Ready, RequestsOK, Writing, Published
<1>4. WireOK(p, n)'
  BY DEF Ready, WireOK
<1>5. Fetching(p)' <=> Fetching(p)
  BY DEF Fetching
<1>6. Kept(p, n)' <=> Kept(p, n)
  BY DEF Kept
<1>7. SettledOK(p, n)'
  <2>1. Settled(n)' <=> Settled(n)
    BY <1>2 DEF Settled
  <2> QED BY <1>5, <1>6, <2>1 DEF Ready, SettledOK
<1>8. UnsentOK(p, n)'
  <2>1. ASSUME NEW h \in Handlers, Unsent(h, n)' PROVE Unsent(h, n) /\ handler'[h] = handler[h]
    BY <1>1, <1>2, <2>1 DEF Unsent
  <2> QED BY <1>5, <1>6, <2>1 DEF Ready, UnsentOK
<1>9. FetchOK(p, n)'
  BY DEF Ready, FetchOK
<1> QED BY <1>3, <1>4, <1>7, <1>8, <1>9 DEF Ready

(* A step that leaves the messages alone, too.                            *)
LEMMA ReadyUntouched ==
  ASSUME NEW p \in Pages, NEW n \in Ids, Ready(p, n),
         rows'[n] = rows[n], shown'[p][n] = shown[p][n], fetch'[p] = fetch[p],
         \A h \in Handlers : For(h, n) \/ For(h, n)' => handler'[h] = handler[h],
         wire'[p] = wire[p]
  PROVE  Ready(p, n)'
BY ReadyKept

(* Requests that have yet to commit, or have sent their message, disappear. *)
LEMMA RequestsGone ==
  ASSUME NEW p \in Pages, NEW n \in Ids, Ready(p, n),
         rows'[n] = rows[n], shown'[p][n] = shown[p][n], fetch'[p] = fetch[p],
         wire'[p] = wire[p],
         \A h \in Handlers : \/ handler'[h] = handler[h]
                             \/ handler'[h] = Idle /\ ~Unsent(h, n)
  PROVE  Ready(p, n)'
<1>1. \A h \in Handlers : For(h, n)' => For(h, n) /\ handler'[h] = handler[h]
  BY DEF For
<1>2. \A h \in Handlers : Unsent(h, n)' => Unsent(h, n) /\ handler'[h] = handler[h]
  BY <1>1 DEF Unsent
<1>3. \A h \in Handlers : Unsent(h, n) => Unsent(h, n)'
  BY DEF Unsent, For
<1>4. RequestsOK(n)'
  BY <1>1 DEF Ready, RequestsOK, Writing, Published
<1>5. WireOK(p, n)' /\ FetchOK(p, n)'
  BY DEF Ready, WireOK, FetchOK
<1>6. (Fetching(p)' <=> Fetching(p)) /\ (Kept(p, n)' <=> Kept(p, n))
  BY DEF Fetching, Kept
<1>7. SettledOK(p, n)'
  <2>1. Settled(n)' => Settled(n)
    BY <1>3 DEF Settled
  <2> QED BY <1>6, <2>1 DEF Ready, SettledOK
<1>8. UnsentOK(p, n)'
  BY <1>2, <1>6 DEF Ready, UnsentOK
<1> QED BY <1>4, <1>5, <1>7, <1>8 DEF Ready

(* One request dies, or the server: the pages that lose something by it    *)
(* are behind.                                                             *)
LEMMA DyingReady ==
  ASSUME IInv, AInv, (\E h \in Handlers : RequestFails(h)) \/ Restart,
         NEW p \in Pages \ behind', NEW m \in Ids \ old'
  PROVE  Ready(p, m)'
<1>1. ASSUME NEW h \in Handlers, RequestFails(h) PROVE Ready(p, m)'
  <2>1. UNCHANGED <<rows, old, shown, fetch, wire>>
    BY <1>1 DEF RequestFails, tables, lists, links
  <2>2. p \notin behind /\ handler[h].at \notin {"reread", "version", "refresh", "publish"}
    BY <1>1 DEF RequestFails
  <2>3. \A g \in Handlers : handler'[g] = IF g = h THEN Idle ELSE handler[g]
    BY <1>1 DEF RequestFails, Fails, IInv, HandlersOK
  <2>4. \A g \in Handlers : \/ handler'[g] = handler[g]
                            \/ handler'[g] = Idle /\ ~Unsent(g, m)
    BY <2>2, <2>3 DEF Unsent
  <2>5. Ready(p, m)
    BY <2>1, <2>2 DEF AInv, PagesOK
  <2> QED BY <2>1, <2>4, <2>5, RequestsGone
<1>2. CASE Restart
  <2>1. UNCHANGED <<rows, old, shown>>
    BY <1>2 DEF Restart, tables
  <2>2. /\ \A h \in Handlers : handler[h] # Idle =>
             handler[h].at \notin {"reread", "version", "refresh", "publish"}
        /\ p \notin behind /\ wire[p] = <<>> /\ ~Fetching(p)
    BY <1>2 DEF Restart
  <2>3. \A h \in Handlers : handler'[h] = Idle /\ ~Unsent(h, m)
    BY <1>2, <2>2 DEF Restart, Unsent, For
  <2>4. wire'[p] = wire[p]
    BY <1>2, <2>2 DEF Restart
  <2>5. fetch'[p] = fetch[p]
    BY <1>2, <2>2 DEF Restart, Fetching, IInv, ListsOK
  <2>6. Ready(p, m)
    BY <2>1, <2>2 DEF AInv, PagesOK
  <2> QED BY <2>1, <2>3, <2>4, <2>5, <2>6, RequestsGone
<1> QED BY <1>1, <1>2

(* A page that is not behind has seen no commit for a note while another   *)
(* request for it, or a list, was under way.                               *)
LEMMA CommittedFacts ==
  ASSUME NEW n, NEW h, Committed(n, h), NEW p \in Pages \ behind'
  PROVE  /\ p \notin behind /\ ~Fetching(p)
         /\ \A g \in Handlers : g # h => ~For(g, n)
BY DEF Committed, For

(* Only request h changes, which is for note n before and after.           *)
LEMMA OtherNotes ==
  ASSUME NEW h \in Handlers, NEW n \in Ids, NEW m \in Ids, m # n,
         \A g \in Handlers : g # h => handler'[g] = handler[g],
         handler[h] = Idle \/ handler[h].id = n, handler'[h] = Idle \/ handler'[h].id = n
  PROVE  \A g \in Handlers : For(g, m) \/ For(g, m)' => handler'[g] = handler[g]
BY DEF For

(* Nothing was known of a note that is posted now.                        *)
LEMMA CreateReady ==
  ASSUME IInv, AInv, NEW h \in Handlers, NEW n \in Ids, NEW q \in Pages \cup {Nobody},
         Create(h, n, q), NEW p \in Pages \ behind', NEW m \in Ids \ old'
  PROVE  Ready(p, m)'
<1> DEFINE r == [op |-> "created", at |-> "reread", id |-> n, page |-> q,
                 row |-> Gone, new |-> Gone]
<1>1. /\ handler[h] = Idle /\ posted[n] = Gone /\ r \in Request
      /\ \A g \in Handlers : handler'[g] = IF g = h THEN r ELSE handler[g]
      /\ \A k \in Ids : rows'[k] = IF k = n THEN Draft[n] ELSE rows[k]
      /\ UNCHANGED <<old, shown, fetch, wire>> /\ Committed(n, h)
  BY DEF Create, Available, IInv, HandlersOK, TablesOK, Request, lists, links
<1>2. p \notin behind /\ ~Fetching(p) /\ m \notin old /\ Ready(p, m)
  BY <1>1, CommittedFacts DEF AInv, PagesOK
<1>3. CASE m # n
  <2>1. \A g \in Handlers : For(g, m) \/ For(g, m)' => handler'[g] = handler[g]
    BY <1>1, <1>3, OtherNotes
  <2> QED BY <1>1, <1>2, <1>3, <2>1, ReadyUntouched
<1>4. CASE m = n
  <2>1. \A g \in Handlers : ~For(g, n)
    BY <1>1 DEF IInv, HandlersOK, For
  <2>2. handler'[h] # Idle /\ \A g \in Handlers : For(g, n)' => g = h
    BY <1>1, <2>1, MarkersAssumption DEF For
  <2>3. Draft[n] # Gone /\ rows[n] = Gone
    <3>1. Draft[n] \in Rows
      BY NotesAssumption DEF Written, Range
    <3> QED BY <1>1, <3>1, MarkersAssumption DEF IInv, TablesOK
  <2>4. Clear(wire[p], n) /\ ~Has(wire[p], n, "deleted") /\ InOrder(wire[p], n)
    <3>1. Clear(wire[p], n)
      BY <1>1 DEF AInv, UnpostedOK
    <3> QED BY <3>1 DEF Clear, Has, InOrder
  <2>5. shown[p][n] = <<>>
    <3>1. Settled(n)
      BY <2>1 DEF Settled, Unsent
    <3> QED BY <1>2, <1>4, <2>3, <2>4, <3>1 DEF Ready, SettledOK
  <2>6. RequestsOK(n)'
    BY <1>1, <2>2, <2>3 DEF RequestsOK, For, Writing, Published
  <2>7. WireOK(p, n)'
    BY <1>1, <2>4 DEF WireOK
  <2>8. Unsent(h, n)'
    BY <1>1, <2>2 DEF Unsent, For
  <2>9. SettledOK(p, n)'
    BY <2>8 DEF SettledOK, Settled
  <2>10. UnsentOK(p, n)'
    <3>1. Range(<<>>) = {}
      BY DEF Range
    <3>2. \A g \in Handlers : Unsent(g, n)' => g = h
      BY <2>2 DEF Unsent
    <3>3. handler'[h].op = "created" /\ shown'[p][n] = <<>>
      BY <1>1, <2>5
    <3> QED BY <1>1, <2>4, <3>1, <3>2, <3>3 DEF UnsentOK
  <2>11. FetchOK(p, n)'
    BY <1>1, <1>2 DEF FetchOK, Fetching
  <2> QED BY <1>4, <2>6, <2>7, <2>9, <2>10, <2>11 DEF Ready
<1> QED BY <1>3, <1>4

(* A committed request goes on: its row is the one that is stored.         *)
LEMMA UnsentReady ==
  ASSUME IInv, AInv, NEW h \in Handlers, Reread(h) \/ AddVersion(h) \/ Refresh(h),
         NEW p \in Pages \ behind', NEW m \in Ids \ old'
  PROVE  Ready(p, m)'
<1>1. PICK n \in Ids : n = handler[h].id
  <2>1. handler[h] \in Underway
    BY RequestAt DEF Reread, AddVersion, Refresh
  <2> QED BY <2>1 DEF Underway, Request
<1>2. /\ handler[h] # Idle /\ handler[h] \in Underway
      /\ handler[h].at \in {"reread", "version", "refresh"}
  BY RequestAt DEF Reread, AddVersion, Refresh
<1>3. UNCHANGED <<rows, old, shown, fetch, wire, behind>>
  BY DEF Reread, AddVersion, Refresh, tables, lists, links, told
<1>4. p \notin behind /\ m \notin old /\ Ready(p, m)
  BY <1>3 DEF AInv, PagesOK
<1>5. /\ \A g \in Handlers : g # h => handler'[g] = handler[g]
      /\ \/ handler'[h] = Idle /\ rows[n] = Gone
         \/ /\ handler'[h] \in Request /\ handler'[h].op = handler[h].op
            /\ handler'[h].id = n
            /\ \/ handler'[h].at \in {"version", "refresh"}
               \/ handler'[h].at = "publish" /\ handler'[h].row = rows[n]
  <2>1. rows[n] \in {Gone} \cup Rows /\ handler[h] \in Request
    BY <1>2 DEF IInv, TablesOK, Underway
  <2>2. CASE AddVersion(h)
    <3>1. handler' = [handler EXCEPT ![h] = [handler[h] EXCEPT !.at = "refresh"]]
      BY <2>2 DEF AddVersion, Goto
    <3>2. /\ handler'[h] = [handler[h] EXCEPT !.at = "refresh"]
          /\ \A g \in Handlers : g # h => handler'[g] = handler[g]
      BY <3>1 DEF IInv, HandlersOK
    <3> QED BY <1>1, <2>1, <3>2 DEF Request
  <2>3. CASE Reread(h) \/ Refresh(h)
    <3>1. PICK place \in {"version", "publish"} :
            handler' = [handler EXCEPT ![h] =
                          IF rows[n] = Gone THEN Idle
                          ELSE [handler[h] EXCEPT !.at = place, !.row = rows[n]]]
      BY <1>1, <2>3 DEF Reread, Refresh, Fails, Hold
    <3>2. /\ handler'[h] = IF rows[n] = Gone THEN Idle
                           ELSE [handler[h] EXCEPT !.at = place, !.row = rows[n]]
          /\ \A g \in Handlers : g # h => handler'[g] = handler[g]
      BY <3>1 DEF IInv, HandlersOK
    <3> QED BY <1>1, <2>1, <3>2 DEF Request
  <2> QED BY <2>2, <2>3
<1>6. CASE m # n
  <2>1. \A g \in Handlers : For(g, m) \/ For(g, m)' => handler'[g] = handler[g]
    BY <1>1, <1>5, <1>6, OtherNotes
  <2> QED BY <1>3, <1>4, <2>1, ReadyUntouched
<1>7. CASE m = n
  <2> DEFINE r == handler'[h]
  <2>1. /\ For(h, n) /\ ~Writing(h) /\ Unsent(h, n) /\ handler[h].op # "deleted"
        /\ RequestsOK(n)
    BY <1>1, <1>2, <1>4, <1>7 DEF Ready, For, Writing, Unsent, Underway
  <2>2. rows[n] # Gone /\ \A g \in Handlers : g # h => ~For(g, n) \/ Writing(g)
    BY <2>1 DEF RequestsOK
  <2>3. /\ r # Idle /\ r.op = handler[h].op /\ r.id = n
        /\ \/ r.at \in {"version", "refresh"}
           \/ r.at = "publish" /\ r.row = rows[n]
    BY <1>5, <2>2, MarkersAssumption
  <2> HIDE DEF r
  <2>4. For(h, n)' /\ ~Writing(h)' /\ Unsent(h, n)'
    BY <2>3 DEF For, Writing, Unsent, r
  <2>5. \A g \in Handlers : g # h =>
          /\ handler'[g] = handler[g] /\ (For(g, n)' <=> For(g, n))
          /\ Writing(g)' <=> Writing(g)
          /\ Published(g)' <=> Published(g)
    BY <1>5 DEF For, Writing, Published
  <2>6. RequestsOK(n)'
    <3>1. \A f, g \in Handlers :
            For(f, n)' /\ For(g, n)' /\ ~Writing(f)' /\ ~Writing(g)' => f = g
      BY <2>2, <2>5
    <3>2. ASSUME NEW g \in Handlers, For(g, n)'
          PROVE  /\ handler'[g].op # "deleted" \/ Writing(g)' => rows[n] # Gone
                 /\ handler'[g].op = "deleted" /\ ~Writing(g)' => rows[n] = Gone
                 /\ handler'[g].op # "deleted" /\ Published(g)' => handler'[g].row = rows[n]
      <4>1. CASE g = h
        BY <2>1, <2>2, <2>3, <4>1 DEF Published, r
      <4>2. CASE g # h
        BY <2>1, <2>5, <3>2, <4>2 DEF RequestsOK
      <4> QED BY <4>1, <4>2
    <3> QED BY <1>3, <3>1, <3>2 DEF RequestsOK
  <2>7. WireOK(p, n)' /\ FetchOK(p, n)'
    BY <1>3, <1>4, <1>7 DEF Ready, WireOK, FetchOK
  <2>8. SettledOK(p, n)'
    BY <2>4 DEF SettledOK, Settled
  <2>9. UnsentOK(p, n)'
    <3>1. \A g \in Handlers : Unsent(g, n)' => g = h
      BY <2>2, <2>5 DEF Unsent, Writing
    <3>2. handler'[h].op = handler[h].op
      BY <2>3 DEF r
    <3>3. (Fetching(p)' <=> Fetching(p)) /\ (Kept(p, n)' <=> Kept(p, n))
      BY <1>3 DEF Fetching, Kept
    <3> QED BY <1>3, <1>4, <1>7, <2>1, <3>1, <3>2, <3>3 DEF Ready, UnsentOK
  <2> QED BY <1>7, <2>6, <2>7, <2>8, <2>9 DEF Ready
<1> QED BY <1>6, <1>7

(* An edit is committed: no other request for the note is under way, so    *)
(* the list shows the note, or will when its message comes.                *)
LEMMA WriteUpdateReady ==
  ASSUME IInv, AInv, NEW h \in Handlers, WriteUpdate(h),
         NEW p \in Pages \ behind', NEW m \in Ids \ old'
  PROVE  Ready(p, m)'
<1>1. handler[h] # Idle /\ handler[h] \in Underway /\ handler[h].at = "write"
  BY RequestAt DEF WriteUpdate
<1>2. PICK n \in Ids : n = handler[h].id
  BY <1>1 DEF Underway, Request
<1> DEFINE from == handler[h].row  to == handler[h].new
<1>3. UNCHANGED <<old, shown, fetch, wire>>
  BY DEF WriteUpdate, lists, links
<1>4. \A g \in Handlers : g # h => handler'[g] = handler[g]
  BY DEF WriteUpdate, Fails, Goto, IInv, HandlersOK
<1>5. CASE rows[n] = Gone /\ from # to
  <2>1. UNCHANGED <<rows, behind>> /\ handler'[h] = Idle
    BY <1>2, <1>5 DEF WriteUpdate, Fails, IInv, HandlersOK
  <2>2. p \notin behind /\ m \notin old /\ Ready(p, m)
    BY <1>3, <2>1 DEF AInv, PagesOK
  <2>3. m # n
    <3>1. For(h, n) /\ Writing(h)
      BY <1>1, <1>2 DEF For, Writing
    <3> QED BY <1>5, <2>2, <3>1 DEF Ready, RequestsOK
  <2>4. \A g \in Handlers : For(g, m) \/ For(g, m)' => handler'[g] = handler[g]
    BY <1>2, <1>4, <2>1, <2>3, OtherNotes
  <2> QED BY <1>3, <2>1, <2>2, <2>4, ReadyUntouched
<1>6. CASE ~(rows[n] = Gone /\ from # to)
  <2>1. /\ rows' = [rows EXCEPT ![n] = IF @ = Gone THEN Gone ELSE Changed(from, to, @)]
        /\ handler' = [handler EXCEPT ![h].at = "refresh"] /\ Committed(n, h)
    BY <1>2, <1>6 DEF WriteUpdate, Goto
  <2>2. /\ p \notin behind /\ ~Fetching(p) /\ m \notin old /\ Ready(p, m)
        /\ \A g \in Handlers : g # h => ~For(g, n)
    BY <1>3, <2>1, CommittedFacts DEF AInv, PagesOK
  <2>3. handler'[h] = [handler[h] EXCEPT !.at = "refresh"]
    BY <2>1 DEF IInv, HandlersOK
  <2>4. /\ handler'[h] \in Request /\ handler'[h].id = n
        /\ handler'[h].op = "updated" /\ handler'[h].at = "refresh"
    BY <1>1, <1>2, <2>3 DEF Underway, Request
  <2>5. CASE m # n
    <3>1. \A g \in Handlers : For(g, m) \/ For(g, m)' => handler'[g] = handler[g]
      BY <1>2, <1>4, <2>4, <2>5, OtherNotes
    <3>2. rows'[m] = rows[m]
      BY <2>1, <2>5 DEF IInv, TablesOK
    <3> QED BY <1>3, <2>2, <3>1, <3>2, ReadyUntouched
  <2>6. CASE m = n
    <3>1. For(h, n) /\ Writing(h)
      BY <1>1, <1>2 DEF For, Writing
    <3>2. rows[n] # Gone
      BY <2>2, <2>6, <3>1 DEF Ready, RequestsOK
    <3>3. rows'[n] # Gone
      <4>1. to \in Rows /\ rows[n] \in Rows
        BY <1>1, <3>2, NotesAssumption DEF Underway, Written, IInv, TablesOK
      <4>2. Changed(from, to, rows[n]) \in Rows
        BY <4>1, ChangedRow
      <4> QED BY <2>1, <3>2, <4>2, MarkersAssumption DEF IInv, TablesOK
    <3>4. /\ For(h, n)' /\ Unsent(h, n)'
          /\ \A g \in Handlers : For(g, n)' => g = h
      BY <1>4, <2>2, <2>4, MarkersAssumption DEF For, Unsent
    <3>5. RequestsOK(n)'
      BY <2>4, <3>3, <3>4 DEF RequestsOK, Published
    <3>6. WireOK(p, n)'
      BY <1>3, <2>2, <2>6, <3>2 DEF Ready, WireOK
    <3>7. SettledOK(p, n)'
      BY <3>4 DEF SettledOK, Settled
    <3>8. Kept(p, n)'
      <4>1. Settled(n)
        BY <2>2, <3>1 DEF Settled, Unsent, Writing
      <4>2. Kept(p, n)
        BY <2>2, <2>6, <3>2, <4>1 DEF Ready, SettledOK
      <4> QED BY <1>3, <4>2 DEF Kept
    <3>9. UnsentOK(p, n)'
      <4>1. \A g \in Handlers : Unsent(g, n)' => handler'[g].op = "updated"
        BY <2>4, <3>4 DEF Unsent
      <4> QED BY <3>8, <4>1 DEF UnsentOK
    <3>10. FetchOK(p, n)'
      BY <1>3, <2>2 DEF FetchOK, Fetching
    <3> QED BY <2>6, <3>5, <3>6, <3>7, <3>9, <3>10 DEF Ready
  <2> QED BY <2>5, <2>6
<1> QED BY <1>5, <1>6

LEMMA DeleteRowReady ==
  ASSUME IInv, AInv, NEW h \in Handlers, DeleteRow(h),
         NEW p \in Pages \ behind', NEW m \in Ids \ old'
  PROVE  Ready(p, m)'
<1>1. handler[h] # Idle /\ handler[h] \in Underway /\ handler[h].at = "delete"
  BY RequestAt DEF DeleteRow
<1>2. PICK n \in Ids : n = handler[h].id
  BY <1>1 DEF Underway, Request
<1>3. /\ UNCHANGED <<old, shown, fetch, wire>> /\ Committed(n, h)
      /\ rows' = [rows EXCEPT ![n] = Gone]
      /\ handler' = [handler EXCEPT ![h] = [handler[h] EXCEPT !.at = "publish"]]
  BY <1>2 DEF DeleteRow, Goto, lists, links
<1>4. /\ \A g \in Handlers : g # h => handler'[g] = handler[g]
      /\ handler'[h] = [handler[h] EXCEPT !.at = "publish"]
      /\ \A k \in Ids : rows'[k] = IF k = n THEN Gone ELSE rows[k]
  BY <1>3 DEF IInv, HandlersOK, TablesOK
<1>5. /\ handler'[h] \in Request /\ handler'[h].id = n
      /\ handler'[h].op = "deleted" /\ handler'[h].at = "publish"
  BY <1>1, <1>2, <1>4 DEF Underway, Request
<1>6. /\ p \notin behind /\ ~Fetching(p) /\ m \notin old /\ Ready(p, m)
      /\ \A g \in Handlers : g # h => ~For(g, n)
  BY <1>3, CommittedFacts DEF AInv, PagesOK
<1>7. CASE m # n
  <2>1. \A g \in Handlers : For(g, m) \/ For(g, m)' => handler'[g] = handler[g]
    <3>1. /\ \A g \in Handlers : g # h => handler'[g] = handler[g]
          /\ handler[h].id = n /\ handler'[h].id = n
      BY <1>2, <1>4, <1>5
    <3> QED BY <1>7, <3>1, OtherNotes
  <2> QED BY <1>3, <1>4, <1>6, <1>7, <2>1, ReadyUntouched
<1>8. CASE m = n
  <2>1. /\ For(h, n)' /\ Unsent(h, n)'
        /\ \A g \in Handlers : For(g, n)' => g = h
    BY <1>4, <1>5, <1>6, MarkersAssumption DEF For, Unsent
  <2>2. RequestsOK(n)'
    BY <1>4, <1>5, <2>1 DEF RequestsOK, Writing
  <2>3. WireOK(p, n)'
    BY <1>3, <1>4, <1>6, <1>8 DEF Ready, WireOK
  <2>4. SettledOK(p, n)'
    BY <2>1 DEF SettledOK, Settled
  <2>5. UnsentOK(p, n)'
    BY <1>5, <2>1 DEF UnsentOK, Unsent
  <2>6. FetchOK(p, n)'
    BY <1>3, <1>6 DEF FetchOK, Fetching
  <2> QED BY <1>8, <2>2, <2>3, <2>4, <2>5, <2>6 DEF Ready
<1> QED BY <1>7, <1>8

(* An edit or a deletion begins: the row it read is stored.                *)
LEMMA BeginReady ==
  ASSUME IInv, AInv, NEW h \in Handlers, NEW n \in Ids,
         \/ \E e \in Edits : ReadForUpdate(h, n, e)
         \/ \E q \in Pages \cup {Nobody} : ReadForDelete(h, q, n),
         NEW p \in Pages \ behind', NEW m \in Ids \ old'
  PROVE  Ready(p, m)'
<1>1. /\ handler[h] = Idle /\ rows[n] # Gone
      /\ UNCHANGED <<rows, old, shown, fetch, wire, behind>>
      /\ \A g \in Handlers : g # h => handler'[g] = handler[g]
  BY DEF ReadForUpdate, ReadForDelete, Available, tables, lists, links, told, IInv, HandlersOK
<1>2. handler'[h].id = n /\ Writing(h)'
  BY DEF ReadForUpdate, ReadForDelete, IInv, HandlersOK, Writing
<1>3. p \notin behind /\ m \notin old /\ Ready(p, m)
  BY <1>1 DEF AInv, PagesOK
<1>4. CASE m # n
  <2>1. \A g \in Handlers : For(g, m) \/ For(g, m)' => handler'[g] = handler[g]
    BY <1>1, <1>2, <1>4, OtherNotes
  <2> QED BY <1>1, <1>3, <2>1, ReadyUntouched
<1>5. CASE m = n
  <2>1. \A g \in Handlers : g # h => /\ handler'[g] = handler[g]
                                     /\ For(g, n)' <=> For(g, n)
                                     /\ Unsent(g, n)' <=> Unsent(g, n)
    BY <1>1 DEF For, Unsent
  <2>2. ~Unsent(h, n) /\ ~Unsent(h, n)' /\ ~Published(h)'
    BY <1>1, <1>2 DEF Unsent, For, Writing, Published
  <2>3. RequestsOK(n)'
    <3>1. \A f, g \in Handlers :
            For(f, n)' /\ For(g, n)' /\ ~Writing(f)' /\ ~Writing(g)' => f = g
      BY <1>2, <1>3, <1>5, <2>1 DEF Ready, RequestsOK, Writing
    <3>2. ASSUME NEW g \in Handlers, For(g, n)'
          PROVE  /\ handler'[g].op # "deleted" \/ Writing(g)' => rows[n] # Gone
                 /\ handler'[g].op = "deleted" /\ ~Writing(g)' => rows[n] = Gone
                 /\ handler'[g].op # "deleted" /\ Published(g)' => handler'[g].row = rows[n]
      <4>1. CASE g = h
        BY <1>1, <1>2, <2>2, <4>1
      <4>2. CASE g # h
        BY <1>3, <1>5, <2>1, <3>2, <4>2 DEF Ready, RequestsOK, Writing, Published
      <4> QED BY <4>1, <4>2
    <3> QED BY <1>1, <3>1, <3>2 DEF RequestsOK
  <2>4. Settled(n)' <=> Settled(n)
    BY <2>1, <2>2 DEF Settled
  <2>5. (Fetching(p)' <=> Fetching(p)) /\ (Kept(p, n)' <=> Kept(p, n))
    BY <1>1 DEF Fetching, Kept
  <2>6. WireOK(p, n)' /\ FetchOK(p, n)'
    BY <1>1, <1>3, <1>5 DEF Ready, WireOK, FetchOK
  <2>7. SettledOK(p, n)'
    BY <1>1, <1>3, <1>5, <2>4, <2>5 DEF Ready, SettledOK
  <2>8. UnsentOK(p, n)'
    BY <1>1, <1>3, <1>5, <2>1, <2>2, <2>5 DEF Ready, UnsentOK
  <2> QED BY <1>5, <2>3, <2>6, <2>7, <2>8 DEF Ready
<1> QED BY <1>4, <1>5

(* The message goes on the wire with the row that is stored.               *)
LEMMA PublishReady ==
  ASSUME IInv, AInv, NEW h \in Handlers, Publish(h) \/ PublishFails(h),
         NEW p \in Pages \ behind', NEW m \in Ids \ old'
  PROVE  Ready(p, m)'
<1>1. handler[h] # Idle /\ handler[h] \in Underway /\ handler[h].at = "publish"
  BY RequestAt DEF Publish, PublishFails
<1>2. PICK n \in Ids : n = handler[h].id
  BY <1>1 DEF Underway, Request
<1>3. /\ Publish(h) /\ p \notin behind /\ p \in open
  BY DEF Publish, PublishFails
<1> DEFINE x == Sent(h)
<1>4. /\ UNCHANGED <<rows, old, shown, fetch>>
      /\ wire'[p] = Append(wire[p], x) /\ wire[p] \in Seq(Sendable) /\ x \in Sendable
      /\ handler' = [handler EXCEPT ![h] = [handler[h] EXCEPT !.at = "respond"]]
  BY <1>1, <1>3, SentOK DEF Publish, Goto, tables, lists, IInv, LinksOK
<1>5. x.id = n /\ x.type = handler[h].op /\ x.row = handler[h].row
  BY <1>2 DEF Sent
<1>6. /\ \A g \in Handlers : g # h => handler'[g] = handler[g]
      /\ handler'[h] = [handler[h] EXCEPT !.at = "respond"]
  BY <1>4 DEF IInv, HandlersOK
<1>7. /\ handler'[h] \in Request /\ handler'[h].id = n /\ handler'[h].at = "respond"
      /\ handler'[h].op = handler[h].op /\ handler'[h].row = handler[h].row
  BY <1>1, <1>2, <1>6 DEF Underway, Request
<1>8. m \notin old /\ Ready(p, m)
  BY <1>3, <1>4 DEF AInv, PagesOK
<1> HIDE DEF x
<1>9. CASE m # n
  <2>1. \A g \in Handlers : For(g, m) \/ For(g, m)' => handler'[g] = handler[g]
    BY <1>2, <1>6, <1>7, <1>9, OtherNotes
  <2>2. /\ Clear(wire[p], m) <=> Clear(wire'[p], m)
        /\ \A t : Has(wire[p], m, t) <=> Has(wire'[p], m, t)
        /\ InOrder(wire[p], m) => InOrder(wire'[p], m)
        /\ LastIs(wire[p], m, rows[m]) => LastIs(wire'[p], m, rows[m])
    <3>1. x.id # m
      BY <1>5, <1>9
    <3> QED BY <1>4, <3>1, AppendOther
  <2> QED BY <1>4, <1>8, <2>1, <2>2, ReadyKept
<1>10. CASE m = n
  <2>1. /\ For(h, n) /\ Unsent(h, n) /\ ~Writing(h) /\ Published(h)
        /\ For(h, n)' /\ ~Writing(h)' /\ ~Unsent(h, n)' /\ Published(h)'
    BY <1>1, <1>2, <1>7, MarkersAssumption DEF For, Unsent, Writing, Published
  <2>2. \A g \in Handlers : g # h =>
          /\ handler'[g] = handler[g] /\ (For(g, n)' <=> For(g, n))
          /\ Writing(g)' <=> Writing(g)
          /\ Published(g)' <=> Published(g)
    BY <1>6 DEF For, Writing, Published
  <2>3. \A g \in Handlers : g # h /\ For(g, n) => Writing(g)
    BY <1>8, <1>10, <2>1 DEF Ready, RequestsOK
  <2>4. RequestsOK(n)'
    <3>1. \A f, g \in Handlers :
            For(f, n)' /\ For(g, n)' /\ ~Writing(f)' /\ ~Writing(g)' => f = g
      BY <2>2, <2>3
    <3>2. ASSUME NEW g \in Handlers, For(g, n)'
          PROVE  /\ handler'[g].op # "deleted" \/ Writing(g)' => rows[n] # Gone
                 /\ handler'[g].op = "deleted" /\ ~Writing(g)' => rows[n] = Gone
                 /\ handler'[g].op # "deleted" /\ Published(g)' => handler'[g].row = rows[n]
      <4>1. CASE g = h
        BY <1>7, <1>8, <1>10, <2>1, <4>1 DEF Ready, RequestsOK
      <4>2. CASE g # h
        BY <1>8, <1>10, <2>2, <3>2, <4>2 DEF Ready, RequestsOK
      <4> QED BY <4>1, <4>2
    <3> QED BY <1>4, <3>1, <3>2 DEF RequestsOK
  <2>5. \A g \in Handlers : ~Unsent(g, n)'
    BY <2>1, <2>2, <2>3 DEF Unsent, Writing
  <2>6. UnsentOK(p, n)' /\ FetchOK(p, n)'
    BY <1>4, <1>8, <1>10, <2>5 DEF Ready, UnsentOK, FetchOK
  <2>7. /\ \A t : Has(wire'[p], n, t) <=> Has(wire[p], n, t) \/ x.type = t
        /\ LastIs(wire'[p], n, x.row)
    <3>1. /\ \A t : Has(Append(wire[p], x), n, t) <=> Has(wire[p], n, t) \/ x.type = t
          /\ LastIs(Append(wire[p], x), n, x.row)
      <4> DEFINE w == wire[p]
      <4>1. w \in Seq(Sendable) /\ x \in Sendable /\ x.id = n
        BY <1>4, <1>5
      <4> HIDE DEF w
      <4>2. /\ \A t : Has(Append(w, x), n, t) <=> Has(w, n, t) \/ x.type = t
            /\ LastIs(Append(w, x), n, x.row)
        BY <4>1, AppendOwn
      <4> QED BY <4>2 DEF w
    <3> QED BY <1>4, <3>1
  <2>8. Fetching(p)' <=> Fetching(p)
    BY <1>4 DEF Fetching
  <2>9. /\ x.type # "deleted" => rows[n] # Gone /\ x.row = rows[n]
        /\ x.type = "deleted" => rows[n] = Gone
    BY <1>5, <1>8, <1>10, <2>1 DEF Ready, RequestsOK
  <2>10. WireOK(p, n)'
    <3>1. x.type = "created" => Clear(wire[p], n)
      BY <1>5, <1>8, <1>10, <2>1 DEF Ready, UnsentOK
    <3>2. Has(wire[p], n, "deleted") => x.type = "deleted"
      BY <1>8, <1>10, <2>9 DEF Ready, WireOK
    <3>3. InOrder(wire'[p], n)
      BY <1>4, <1>5, <1>8, <1>10, <3>1, <3>2, AppendOwn DEF Ready, WireOK
    <3> QED BY <1>4, <1>8, <1>10, <2>7, <2>9, <3>3 DEF Ready, WireOK
  <2>11. SettledOK(p, n)'
    <3>1. CASE x.type = "deleted"
      BY <1>4, <2>7, <2>9, <3>1 DEF SettledOK
    <3>2. CASE x.type = "created"
      <4>1. /\ ~Has(wire[p], n, "updated")
            /\ ~Fetching(p) => Range(shown[p][n]) \subseteq {rows[n]}
        BY <1>5, <1>8, <1>10, <2>1, <3>2 DEF Ready, UnsentOK, Clear, Has
      <4>2. Kept(p, n)' /\ ~Has(wire'[p], n, "updated")
        BY <2>7, <3>2, <4>1 DEF Kept
      <4> QED BY <1>4, <2>7, <2>8, <2>9, <3>2, <4>1, <4>2 DEF SettledOK
    <3>3. CASE x.type = "updated"
      <4>1. ~Fetching(p) => Kept(p, n)'
        BY <1>4, <1>5, <1>8, <1>10, <2>1, <2>7, <3>3 DEF Ready, UnsentOK, Kept
      <4> QED BY <1>4, <2>7, <2>8, <2>9, <3>3, <4>1 DEF SettledOK
    <3>4. x.type \in {"created", "updated", "deleted"}
      BY <1>4 DEF Sendable, Message
    <3> QED BY <3>1, <3>2, <3>3, <3>4
  <2> QED BY <1>10, <2>4, <2>6, <2>10, <2>11 DEF Ready
<1> QED BY <1>9, <1>10

(* What a copy in front adds to what a list shows.                         *)
LEMMA FrontCopy ==
  ASSUME NEW S, NEW r \in S, NEW s \in Seq(S)
  PROVE  <<r>> \o s # <<>> /\ Range(<<r>> \o s) \subseteq {r} \cup Range(s)
<1> DEFINE v == <<r>> \o s
<1>1. /\ Len(v) = Len(s) + 1 /\ Len(s) \in Nat /\ v[1] = r
      /\ DOMAIN v = 1..(Len(s) + 1) /\ DOMAIN s = 1..Len(s)
      /\ \A i \in 2..(Len(s) + 1) : v[i] = s[i - 1]
  OBVIOUS
<1> HIDE DEF v
<1>2. v # <<>>
  BY <1>1
<1>3. ASSUME NEW i \in DOMAIN v PROVE v[i] \in {r} \cup Range(s)
  <2>1. CASE i = 1
    BY <1>1, <2>1
  <2>2. CASE i # 1
    <3>1. i - 1 \in 1..Len(s) /\ v[i] = s[i - 1]
      BY <1>1, <1>3, <2>2
    <3> QED BY <1>1, <3>1 DEF Range
  <2> QED BY <2>1, <2>2
<1>4. Range(v) \subseteq {r} \cup Range(s)
  BY <1>3 DEF Range
<1> QED BY <1>2, <1>4 DEF v

(* The answer brings the page that asked for it what is stored.            *)
LEMMA RespondReady ==
  ASSUME IInv, AInv, NEW h \in Handlers, Respond(h),
         NEW p \in Pages \ behind', NEW m \in Ids \ old'
  PROVE  Ready(p, m)'
<1>1. handler[h] # Idle /\ handler[h] \in Underway /\ handler[h].at = "respond"
  BY RequestAt DEF Respond
<1>2. PICK n \in Ids, q \in Pages \cup {Nobody} :
        n = handler[h].id /\ q = handler[h].page
  BY <1>1 DEF Underway, Request
<1>3. /\ UNCHANGED <<rows, old, fetch, wire, behind>>
      /\ \A g \in Handlers : handler'[g] = IF g = h THEN Idle ELSE handler[g]
  BY DEF Respond, tables, links, told, IInv, HandlersOK
<1>4. p \notin behind /\ m \notin old /\ Ready(p, m)
  BY <1>3 DEF AInv, PagesOK
<1>5. /\ q \notin Pages => UNCHANGED shown
      /\ q \in Pages => shown' = [shown EXCEPT ![q][n] =
                          IF handler[h].op = "deleted" THEN <<>>
                          ELSE <<handler[h].row>> \o shown[q][n]]
  BY <1>2 DEF Respond
<1>6. /\ p # q \/ m # n => shown'[p][m] = shown[p][m]
      /\ p = q => shown'[p][n] = IF handler[h].op = "deleted" THEN <<>>
                                 ELSE <<handler[h].row>> \o shown[p][n]
  <2>1. CASE q \notin Pages
    BY <1>5, <2>1
  <2>2. CASE q \in Pages
    <3> DEFINE c == IF handler[h].op = "deleted" THEN <<>>
                    ELSE <<handler[h].row>> \o shown[q][n]
    <3>1. shown' = [shown EXCEPT ![q][n] = c]
      BY <1>5, <2>2
    <3> HIDE DEF c
    <3>2. /\ q = p /\ m = n => shown'[p][m] = c
          /\ ~(q = p /\ m = n) => shown'[p][m] = shown[p][m]
          /\ q = p => shown'[p][n] = c
      BY <2>2, <3>1 DEF IInv, ListsOK
    <3> QED BY <3>2 DEF c
  <2> QED BY <2>1, <2>2
<1>7. CASE m # n
  <2>1. \A g \in Handlers : For(g, m) \/ For(g, m)' => handler'[g] = handler[g]
    BY <1>2, <1>3, <1>7, OtherNotes
  <2> QED BY <1>3, <1>4, <1>6, <1>7, <2>1, ReadyUntouched
<1>8. CASE m = n
  <2>1. For(h, n) /\ ~Writing(h) /\ Published(h) /\ ~Unsent(h, n)
    BY <1>1, <1>2 DEF For, Writing, Published, Unsent
  <2>2. \A g \in Handlers : For(g, n)' => For(g, n) /\ handler'[g] = handler[g]
    BY <1>3 DEF For
  <2>3. RequestsOK(n)'
    BY <1>3, <1>4, <1>8, <2>2 DEF Ready, RequestsOK, Writing, Published
  <2>4. WireOK(p, n)' /\ FetchOK(p, n)'
    BY <1>3, <1>4, <1>8 DEF Ready, WireOK, FetchOK
  <2>5. /\ \A g \in Handlers : ~Unsent(g, n)
        /\ \A g \in Handlers : ~Unsent(g, n)'
    <3>1. \A g \in Handlers : g # h /\ For(g, n) => Writing(g)
      BY <1>4, <1>8, <2>1 DEF Ready, RequestsOK
    <3>2. \A g \in Handlers : ~Unsent(g, n)
      BY <2>1, <3>1 DEF Unsent, Writing
    <3> QED BY <2>2, <3>2 DEF Unsent
  <2>6. UnsentOK(p, n)'
    BY <2>5 DEF UnsentOK
  <2>7. SettledOK(p, n)'
    <3>1. Settled(n) /\ SettledOK(p, n)
      BY <1>4, <1>8, <2>5 DEF Ready, Settled
    <3>2. Fetching(p)' <=> Fetching(p)
      BY <1>3 DEF Fetching
    <3>3. CASE p # q
      <4>1. shown'[p][n] = shown[p][n]
        BY <1>6, <1>8, <3>3
      <4>2. Kept(p, n)' <=> Kept(p, n)
        BY <1>3, <4>1 DEF Kept
      <4> QED BY <1>3, <3>1, <3>2, <4>1, <4>2 DEF SettledOK
    <3>4. CASE p = q /\ handler[h].op = "deleted"
      <4>1. rows[n] = Gone
        BY <1>4, <1>8, <2>1, <3>4 DEF Ready, RequestsOK
      <4> QED BY <1>3, <1>6, <3>1, <3>4, <4>1 DEF SettledOK
    <3>5. CASE p = q /\ handler[h].op # "deleted"
      <4>1. rows[n] # Gone /\ handler[h].row = rows[n]
        BY <1>4, <1>8, <2>1, <3>5 DEF Ready, RequestsOK
      <4>2. rows[n] \in Rows /\ shown[p][n] \in Seq(Rows)
        BY <4>1 DEF IInv, TablesOK, ListsOK
      <4>3. shown'[p][n] = <<rows[n]>> \o shown[p][n]
        BY <1>6, <3>5, <4>1
      <4>4. /\ shown'[p][n] # <<>>
            /\ Range(shown'[p][n]) \subseteq {rows[n]} \cup Range(shown[p][n])
        BY <4>2, <4>3, FrontCopy
      <4>5. Kept(p, n)'
        BY <4>4 DEF Kept
      <4> QED BY <1>3, <3>1, <3>2, <4>1, <4>4, <4>5 DEF SettledOK
    <3> QED BY <3>3, <3>4, <3>5
  <2> QED BY <1>8, <2>3, <2>4, <2>6, <2>7 DEF Ready
<1> QED BY <1>7, <1>8

-----------------------------------------------------------------------------
(* A list is asked for: it holds what is stored.  A page that was behind   *)
(* has nothing else to come.                                               *)
LEMMA StartFetchReady ==
  ASSUME IInv, AInv, NEW q \in Pages, StartFetch(q),
         NEW p \in Pages \ behind', NEW m \in Ids \ old'
  PROVE  Ready(p, m)'
<1> DEFINE a == [n \in Ids |-> IF n \in old THEN Gone ELSE rows[n]]
<1>1. /\ UNCHANGED <<rows, old, handler, shown, wire>>
      /\ q # p => p \notin behind
      /\ p \in behind => /\ \A h \in Handlers : handler[h] = Idle
                         /\ wire[p] = <<>> /\ ~Fetching(p)
  BY DEF StartFetch, tables, links
<1>2. PICK k \in Fetches : fetch' = [fetch EXCEPT ![q][k] = a]
  BY DEF StartFetch
<1>3. a \in [Ids -> {Gone} \cup Rows] /\ a # NoFetch /\ a[m] = rows[m]
  <2>1. a \in [Ids -> {Gone} \cup Rows]
    BY DEF IInv, TablesOK
  <2> QED BY <1>1, <2>1, MarkersAssumption
<1> HIDE DEF a
<1>4. CASE p # q
  <2>1. fetch'[p] = fetch[p]
    BY <1>2, <1>4 DEF IInv, ListsOK
  <2>2. Ready(p, m)
    BY <1>1, <1>4 DEF AInv, PagesOK
  <2> QED BY <1>1, <2>1, <2>2, ReadyUntouched
<1>5. CASE p = q
  <2>1. \A i \in Fetches : fetch'[p][i] = IF i = k THEN a ELSE fetch[p][i]
    BY <1>2, <1>5 DEF IInv, ListsOK
  <2>2. Fetching(p)'
    BY <1>3, <2>1 DEF Fetching
  <2>3. CASE p \notin behind
    <3>1. Ready(p, m)
      BY <1>1, <2>3 DEF AInv, PagesOK
    <3>2. RequestsOK(m)' /\ WireOK(p, m)'
      BY <1>1, <3>1 DEF Ready, RequestsOK, For, Writing, Published, WireOK
    <3>3. SettledOK(p, m)'
      BY <1>1, <2>2, <3>1 DEF Ready, SettledOK, Settled, Unsent, For
    <3>4. UnsentOK(p, m)'
      BY <1>1, <2>2, <3>1 DEF Ready, UnsentOK, Unsent, For
    <3>5. FetchOK(p, m)'
      BY <1>1, <1>3, <2>1, <3>1 DEF Ready, FetchOK
    <3> QED BY <3>2, <3>3, <3>4, <3>5 DEF Ready
  <2>4. CASE p \in behind
    <3>1. (\A h \in Handlers : handler[h] = Idle) /\ wire[p] = <<>> /\ ~Fetching(p)
      BY <1>1, <2>4
    <3>2. RequestsOK(m)' /\ UnsentOK(p, m)'
      BY <1>1, <3>1 DEF RequestsOK, UnsentOK, Unsent, For
    <3>3. /\ DOMAIN <<>> = {} /\ wire'[p] = <<>>
      BY <1>1, <3>1
    <3>4. WireOK(p, m)'
      BY <3>3 DEF WireOK, InOrder, Has
    <3>5. SettledOK(p, m)'
      BY <2>2, <3>3 DEF SettledOK, Clear, LastIs
    <3>6. FetchOK(p, m)'
      BY <1>1, <1>3, <2>1, <3>1 DEF FetchOK, Fetching
    <3> QED BY <3>2, <3>4, <3>5, <3>6 DEF Ready
  <2> QED BY <2>3, <2>4
<1> QED BY <1>4, <1>5

(* The list replaces what was shown by what is stored.                    *)
LEMMA FetchAnsweredReady ==
  ASSUME IInv, AInv, NEW q \in Pages, FetchAnswered(q),
         NEW p \in Pages \ behind', NEW m \in Ids \ old'
  PROVE  Ready(p, m)'
<1>1. PICK k \in Fetches :
        /\ fetch[q][k] # NoFetch /\ fetch' = [fetch EXCEPT ![q][k] = NoFetch]
        /\ shown' = [shown EXCEPT ![q] =
                       [n \in Ids |-> IF fetch[q][k][n] = Gone THEN <<>>
                                      ELSE <<fetch[q][k][n]>>]]
        /\ UNCHANGED <<tables, handler, links, bounds, told>>
  BY DEF FetchAnswered
<1>2. UNCHANGED <<rows, old, handler, wire, behind>>
  BY <1>1 DEF tables, links, told
<1>3. Ready(p, m)
  BY <1>2 DEF AInv, PagesOK
<1>4. CASE p # q
  <2>1. fetch'[p] = fetch[p] /\ shown'[p][m] = shown[p][m]
    BY <1>1, <1>4 DEF IInv, ListsOK
  <2> QED BY <1>2, <1>3, <2>1, ReadyUntouched
<1>5. CASE p = q
  <2>1. /\ \A i \in Fetches : fetch'[p][i] = IF i = k THEN NoFetch ELSE fetch[p][i]
        /\ shown'[p][m] = IF fetch[p][k][m] = Gone THEN <<>> ELSE <<fetch[p][k][m]>>
    BY <1>1, <1>5 DEF IInv, ListsOK
  <2>2. fetch[p][k][m] = rows[m]
    BY <1>1, <1>3, <1>5 DEF Ready, FetchOK
  <2>3. /\ rows[m] = Gone => shown'[p][m] = <<>>
        /\ rows[m] # Gone => shown'[p][m] # <<>>
        /\ Range(shown'[p][m]) \subseteq {rows[m]}
    <3>1. Range(<<>>) = {} /\ Range(<<rows[m]>>) = {rows[m]} /\ <<rows[m]>> # <<>>
      BY DEF Range
    <3> QED BY <2>1, <2>2, <3>1
  <2>4. RequestsOK(m)' /\ WireOK(p, m)'
    BY <1>2, <1>3 DEF Ready, RequestsOK, For, Writing, Published, WireOK
  <2>5. rows[m] # Gone => Kept(p, m)'
    BY <2>3 DEF Kept
  <2>6. SettledOK(p, m)'
    BY <1>2, <1>3, <2>3, <2>5 DEF Ready, SettledOK, Settled, Unsent, For
  <2>7. UnsentOK(p, m)'
    <3>1. ASSUME NEW h \in Handlers, Unsent(h, m)'
          PROVE  /\ Unsent(h, m)
                 /\ handler[h].op = "updated" => rows[m] # Gone
      BY <1>2, <1>3, <3>1 DEF Unsent, For, Ready, RequestsOK
    <3> QED BY <1>2, <1>3, <2>3, <2>5, <3>1 DEF Ready, UnsentOK
  <2>8. FetchOK(p, m)'
    BY <1>2, <1>3, <2>1 DEF Ready, FetchOK
  <2> QED BY <2>4, <2>6, <2>7, <2>8 DEF Ready
<1> QED BY <1>4, <1>5

(* A list that is lost leaves its page behind, as messages that are lost   *)
(* do; connecting and 24 hours change nothing for the notes that count.    *)
LEMMA UntouchedReady ==
  ASSUME IInv, AInv,
         \/ \E q \in Pages : FetchFails(q) \/ Connect(q) \/ Cut(q)
         \/ \E n \in Ids : GrowOld(n)
         \/ CleanUp
         \/ UNCHANGED vars,
         NEW p \in Pages \ behind', NEW m \in Ids \ old'
  PROVE  Ready(p, m)'
<1>1. ASSUME NEW q \in Pages, FetchFails(q) PROVE Ready(p, m)'
  <2>1. UNCHANGED <<rows, old, handler, shown, wire>> /\ p \notin behind /\ p # q
    BY <1>1 DEF FetchFails, tables, links
  <2>2. fetch'[p] = fetch[p]
    BY <1>1, <2>1 DEF FetchFails, IInv, ListsOK
  <2> QED BY <2>1, <2>2, ReadyUntouched DEF AInv, PagesOK
<1>2. ASSUME NEW q \in Pages, Connect(q) PROVE Ready(p, m)'
  <2>1. UNCHANGED <<rows, old, handler, shown, fetch, wire, behind>>
    BY <1>2 DEF Connect, tables, lists, told
  <2> QED BY <2>1, ReadyUntouched DEF AInv, PagesOK
<1>3. ASSUME NEW q \in Pages, Cut(q) PROVE Ready(p, m)'
  <2>1. /\ UNCHANGED <<rows, old, handler, shown, fetch>> /\ p \notin behind
        /\ p # q \/ wire[p] = <<>>
    BY <1>3 DEF Cut, tables, lists
  <2>2. wire'[p] = wire[p]
    BY <1>3, <2>1 DEF Cut, IInv, LinksOK
  <2> QED BY <2>1, <2>2, ReadyUntouched DEF AInv, PagesOK
<1>4. ASSUME (\E n \in Ids : GrowOld(n)) \/ CleanUp \/ UNCHANGED vars PROVE Ready(p, m)'
  <2>1. /\ UNCHANGED <<handler, shown, fetch, wire, behind>> /\ m \notin old
        /\ rows'[m] = rows[m]
    BY <1>4 DEF GrowOld, CleanUp, vars, tables, lists, links, told
  <2> QED BY <2>1, ReadyUntouched DEF AInv, PagesOK
<1> QED BY <1>1, <1>2, <1>3, <1>4

(* A message for the note comes in order: what it brings is what is stored *)
(* once no other follows.                                                  *)
LEMMA ReceiveReady ==
  ASSUME IInv, AInv, NEW q \in Pages, Receive(q),
         NEW p \in Pages \ behind', NEW m \in Ids \ old'
  PROVE  Ready(p, m)'
<1>1. /\ wire[q] # <<>> /\ wire' = [wire EXCEPT ![q] = Tail(@)]
      /\ UNCHANGED <<rows, old, handler, fetch, behind>>
  BY DEF Receive, tables, told
<1>2. PICK x \in Sendable : x = Head(wire[q])
  BY <1>1, HeadTailProperties DEF IInv, LinksOK
<1>3. PICK n \in Ids : n = x.id
  BY DEF Sendable, Message
<1>4. shown' = [shown EXCEPT ![q][n] = Merged(x, shown[q][n])]
  BY <1>2, <1>3 DEF Receive
<1>5. Ready(p, m)
  BY <1>1 DEF AInv, PagesOK
<1>6. p # q \/ m # n => shown'[p][m] = shown[p][m]
  BY <1>4 DEF IInv, ListsOK
<1>7. CASE p # q
  <2>1. wire'[p] = wire[p]
    BY <1>1, <1>7 DEF IInv, LinksOK
  <2> QED BY <1>1, <1>5, <1>6, <1>7, <2>1, ReadyUntouched
<1>8. CASE p = q
  <2> DEFINE w == wire[p]
  <2>1. /\ wire'[p] = Tail(w) /\ w \in Seq(Sendable) /\ w # <<>> /\ Head(w) = x
    BY <1>1, <1>2, <1>8 DEF IInv, LinksOK
  <2> HIDE DEF w
  <2>2. CASE m # n
    <3>1. /\ Clear(w, m) <=> Clear(Tail(w), m)
          /\ \A t : Has(w, m, t) <=> Has(Tail(w), m, t)
          /\ InOrder(w, m) => InOrder(Tail(w), m)
          /\ LastIs(w, m, rows[m]) => LastIs(Tail(w), m, rows[m])
      BY <1>3, <2>1, <2>2, TailOther
    <3> QED BY <1>1, <1>5, <1>6, <2>1, <2>2, <3>1, ReadyKept DEF w
  <2>3. CASE m = n
    <3> DEFINE v == Tail(w)  s == shown[p][n]
    <3>1. InOrder(w, n)
      BY <1>5, <2>3 DEF Ready, WireOK, w
    <3>2. /\ \A t : Has(w, n, t) <=> Has(v, n, t) \/ x.type = t
          /\ InOrder(v, n) /\ ~Has(v, n, "created")
          /\ x.type = "deleted" => Clear(v, n) \/ Has(v, n, "deleted")
          /\ LastIs(w, n, rows[n]) => LastIs(v, n, rows[n])
          /\ LastIs(w, n, rows[n]) /\ Clear(v, n) => x.row = rows[n]
      BY <1>3, <2>1, <3>1, TailOwn
    <3>3. /\ x.type \in {"created", "updated", "deleted"}
          /\ \A t : x.type = t => ~Clear(w, n)
          /\ ~Has(v, n, "created") /\ ~Has(v, n, "updated") /\ ~Has(v, n, "deleted")
               => Clear(v, n)
      <4>1. x.type \in {"created", "updated", "deleted"}
        BY DEF Sendable, Message
      <4>2. ~Clear(w, n)
        BY <3>2 DEF Has, Clear
      <4>3. \A i \in DOMAIN v : v[i].type \in {"created", "updated", "deleted"}
        <5>1. v \in Seq(Sendable)
          BY <2>1
        <5>2. \A i \in DOMAIN v : v[i] \in Sendable
          BY <5>1
        <5> QED BY <5>2 DEF Sendable, Message
      <4> QED BY <4>1, <4>2, <4>3 DEF Has, Clear
    <3>4. s \in Seq(Rows) /\ shown'[p][n] = Merged(x, s)
      BY <1>4, <1>8 DEF IInv, ListsOK
    <3> HIDE DEF v, s
    <3>5. /\ x.type = "deleted" => Merged(x, s) = <<>>
          /\ x.type # "deleted" /\ (x.type = "created" \/ s # <<>>) => Merged(x, s) # <<>>
          /\ x.type = "updated" => Range(Merged(x, s)) \subseteq {x.row}
          /\ x.type = "created" => Range(Merged(x, s)) \subseteq {x.row} \/ Merged(x, s) = s
      <4>1. CASE x.type = "created"
        <5>1. Range(<<x.row>>) = {x.row} /\ <<x.row>> # <<>>
          BY DEF Range
        <5> QED BY <4>1, <5>1 DEF Merged
      <4>2. CASE x.type = "updated"
        <5>1. Merged(x, s) = [i \in DOMAIN s |-> x.row]
          BY <4>2 DEF Merged
        <5>2. ASSUME s # <<>> PROVE DOMAIN s # {}
          <6>1. Len(s) \in Nat \ {0} /\ DOMAIN s = 1..Len(s)
            BY <3>4, <5>2, TailFacts
          <6>2. 1 \in DOMAIN s
            BY <6>1
          <6> QED BY <6>2
        <5>3. s # <<>> => Merged(x, s) # <<>>
          BY <5>1, <5>2
        <5> QED BY <4>2, <5>1, <5>3 DEF Range
      <4>3. CASE x.type = "deleted"
        BY <4>3 DEF Merged
      <4> QED BY <3>3, <4>1, <4>2, <4>3
    <3>6. WireOK(p, n)' /\ RequestsOK(n)' /\ FetchOK(p, n)'
      <4>1. Has(v, n, "deleted") => rows[n] = Gone
        BY <1>5, <2>3, <3>2 DEF Ready, WireOK, w
      <4>2. WireOK(p, n)'
        BY <1>1, <2>1, <3>2, <4>1 DEF WireOK, v
      <4>3. RequestsOK(n)' /\ FetchOK(p, n)'
        BY <1>1, <1>5, <2>3 DEF Ready, RequestsOK, For, Writing, Published, FetchOK
      <4> QED BY <4>2, <4>3
    <3>7. ASSUME rows[n] # Gone, Kept(p, n) PROVE Kept(p, n)' /\ x.type # "deleted"
      <4>1. x.type # "deleted"
        BY <1>5, <2>3, <3>2, <3>7 DEF Ready, WireOK, w
      <4>2. x.type = "created" \/ s # <<>>
        BY <3>2, <3>7 DEF Kept, w, s
      <4> QED BY <3>4, <3>5, <4>1, <4>2 DEF Kept
    <3>8. Fetching(p)' <=> Fetching(p)
      BY <1>1 DEF Fetching
    <3>9. UnsentOK(p, n)'
      <4>1. ASSUME NEW h \in Handlers, Unsent(h, n)'
            PROVE  /\ handler[h].op # "created"
                   /\ handler[h].op = "updated" /\ ~Fetching(p) => Kept(p, n)'
        <5>1. Unsent(h, n) /\ For(h, n)
          BY <1>1, <4>1 DEF Unsent, For
        <5>2. handler[h].op # "created"
          BY <1>5, <2>3, <3>3, <5>1 DEF Ready, UnsentOK, w
        <5>3. ASSUME handler[h].op = "updated", ~Fetching(p) PROVE Kept(p, n)'
          BY <1>5, <2>3, <3>7, <5>1, <5>3 DEF Ready, UnsentOK, RequestsOK
        <5> QED BY <5>2, <5>3
      <4> QED BY <1>1, <3>8, <4>1 DEF UnsentOK
    <3>10. SettledOK(p, n)'
      <4>1. SUFFICES ASSUME Settled(n)'
                     PROVE  /\ rows[n] = Gone =>
                                 \/ Has(v, n, "deleted")
                                 \/ Clear(v, n) /\ shown'[p][n] = <<>>
                            /\ rows[n] # Gone =>
                                 /\ LastIs(v, n, rows[n])
                                 /\ ~Fetching(p) =>
                                      /\ Kept(p, n)'
                                      /\ ~Has(v, n, "updated") =>
                                           Range(shown'[p][n]) \subseteq {rows[n]}
        BY <1>1, <2>1, <3>8 DEF SettledOK, v
      <4>2. Settled(n)
        BY <1>1, <4>1 DEF Settled, Unsent, For
      <4>3. CASE rows[n] = Gone
        <5>1. Has(w, n, "deleted")
          BY <1>5, <2>3, <3>3, <4>2, <4>3 DEF Ready, SettledOK, w
        <5> QED BY <3>2, <3>4, <3>5, <4>3, <5>1
      <4>4. CASE rows[n] # Gone
        <5>1. LastIs(w, n, rows[n])
          BY <1>5, <2>3, <4>2, <4>4 DEF Ready, SettledOK, w
        <5>2. ASSUME ~Fetching(p) PROVE Kept(p, n)' /\ x.type # "deleted"
          BY <1>5, <2>3, <3>7, <4>2, <4>4, <5>2 DEF Ready, SettledOK
        <5>3. ASSUME ~Fetching(p), ~Has(v, n, "updated")
              PROVE  Range(shown'[p][n]) \subseteq {rows[n]}
          <6>1. Clear(v, n)
            <7>1. ~Has(v, n, "deleted")
              BY <1>5, <2>3, <3>2, <4>4 DEF Ready, WireOK, w
            <7> QED BY <3>2, <3>3, <5>3, <7>1
          <6>2. x.row = rows[n]
            BY <3>2, <5>1, <6>1
          <6>3. CASE x.type = "updated"
            BY <3>4, <3>5, <6>2, <6>3
          <6>4. CASE x.type = "created"
            <7>1. Range(s) \subseteq {rows[n]}
              BY <1>5, <2>3, <3>2, <4>2, <4>4, <5>3, <6>4 DEF Ready, SettledOK, w, s
            <7> QED BY <3>4, <3>5, <6>2, <6>4, <7>1
          <6> QED BY <3>3, <5>2, <5>3, <6>3, <6>4
        <5> QED BY <3>2, <4>4, <5>1, <5>2, <5>3
      <4> QED BY <4>3, <4>4
    <3> QED BY <2>3, <3>6, <3>9, <3>10 DEF Ready
  <2> QED BY <2>2, <2>3
<1> QED BY <1>7, <1>8

-----------------------------------------------------------------------------
(* No message speaks of a note before it is posted.                        *)
LEMMA UnpostedNext == ASSUME IInv, AInv, [Next]_vars PROVE UnpostedOK'
<1>1. \A n \in Ids : posted'[n] = Gone => posted[n] = Gone
  <2>1. CASE \E h \in Handlers, n \in Ids, p \in Pages \cup {Nobody} : Create(h, n, p)
    BY <2>1, NotesAssumption DEF Create, IInv, TablesOK
  <2>2. CASE UNCHANGED posted
    BY <2>2
  <2>3. \/ \E h \in Handlers, n \in Ids, p \in Pages \cup {Nobody} : Create(h, n, p)
        \/ UNCHANGED posted
    <3>1. ASSUME NEW h \in Handlers, Serve(h) PROVE UNCHANGED posted
      BY <3>1 DEF Serve, Reread, AddVersion, WriteUpdate, DeleteRow, Refresh, Publish,
                  PublishFails, Respond, RequestFails, bounds
    <3>2. ASSUME NEW h \in Handlers, NEW n \in Ids,
                 \/ \E e \in Edits : ReadForUpdate(h, n, e)
                 \/ \E q \in Pages \cup {Nobody} : ReadForDelete(h, q, n)
          PROVE  UNCHANGED posted
      BY <3>2 DEF ReadForUpdate, ReadForDelete
    <3>3. ASSUME NEW q \in Pages,
                 \/ StartFetch(q) \/ FetchAnswered(q) \/ FetchFails(q)
                 \/ Connect(q) \/ Cut(q) \/ Receive(q)
          PROVE  UNCHANGED posted
      BY <3>3 DEF StartFetch, FetchAnswered, FetchFails, Connect, Cut, Receive, bounds
    <3>4. ASSUME (\E n \in Ids : GrowOld(n)) \/ CleanUp \/ Restart \/ UNCHANGED vars
          PROVE  UNCHANGED posted
      BY <3>4 DEF GrowOld, CleanUp, Restart, vars, bounds
    <3> QED BY <3>1, <3>2, <3>3, <3>4 DEF Next
  <2> QED BY <2>1, <2>2, <2>3
<1>2. ASSUME NEW n \in Ids, posted[n] = Gone, NEW p \in Pages PROVE Clear(wire'[p], n)
  <2>1. wire[p] \in Seq(Sendable) /\ Clear(wire[p], n)
    BY <1>2 DEF IInv, LinksOK, AInv, UnpostedOK
  <2>2. ASSUME NEW h \in Handlers, Publish(h) PROVE Clear(wire'[p], n)
    <3>1. handler[h] # Idle /\ handler[h] \in Underway /\ handler[h].at = "publish"
      BY <2>2, RequestAt DEF Publish
    <3>2. Sent(h) \in Sendable /\ Sent(h).id # n
      BY <1>2, <3>1, SentOK DEF Sent, IInv, HandlersOK
    <3>3. Clear(Append(wire[p], Sent(h)), n)
      <4> DEFINE w == wire[p]  x == Sent(h)
      <4>1. w \in Seq(Sendable) /\ x \in Sendable /\ x.id # n /\ Clear(w, n)
        BY <2>1, <3>2
      <4> HIDE DEF w, x
      <4>2. Clear(Append(w, x), n)
        BY <4>1, AppendOther
      <4> QED BY <4>2 DEF w, x
    <3>4. wire'[p] = Append(wire[p], Sent(h)) \/ wire'[p] = wire[p]
      BY <2>2 DEF Publish
    <3> QED BY <2>1, <3>3, <3>4
  <2>3. ASSUME NEW q \in Pages, Receive(q) PROVE Clear(wire'[p], n)
    <3>1. wire'[p] = wire[p] \/ (wire[p] # <<>> /\ wire'[p] = Tail(wire[p]))
      BY <2>3 DEF Receive, IInv, LinksOK
    <3>2. wire[p] # <<>> => Clear(Tail(wire[p]), n)
      <4> DEFINE w == wire[p]
      <4>1. SUFFICES ASSUME w # <<>> PROVE Clear(Tail(w), n)
        OBVIOUS
      <4>2. w \in Seq(Sendable) /\ Clear(w, n)
        BY <2>1
      <4> HIDE DEF w
      <4>3. Head(w).id # n
        BY <4>1, <4>2, TailFacts DEF Clear
      <4> QED BY <4>1, <4>2, <4>3, TailOther
    <3> QED BY <2>1, <3>1, <3>2
  <2>4. ASSUME NEW q \in Pages, Cut(q) PROVE Clear(wire'[p], n)
    <3>1. wire'[p] = wire[p] \/ wire'[p] = <<>>
      BY <2>4 DEF Cut, IInv, LinksOK
    <3> QED BY <2>1, <3>1 DEF Clear
  <2>5. ASSUME Restart PROVE Clear(wire'[p], n)
    BY <2>5 DEF Restart, Clear
  <2>6. \/ UNCHANGED wire \/ Restart
        \/ \E h \in Handlers : Publish(h)
        \/ \E q \in Pages : Receive(q) \/ Cut(q)
    <3>1. ASSUME NEW h \in Handlers, Serve(h) PROVE Publish(h) \/ UNCHANGED wire
      BY <3>1 DEF Serve, Reread, AddVersion, WriteUpdate, DeleteRow, Refresh,
                  PublishFails, Respond, RequestFails, links
    <3>2. ASSUME NEW h \in Handlers, NEW m \in Ids,
                 \/ \E e \in Edits : ReadForUpdate(h, m, e)
                 \/ \E q \in Pages \cup {Nobody} : Create(h, m, q) \/ ReadForDelete(h, q, m)
          PROVE  UNCHANGED wire
      BY <3>2 DEF Create, ReadForUpdate, ReadForDelete, links
    <3>3. ASSUME NEW q \in Pages,
                 StartFetch(q) \/ FetchAnswered(q) \/ FetchFails(q) \/ Connect(q)
          PROVE  UNCHANGED wire
      BY <3>3 DEF StartFetch, FetchAnswered, FetchFails, Connect, links
    <3>4. ASSUME (\E m \in Ids : GrowOld(m)) \/ CleanUp \/ UNCHANGED vars
          PROVE  UNCHANGED wire
      BY <3>4 DEF GrowOld, CleanUp, vars, links
    <3> QED BY <3>1, <3>2, <3>3, <3>4 DEF Next
  <2> QED BY <2>1, <2>2, <2>3, <2>4, <2>6, <2>5
<1> QED BY <1>1, <1>2 DEF UnpostedOK

(* Every step keeps what the pages know.                                  *)
LEMMA AgreeNext == IInv /\ AInv /\ [Next]_vars => AInv'
<1> SUFFICES ASSUME IInv, AInv, [Next]_vars PROVE AInv'
  OBVIOUS
<1>1. ASSUME NEW p \in Pages \ behind', NEW m \in Ids \ old' PROVE Ready(p, m)'
  <2>1. ASSUME NEW h \in Handlers, Serve(h) PROVE Ready(p, m)'
    BY <2>1, UnsentReady, WriteUpdateReady, DeleteRowReady, PublishReady,
       RespondReady, DyingReady DEF Serve
  <2>2. ASSUME NEW h \in Handlers, NEW n \in Ids,
               \/ \E e \in Edits : ReadForUpdate(h, n, e)
               \/ \E q \in Pages \cup {Nobody} : Create(h, n, q) \/ ReadForDelete(h, q, n)
        PROVE  Ready(p, m)'
    BY <2>2, CreateReady, BeginReady
  <2>3. ASSUME NEW q \in Pages,
               \/ StartFetch(q) \/ FetchAnswered(q) \/ FetchFails(q)
               \/ Connect(q) \/ Cut(q) \/ Receive(q)
        PROVE  Ready(p, m)'
    BY <2>3, StartFetchReady, FetchAnsweredReady, UntouchedReady, ReceiveReady
  <2>4. ASSUME (\E n \in Ids : GrowOld(n)) \/ CleanUp \/ UNCHANGED vars PROVE Ready(p, m)'
    BY <2>4, UntouchedReady
  <2> QED BY <2>1, <2>2, <2>3, <2>4, DyingReady DEF Next
<1>2. PagesOK'
  BY <1>1 DEF PagesOK
<1> QED BY <1>2, UnpostedNext DEF AInv

(* Once requests, answers and messages are through, a page shows what is   *)
(* stored, unless a message of it was lost or never sent, a list failed or *)
(* was under way during a commit, or two requests for one note overlapped  *)
(* (routes/notes.py: the commits and pubsub_publish, with their failures   *)
(* and the server's; SharedNotes.tsx: fetchNotes, onmessage,               *)
(* handleAddNote).                                                         *)
THEOREM PagesAgreeAtRest == Spec => []AgreesAtRest
<1>1. Init => AInv
  BY DEF Init, AInv, UnpostedOK, PagesOK, Clear
<1>2. IInv /\ AInv => AgreesAtRest
  <2> SUFFICES ASSUME IInv, AInv, NEW p \in Pages, Quiet(p), p \notin behind,
                      NEW n \in Ids \ old
               PROVE  Range(shown[p][n]) = Stored(n)
    BY DEF AgreesAtRest, Agrees
  <2>1. SettledOK(p, n) /\ Settled(n) /\ ~Fetching(p) /\ wire[p] = <<>>
    BY DEF AInv, PagesOK, Ready, Quiet, Settled, Unsent, For
  <2>2. \A t : ~Has(wire[p], n, t)
    BY <2>1 DEF Has
  <2>3. CASE rows[n] = Gone
    <3>1. shown[p][n] = <<>>
      BY <2>1, <2>2, <2>3 DEF SettledOK
    <3> QED BY <2>3, <3>1 DEF Range, Stored
  <2>4. CASE rows[n] # Gone
    <3>1. shown[p][n] # <<>> /\ Range(shown[p][n]) \subseteq {rows[n]}
      BY <2>1, <2>2, <2>4 DEF SettledOK, Kept
    <3>2. shown[p][n] \in Seq(Rows)
      BY DEF IInv, ListsOK
    <3>3. 1 \in DOMAIN shown[p][n]
      <4> DEFINE s == shown[p][n]
      <4>1. s \in Seq(Rows) /\ s # <<>>
        BY <3>1, <3>2
      <4> HIDE DEF s
      <4>2. Len(s) \in Nat \ {0} /\ DOMAIN s = 1..Len(s)
        BY <4>1, TailFacts
      <4>3. 1 \in DOMAIN s
        BY <4>2
      <4> QED BY <4>3 DEF s
    <3>4. shown[p][n][1] \in Range(shown[p][n])
      BY <3>3 DEF Range
    <3>5. Range(shown[p][n]) = {rows[n]}
      BY <3>1, <3>4
    <3> QED BY <2>4, <3>5 DEF Stored
  <2> QED BY <2>3, <2>4
<1> QED BY InitInv, NextInv, AgreeNext, <1>1, <1>2, PTL DEF Spec
-----------------------------------------------------------------------------
(* Rows of notes, wherever they are: in the table, held by requests, in    *)
(* answers to the list under way, in messages and on pages.                *)
InTable == {z \in Ids \X Rows : rows[z[1]] = z[2]}
InRequests == {z \in Ids \X Rows : \E h \in Handlers : For(h, z[1]) /\ handler[h].row = z[2]}
InAnswers == {z \in Ids \X Rows : \E p \in Pages, k \in Fetches :
                                    fetch[p][k] # NoFetch /\ fetch[p][k][z[1]] = z[2]}
InMessages == {z \in Ids \X Rows : \E p \in Pages : \E i \in DOMAIN wire[p] :
                                     wire[p][i].id = z[1] /\ wire[p][i].row = z[2]}
OnPages == {z \in Ids \X Rows : \E p \in Pages : z[2] \in Range(shown[p][z[1]])}
Carried == InTable \cup InRequests \cup InAnswers \cup InMessages \cup OnPages

(* A row's columns are in the history of note n, or were posted.           *)
RowRecorded(n, r) ==
  /\ \E v \in versions[n] \cup {Draft[n]} : v.content = r.content
  /\ \E v \in versions[n] \cup {Draft[n]} : v.author = r.author
AllRecorded == \A z \in Carried : RowRecorded(z[1], z[2])

(* Rows are carried from one place to another while versions come.         *)
LEMMA RecordedKept ==
  ASSUME AllRecorded, \A n \in Ids : versions[n] \subseteq versions'[n],
         \A z \in Carried' : z \in Carried \/ RowRecorded(z[1], z[2])'
  PROVE  AllRecorded'
<1> SUFFICES ASSUME NEW z \in Carried', z \in Carried PROVE RowRecorded(z[1], z[2])'
  BY DEF AllRecorded
<1>1. RowRecorded(z[1], z[2])
  BY DEF AllRecorded
<1>2. z[1] \in Ids
  BY DEF Carried, InTable, InRequests, InAnswers, InMessages, OnPages
<1> QED BY <1>1, <1>2 DEF RowRecorded

(* What a step leaves alone carries what it did.                           *)
LEMMA CarriedUntouched ==
  /\ UNCHANGED rows => InTable' = InTable
  /\ UNCHANGED handler => InRequests' = InRequests
  /\ UNCHANGED fetch => InAnswers' = InAnswers
  /\ UNCHANGED wire => InMessages' = InMessages
  /\ UNCHANGED shown => OnPages' = OnPages
BY DEF InTable, InRequests, InAnswers, InMessages, OnPages, For

(* A request holds what it held, or what it has just read.                 *)
LEMMA RequestsCarry ==
  ASSUME IInv, NEW h \in Handlers, NEW r, handler' = [handler EXCEPT ![h] = r],
         NEW z \in InRequests'
  PROVE  z \in InRequests \/ (r # Idle /\ r.id = z[1] /\ r.row = z[2])
<1>1. \A g \in Handlers : handler'[g] = IF g = h THEN r ELSE handler[g]
  BY DEF IInv, HandlersOK
<1>2. z \in Ids \X Rows
  BY DEF InRequests
<1>3. PICK g \in Handlers : /\ handler'[g] # Idle /\ handler'[g].id = z[1]
                            /\ handler'[g].row = z[2]
  BY DEF InRequests, For
<1>4. CASE g = h
  BY <1>1, <1>3, <1>4
<1>5. CASE g # h
  <2>1. For(g, z[1]) /\ handler[g].row = z[2]
    BY <1>1, <1>3, <1>5 DEF For
  <2> QED BY <1>2, <2>1 DEF InRequests
<1> QED BY <1>4, <1>5

-----------------------------------------------------------------------------
LEMMA CreateRecorded ==
  ASSUME IInv, AllRecorded, NEW h \in Handlers, NEW n \in Ids,
         NEW p \in Pages \cup {Nobody}, Create(h, n, p)
  PROVE  AllRecorded'
<1> DEFINE r == [op |-> "created", at |-> "reread", id |-> n, page |-> p,
                 row |-> Gone, new |-> Gone]
<1>1. /\ rows' = [rows EXCEPT ![n] = Draft[n]] /\ handler' = [handler EXCEPT ![h] = r]
      /\ UNCHANGED <<versions, fetch, wire, shown>>
  BY DEF Create, lists, links
<1>2. \A z \in InTable' : z \in InTable \/ RowRecorded(z[1], z[2])'
  <2>1. SUFFICES ASSUME NEW z \in InTable', z \notin InTable PROVE RowRecorded(z[1], z[2])'
    OBVIOUS
  <2>2. z[1] = n /\ z[2] = Draft[n]
    BY <1>1, <2>1 DEF InTable, IInv, TablesOK
  <2> QED BY <2>2 DEF RowRecorded
<1>3. \A z \in InRequests' : z \in InRequests
  <2>1. SUFFICES ASSUME NEW z \in InRequests' PROVE z \in InRequests
    OBVIOUS
  <2>2. z[2] \in Rows
    BY DEF InRequests
  <2>3. z[2] # Gone
    BY <2>2, MarkersAssumption
  <2>4. z \in InRequests \/ r.row = z[2]
    BY <1>1, RequestsCarry
  <2> QED BY <2>3, <2>4
<1> QED BY <1>1, <1>2, <1>3, CarriedUntouched, RecordedKept DEF Carried

(* What a request reads is in the table.                                   *)
LEMMA ReadingRecorded ==
  ASSUME IInv, AllRecorded, NEW h \in Handlers, NEW r, UNCHANGED <<tables, lists, links>>,
         handler' = [handler EXCEPT ![h] = r],
         r # Idle /\ r.row # Gone =>
           r.row = rows[r.id] \/ (For(h, r.id) /\ r.row = handler[h].row)
  PROVE  AllRecorded'
<1>1. \A z \in InRequests' : z \in InRequests \cup InTable
  <2>1. SUFFICES ASSUME NEW z \in InRequests', z \notin InRequests PROVE z \in InTable
    OBVIOUS
  <2>2. r # Idle /\ r.id = z[1] /\ r.row = z[2]
    BY <2>1, RequestsCarry
  <2>3. z \in Ids \X Rows
    BY DEF InRequests
  <2>4. r.row # Gone
    BY <2>2, <2>3, MarkersAssumption
  <2>5. CASE r.row = rows[r.id]
    BY <2>2, <2>3, <2>5 DEF InTable
  <2>6. CASE For(h, r.id) /\ r.row = handler[h].row
    BY <2>1, <2>2, <2>3, <2>6 DEF InRequests
  <2> QED BY <2>2, <2>4, <2>5, <2>6
<1>2. UNCHANGED <<rows, versions, fetch, wire, shown>>
  BY DEF tables, lists, links
<1> QED BY <1>1, <1>2, CarriedUntouched, RecordedKept DEF Carried

LEMMA ReadRecorded ==
  ASSUME IInv, AllRecorded, NEW h \in Handlers,
         \/ Reread(h) \/ Refresh(h) \/ RequestFails(h)
         \/ \E n \in Ids : \/ \E e \in Edits : ReadForUpdate(h, n, e)
                           \/ \E p \in Pages \cup {Nobody} : ReadForDelete(h, p, n)
  PROVE  AllRecorded'
<1>1. ASSUME NEW place, At(h, place), handler' = [handler EXCEPT ![h] = Idle],
             UNCHANGED <<tables, lists, links>>
      PROVE  AllRecorded'
  BY <1>1, ReadingRecorded
<1>2. ASSUME NEW place, NEW next, At(h, place), UNCHANGED <<tables, lists, links>>,
             Hold(h, next, rows[handler[h].id])
      PROVE  AllRecorded'
  <2> DEFINE r == [handler[h] EXCEPT !.at = next, !.row = rows[handler[h].id]]
  <2>1. handler' = [handler EXCEPT ![h] = r]
    BY <1>2 DEF Hold
  <2>2. handler[h] \in Underway
    BY <1>2, RequestAt
  <2>3. r.id = handler[h].id /\ r.row = rows[handler[h].id]
    BY <2>2 DEF Underway, Request
  <2> HIDE DEF r
  <2> QED BY <1>2, <2>1, <2>3, ReadingRecorded
<1>3. CASE Reread(h) \/ Refresh(h)
  <2>1. \E place : At(h, place)
    BY <1>3 DEF Reread, Refresh
  <2>2. /\ UNCHANGED <<tables, lists, links>>
        /\ \/ handler' = [handler EXCEPT ![h] = Idle]
           \/ \E next : Hold(h, next, rows[handler[h].id])
    BY <1>3 DEF Reread, Refresh, Fails
  <2> QED BY <1>1, <1>2, <2>1, <2>2
<1>4. ASSUME NEW n \in Ids, NEW e \in Edits, ReadForUpdate(h, n, e) PROVE AllRecorded'
  <2> DEFINE r == [op |-> "updated", at |-> "write", id |-> n, page |-> Nobody,
                   row |-> rows[n], new |-> e]
  <2>1. handler' = [handler EXCEPT ![h] = r] /\ UNCHANGED <<tables, lists, links>>
    BY <1>4 DEF ReadForUpdate
  <2>2. r.row = rows[r.id]
    OBVIOUS
  <2> HIDE DEF r
  <2> QED BY <2>1, <2>2, ReadingRecorded
<1>5. ASSUME NEW n \in Ids, NEW p \in Pages \cup {Nobody}, ReadForDelete(h, p, n)
      PROVE  AllRecorded'
  <2> DEFINE r == [op |-> "deleted", at |-> "delete", id |-> n, page |-> p,
                   row |-> Gone, new |-> Gone]
  <2>1. handler' = [handler EXCEPT ![h] = r] /\ UNCHANGED <<tables, lists, links>>
    BY <1>5 DEF ReadForDelete
  <2>2. r.row = Gone
    OBVIOUS
  <2> HIDE DEF r
  <2> QED BY <2>1, <2>2, ReadingRecorded
<1>6. CASE RequestFails(h)
  BY <1>6, ReadingRecorded DEF RequestFails, Fails
<1> QED BY <1>3, <1>4, <1>5, <1>6

(* A request goes on with the row it holds.                                *)
LEMMA GoesOnCarries ==
  ASSUME IInv, NEW h \in Handlers, NEW place, At(h, place),
         \/ handler' = [handler EXCEPT ![h] = Idle]
         \/ \E next : Goto(h, next)
  PROVE  InRequests' \subseteq InRequests
<1>1. handler[h] # Idle /\ handler[h] \in Underway
  BY RequestAt
<1>2. ASSUME handler' = [handler EXCEPT ![h] = Idle], NEW z \in InRequests'
      PROVE  z \in InRequests
  BY <1>2, RequestsCarry
<1>3. ASSUME NEW next, Goto(h, next), NEW z \in InRequests' PROVE z \in InRequests
  <2> DEFINE r == [handler[h] EXCEPT !.at = next]
  <2>1. handler' = [handler EXCEPT ![h] = r] /\ r.id = handler[h].id /\ r.row = handler[h].row
    BY <1>1, <1>3 DEF Goto, Underway, Request
  <2> HIDE DEF r
  <2>4. z \in InRequests \/ (r # Idle /\ r.id = z[1] /\ r.row = z[2])
    BY <2>1, RequestsCarry
  <2>2. z \in InRequests \/ (handler[h].id = z[1] /\ handler[h].row = z[2])
    BY <2>1, <2>4
  <2>3. z \in Ids \X Rows
    BY DEF InRequests
  <2> QED BY <1>1, <2>2, <2>3 DEF InRequests, For
<1> QED BY <1>2, <1>3

LEMMA WritingRecorded ==
  ASSUME IInv, AllRecorded, NEW h \in Handlers,
         AddVersion(h) \/ WriteUpdate(h) \/ DeleteRow(h)
  PROVE  AllRecorded'
<1> DEFINE n == handler[h].id
<1>1. PICK place : At(h, place)
  BY DEF AddVersion, WriteUpdate, DeleteRow
<1>2. handler[h] \in Underway /\ n \in Ids
  BY <1>1, RequestAt DEF Underway, Request
<1>3. InRequests' \subseteq InRequests
  <2>1. \/ handler' = [handler EXCEPT ![h] = Idle]
        \/ \E next : Goto(h, next)
    BY DEF AddVersion, WriteUpdate, DeleteRow, Fails
  <2> QED BY <1>1, <2>1, GoesOnCarries
<1>4. UNCHANGED <<fetch, wire, shown>>
  BY DEF AddVersion, WriteUpdate, DeleteRow, lists, links
<1>5. ASSUME \A m \in Ids : versions[m] \subseteq versions'[m],
             \A z \in InTable' : z \in InTable \/ RowRecorded(z[1], z[2])'
      PROVE  AllRecorded'
  BY <1>3, <1>4, <1>5, CarriedUntouched, RecordedKept DEF Carried
<1>6. CASE AddVersion(h)
  BY <1>2, <1>5, <1>6, CarriedUntouched DEF AddVersion, IInv, TablesOK
<1>7. CASE DeleteRow(h)
  <2>1. rows' = [rows EXCEPT ![n] = Gone] /\ UNCHANGED versions
    BY <1>7 DEF DeleteRow
  <2>2. \A z \in InTable' : z \in InTable
    BY <2>1, MarkersAssumption DEF InTable, IInv, TablesOK
  <2> QED BY <1>5, <2>1, <2>2
<1>8. CASE WriteUpdate(h)
  <2> DEFINE from == handler[h].row  to == handler[h].new
  <2>1. CASE UNCHANGED <<rows, versions>>
    BY <1>5, <2>1, CarriedUntouched
  <2>2. CASE ~UNCHANGED <<rows, versions>>
    <3>1. /\ rows' = [rows EXCEPT ![n] = IF @ = Gone THEN Gone ELSE Changed(from, to, @)]
          /\ versions' = [versions EXCEPT ![n] = @ \cup {to}]
      BY <1>8, <2>2 DEF WriteUpdate
    <3>2. /\ rows'[n] = IF rows[n] = Gone THEN Gone ELSE Changed(from, to, rows[n])
          /\ \A m \in Ids : m # n => rows'[m] = rows[m]
          /\ \A m \in Ids : versions[m] \subseteq versions'[m]
          /\ to \in versions'[n]
      BY <1>2, <3>1 DEF IInv, TablesOK
    <3>3. ASSUME NEW z \in InTable', z \notin InTable PROVE RowRecorded(z[1], z[2])'
      <4>1. z \in Ids \X Rows /\ rows'[z[1]] = z[2] /\ rows[z[1]] # z[2]
        BY <3>3 DEF InTable
      <4>2. z[1] = n /\ rows[n] # Gone /\ z[2] = Changed(from, to, rows[n])
        <5>1. z[2] # Gone
          BY <4>1, MarkersAssumption
        <5> QED BY <3>2, <4>1, <5>1
      <4>3. RowRecorded(n, rows[n])
        <5>1. <<n, rows[n]>> \in Carried
          BY <1>2, <4>2 DEF Carried, InTable, IInv, TablesOK
        <5> QED BY <5>1 DEF AllRecorded
      <4>4. /\ z[2].content = rows[n].content \/ z[2].content = to.content
            /\ z[2].author = rows[n].author \/ z[2].author = to.author
        BY <4>2 DEF Changed
      <4>5. \A v \in versions[n] \cup {Draft[n]} : v \in versions'[n] \cup {Draft[n]}
        BY <1>2, <3>2
      <4>6. \E v \in versions'[n] \cup {Draft[n]} : v.content = z[2].content
        BY <3>2, <4>3, <4>4, <4>5 DEF RowRecorded
      <4>7. \E v \in versions'[n] \cup {Draft[n]} : v.author = z[2].author
        BY <3>2, <4>3, <4>4, <4>5 DEF RowRecorded
      <4> QED BY <4>2, <4>6, <4>7 DEF RowRecorded
    <3> QED BY <1>5, <3>2, <3>3
  <2> QED BY <2>1, <2>2
<1> QED BY <1>6, <1>7, <1>8

(* What is sent was held.                                                  *)
LEMMA PublishRecorded ==
  ASSUME IInv, AllRecorded, NEW h \in Handlers, Publish(h) \/ PublishFails(h)
  PROVE  AllRecorded'
<1>1. At(h, "publish") /\ Goto(h, "respond") /\ UNCHANGED <<tables, lists>>
  BY DEF Publish, PublishFails
<1>2. InRequests' \subseteq InRequests /\ handler[h] # Idle
  BY <1>1, GoesOnCarries, RequestAt
<1>3. \A z \in InMessages' : z \in InMessages \/ z \in InRequests
  <2>1. CASE UNCHANGED wire
    BY <2>1, CarriedUntouched
  <2>2. CASE Publish(h)
    <3>1. SUFFICES ASSUME NEW z \in InMessages' PROVE z \in InMessages \/ z \in InRequests
      OBVIOUS
    <3>2. z \in Ids \X Rows
      BY DEF InMessages
    <3>0. PICK p \in Pages : \E i \in DOMAIN wire'[p] :
                               wire'[p][i].id = z[1] /\ wire'[p][i].row = z[2]
      BY DEF InMessages
    <3>3. PICK i \in DOMAIN wire'[p] : wire'[p][i].id = z[1] /\ wire'[p][i].row = z[2]
      BY <3>0
    <3>4. wire'[p] = wire[p] \/ wire'[p] = Append(wire[p], Sent(h))
      BY <2>2 DEF Publish
    <3>5. CASE wire'[p] = wire[p]
      BY <3>2, <3>3, <3>5 DEF InMessages
    <3>6. CASE wire'[p] = Append(wire[p], Sent(h))
      <4> DEFINE w == wire[p]  x == Sent(h)
      <4>1. w \in Seq(Sendable)
        BY DEF IInv, LinksOK
      <4>2. i \in DOMAIN Append(w, x)
        BY <3>3, <3>6
      <4> HIDE DEF w, x
      <4>3. Append(w, x)[i] = x \/ (i \in DOMAIN w /\ Append(w, x)[i] = w[i])
        BY <4>1, <4>2
      <4>4. CASE wire'[p][i] = Sent(h)
        <5>1. handler[h].id = z[1] /\ handler[h].row = z[2]
          BY <3>3, <4>4 DEF Sent
        <5> QED BY <1>2, <3>2, <5>1 DEF InRequests, For
      <4>5. CASE i \in DOMAIN wire[p] /\ wire'[p][i] = wire[p][i]
        BY <3>2, <3>3, <4>5 DEF InMessages
      <4> QED BY <3>6, <4>3, <4>4, <4>5 DEF w, x
    <3> QED BY <3>4, <3>5, <3>6
  <2> QED BY <2>1, <2>2 DEF Publish, PublishFails, links
<1>4. UNCHANGED <<rows, versions, fetch, shown>>
  BY <1>1 DEF tables, lists
<1> QED BY <1>2, <1>3, <1>4, CarriedUntouched, RecordedKept DEF Carried

(* A page shows one note anew.                                             *)
LEMMA ShownCarries ==
  ASSUME IInv, NEW p \in Pages, NEW n \in Ids, NEW s,
         shown' = [shown EXCEPT ![p][n] = s], NEW z \in OnPages'
  PROVE  z \in OnPages \/ (z[1] = n /\ z[2] \in Range(s))
<1>1. \A q \in Pages, m \in Ids : shown'[q][m] = IF q = p /\ m = n THEN s ELSE shown[q][m]
  BY DEF IInv, ListsOK
<1>2. z \in Ids \X Rows
  BY DEF OnPages
<1>3. PICK q \in Pages : z[2] \in Range(shown'[q][z[1]])
  BY DEF OnPages
<1>4. CASE q = p /\ z[1] = n
  BY <1>1, <1>3, <1>4
<1>5. CASE ~(q = p /\ z[1] = n)
  <2>1. shown'[q][z[1]] = shown[q][z[1]]
    BY <1>1, <1>2, <1>5
  <2> QED BY <1>2, <1>3, <2>1 DEF OnPages
<1> QED BY <1>4, <1>5

LEMMA RespondRecorded ==
  ASSUME IInv, AllRecorded, NEW h \in Handlers, Respond(h) PROVE AllRecorded'
<1> DEFINE n == handler[h].id  p == handler[h].page
<1>1. /\ At(h, "respond") /\ handler' = [handler EXCEPT ![h] = Idle]
      /\ UNCHANGED <<rows, versions, fetch, wire>>
  BY DEF Respond, tables, links
<1>2. InRequests' \subseteq InRequests /\ handler[h] # Idle /\ handler[h] \in Underway
  BY <1>1, GoesOnCarries, RequestAt
<1>3. n \in Ids
  BY <1>2 DEF Underway, Request
<1>4. \A z \in OnPages' : z \in OnPages \cup InRequests
  <2>1. CASE UNCHANGED shown
    BY <2>1, CarriedUntouched
  <2>2. CASE p \in Pages /\ shown' = [shown EXCEPT ![p][n] = <<>>]
    <3>1. SUFFICES ASSUME NEW z \in OnPages' PROVE z \in OnPages
      OBVIOUS
    <3>2. z[2] \notin Range(<<>>)
      BY DEF Range
    <3> QED BY <1>3, <2>2, <3>2, ShownCarries
  <2>3. CASE p \in Pages /\ shown' = [shown EXCEPT ![p][n] = <<handler[h].row>> \o shown[p][n]]
    <3> DEFINE s == <<handler[h].row>> \o shown[p][n]
    <3>1. SUFFICES ASSUME NEW z \in OnPages' PROVE z \in OnPages \cup InRequests
      OBVIOUS
    <3>2. z \in OnPages \/ (z[1] = n /\ z[2] \in Range(s))
      <4> HIDE DEF s
      <4>1. shown' = [shown EXCEPT ![p][n] = s]
        BY <2>3 DEF s
      <4> QED BY <1>3, <2>3, <4>1, ShownCarries
    <3>3. Range(s) \subseteq {handler[h].row} \cup Range(shown[p][n])
      <4>1. shown[p][n] \in Seq(Rows)
        BY <1>3, <2>3 DEF IInv, ListsOK
      <4> DEFINE q == shown[p][n]
      <4>2. q \in Seq(Rows) /\ DOMAIN q = 1..Len(q) /\ Len(q) \in Nat
        BY <4>1
      <4> HIDE DEF q
      <4>3. ASSUME NEW i \in DOMAIN (<<handler[h].row>> \o q)
            PROVE  \/ (<<handler[h].row>> \o q)[i] = handler[h].row
                   \/ i - 1 \in DOMAIN q /\ (<<handler[h].row>> \o q)[i] = q[i - 1]
        BY <4>2, <4>3
      <4> QED BY <4>3 DEF Range, q
    <3>4. z \in Ids \X Rows
      BY DEF OnPages
    <3>5. CASE z[1] = n /\ z[2] = handler[h].row
      BY <1>2, <3>4, <3>5 DEF InRequests, For
    <3>6. CASE z[1] = n /\ z[2] \in Range(shown[p][n])
      BY <2>3, <3>4, <3>6 DEF OnPages
    <3> QED BY <3>2, <3>3, <3>5, <3>6
  <2> QED BY <2>1, <2>2, <2>3 DEF Respond
<1> QED BY <1>1, <1>2, <1>4, CarriedUntouched, RecordedKept DEF Carried

-----------------------------------------------------------------------------
(* An answer holds what is stored, a list what the answer held.            *)
LEMMA FetchRecorded ==
  ASSUME IInv, AllRecorded, NEW p \in Pages,
         StartFetch(p) \/ FetchAnswered(p) \/ FetchFails(p)
  PROVE  AllRecorded'
<1>1. UNCHANGED <<rows, versions, handler, wire>>
  BY DEF StartFetch, FetchAnswered, FetchFails, tables, links
<1>2. ASSUME \A z \in InAnswers' : z \in InAnswers \cup InTable,
             \A z \in OnPages' : z \in OnPages \cup InAnswers
      PROVE  AllRecorded'
  BY <1>1, <1>2, CarriedUntouched, RecordedKept DEF Carried
<1>3. CASE StartFetch(p)
  <2>1. PICK k \in Fetches : fetch' = [fetch EXCEPT ![p][k] =
                               [n \in Ids |-> IF n \in old THEN Gone ELSE rows[n]]]
    BY <1>3 DEF StartFetch
  <2>2. UNCHANGED shown
    BY <1>3 DEF StartFetch
  <2>3. ASSUME NEW z \in InAnswers' PROVE z \in InAnswers \cup InTable
    <3>1. z \in Ids \X Rows /\ z[2] # Gone
      BY MarkersAssumption DEF InAnswers
    <3>2. PICK q \in Pages, j \in Fetches : fetch'[q][j] # NoFetch /\ fetch'[q][j][z[1]] = z[2]
      BY DEF InAnswers
    <3>3. CASE q = p /\ j = k
      <4>1. z[2] = rows[z[1]]
        BY <2>1, <3>1, <3>2, <3>3 DEF IInv, ListsOK
      <4> QED BY <3>1, <4>1 DEF InTable
    <3>4. CASE ~(q = p /\ j = k)
      <4>1. fetch'[q][j] = fetch[q][j]
        BY <2>1, <3>4 DEF IInv, ListsOK
      <4> QED BY <3>1, <3>2, <4>1 DEF InAnswers
    <3> QED BY <3>3, <3>4
  <2> QED BY <1>2, <2>2, <2>3, CarriedUntouched
<1>4. CASE FetchAnswered(p) \/ FetchFails(p)
  <2>1. PICK k \in Fetches :
          /\ fetch[p][k] # NoFetch /\ fetch' = [fetch EXCEPT ![p][k] = NoFetch]
          /\ \/ UNCHANGED shown
             \/ shown' = [shown EXCEPT ![p] =
                            [n \in Ids |-> IF fetch[p][k][n] = Gone THEN <<>>
                                           ELSE <<fetch[p][k][n]>>]]
    BY <1>4 DEF FetchAnswered, FetchFails
  <2>2. ASSUME NEW z \in InAnswers' PROVE z \in InAnswers
    <3>1. z \in Ids \X Rows
      BY DEF InAnswers
    <3>2. PICK q \in Pages, j \in Fetches : fetch'[q][j] # NoFetch /\ fetch'[q][j][z[1]] = z[2]
      BY DEF InAnswers
    <3>3. fetch'[q][j] = fetch[q][j]
      BY <2>1, <3>2 DEF IInv, ListsOK
    <3> QED BY <3>1, <3>2, <3>3 DEF InAnswers
  <2>3. ASSUME NEW z \in OnPages' PROVE z \in OnPages \cup InAnswers
    <3>1. z \in Ids \X Rows
      BY DEF OnPages
    <3>2. PICK q \in Pages : z[2] \in Range(shown'[q][z[1]])
      BY DEF OnPages
    <3>3. CASE shown'[q] = shown[q]
      BY <3>1, <3>2, <3>3 DEF OnPages
    <3>4. CASE shown'[q] # shown[q]
      <4>1. shown'[q][z[1]] = IF fetch[p][k][z[1]] = Gone THEN <<>> ELSE <<fetch[p][k][z[1]]>>
        BY <2>1, <3>1, <3>4 DEF IInv, ListsOK
      <4>2. Range(<<>>) = {} /\ Range(<<fetch[p][k][z[1]]>>) = {fetch[p][k][z[1]]}
        BY DEF Range
      <4>3. z[2] = fetch[p][k][z[1]]
        BY <3>2, <4>1, <4>2
      <4> QED BY <2>1, <3>1, <4>3 DEF InAnswers
    <3> QED BY <3>3, <3>4
  <2> QED BY <1>2, <2>2, <2>3
<1> QED BY <1>3, <1>4

(* A message leaves the wire; what a page makes of it was in it, or on the *)
(* page.                                                                   *)
LEMMA ReceiveRecorded ==
  ASSUME IInv, AllRecorded, NEW p \in Pages, Receive(p) PROVE AllRecorded'
<1> DEFINE m == Head(wire[p])
<1>1. /\ wire[p] # <<>> /\ wire' = [wire EXCEPT ![p] = Tail(wire[p])]
      /\ shown' = [shown EXCEPT ![p][m.id] = Merged(m, shown[p][m.id])]
      /\ UNCHANGED <<rows, versions, handler, fetch>>
  BY DEF Receive, tables
<1>2. wire[p] \in Seq(Sendable)
  BY DEF IInv, LinksOK
<1>3. m \in Sendable /\ m = wire[p][1] /\ 1 \in DOMAIN wire[p]
  <2> DEFINE w == wire[p]
  <2>1. w \in Seq(Sendable) /\ w # <<>>
    BY <1>1, <1>2
  <2> HIDE DEF w
  <2>2. Head(w) \in Sendable /\ Head(w) = w[1] /\ 1 \in DOMAIN w
    BY <2>1
  <2> QED BY <2>2 DEF w
<1>4. m.id \in Ids /\ m.type \in {"created", "updated", "deleted"}
  BY <1>3 DEF Sendable, Message
<1>5. InMessages' \subseteq InMessages
  <2>1. SUFFICES ASSUME NEW z \in InMessages' PROVE z \in InMessages
    OBVIOUS
  <2>2. z \in Ids \X Rows
    BY DEF InMessages
  <2>7. PICK q \in Pages : \E i \in DOMAIN wire'[q] :
                             wire'[q][i].id = z[1] /\ wire'[q][i].row = z[2]
    BY DEF InMessages
  <2>3. PICK i \in DOMAIN wire'[q] : wire'[q][i].id = z[1] /\ wire'[q][i].row = z[2]
    BY <2>7
  <2>4. CASE q # p
    BY <1>1, <2>2, <2>3, <2>4 DEF InMessages, IInv, LinksOK
  <2>5. CASE q = p
    <3> DEFINE w == wire[p]
    <3>1. wire'[p] = Tail(w) /\ w \in Seq(Sendable) /\ w # <<>>
      BY <1>1, <1>2 DEF IInv, LinksOK
    <3>2. i \in DOMAIN Tail(w)
      BY <2>3, <2>5, <3>1
    <3> HIDE DEF w
    <3>3. i + 1 \in DOMAIN w /\ Tail(w)[i] = w[i + 1]
      BY <3>1, <3>2
    <3>4. i + 1 \in DOMAIN wire[p] /\ wire[p][i + 1].id = z[1] /\ wire[p][i + 1].row = z[2]
      BY <2>3, <2>5, <3>1, <3>3 DEF w
    <3> QED BY <2>2, <3>4 DEF InMessages
  <2> QED BY <2>4, <2>5
<1>6. \A z \in OnPages' : z \in OnPages \cup InMessages
  <2>1. SUFFICES ASSUME NEW z \in OnPages' PROVE z \in OnPages \cup InMessages
    OBVIOUS
  <2> DEFINE n == m.id  c == shown[p][n]
  <2>2. z \in Ids \X Rows
    BY DEF OnPages
  <2>3. z \in OnPages \/ (z[1] = n /\ z[2] \in Range(Merged(m, c)))
    <3> DEFINE s == Merged(m, c)
    <3>1. shown' = [shown EXCEPT ![p][n] = s]
      BY <1>1
    <3> HIDE DEF s, m
    <3>2. z \in OnPages \/ (z[1] = n /\ z[2] \in Range(s))
      BY <1>4, <3>1, ShownCarries
    <3> QED BY <3>2 DEF s
  <2>4. Range(Merged(m, c)) \subseteq {m.row} \cup Range(c)
    <3> HIDE DEF m, c
    <3>1. CASE m.type = "created"
      <4>1. Merged(m, c) = <<m.row>> \/ Merged(m, c) = c
        BY <3>1 DEF Merged
      <4>2. Range(<<m.row>>) = {m.row}
        BY DEF Range
      <4> QED BY <4>1, <4>2
    <3>2. CASE m.type = "updated"
      <4>1. Merged(m, c) = [i \in DOMAIN c |-> m.row]
        BY <3>2 DEF Merged
      <4> QED BY <4>1 DEF Range
    <3>3. CASE m.type = "deleted"
      <4>1. Merged(m, c) = <<>>
        BY <3>3 DEF Merged
      <4> QED BY <4>1 DEF Range
    <3> QED BY <1>4, <3>1, <3>2, <3>3
  <2>5. CASE z[1] = n /\ z[2] = m.row
    BY <1>3, <2>2, <2>5 DEF InMessages
  <2>6. CASE z[1] = n /\ z[2] \in Range(c)
    BY <2>2, <2>6 DEF OnPages
  <2> QED BY <2>3, <2>4, <2>5, <2>6
<1> QED BY <1>1, <1>5, <1>6, CarriedUntouched, RecordedKept DEF Carried

(* What is lost with a connection, or with a row, is carried no more.      *)
LEMMA FewerCarried ==
  ASSUME IInv, AllRecorded,
         (\E p \in Pages : Connect(p) \/ Cut(p)) \/ CleanUp \/ \E n \in Ids : GrowOld(n)
  PROVE  AllRecorded'
<1>1. UNCHANGED <<versions, handler, fetch, shown>>
  BY DEF Connect, Cut, CleanUp, GrowOld, tables, lists
<1>2. InMessages' \subseteq InMessages
  <2>1. \A q \in Pages : wire'[q] = wire[q] \/ wire'[q] = <<>>
    BY DEF Connect, Cut, CleanUp, GrowOld, links, IInv, LinksOK
  <2> QED BY <2>1 DEF InMessages
<1>3. InTable' \subseteq InTable
  <2>1. \A n \in Ids : rows'[n] = rows[n] \/ rows'[n] = Gone
    BY DEF Connect, Cut, CleanUp, GrowOld, tables
  <2> QED BY <2>1, MarkersAssumption DEF InTable
<1> QED BY <1>1, <1>2, <1>3, CarriedUntouched, RecordedKept DEF Carried

LEMMA RestartRecorded == ASSUME AllRecorded, Restart PROVE AllRecorded'
<1>1. InRequests' = {} /\ InAnswers' = {} /\ InMessages' = {}
  BY DEF Restart, InRequests, InAnswers, InMessages, For
<1>2. UNCHANGED <<rows, versions, shown>>
  BY DEF Restart, tables
<1> QED BY <1>1, <1>2, CarriedUntouched, RecordedKept DEF Carried

LEMMA RecordedStep == IInv /\ AllRecorded /\ [Next]_vars => AllRecorded'
<1> SUFFICES ASSUME IInv, AllRecorded, [Next]_vars PROVE AllRecorded'
  OBVIOUS
<1>1. ASSUME NEW h \in Handlers, Serve(h) PROVE AllRecorded'
  BY <1>1, ReadRecorded, WritingRecorded, PublishRecorded, RespondRecorded DEF Serve
<1>2. ASSUME NEW h \in Handlers, NEW n \in Ids,
             \/ \E e \in Edits : ReadForUpdate(h, n, e)
             \/ \E p \in Pages \cup {Nobody} : Create(h, n, p) \/ ReadForDelete(h, p, n)
      PROVE  AllRecorded'
  BY <1>2, CreateRecorded, ReadRecorded
<1>3. ASSUME NEW p \in Pages,
             \/ StartFetch(p) \/ FetchAnswered(p) \/ FetchFails(p)
             \/ Connect(p) \/ Cut(p) \/ Receive(p)
      PROVE  AllRecorded'
  BY <1>3, FetchRecorded, FewerCarried, ReceiveRecorded
<1>4. ASSUME UNCHANGED vars PROVE AllRecorded'
  <2>1. UNCHANGED <<rows, versions, handler, fetch, wire, shown>>
    BY <1>4 DEF vars, tables, lists, links
  <2> QED BY <2>1, CarriedUntouched, RecordedKept DEF Carried
<1> QED BY <1>1, <1>2, <1>3, <1>4, FewerCarried, RestartRecorded DEF Next

LEMMA RecordedInit == Init => AllRecorded
<1> SUFFICES ASSUME Init PROVE Carried = {}
  BY DEF AllRecorded
<1>1. InTable = {} /\ InRequests = {} /\ InAnswers = {}
  BY MarkersAssumption DEF Init, InTable, InRequests, InAnswers, For
<1>2. InMessages = {} /\ OnPages = {}
  BY DEF Init, InMessages, OnPages, Range
<1> QED BY <1>1, <1>2 DEF Carried

(* Every text and every author on a page is in the history of the note or  *)
(* was posted, however stale the list or the message that brought it and   *)
(* whatever edits it mixes (routes/notes.py: create_note, update_note and  *)
(* their versions; SharedNotes.tsx: fetchNotes, onmessage, handleAddNote). *)
THEOREM WhatIsShownIsRecorded == Spec => []ShownIsRecorded
<1>1. IInv /\ AllRecorded => ShownIsRecorded
  <2> SUFFICES ASSUME IInv, AllRecorded, NEW p \in Pages, NEW n \in Ids,
                      NEW r \in Range(shown[p][n])
               PROVE  RowRecorded(n, r)
    BY DEF ShownIsRecorded, RowRecorded
  <2>1. r \in Rows
    <3> DEFINE s == shown[p][n]
    <3>1. s \in Seq(Rows)
      BY DEF IInv, ListsOK
    <3> HIDE DEF s
    <3>2. Range(s) \subseteq Rows
      BY <3>1 DEF Range
    <3> QED BY <3>2 DEF s
  <2>2. <<n, r>> \in Carried
    BY <2>1 DEF Carried, OnPages
  <2> QED BY <2>2 DEF AllRecorded
<1> QED BY InitInv, NextInv, RecordedInit, RecordedStep, <1>1, PTL DEF Spec

-----------------------------------------------------------------------------
(* A posting that reads the row again, or is about to store row r as its   *)
(* first version.                                                          *)
Rereads(n) == \E h \in Handlers : At(h, "reread") /\ handler[h].id = n
Holds(h, n) == At(h, "version") /\ handler[h].id = n

(* Every column of a row is recorded, or is about to be.                   *)
ContentKnown(n) ==
  \/ \E v \in Recorded(n) : v.content = rows[n].content
  \/ \E h \in Handlers : Holds(h, n) /\ handler[h].row.content = rows[n].content
  \/ Rereads(n)
AuthorKnown(n) ==
  \/ \E v \in Recorded(n) : v.author = rows[n].author
  \/ \E h \in Handlers : Holds(h, n) /\ handler[h].row.author = rows[n].author
  \/ Rereads(n)
ColumnsKnown == \A n \in Ids : rows[n] # Gone => ContentKnown(n) /\ AuthorKnown(n)

(* Rows may go and versions come, as long as the postings stay, or leave   *)
(* what they posted known to have no version.                              *)
LEMMA ColumnsKept ==
  ASSUME IInv, AllRecorded, ColumnsKnown,
         \A n \in Ids : rows'[n] # Gone => rows'[n] = rows[n],
         \A n \in Ids : versions[n] \subseteq versions'[n], unversioned \subseteq unversioned',
         \A h \in Handlers : At(h, "reread") \/ At(h, "version") =>
                             handler'[h] = handler[h] \/ handler[h].id \in unversioned'
  PROVE  ColumnsKnown'
<1> SUFFICES ASSUME NEW n \in Ids, rows'[n] # Gone
             PROVE  ContentKnown(n)' /\ AuthorKnown(n)'
  BY DEF ColumnsKnown
<1>1. rows[n] = rows'[n] /\ ContentKnown(n) /\ AuthorKnown(n)
  BY DEF ColumnsKnown
<1>2. Recorded(n) \subseteq Recorded(n)'
  BY DEF Recorded
<1>3. CASE n \in unversioned'
  <2>1. <<n, rows[n]>> \in InTable
    BY <1>1 DEF InTable, IInv, TablesOK
  <2>2. RowRecorded(n, rows[n])
    BY <2>1 DEF AllRecorded, Carried
  <2>3. versions[n] \cup {Draft[n]} \subseteq Recorded(n)'
    BY <1>3 DEF Recorded
  <2> QED BY <1>1, <2>2, <2>3 DEF RowRecorded, ContentKnown, AuthorKnown
<1>4. CASE n \notin unversioned'
  <2>1. Rereads(n) => Rereads(n)'
    BY <1>4 DEF Rereads, At
  <2>2. \A h \in Handlers : Holds(h, n) => Holds(h, n)' /\ handler'[h] = handler[h]
    BY <1>4 DEF Holds, At
  <2> QED BY <1>1, <1>2, <2>1, <2>2 DEF ContentKnown, AuthorKnown
<1> QED BY <1>3, <1>4

LEMMA CreateColumns ==
  ASSUME IInv, AllRecorded, ColumnsKnown, NEW h \in Handlers, NEW n \in Ids,
         NEW p \in Pages \cup {Nobody}, Create(h, n, p)
  PROVE  ColumnsKnown'
<1> DEFINE r == [op |-> "created", at |-> "reread", id |-> n, page |-> p,
                 row |-> Gone, new |-> Gone]
<1>1. /\ handler[h] = Idle /\ r \in Request
      /\ \A g \in Handlers : handler'[g] = IF g = h THEN r ELSE handler[g]
      /\ \A m \in Ids : m # n => rows'[m] = rows[m]
      /\ UNCHANGED <<versions, unversioned>>
  BY DEF Create, Available, IInv, HandlersOK, TablesOK, Request
<1>2. At(h, "reread")' /\ handler'[h].id = n
  BY <1>1, MarkersAssumption DEF At
<1>3. \A g \in Handlers : At(g, "reread") \/ At(g, "version") => handler'[g] = handler[g]
  BY <1>1 DEF At
<1>4. ASSUME NEW m \in Ids, rows'[m] # Gone PROVE ContentKnown(m)' /\ AuthorKnown(m)'
  <2>1. CASE m = n
    BY <1>2, <2>1 DEF ContentKnown, AuthorKnown, Rereads
  <2>2. CASE m # n
    <3>1. rows'[m] = rows[m] /\ ContentKnown(m) /\ AuthorKnown(m)
      BY <1>1, <1>4, <2>2 DEF ColumnsKnown
    <3>2. Rereads(m) => Rereads(m)'
      BY <1>3 DEF Rereads, At
    <3>3. \A g \in Handlers : Holds(g, m) => Holds(g, m)' /\ handler'[g] = handler[g]
      BY <1>3 DEF Holds, At
    <3> QED BY <1>1, <3>1, <3>2, <3>3 DEF ContentKnown, AuthorKnown, Recorded
  <2> QED BY <2>1, <2>2
<1> QED BY <1>4 DEF ColumnsKnown

(* What is read again is held, and what is held becomes a version.         *)
LEMMA RereadColumns ==
  ASSUME IInv, AllRecorded, ColumnsKnown, NEW h \in Handlers, Reread(h) PROVE ColumnsKnown'
<1> DEFINE n == handler[h].id  r == [handler[h] EXCEPT !.at = "version", !.row = rows[n]]
<1>1. handler[h] # Idle /\ handler[h] \in Underway /\ handler[h].at = "reread"
  BY RequestAt DEF Reread
<1>2. UNCHANGED <<rows, versions, unversioned>>
  BY DEF Reread, tables, told
<1>3. CASE rows[n] = Gone
  <2>1. handler' = [handler EXCEPT ![h] = Idle]
    BY <1>3 DEF Reread, Fails
  <2>2. \A g \in Handlers : g # h => handler'[g] = handler[g]
    BY <2>1 DEF IInv, HandlersOK
  <2> SUFFICES ASSUME NEW m \in Ids, rows[m] # Gone
               PROVE  ContentKnown(m)' /\ AuthorKnown(m)'
    BY <1>2 DEF ColumnsKnown
  <2>3. m # n /\ ContentKnown(m) /\ AuthorKnown(m)
    BY <1>3 DEF ColumnsKnown
  <2>4. Rereads(m) => Rereads(m)'
    BY <2>2, <2>3 DEF Rereads, At
  <2>5. \A g \in Handlers : Holds(g, m) => Holds(g, m)' /\ handler'[g] = handler[g]
    BY <1>1, <2>2 DEF Holds, At
  <2> QED BY <1>2, <2>3, <2>4, <2>5 DEF ContentKnown, AuthorKnown, Recorded
<1>4. CASE rows[n] # Gone
  <2>1. handler' = [handler EXCEPT ![h] = r]
    BY <1>4 DEF Reread, Hold
  <2>2. \A g \in Handlers : handler'[g] = IF g = h THEN r ELSE handler[g]
    BY <2>1 DEF IInv, HandlersOK
  <2>3. r \in Request /\ r.id = n /\ r.at = "version" /\ r.row = rows[n]
    <3>1. n \in Ids /\ rows[n] \in {Gone} \cup Rows
      BY <1>1 DEF IInv, TablesOK, Underway, Request
    <3> QED BY <1>1, <3>1 DEF Underway, Request
  <2>4. At(h, "version")' /\ handler'[h].id = n /\ handler'[h].row = rows[n]
    BY <2>2, <2>3, MarkersAssumption DEF At
  <2> SUFFICES ASSUME NEW m \in Ids, rows[m] # Gone
               PROVE  ContentKnown(m)' /\ AuthorKnown(m)'
    BY <1>2 DEF ColumnsKnown
  <2>5. CASE m = n
    BY <1>2, <2>4, <2>5 DEF ContentKnown, AuthorKnown, Holds
  <2>6. CASE m # n
    <3>1. ContentKnown(m) /\ AuthorKnown(m)
      BY DEF ColumnsKnown
    <3>2. Rereads(m) => Rereads(m)'
      BY <2>2, <2>6 DEF Rereads, At
    <3>3. \A g \in Handlers : Holds(g, m) => Holds(g, m)' /\ handler'[g] = handler[g]
      BY <1>1, <2>2 DEF Holds, At
    <3> QED BY <1>2, <3>1, <3>2, <3>3 DEF ContentKnown, AuthorKnown, Recorded
  <2> QED BY <2>5, <2>6
<1> QED BY <1>3, <1>4

LEMMA AddVersionColumns ==
  ASSUME IInv, AllRecorded, ColumnsKnown, NEW h \in Handlers, AddVersion(h) PROVE ColumnsKnown'
<1> DEFINE n == handler[h].id  ver == handler[h].row
<1>1. handler[h] # Idle /\ n \in Ids /\ handler[h].at = "version"
  BY RequestAt DEF AddVersion, Underway, Request
<1>2. /\ UNCHANGED <<rows, unversioned>> /\ versions' = [versions EXCEPT ![n] = @ \cup {ver}]
      /\ handler' = [handler EXCEPT ![h].at = "refresh"]
  BY DEF AddVersion, Goto, told
<1>3. /\ \A g \in Handlers : g # h => handler'[g] = handler[g]
      /\ \A m \in Ids : versions[m] \subseteq versions'[m]
      /\ ver \in versions'[n]
  BY <1>1, <1>2 DEF IInv, HandlersOK, TablesOK
<1> SUFFICES ASSUME NEW m \in Ids, rows[m] # Gone
             PROVE  ContentKnown(m)' /\ AuthorKnown(m)'
  BY <1>2 DEF ColumnsKnown
<1>4. ContentKnown(m) /\ AuthorKnown(m)
  BY DEF ColumnsKnown
<1>5. Rereads(m) => Rereads(m)'
  BY <1>1, <1>3 DEF Rereads, At
<1>6. \A g \in Handlers : Holds(g, m) =>
        \/ g # h /\ Holds(g, m)' /\ handler'[g] = handler[g]
        \/ g = h /\ m = n
  BY <1>3 DEF Holds, At
<1>7. ContentKnown(m)'
  BY <1>2, <1>3, <1>4, <1>5, <1>6 DEF ContentKnown, Recorded
<1>8. AuthorKnown(m)'
  BY <1>2, <1>3, <1>4, <1>5, <1>6 DEF AuthorKnown, Recorded
<1> QED BY <1>7, <1>8

(* A changed column is the edit's, which becomes a version with it.        *)
LEMMA WriteUpdateColumns ==
  ASSUME IInv, AllRecorded, ColumnsKnown, NEW h \in Handlers, WriteUpdate(h) PROVE ColumnsKnown'
<1> DEFINE n == handler[h].id  from == handler[h].row  to == handler[h].new
<1>1. handler[h] # Idle /\ n \in Ids /\ handler[h].at = "write"
  BY RequestAt DEF WriteUpdate, Underway, Request
<1>2. \A g \in Handlers : At(g, "reread") \/ At(g, "version") => handler'[g] = handler[g]
  <2>1. \A g \in Handlers : g # h => handler'[g] = handler[g]
    BY DEF WriteUpdate, Fails, Goto, IInv, HandlersOK
  <2> QED BY <1>1, <2>1 DEF At
<1>3. UNCHANGED unversioned
  BY DEF WriteUpdate
<1>4. CASE rows[n] = Gone /\ from # to
  <2>1. UNCHANGED <<rows, versions>>
    BY <1>4 DEF WriteUpdate
  <2> QED BY <1>2, <1>3, <2>1, ColumnsKept
<1>5. CASE ~(rows[n] = Gone /\ from # to)
  <2>1. /\ rows' = [rows EXCEPT ![n] = IF @ = Gone THEN Gone ELSE Changed(from, to, @)]
        /\ versions' = [versions EXCEPT ![n] = @ \cup {to}]
    BY <1>5 DEF WriteUpdate
  <2>2. /\ \A m \in Ids : m # n => rows'[m] = rows[m]
        /\ rows'[n] = IF rows[n] = Gone THEN Gone ELSE Changed(from, to, rows[n])
        /\ \A m \in Ids : versions[m] \subseteq versions'[m]
        /\ to \in versions'[n]
    BY <1>1, <2>1 DEF IInv, TablesOK
  <2>3. CASE rows[n] = Gone
    BY <1>2, <1>3, <2>2, <2>3, ColumnsKept
  <2>4. CASE rows[n] # Gone
    <3> SUFFICES ASSUME NEW m \in Ids, rows'[m] # Gone
                 PROVE  ContentKnown(m)' /\ AuthorKnown(m)'
      BY DEF ColumnsKnown
    <3>1. ContentKnown(m) /\ AuthorKnown(m)
      BY <2>2, <2>4 DEF ColumnsKnown
    <3>2. Rereads(m) => Rereads(m)'
      BY <1>2 DEF Rereads, At
    <3>3. \A g \in Handlers : Holds(g, m) => Holds(g, m)' /\ handler'[g] = handler[g]
      BY <1>2 DEF Holds, At
    <3>4. /\ rows'[m].content = rows[m].content \/ (m = n /\ rows'[m].content = to.content)
          /\ rows'[m].author = rows[m].author \/ (m = n /\ rows'[m].author = to.author)
      <4>1. CASE m # n
        BY <2>2, <4>1
      <4>2. CASE m = n
        BY <2>2, <2>4, <4>2 DEF Changed
      <4> QED BY <4>1, <4>2
    <3>5. ContentKnown(m)'
      BY <1>3, <2>2, <3>1, <3>2, <3>3, <3>4 DEF ContentKnown, Recorded
    <3>6. AuthorKnown(m)'
      BY <1>3, <2>2, <3>1, <3>2, <3>3, <3>4 DEF AuthorKnown, Recorded
    <3> QED BY <3>5, <3>6
  <2> QED BY <2>3, <2>4
<1> QED BY <1>4, <1>5

LEMMA ColumnsStep == IInv /\ AllRecorded /\ ColumnsKnown /\ [Next]_vars => ColumnsKnown'
<1> SUFFICES ASSUME IInv, AllRecorded, ColumnsKnown, [Next]_vars PROVE ColumnsKnown'
  OBVIOUS
<1>1. ASSUME UNCHANGED <<rows, versions, handler, unversioned>> PROVE ColumnsKnown'
  BY <1>1, ColumnsKept
<1>2. ASSUME NEW h \in Handlers,
             \/ DeleteRow(h) \/ Refresh(h) \/ Publish(h) \/ PublishFails(h) \/ Respond(h)
      PROVE  ColumnsKnown'
  <2>1. /\ handler[h] # Idle /\ handler[h].at \notin {"reread", "version"}
        /\ UNCHANGED <<versions, unversioned>>
        /\ \A g \in Handlers : g # h => handler'[g] = handler[g]
    BY <1>2 DEF DeleteRow, Refresh, Publish, PublishFails, Respond, At, Goto, Hold, Fails,
                tables, told, IInv, HandlersOK
  <2>2. \A n \in Ids : rows'[n] # Gone => rows'[n] = rows[n]
    BY <1>2 DEF DeleteRow, Refresh, Publish, PublishFails, Respond, tables, IInv, TablesOK
  <2>3. \A g \in Handlers : At(g, "reread") \/ At(g, "version") => handler'[g] = handler[g]
    BY <2>1 DEF At
  <2> QED BY <2>1, <2>2, <2>3, ColumnsKept
<1>3. ASSUME NEW h \in Handlers, NEW n \in Ids,
             \/ \E e \in Edits : ReadForUpdate(h, n, e)
             \/ \E p \in Pages \cup {Nobody} : ReadForDelete(h, p, n)
      PROVE  ColumnsKnown'
  <2>1. /\ handler[h] = Idle /\ UNCHANGED <<rows, versions, unversioned>>
        /\ \A g \in Handlers : g # h => handler'[g] = handler[g]
    BY <1>3 DEF ReadForUpdate, ReadForDelete, Available, tables, told, IInv, HandlersOK
  <2>2. \A g \in Handlers : At(g, "reread") \/ At(g, "version") => handler'[g] = handler[g]
    BY <2>1 DEF At
  <2> QED BY <2>1, <2>2, ColumnsKept
<1>4. ASSUME NEW h \in Handlers, NEW n \in Ids, NEW p \in Pages \cup {Nobody}, Create(h, n, p)
      PROVE  ColumnsKnown'
  BY <1>4, CreateColumns
<1>5. ASSUME (\E h \in Handlers : RequestFails(h)) \/ Restart PROVE ColumnsKnown'
  <2>1. UNCHANGED <<rows, versions>> /\ unversioned \subseteq unversioned'
    BY <1>5 DEF RequestFails, Restart, tables
  <2>2. ASSUME NEW h \in Handlers, RequestFails(h), NEW g \in Handlers,
               At(g, "reread") \/ At(g, "version")
        PROVE  handler'[g] = handler[g] \/ handler[g].id \in unversioned'
    BY <2>2 DEF RequestFails, Fails, At, IInv, HandlersOK
  <2>3. ASSUME Restart, NEW g \in Handlers, At(g, "reread") \/ At(g, "version")
        PROVE  handler[g].id \in unversioned'
    <3>1. handler[g].id \in Ids
      BY <2>3, RequestAt DEF Underway, Request
    <3> QED BY <2>3, <3>1 DEF Restart
  <2> QED BY <1>5, <2>1, <2>2, <2>3, ColumnsKept
<1>6. ASSUME NEW h \in Handlers, Serve(h) PROVE ColumnsKnown'
  BY <1>2, <1>6, <1>5, RereadColumns, AddVersionColumns, WriteUpdateColumns DEF Serve
<1>7. ASSUME NEW p \in Pages,
             \/ StartFetch(p) \/ FetchAnswered(p) \/ FetchFails(p)
             \/ Connect(p) \/ Cut(p) \/ Receive(p)
      PROVE  ColumnsKnown'
  BY <1>1, <1>7 DEF StartFetch, FetchAnswered, FetchFails, Connect, Cut, Receive, tables, told
<1>8. ASSUME NEW n \in Ids, GrowOld(n) PROVE ColumnsKnown'
  BY <1>1, <1>8 DEF GrowOld, told
<1>9. ASSUME CleanUp PROVE ColumnsKnown'
  <2>1. /\ UNCHANGED <<versions, handler, unversioned>>
        /\ \A n \in Ids : rows'[n] # Gone => rows'[n] = rows[n]
    BY <1>9 DEF CleanUp, told
  <2> QED BY <2>1, ColumnsKept
<1>10. ASSUME UNCHANGED vars PROVE ColumnsKnown'
  BY <1>1, <1>10 DEF vars, tables, told
<1> QED BY <1>3, <1>4, <1>6, <1>7, <1>8, <1>9, <1>10, <1>5 DEF Next

(* However edits overlap, a stored text and a stored author have a version *)
(* once the posting is through, or are those of a posting that ended       *)
(* between its two commits (routes/notes.py: create_note, update_note).    *)
THEOREM HistoryIsComplete == Spec => []HistoryKnowsColumns
<1>1. Init => ColumnsKnown
  BY DEF Init, ColumnsKnown
<1>2. ColumnsKnown => HistoryKnowsColumns
  BY DEF ColumnsKnown, ContentKnown, AuthorKnown, Holds, Rereads, HistoryKnowsColumns
<1> QED BY <1>1, <1>2, InitInv, NextInv, RecordedInit, RecordedStep, ColumnsStep, PTL DEF Spec
=================================================================================
