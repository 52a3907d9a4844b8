-------------------------------- MODULE Dashboard --------------------------------
(***************************************************************************)
(* The news feed of one open dashboard page (App.tsx): hydration over REST *)
(* with its answers cached by the backend, signals pushed over WebSockets, *)
(* the buffer of a reader who has scrolled down, and the category filter.  *)
(* The handlers of the page are atomic; it awaits answers between them.    *)
(* React renders user events at once, updates caused by messages later.    *)
(***************************************************************************)
EXTENDS Naturals, FiniteSets, SequencesExt

CONSTANTS
  Signals,
  Pushed,       \* those pushed while the page is open, each once
  Old,          \* those stored before
  NewestFirst(_), \* a set of signals as a sequence, by publication date
  Country, Category,  \* of each signal
  Countries,    \* those the page may show
  Known,        \* those /api/news/all answers for: the watchlist
  All,          \* the filter that accepts every category
  Filters,      \* values of the category filter
  Missing,      \* no dossier of a country
  Uncached,     \* no cached answer
  Free,         \* no request in a slot
  Copies,       \* messages per signal and connection: one per channel
  Cap,          \* signals of a country kept by live updates: 100
  Fill,         \* /api/news/all tops a country up to 5 signals
  MaxSockets,   \* bound: sessions of the WebSocket effect
  MaxLoads,     \* bound: feed loads under way
  MaxFetches,   \* bound: requests for one country under way
  MaxChanges,   \* bound: changes of filter, country and scroll position
  MaxFaults     \* bound: failing requests and cut connections

ASSUME SignalsAssumption ==
  /\ \A S \in SUBSET Signals :
       /\ NewestFirst(S) \in Seq(Signals) /\ Range(NewestFirst(S)) = S
       /\ IsInjective(NewestFirst(S))
       /\ NewestFirst(S) = SelectSeq(NewestFirst(Signals), LAMBDA s : s \in S)
  /\ Pushed \subseteq Signals /\ Old \subseteq Signals
  /\ Country \in [Signals -> Countries] /\ Known \subseteq Countries
ASSUME BoundsAssumption ==
  /\ {Copies, Cap, Fill, MaxSockets, MaxLoads, MaxFetches, MaxChanges, MaxFaults}
       \subseteq Nat
  /\ MaxSockets > 0 /\ MaxLoads > 0 /\ MaxFetches > 0
ASSUME FiltersAssumption == All \in Filters

(* A load under way: its filter, how far it is, the rows it was answered.  *)
Load == [cat : Filters, at : {"asked", "answered", "refreshing", "refreshed"},
         rows : SUBSET Signals]
ASSUME FreeAssumption == Free \notin Load
ASSUME MissingAssumption == Missing \notin Seq(Signals)

Sockets == 1..MaxSockets
Slots   == 1..MaxLoads

VARIABLES
  unpublished, stored, cached,   \* the backend: pushes to come, rows, answers
  socket, wire,                  \* per effect session: its socket, messages
  feed, fetches,                 \* newsFeed, requests of fetchCountryNews
  selected, filter,              \* the country and the category chosen
  buffer, badge, scrolled,       \* streamBuffer, what of it is rendered
  load, loading,                 \* loadFeed per slot, its flag
  changes, faults                \* bounds

server == <<unpublished, stored, cached>>
wires  == <<socket, wire>>
view   == <<feed, fetches>>
choice == <<selected, filter>>
stream == <<buffer, badge, scrolled>>
loads  == <<load, loading>>
bounds == <<changes, faults>>
vars == <<server, wires, view, choice, stream, loads, bounds>>

Changes == changes > 0 /\ changes' = changes - 1
Faults  == faults > 0 /\ faults' = faults - 1

-----------------------------------------------------------------------------
(* GET /api/news/all                                                       *)

Accepts(f, s) == f = All \/ Category[s] = f

(* The k newest of a set of signals, newest first.                         *)
NewestOf(k, S) ==
  LET sorted == NewestFirst(S)
  IN  SubSeq(sorted, 1, Min({k, Len(sorted)}))

(* A country's signals in an answer for filter f over some rows: those of  *)
(* the category, topped up with the newest others to Fill.                 *)
Listing(c, f, rows) ==
  LET own   == {s \in rows : Country[s] = c}
      match == {s \in own : Accepts(f, s)}
      short == IF Fill > Cardinality(match) THEN Fill - Cardinality(match) ELSE 0
      extra == Range(NewestOf(short, own \ match))
  IN  NewestOf(Cardinality(own), match \cup extra)

-----------------------------------------------------------------------------
(* newsFeed and the effect that depends on it                              *)

(* The request for the selected country, when it has no dossier.           *)
Fetching(new, c, pending) ==
  IF new[c] = Missing THEN [pending EXCEPT ![c] = Min({@ + 1, MaxFetches})]
  ELSE pending

(* Mutant of Updated: newsFeed is no dependency of the effect.             *)
UpdatedUnseen(new) == feed' = new /\ UNCHANGED fetches

(* setNewsFeed: the effect runs after every change of the feed.            *)
Updated(new) == feed' = new /\ fetches' = Fetching(new, selected, fetches)

(* Mutant of Prepended: the list is not cut.                               *)
PrependedUncut(s, dossiers) ==
  IF dossiers[Country[s]] = Missing THEN dossiers
  ELSE [dossiers EXCEPT ![Country[s]] = <<s>> \o @]

(* [signal, ...signals].slice(0, 100); a country without a dossier keeps   *)
(* none.                                                                   *)
Prepended(s, dossiers) ==
  IF dossiers[Country[s]] = Missing THEN dossiers
  ELSE [dossiers EXCEPT ![Country[s]] =
          SubSeq(<<s>> \o @, 1, Min({Cap, Len(@) + 1}))]

-----------------------------------------------------------------------------
(* loadFeed                                                                *)

Is(i, at) == load[i] # Free /\ load[i].at = at
Idle(i) == load[i] = Free /\ \A j \in Slots : j < i => load[j] # Free

(* It begins in slot i.                                                    *)
Started(i, f) ==
  /\ load' = [load EXCEPT ![i] = [cat |-> f, at |-> "asked", rows |-> {}]]
  /\ loading' = TRUE

(* It ends: the finally block.                                             *)
Ended(i) == load' = [load EXCEPT ![i] = Free] /\ loading' = FALSE

(* Auto refresh, countdown and buttons count refreshTrigger up.            *)
Refresh(i) ==
  /\ Idle(i) /\ Started(i, filter)
  /\ UNCHANGED <<server, wires, view, choice, stream, bounds>>

ChangeFilter(i, f) ==
  /\ f # filter /\ Idle(i) /\ Changes
  /\ filter' = f /\ Started(i, f)
  /\ UNCHANGED <<server, wires, view, selected, stream, faults>>

(* The first request, or the second one once POST /api/news/refresh has    *)
(* been answered: the answer cached for the filter, whatever has been      *)
(* stored since, or else what is stored, which is cached then.             *)
Answer(i) ==
  /\ Is(i, "asked") \/ Is(i, "refreshing")
  /\ LET f    == load[i].cat
         rows == IF cached[f] = Uncached THEN stored ELSE cached[f]
         at   == IF Is(i, "asked") THEN "answered" ELSE "refreshed"
     IN  /\ load' = [load EXCEPT ![i] = [cat |-> f, at |-> at, rows |-> rows]]
         /\ cached' = [cached EXCEPT ![f] = rows]
  /\ UNCHANGED <<unpublished, stored, wires, view, choice, stream, loading, bounds>>

(* Mutant of Hydrated: countries that have a dossier keep it.              *)
HydratedMerging(i) ==
  Updated([c \in Countries |->
             IF feed[c] = Missing /\ c \in Known
             THEN Listing(c, load[i].cat, load[i].rows) ELSE feed[c]])

(* setNewsFeed(enriched): the whole feed is replaced, the countries only   *)
(* fetched for themselves and everything pushed since the query included.  *)
Hydrated(i) ==
  Updated([c \in Countries |->
             IF c \in Known THEN Listing(c, load[i].cat, load[i].rows) ELSE Missing])

Hydrate(i) ==
  /\ Is(i, "answered") /\ Hydrated(i)
  /\ load' = [load EXCEPT ![i].at = "refreshing", ![i].rows = {}]
  /\ UNCHANGED <<server, wires, choice, stream, loading, bounds>>

HydrateAgain(i) ==
  /\ Is(i, "refreshed") /\ Hydrated(i) /\ Ended(i)
  /\ UNCHANGED <<server, wires, choice, stream, bounds>>

(* Mutant of RefreshRefused: the early return skips the finally block.     *)
RefreshRefusedKeeping(i) ==
  /\ Is(i, "refreshing") /\ Faults
  /\ load' = [load EXCEPT ![i] = Free]
  /\ UNCHANGED <<server, wires, view, choice, stream, loading, changes>>

(* The refresh is refused: the load returns early.                         *)
RefreshRefused(i) ==
  /\ Is(i, "refreshing") /\ Faults /\ Ended(i)
  /\ UNCHANGED <<server, wires, view, choice, stream, changes>>

(* A request fails: the load ends with an error message.                   *)
LoadFails(i) ==
  /\ Is(i, "asked") \/ Is(i, "refreshing")
  /\ Faults /\ Ended(i)
  /\ UNCHANGED <<server, wires, view, choice, stream, changes>>

-----------------------------------------------------------------------------
(* One country: fetchCountryNews                                           *)

SelectCountry(c) ==
  /\ c # selected /\ Changes
  /\ selected' = c /\ fetches' = Fetching(feed, c, fetches)
  /\ UNCHANGED <<server, wires, feed, filter, stream, loads, faults>>

Finished(c) == [fetches EXCEPT ![c] = @ - 1]

(* Mutant of FetchAnswered: setNewsFeed without "...prev".                 *)
FetchAnsweredAlone(c) ==
  /\ fetches[c] > 0
  /\ \E rows \in SUBSET {s \in stored : Country[s] = c} :
       LET new == [d \in Countries |-> IF d = c THEN NewestOf(Cardinality(rows), rows)
                                       ELSE Missing]
       IN  feed' = new /\ fetches' = Fetching(new, selected, Finished(c))
  /\ UNCHANGED <<server, wires, choice, stream, loads, bounds>>

(* The answer, of whatever was stored when it was put together or cached,  *)
(* is merged into the feed.                                                *)
FetchAnswered(c) ==
  /\ fetches[c] > 0
  /\ \E rows \in SUBSET {s \in stored : Country[s] = c} :
       LET new == [feed EXCEPT ![c] = NewestOf(Cardinality(rows), rows)]
       IN  feed' = new /\ fetches' = Fetching(new, selected, Finished(c))
  /\ UNCHANGED <<server, wires, choice, stream, loads, bounds>>

(* A refused or failed request is only noted in the console.               *)
FetchFails(c) ==
  /\ fetches[c] > 0 /\ Faults /\ fetches' = Finished(c)
  /\ UNCHANGED <<server, wires, feed, choice, stream, loads, changes>>

-----------------------------------------------------------------------------
(* The WebSocket effect                                                    *)

(* checkSession, a change of credentials and a logout store a new authUser *)
(* object.  The cleanup closes the session's socket, but its onclose calls *)
(* connect again after five seconds: the session goes on beside the next.  *)
(* The same dependency starts a load.                                      *)
RenewUser(i) ==
  /\ Idle(i) /\ Started(i, filter)
  /\ \E n \in Sockets \ {1} :
       /\ socket[n] = "none" /\ socket[n - 1] # "none"
       /\ socket' = [socket EXCEPT ![n] = "waiting", ![n - 1] = "waiting"]
       /\ wire' = [wire EXCEPT ![n - 1] = <<>>]
  /\ UNCHANGED <<server, view, choice, stream, bounds>>

Connect(n) ==
  /\ socket[n] = "waiting" /\ socket' = [socket EXCEPT ![n] = "open"]
  /\ UNCHANGED <<server, wire, view, choice, stream, loads, bounds>>

(* onclose: what was under way is lost, the timer is started.              *)
Cut(n) ==
  /\ socket[n] = "open" /\ socket' = [socket EXCEPT ![n] = "waiting"]
  /\ Faults /\ wire' = [wire EXCEPT ![n] = <<>>]
  /\ UNCHANGED <<server, view, choice, stream, loads, changes>>

(* The backend pushes a signal to every open connection, ...               *)
Publish(s) ==
  /\ s \in unpublished /\ unpublished' = unpublished \ {s}
  /\ wire' = [n \in Sockets |-> IF socket[n] # "open" THEN wire[n]
                                ELSE wire[n] \o [k \in 1..Copies |-> s]]
  /\ UNCHANGED <<stored, cached, socket, view, choice, stream, loads, bounds>>

(* ... and stores it, before or after.                                     *)
Store(s) ==
  /\ s \notin stored /\ stored' = stored \cup {s}
  /\ UNCHANGED <<unpublished, cached, wires, view, choice, stream, loads, bounds>>

Expire(f) ==
  /\ cached[f] # Uncached /\ cached' = [cached EXCEPT ![f] = Uncached]
  /\ UNCHANGED <<unpublished, stored, wires, view, choice, stream, loads, bounds>>

(* A signal the filter accepts is buffered while the reader has scrolled   *)
(* down and shown at once otherwise.                                       *)
Receive(n) ==
  /\ wire[n] # <<>> /\ wire' = [wire EXCEPT ![n] = Tail(@)]
  /\ LET s == Head(wire[n])
     IN  /\ buffer' = IF Accepts(filter, s) /\ scrolled THEN Append(buffer, s)
                      ELSE buffer
         /\ IF Accepts(filter, s) /\ ~scrolled /\ feed[Country[s]] # Missing
            THEN Updated(Prepended(s, feed)) ELSE UNCHANGED view
  /\ UNCHANGED <<server, socket, choice, badge, scrolled, loads, bounds>>

-----------------------------------------------------------------------------
(* The reader                                                              *)

Scroll ==
  /\ scrolled' = ~scrolled /\ Changes
  /\ UNCHANGED <<server, wires, view, choice, buffer, badge, loads, faults>>

(* React renders: the handler of the badge sees the buffer.                *)
Render ==
  /\ badge # buffer /\ badge' = buffer
  /\ UNCHANGED <<server, wires, view, choice, buffer, scrolled, loads, bounds>>

(* The feed after each of the first signals of a sequence was prepended.   *)
Prepending(dossiers, seq) ==
  LET after[n \in 0..Len(seq)] ==
        IF n = 0 THEN dossiers ELSE Prepended(seq[n], after[n - 1])
  IN  after

(* Mutant of Release: the buffer is not emptied.                           *)
ReleaseKeeping ==
  /\ badge # <<>>
  /\ Updated(Prepending(feed, badge)[Len(badge)])
  /\ scrolled' = FALSE
  /\ UNCHANGED <<server, wires, choice, buffer, badge, loads, bounds>>

(* The badge is clicked: what was rendered of the buffer is shown, and the *)
(* whole buffer emptied.                                                   *)
Release ==
  /\ badge # <<>>
  /\ Updated(Prepending(feed, badge)[Len(badge)])
  /\ buffer' = <<>> /\ badge' = <<>> /\ scrolled' = FALSE
  /\ UNCHANGED <<server, wires, choice, loads, bounds>>

-----------------------------------------------------------------------------
Init ==
  /\ unpublished = Pushed /\ stored = Old /\ cached = [f \in Filters |-> Uncached]
  /\ socket = [n \in Sockets |-> IF n = 1 THEN "waiting" ELSE "none"]
  /\ wire = [n \in Sockets |-> <<>>]
  /\ feed = [c \in Countries |-> Missing]
  /\ selected \in Known /\ filter = All
  /\ fetches = [c \in Countries |-> IF c = selected THEN 1 ELSE 0]
  /\ buffer = <<>> /\ badge = <<>> /\ scrolled = FALSE
  /\ load = [i \in Slots |-> IF i = 1 THEN [cat |-> All, at |-> "asked", rows |-> {}]
                             ELSE Free]
  /\ loading = TRUE
  /\ changes = MaxChanges /\ faults = MaxFaults

LoadGoesOn(i) == Answer(i) \/ Hydrate(i) \/ HydrateAgain(i)

Next ==
  \/ \E i \in Slots : \/ Refresh(i) \/ LoadGoesOn(i) \/ RefreshRefused(i)
                      \/ LoadFails(i) \/ RenewUser(i)
                      \/ \E f \in Filters : ChangeFilter(i, f)
  \/ \E c \in Countries : SelectCountry(c) \/ FetchAnswered(c) \/ FetchFails(c)
  \/ \E n \in Sockets : Connect(n) \/ Cut(n) \/ Receive(n)
  \/ \E s \in Signals : Publish(s) \/ Store(s)
  \/ \E f \in Filters : Expire(f)
  \/ Scroll \/ Render \/ Release

Spec == Init /\ [][Next]_vars

(* Requests are answered or fail, the refresh timer keeps firing (the page *)
(* is visible), cached answers expire, and the browser runs its handlers.  *)
FairSpec ==
  /\ Spec /\ WF_vars(\E i \in Slots : Refresh(i))
  /\ \A i \in Slots : WF_vars(LoadGoesOn(i))
  /\ \A f \in Filters : WF_vars(Expire(f))
  /\ \A n \in Sockets : WF_vars(Receive(n))
  /\ \A c \in Countries : WF_vars(FetchAnswered(c))

-----------------------------------------------------------------------------
(* The state of the backend, the page's connections, feed and loads.       *)
TypeOK ==
  /\ unpublished \subseteq Pushed /\ stored \subseteq Signals
  /\ cached \in [Filters -> {Uncached} \cup SUBSET Signals]
  /\ socket \in [Sockets -> {"none", "waiting", "open"}]
  /\ wire \in [Sockets -> Seq(Pushed)]
  /\ feed \in [Countries -> {Missing} \cup Seq(Signals)]
  /\ fetches \in [Countries -> 0..MaxFetches]
  /\ selected \in Countries /\ filter \in Filters
  /\ buffer \in Seq(Pushed) /\ badge \in Seq(Pushed)
  /\ {scrolled, loading} \subseteq BOOLEAN
  /\ load \in [Slots -> {Free} \cup Load]
  /\ changes \in 0..MaxChanges /\ faults \in 0..MaxFaults

(* The page shows that it is loading only while a load is under way: of    *)
(* overlapping loads none may leave the flag behind.  (The converse does   *)
(* not hold: the first to end clears it for all.)                          *)
SpinnerHasALoad == loading => \E i \in Slots : load[i] # Free

(* Live updates, replayed by sessions that go on beside the next and by    *)
(* releases of the buffer, do not make the list of a country grow: it is   *)
(* within the cap, or has no more entries than signals of the country are  *)
(* stored.                                                                 *)
OfCountry(c, S) == {s \in S : Country[s] = c}
ListsStayShort ==
  \A c \in Countries :
    feed[c] # Missing => Len(feed[c]) <= Max({Cap, Cardinality(OfCountry(c, stored))})

Times(s, seq) == Cardinality({k \in DOMAIN seq : seq[k] = s})
Shown(s) == IF feed[Country[s]] = Missing THEN 0 ELSE Times(s, feed[Country[s]])

(* Neither releases of the buffer nor loads nor sessions that live on make *)
(* a signal appear more often than it was pushed, and once from a load.    *)
NoSignalMultiplied ==
  \A s \in Signals :
    Shown(s) + Times(s, buffer)
      <= Copies * Cardinality({n \in Sockets : socket[n] # "none"}) + 1

(* A signal that is shown disappears only when an answer replaces the feed *)
(* of its country, or newer signals fill it.                               *)
NothingVanishes ==
  [][\A s \in Signals :
       Shown(s) > 0 /\ Shown(s)' = 0 =>
         \/ \E i \in Slots : Hydrate(i) \/ HydrateAgain(i)
         \/ fetches[Country[s]]' < fetches[Country[s]]
         \/ feed[Country[s]]' # Missing /\ Len(feed[Country[s]]') >= Cap]_vars

(* What answers for a filter the reader has left, cached answers and       *)
(* pushed signals leave behind does not stay: when the reader and the      *)
(* backend come to rest, the page shows what is stored, once.              *)
FeedConverges ==
  <>[](\A c \in Known : feed[c] = Listing(c, filter, stored))

(* A country outside the watchlist, whose dossier every load discards, is  *)
(* fetched again as long as it stays selected.                             *)
SelectedIsFetched ==
  \A c \in Countries : <>[](selected = c) => []<>(feed[c] # Missing)
================================================================================
