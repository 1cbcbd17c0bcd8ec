------------------------------ MODULE Realtime ------------------------------
(***************************************************************************)
(* RealtimeService: bids and closings are told to the open screens of an   *)
(* auction, outbid and won to the person concerned, over server-sent       *)
(* events.  A handler publishes after its transaction has committed, so    *)
(* that what is told may leave in another order than it was committed.     *)
(* Nothing is stored: a screen that connects again asks by REST.           *)
(*                                                                         *)
(* Grain.  What the JavaScript does between two awaits is one step: a      *)
(* publication with its deliveries, a subscription, a teardown.  The wire  *)
(* keeps the order of one stream.  Prices are counted in bids.             *)
(***************************************************************************)
EXTENDS Naturals, FiniteSetsExt

CONSTANTS
  Auctions, Users,
  Screens,      \* open pages of the clients; each has one stream at a time
  Nobody,
  MaxBids       \* bound: bids on an auction

ASSUME KeysAssumption == /\ Auctions \cap Users = {} /\ Nobody \notin Auctions \cup Users
                         /\ IsFiniteSet(Auctions \cup Users) /\ IsFiniteSet(Screens)

VARIABLES
  row,       \* the committed Auction rows: status, price, winner
  committed, \* handlers past their commit that have still to publish
  channel,   \* the maps auctions and users of RealtimeService
  stream,    \* what each screen is connected to
  got,       \* the events its stream has carried
  owed,      \* history: the events committed for its stream, or still to
             \* publish when it was opened
  answer,    \* what GET /auctions/:id has read for it
  shown      \* what the screen shows

vars == <<row, committed, channel, stream, got, owed, answer, shown>>

Keys     == Auctions \cup Users
(* An auction that has been paid for (SOLD) stays ENDED here: a payment     *)
(* publishes nothing to these channels, and a page shows both as over.     *)
Statuses == {"LIVE", "ENDED", "UNSOLD", "CANCELLED"}
Closed   == {"ENDED", "UNSOLD"}
Public   == {"LIVE"} \cup Closed

Event   == [type: {"bid", "closed", "outbid", "won"}, auction: Auctions, price: Nat]
View    == [price: Nat, closed: BOOLEAN]
NoChannel == [subject |-> 0, count |-> 0]
NoStream  == [phase |-> "off", key |-> Nobody, subject |-> 0]
NoView    == [price |-> 0, closed |-> FALSE]

TypeOK ==
  /\ row \in [Auctions -> [status: Statuses, price: Nat, winner: Users \cup {Nobody}]]
  /\ \A h \in committed : h \subseteq [key: Keys, event: Event]
  /\ channel \in [Keys -> [subject: Nat, count: Nat]]
  /\ stream \in [Screens -> [phase: {"off", "checked", "open", "asked", "current"},
                             key: Keys \cup {Nobody}, subject: Nat]]
  /\ got \in [Screens -> SUBSET [event: Event, times: Nat]]
  /\ owed \in [Screens -> SUBSET Event]
  /\ answer \in [Screens -> View]
  /\ shown \in [Screens -> View]

Init ==
  /\ row = [a \in Auctions |-> [status |-> "LIVE", price |-> 0, winner |-> Nobody]]
  /\ committed = {}
  /\ channel = [k \in Keys |-> NoChannel]
  /\ stream = [s \in Screens |-> NoStream]
  /\ got = [s \in Screens |-> {}]
  /\ owed = [s \in Screens |-> {}]
  /\ answer = [s \in Screens |-> NoView]
  /\ shown = [s \in Screens |-> NoView]

----------------------------------------------------------------------------
(* Commits: BidsService.place, SettlementService.closeOne, cancel.         *)

Note(k, type, a, price) ==
  [key |-> k, event |-> [type |-> type, auction |-> a, price |-> price]]

BidNotes(a, price) ==
  {Note(a, "bid", a, price)} \cup
  {Note(u, "outbid", a, price) : u \in {row[a].winner} \ {Nobody}}

(* Mutant: a closing without a winner is not told. *)
CloseNotes_WinnerOnly(a) ==
  IF row[a].winner = Nobody THEN {}
  ELSE {Note(a, "closed", a, row[a].price), Note(row[a].winner, "won", a, row[a].price)}

CloseNotes(a) ==
  {Note(a, "closed", a, row[a].price)} \cup
  {Note(u, "won", a, row[a].price) : u \in {row[a].winner} \ {Nobody}}

Listening(s) == stream[s].subject > 0

(* What a commit owes to the streams that are open when it is made.        *)
Owes(notes) ==
  /\ committed' = committed \cup {notes}
  /\ owed' = [s \in Screens |-> owed[s] \cup
       {n.event : n \in {m \in notes : Listening(s) /\ m.key = stream[s].key}}]
  /\ UNCHANGED <<channel, stream, got, answer, shown>>

Bid(u, a) ==
  /\ row[a].status = "LIVE" /\ row[a].winner # u
  /\ row[a].price < MaxBids
  /\ row' = [row EXCEPT ![a] = [@ EXCEPT !.price = row[a].price + 1, !.winner = u]]
  /\ Owes(BidNotes(a, row[a].price + 1))

Close(a) ==
  /\ row[a].status = "LIVE"
  /\ row' = [row EXCEPT ![a].status = IF row[a].winner = Nobody THEN "UNSOLD" ELSE "ENDED"]
  /\ Owes(CloseNotes(a))

(* A cancel tells nobody. *)
Cancel(a) ==
  /\ row[a].status # "CANCELLED"
  /\ row' = [row EXCEPT ![a].status = "CANCELLED"]
  /\ UNCHANGED <<committed, channel, stream, got, owed, answer, shown>>

----------------------------------------------------------------------------
(* Publishing.                                                             *)

Told(s, e) == {g \in got[s] : g.event = e}
Times(s, e) == IF Told(s, e) = {} THEN 0 ELSE (CHOOSE g \in Told(s, e) : TRUE).times

Received(s, E) ==
  {g \in got[s] : g.event \notin E} \cup {[event |-> e, times |-> Times(s, e) + 1] : e \in E}

(* Assumption on the client, whose code is elsewhere: of two prices it     *)
(* keeps the higher.                                                       *)
Merged(v, price, closed) ==
  [price |-> Max({v.price, price}), closed |-> v.closed \/ closed]

Shows(v, E) ==
  IF E = {} THEN v
  ELSE Merged(v, Max({e.price : e \in E}), \E e \in E : e.type = "closed")

(* Mutant: the personal event goes to whoever has a stream open. *)
Reached_Anyone(notes, s) == {n.event : n \in {m \in notes : Listening(s)}}

(* subject.next of the channel that is in the map under the note's key.    *)
Reached(notes, s) ==
  {n.event : n \in {m \in notes : Listening(s) /\ channel[m.key].subject = stream[s].subject}}

(* publishBid and publishToUser, or publishToAuction and publishToUser,    *)
(* without an await between them.                                          *)
Publish(h) ==
  /\ h \in committed
  /\ committed' = committed \ {h}
  /\ got' = [s \in Screens |-> Received(s, Reached(h, s))]
  /\ shown' = [s \in Screens |->
       IF stream[s].key \in Auctions THEN Shows(shown[s], Reached(h, s)) ELSE shown[s]]
  /\ UNCHANGED <<row, channel, stream, owed, answer>>

----------------------------------------------------------------------------
(* Streams.                                                                *)

At(s, phase) == stream[s].phase = phase
Goes(s, phase) == stream' = [stream EXCEPT ![s].phase = phase]

(* auctionStream looks the auction up before it returns the Observable;    *)
(* meStream has nothing to look up.                                        *)
Connect(s, k) ==
  /\ At(s, "off")
  /\ k \in Auctions => row[k].status \in Public
  /\ stream' = [stream EXCEPT ![s] = [phase |-> "checked", key |-> k, subject |-> 0]]
  /\ UNCHANGED <<row, committed, channel, got, owed, answer, shown>>

(* A Subject object that nothing refers to any more may be forgotten.      *)
InUse == {channel[k].subject : k \in Keys} \cup {stream[s].subject : s \in Screens}
NewSubject == Min((1 .. Cardinality(InUse) + 1) \ InUse)

(* Mutant: each stream gets a channel of its own, the last one is mapped. *)
Acquired_Fresh(k) == [subject |-> NewSubject, count |-> channel[k].count + 1]

(* acquire: the channel of the key, made if there is none, one more user.  *)
Acquired(k) ==
  [subject |-> IF channel[k] = NoChannel THEN NewSubject ELSE channel[k].subject,
   count   |-> channel[k].count + 1]

PendingFor(k) == {n.event : n \in {m \in UNION committed : m.key = k}}

(* Nest subscribes to the Observable. *)
Subscribe(s) ==
  LET k == stream[s].key  c == Acquired(stream[s].key)
  IN /\ At(s, "checked")
     /\ channel' = [channel EXCEPT ![k] = c]
     /\ stream' = [stream EXCEPT ![s] = [phase |-> "open", key |-> k, subject |-> c.subject]]
     /\ owed' = [owed EXCEPT ![s] = PendingFor(k)]
     /\ UNCHANGED <<row, committed, got, answer, shown>>

(* Mutant: the first to leave takes the channel along. *)
Released_AtOnce(k) == NoChannel

(* Mutant: the teardown counts twice and forgets to delete the channel.    *)
Released_Twice(k) == [channel[k] EXCEPT !.count = @ - 2]

(* release: the last one out deletes the channel.                          *)
Released(k) ==
  IF channel[k].count <= 1 THEN NoChannel ELSE [channel[k] EXCEPT !.count = @ - 1]

(* The connection ends: the Observable's teardown.                         *)
Disconnect(s) ==
  /\ ~At(s, "off")
  /\ channel' = IF Listening(s)
                THEN [channel EXCEPT ![stream[s].key] = Released(stream[s].key)] ELSE channel
  /\ stream' = [stream EXCEPT ![s] = NoStream]
  /\ got' = [got EXCEPT ![s] = {}] /\ owed' = [owed EXCEPT ![s] = {}]
  /\ answer' = [answer EXCEPT ![s] = NoView] /\ shown' = [shown EXCEPT ![s] = NoView]
  /\ UNCHANGED <<row, committed>>

(* The process dies: maps and streams are gone, and so is what a handler   *)
(* had still to publish.                                                   *)
Crash ==
  /\ committed' = {}
  /\ channel' = [k \in Keys |-> NoChannel]
  /\ stream' = [s \in Screens |-> NoStream]
  /\ got' = [s \in Screens |-> {}] /\ owed' = [s \in Screens |-> {}]
  /\ answer' = [s \in Screens |-> NoView] /\ shown' = [s \in Screens |-> NoView]
  /\ UNCHANGED row

(* Once its stream is open the client asks GET /auctions/:id, which knows  *)
(* no cancelled auction; events may overtake the answer.                   *)
Ask(s) ==
  LET r == row[stream[s].key]
  IN /\ At(s, "open") /\ stream[s].key \in Auctions
     /\ r.status \in Public
     /\ Goes(s, "asked")
     /\ answer' = [answer EXCEPT ![s] =
          [price |-> r.price, closed |-> r.status \in Closed]]
     /\ UNCHANGED <<row, committed, channel, got, owed, shown>>

Answer(s) ==
  /\ At(s, "asked")
  /\ Goes(s, "current")
  /\ shown' = [shown EXCEPT ![s] = Merged(@, answer[s].price, answer[s].closed)]
  /\ answer' = [answer EXCEPT ![s] = NoView]
  /\ UNCHANGED <<row, committed, channel, got, owed>>

Next ==
  \/ \E u \in Users, a \in Auctions : Bid(u, a)
  \/ \E a \in Auctions : Close(a)
  \/ \E a \in Auctions : Cancel(a)
  \/ \E h \in committed : Publish(h)
  \/ \E s \in Screens, k \in Keys : Connect(s, k)
  \/ \E s \in Screens : Subscribe(s)
  \/ \E s \in Screens : Disconnect(s)
  \/ \E s \in Screens : Ask(s)
  \/ \E s \in Screens : Answer(s)
  \/ Crash

(* Fairness: a handler that has committed goes on to publish, the clients  *)
(* of open streams ask, and are answered.  Nobody has to connect.          *)
Fairness ==
  /\ WF_vars(\E h \in committed : Publish(h))
  /\ \A s \in Screens : WF_vars(Ask(s)) /\ WF_vars(Answer(s))

Spec == Init /\ [][Next]_vars /\ Fairness

----------------------------------------------------------------------------
(* The maps and the streams agree: a channel is there exactly as long as   *)
(* somebody listens, it has counted everybody, and everybody listens to    *)
(* the Subject that publishers find, however streams come and go.          *)
ChannelsMatchStreams ==
  \A k \in Keys :
    LET on == {s \in Screens : Listening(s) /\ stream[s].key = k}
    IN /\ channel[k].count = Cardinality(on)
       /\ on = {} <=> channel[k] = NoChannel
       /\ \A s \in on : stream[s].subject = channel[k].subject

(* A stream has carried, once each, exactly the events of its auction or   *)
(* its user that were committed since it was opened, less those a handler  *)
(* has still to publish; a person is told nothing that concerns another.   *)
ToldOnce ==
  \A s \in Screens : Listening(s) =>
    got[s] = {[event |-> e, times |-> 1] : e \in owed[s] \ PendingFor(stream[s].key)}

(* Once a screen has its answer and nothing is left to publish, it shows   *)
(* the committed price and whether the auction is over, in whatever order  *)
(* the bids, the closing and the answer came.  A cancel is told to nobody. *)
ScreensAreCurrent ==
  \A s \in Screens :
    LET a == stream[s].key
    IN At(s, "current") /\ PendingFor(a) = {} /\ row[a].status # "CANCELLED" =>
         shown[s] = [price |-> row[a].price, closed |-> row[a].status \in Closed]

(* Whoever keeps the page of an auction open sees it close.                *)
SeesTheEnd ==
  \A s \in Screens, a \in Auctions :
    Listening(s) /\ stream[s].key = a /\ row[a].status \in Closed
      ~> shown[s].closed \/ stream[s].key # a \/ row[a].status = "CANCELLED"
=============================================================================
