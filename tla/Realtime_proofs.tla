--------------------------- MODULE Realtime_proofs ---------------------------
(***************************************************************************)
(* What the streams of Realtime are told and what the screens show, for    *)
(* every value of the constants.                                           *)
(***************************************************************************)
EXTENDS Realtime, FiniteSetTheorems, WellFoundedInduction, TLAPS

----------------------------------------------------------------------------
(* The inductive invariant.                                                *)

(* A channel that is there has a Subject of its own.                       *)
Subjects ==
  /\ \A k \in Keys : channel[k] = NoChannel \/ channel[k].subject > 0
  /\ \A j, k \in Keys : j # k /\ channel[j].subject = channel[k].subject
                          => channel[k] = NoChannel

(* The phases of a stream; nothing is left of an earlier one.              *)
Phases(s) ==
  /\ Listening(s) <=> stream[s].phase \in {"open", "asked", "current"}
  /\ stream[s].phase # "off" => stream[s].key \in Keys
  /\ stream[s].phase \in {"asked", "current"} => stream[s].key \in Auctions
  /\ ~Listening(s) => got[s] = {} /\ shown[s] = NoView /\ answer[s] = NoView

(* What an event tells has happened.                                       *)
Past(e) ==
  /\ e.price <= row[e.auction].price
  /\ e.type \in {"closed", "won"} => row[e.auction].status # "LIVE"

(* What a handler has to publish: one event to a key, and to the screens   *)
(* of an auction only what concerns it.                                    *)
Notes(h) ==
  /\ \A m, n \in h : m.key = n.key => m = n
  /\ \A n \in h : Past(n.event)
  /\ \A n \in h : n.key \in Auctions => n.event.auction = n.key /\ n.event.type \in {"bid", "closed"}

(* No two handlers have the same to tell.                                  *)
Apart ==
  \A g, h \in committed : \A m \in g, n \in h : m.key = n.key /\ m.event = n.event => g = h

(* Whatever is still to be told to a stream is owed to it, and has         *)
(* happened.                                                               *)
Owed(s) ==
  /\ \A e \in owed[s] : Past(e)
  /\ Listening(s) => PendingFor(stream[s].key) \subseteq owed[s]

(* Neither the answer nor the screen is ahead of the database, and after   *)
(* the question what they lack is on its way.                              *)
Views(s) ==
  LET a == stream[s].key  asked == At(s, "asked")
  IN a \in Auctions =>
       /\ shown[s].price <= row[a].price /\ answer[s].price <= row[a].price
       /\ shown[s].closed \/ answer[s].closed => row[a].status # "LIVE"
       /\ asked \/ At(s, "current") =>
            /\ \/ shown[s].price = row[a].price
               \/ asked /\ answer[s].price = row[a].price
               \/ \E e \in PendingFor(a) : e.type = "bid" /\ e.price = row[a].price
            /\ row[a].status \in Closed =>
                 \/ shown[s].closed
                 \/ asked /\ answer[s].closed
                 \/ \E e \in PendingFor(a) : e.type = "closed"

Inv ==
  /\ TypeOK
  /\ Subjects /\ ChannelsMatchStreams
  /\ \A h \in committed : Notes(h)
  /\ Apart
  /\ \A s \in Screens : Phases(s) /\ Owed(s) /\ Views(s)
  /\ ToldOnce

----------------------------------------------------------------------------
(* Numbers and fields.                                                     *)

(* The maximum of one number, and of two.                                  *)
LEMMA MaxOfOne ==
  ASSUME NEW a \in Nat
  PROVE  Max({a}) = a
  BY DEF Max

LEMMA MaxOfTwo ==
  ASSUME NEW a \in Nat, NEW b \in Nat
  PROVE  /\ Max({a, b}) \in {a, b} /\ Max({a, b}) >= a /\ Max({a, b}) >= b
         /\ Max({a, b}) \in Nat
  <1>1. Max({a, b}) = IF a >= b THEN a ELSE b
    BY DEF Max
  <1> QED
    BY <1>1

(* What an event and a view are made of.                                   *)
LEMMA EventFields ==
  ASSUME NEW e \in Event
  PROVE  e.auction \in Auctions /\ e.price \in Nat
  BY DEF Event

LEMMA ViewFields ==
  ASSUME NEW v \in View
  PROVE  v.price \in Nat /\ v.closed \in BOOLEAN
  BY DEF View

(* What a screen shows after an event or the answer.                       *)
LEMMA MergedView ==
  ASSUME NEW v \in View, NEW p \in Nat, NEW c \in BOOLEAN
  PROVE  /\ Merged(v, p, c) \in View
         /\ Merged(v, p, c).price \in {v.price, p}
         /\ Merged(v, p, c).price >= v.price /\ Merged(v, p, c).price >= p
         /\ Merged(v, p, c).closed <=> v.closed \/ c
  BY ViewFields, MaxOfTwo DEF Merged, View

(* The subjects of finitely many rows or streams are finitely many.        *)
LEMMA FiniteImage ==
  ASSUME NEW S, IsFiniteSet(S), NEW f
  PROVE  IsFiniteSet({f[x].subject : x \in S})
  <1> DEFINE T == {f[x].subject : x \in S}
             g == [x \in S |-> f[x].subject]
  <1>1. g \in [S -> T] /\ \A y \in T : \E x \in S : g[x] = y
    OBVIOUS
  <1>2. g \in Surjection(S, T)
    BY <1>1 DEF Surjection
  <1> QED
    BY <1>2, FS_Surjection

(* The number of a new Subject is not in use: there are only so many.      *)
LEMMA NewSubjectIsNew ==
  ASSUME TypeOK
  PROVE  NewSubject \in Nat /\ NewSubject > 0 /\ NewSubject \notin InUse
  <1> DEFINE n == Cardinality(InUse)
             T == (1 .. n + 1) \ InUse
             less == {p \in Nat \X Nat : p[1] < p[2]}
  <1>1. IsFiniteSet(InUse) /\ n \in Nat
    <2>1. IsFiniteSet({channel[k].subject : k \in Keys})
      BY KeysAssumption, FiniteImage DEF Keys
    <2>2. IsFiniteSet({stream[s].subject : s \in Screens})
      BY KeysAssumption, FiniteImage
    <2> QED
      BY <2>1, <2>2, FS_Union, FS_CardinalityType DEF InUse
  <1> HIDE DEF n
  <1>2. T # {}
    <2> SUFFICES ASSUME 1 .. n + 1 \subseteq InUse PROVE FALSE
      OBVIOUS
    <2>1. Cardinality(1 .. n + 1) = n + 1
      BY <1>1, FS_Interval
    <2>2. Cardinality(1 .. n + 1) <= n
      BY <1>1, FS_Subset DEF n
    <2> QED
      BY <1>1, <2>1, <2>2
  <1>3. T \in SUBSET Nat /\ \A i \in T : i > 0 /\ i \notin InUse
    BY <1>1
  <1>4. NewSubject = Min(T)
    BY DEF NewSubject, n
  <1> HIDE DEF T
  <1>5. IsWellFoundedOn(less, Nat)
    BY NatLessThanWellFounded DEF OpToRel
  <1>6. PICK m \in T : \A i \in T : <<i, m>> \notin less
    <2> HIDE DEF less
    <2> QED
      BY <1>2, <1>3, <1>5, WFMin
  <1>7. ASSUME NEW i \in T PROVE m <= i
    <2>1. <<i, m>> \notin less /\ i \in Nat /\ m \in Nat
      BY <1>3, <1>6
    <2>2. ~(i < m)
      BY <2>1
    <2> QED
      BY <2>1, <2>2
  <1>8. Min(T) \in T
    BY <1>7 DEF Min
  <1> QED
    BY <1>3, <1>4, <1>8

----------------------------------------------------------------------------
(* Channels.                                                               *)

On(k) == {s \in Screens : Listening(s) /\ stream[s].key = k}

(* The streams on a key are finitely many.                                 *)
LEMMA OnIsFinite ==
  ASSUME NEW k
  PROVE  IsFiniteSet(On(k)) /\ Cardinality(On(k)) \in Nat
  BY KeysAssumption, FS_Subset, FS_CardinalityType DEF On

(* Nobody comes, nobody leaves.                                            *)
LEMMA ChannelsFrame ==
  ASSUME Subjects, ChannelsMatchStreams, channel' = channel,
         \A s \in Screens : /\ stream'[s].subject = stream[s].subject
                            /\ Listening(s) => stream'[s].key = stream[s].key
  PROVE  Subjects' /\ ChannelsMatchStreams'
  <1>1. Subjects'
    BY DEF Subjects
  <1>2. ASSUME NEW k \in Keys PROVE On(k)' = On(k)
    BY DEF On, Listening
  <1>3. ChannelsMatchStreams <=>
          \A k \in Keys : /\ channel[k].count = Cardinality(On(k))
                          /\ On(k) = {} <=> channel[k] = NoChannel
                          /\ \A s \in On(k) : stream[s].subject = channel[k].subject
    BY DEF ChannelsMatchStreams, On
  <1>4. ChannelsMatchStreams' <=>
          \A k \in Keys : /\ channel'[k].count = Cardinality(On(k)')
                          /\ On(k)' = {} <=> channel'[k] = NoChannel
                          /\ \A s \in On(k)' : stream'[s].subject = channel'[k].subject
    BY DEF ChannelsMatchStreams, On
  <1>5. \A k \in Keys : \A s \in On(k) : s \in Screens
    BY DEF On
  <1> QED
    BY <1>1, <1>2, <1>3, <1>4, <1>5

(* The channel of one key, and who is on it.                               *)
Matches(k) ==
  /\ channel[k].count = Cardinality(On(k))
  /\ On(k) = {} <=> channel[k] = NoChannel
  /\ \A s \in On(k) : stream[s].subject = channel[k].subject

(* The channels agree when each of them does, before and after a step.     *)
LEMMA MatchesAll ==
  /\ ChannelsMatchStreams <=> \A k \in Keys : Matches(k)
  /\ ChannelsMatchStreams' <=> \A k \in Keys : Matches(k)'
  BY DEF ChannelsMatchStreams, Matches, On

(* One stream comes or leaves: the other keys' channels are as they were.  *)
LEMMA OtherChannels ==
  ASSUME NEW i \in Keys, Matches(i), channel'[i] = channel[i],
         NEW s \in Screens, \A x \in Screens : x # s => stream'[x] = stream[x],
         Listening(s) => stream[s].key # i, Listening(s)' => stream'[s].key # i
  PROVE  Matches(i)'
  <1>1. On(i)' = On(i)
    BY DEF On, Listening
  <1>2. \A x \in On(i) : x \in Screens /\ x # s
    BY DEF On
  <1> QED
    BY <1>1, <1>2 DEF Matches

(* The first or a further stream joins the channel of its key.             *)
LEMMA SubscribeChannels ==
  ASSUME Inv, NEW s \in Screens, Subscribe(s)
  PROVE  /\ Subjects' /\ ChannelsMatchStreams'
         /\ Acquired(stream[s].key) \in [subject: Nat, count: Nat]
         /\ Acquired(stream[s].key).subject > 0
  <1>0. PICK k \in Keys : k = stream[s].key
    BY DEF Inv, Phases, Subscribe, At
  <1> DEFINE c == Acquired(k)
  <1>1. /\ k = stream[s].key /\ ~Listening(s) /\ s \notin On(k)
        /\ channel \in [Keys -> [subject: Nat, count: Nat]] /\ stream[s].phase = "checked"
        /\ stream \in [Screens -> [phase: {"off", "checked", "open", "asked", "current"},
                                   key: Keys \cup {Nobody}, subject: Nat]]
    BY <1>0 DEF Inv, Phases, Subscribe, At, On, TypeOK
  <1>2. /\ c.count = channel[k].count + 1 /\ c \in [subject: Nat, count: Nat] /\ c.subject > 0
        /\ channel[k] = NoChannel => c.subject \notin InUse
        /\ channel[k] # NoChannel => c.subject = channel[k].subject
    BY <1>1, NewSubjectIsNew DEF Acquired, Inv, Subjects
  <1>3. /\ channel' = [channel EXCEPT ![k] = c]
        /\ stream' = [stream EXCEPT ![s] = [phase |-> "open", key |-> k, subject |-> c.subject]]
    BY <1>0 DEF Subscribe
  <1> HIDE DEF c
  <1>4. Subjects'
    <2>1. \A j \in Keys : channel[j].subject \in InUse
      BY DEF InUse
    <2>2. \A j \in Keys : j # k => channel[j].subject # c.subject
      BY <1>1, <1>2, <2>1 DEF Inv, Subjects
    <2>3. channel'[k] = c /\ \A j \in Keys : j # k => channel'[j] = channel[j]
      BY <1>1, <1>3
    <2>4. \A j \in Keys : channel'[j] = NoChannel \/ channel'[j].subject > 0
      BY <1>1, <1>2, <2>3 DEF Inv, Subjects
    <2>5. ASSUME NEW j \in Keys, NEW i \in Keys, j # i, channel'[j].subject = channel'[i].subject
          PROVE  channel'[i] = NoChannel
      BY <1>1, <2>2, <2>3, <2>5 DEF Inv, Subjects
    <2> QED
      BY <2>4, <2>5 DEF Subjects
  <1>5. ASSUME NEW i \in Keys PROVE Matches(i)'
    <2>0. Matches(i)
      BY MatchesAll DEF Inv
    <2>1. stream'[s].key = k /\ stream'[s].subject = c.subject
          /\ \A x \in Screens : x # s => stream'[x] = stream[x]
      BY <1>1, <1>3
    <2>2. CASE i # k
      <3>1. channel'[i] = channel[i]
        BY <1>1, <1>3, <2>2
      <3> QED
        BY <1>1, <2>0, <2>1, <2>2, <3>1, OtherChannels
    <2>3. CASE i = k
      <3>1. On(k)' = On(k) \cup {s}
        BY <1>1, <1>2, <2>1 DEF On, Listening
      <3>2. Cardinality(On(k)') = Cardinality(On(k)) + 1
        BY <1>1, <3>1, OnIsFinite, FS_AddElement
      <3>3. channel'[k] = c /\ c # NoChannel
        BY <1>1, <1>2, <1>3 DEF NoChannel
      <3>4. ASSUME NEW x \in On(k)' PROVE stream'[x].subject = c.subject
        <4>1. CASE x = s
          BY <2>1, <4>1
        <4>2. CASE x # s
          <5>1. x \in On(k) /\ x \in Screens
            BY <3>1, <4>2 DEF On
          <5>2. channel[k] # NoChannel /\ stream[x].subject = channel[k].subject
            BY <2>0, <2>3, <5>1 DEF Matches
          <5> QED
            BY <1>2, <2>1, <4>2, <5>1, <5>2
        <4> QED
          BY <4>1, <4>2
      <3>5. channel[k].count = Cardinality(On(k))
        BY <2>0, <2>3 DEF Matches
      <3>6. channel'[k].count = Cardinality(On(k)') /\ On(k)' # {}
        BY <1>2, <3>1, <3>2, <3>3, <3>5
      <3>7. Matches(k)'
        BY <3>3, <3>4, <3>6 DEF Matches
      <3> QED
        BY <2>3, <3>7
    <2> QED
      BY <2>2, <2>3
  <1> QED
    BY <1>0, <1>2, <1>4, <1>5, MatchesAll DEF c

(* The last one out takes the channel along, nobody else does.             *)
LEMMA DisconnectChannels ==
  ASSUME Inv, NEW s \in Screens, Disconnect(s)
  PROVE  Subjects' /\ ChannelsMatchStreams' /\ channel' \in [Keys -> [subject: Nat, count: Nat]]
  <1>0. PICK k \in Keys : k = stream[s].key
    BY DEF Inv, Phases, Disconnect, At
  <1>1. /\ k = stream[s].key /\ channel \in [Keys -> [subject: Nat, count: Nat]]
        /\ stream \in [Screens -> [phase: {"off", "checked", "open", "asked", "current"},
                                   key: Keys \cup {Nobody}, subject: Nat]]
    BY <1>0 DEF Inv, TypeOK
  <1>2. /\ stream'[s].subject = 0 /\ ~Listening(s)'
        /\ \A x \in Screens : x # s => stream'[x] = stream[x]
    BY <1>1 DEF Disconnect, NoStream, Listening
  <1>3. \A i \in Keys : Matches(i)
    BY MatchesAll DEF Inv
  <1>4. CASE ~Listening(s)
    <2>1. channel' = channel
      BY <1>4 DEF Disconnect
    <2>2. \A i \in Keys : Matches(i)'
      BY <1>2, <1>3, <1>4, <2>1, OtherChannels
    <2> QED
      BY <1>1, <2>1, <2>2, MatchesAll DEF Inv, Subjects
  <1>5. CASE Listening(s)
    <2> DEFINE c == Released(k)
    <2>1. channel' = [channel EXCEPT ![k] = c]
      BY <1>0, <1>5 DEF Disconnect
    <2>2. s \in On(k) /\ channel[k] # NoChannel /\ channel[k].count = Cardinality(On(k))
      BY <1>1, <1>3, <1>5 DEF On, Matches
    <2>3. On(k)' = On(k) \ {s}
      BY <1>2 DEF On, Listening
    <2>4. /\ Cardinality(On(k)') = channel[k].count - 1
          /\ IsFiniteSet(On(k)') /\ Cardinality(On(k)') \in Nat
      <3>1. IsFiniteSet(On(k)) /\ Cardinality(On(k)) \in Nat
        BY OnIsFinite
      <3>2. IsFiniteSet(On(k) \ {s}) /\ Cardinality(On(k) \ {s}) = Cardinality(On(k)) - 1
        BY <2>2, <3>1, FS_RemoveElement
      <3> QED
        BY <2>2, <2>3, <3>2, FS_CardinalityType
    <2>5. On(k)' = {} <=> channel[k].count = 1
      BY <1>1, <2>4, FS_EmptySet
    <2>6. /\ channel[k].count = 1 => c = NoChannel
          /\ channel[k].count # 1 => /\ c.subject = channel[k].subject
                                     /\ c.count = channel[k].count - 1
          /\ c \in [subject: Nat, count: Nat]
      BY <1>1, <2>2, <2>4 DEF Released, NoChannel
    <2>7. channel'[k] = c /\ \A j \in Keys : j # k => channel'[j] = channel[j]
      BY <1>1, <2>1
    <2>8. channel[k].subject > 0
      BY <1>1, <2>2 DEF Inv, Subjects
    <2> HIDE DEF c
    <2>9. Subjects'
      <3>1. \A j \in Keys : \/ channel'[j] = NoChannel \/ channel'[j] = channel[j]
                            \/ j = k /\ channel'[k].subject = channel[k].subject
        <4>1. channel'[k] = NoChannel \/ channel'[k].subject = channel[k].subject
          BY <2>6, <2>7
        <4> QED
          BY <2>7, <4>1
      <3>2. NoChannel.subject = 0
        BY DEF NoChannel
      <3>3. \A j \in Keys : channel'[j] = NoChannel \/ channel'[j].subject > 0
        BY <1>1, <2>8, <3>1 DEF Inv, Subjects
      <3>4. \A j, i \in Keys : j # i /\ channel'[j].subject = channel'[i].subject
                                  => channel'[i] = NoChannel
        <4>1. SUFFICES ASSUME NEW j \in Keys, NEW i \in Keys, j # i,
                              channel'[j].subject = channel'[i].subject,
                              channel'[i] # NoChannel
                       PROVE  FALSE
          OBVIOUS
        <4>2. channel'[i].subject > 0 /\ channel'[i].subject = channel[i].subject
          BY <3>1, <3>3, <4>1
        <4>3. channel'[j] # NoChannel
          BY <3>2, <4>1, <4>2
        <4>4. channel'[j].subject = channel[j].subject
          BY <3>1, <4>3
        <4>5. channel[i] = NoChannel
          BY <4>1, <4>2, <4>4 DEF Inv, Subjects
        <4> QED
          BY <3>2, <4>2, <4>5
      <3> QED
        BY <3>3, <3>4 DEF Subjects
    <2>10. ASSUME NEW i \in Keys PROVE Matches(i)'
      <3>1. CASE i # k
        BY <1>1, <1>2, <1>3, <2>7, <3>1, OtherChannels
      <3>2. CASE i = k
        <4>1. On(k)' = {} <=> c = NoChannel
          BY <2>5, <2>6, <2>8 DEF NoChannel
        <4>2. c.count = Cardinality(On(k)')
          BY <1>1, <2>4, <2>5, <2>6, FS_EmptySet DEF NoChannel
        <4>3. ASSUME NEW x \in On(k)' PROVE stream'[x].subject = c.subject
          <5>1. x \in On(k) /\ x # s /\ x \in Screens
            BY <2>3 DEF On
          <5>2. stream'[x].subject = channel[k].subject
            BY <1>1, <1>2, <1>3, <5>1 DEF Matches
          <5> QED
            BY <2>5, <2>6, <5>2
        <4> QED
          <5>1. Matches(k)'
            BY <2>7, <4>1, <4>2, <4>3 DEF Matches
          <5> QED
            BY <3>2, <5>1
      <3> QED
        BY <3>1, <3>2
    <2> QED
      BY <1>1, <2>1, <2>6, <2>9, <2>10, MatchesAll
  <1> QED
    BY <1>4, <1>5

----------------------------------------------------------------------------
(* Commits.                                                                *)

(* What has happened stays so.                                             *)
LEMMA PastStays ==
  ASSUME TypeOK, TypeOK', NEW e \in Event, Past(e),
         \A b \in Auctions : /\ row'[b].price >= row[b].price
                             /\ row'[b].status = "LIVE" => row[b].status = "LIVE"
  PROVE  Past(e)'
  <1>1. e.auction \in Auctions /\ e.price \in Nat
    BY EventFields
  <1>2. row[e.auction].price \in Nat /\ row'[e.auction].price \in Nat
    BY <1>1 DEF TypeOK
  <1> QED
    BY <1>1, <1>2 DEF Past

(* The events that some notes have for a key.                              *)
EventsFor(notes, k) == {n.event : n \in {m \in notes : m.key = k}}

(* A commit of a live auction whose notes are news, and which tells the    *)
(* auction's screens of a new price and of the end.                        *)
LEMMA CommitKeeps ==
  ASSUME Inv, NEW a \in Auctions, NEW notes \in SUBSET [key: Keys, event: Event],
         Owes(notes), row[a].status = "LIVE",
         row' \in [Auctions -> [status: Statuses, price: Nat, winner: Users \cup {Nobody}]],
         \A b \in Auctions : b # a => row'[b] = row[b],
         row'[a].price >= row[a].price,
         Notes(notes)', \A n \in notes : ~Past(n.event),
         \/ row'[a].price = row[a].price
         \/ \E e \in EventsFor(notes, a) : e.type = "bid" /\ e.price = row'[a].price,
         row'[a].status \in Closed => \E e \in EventsFor(notes, a) : e.type = "closed"
  PROVE  Inv'
  <1> DEFINE New(s) == {n.event : n \in {m \in notes : Listening(s) /\ m.key = stream[s].key}}
  <1>1. /\ committed' = committed \cup {notes} /\ owed' = [s \in Screens |-> owed[s] \cup New(s)]
        /\ UNCHANGED <<channel, stream, got, answer, shown>>
    BY DEF Owes
  <1>2. TypeOK'
    <2>1. \A n \in notes : n.event \in Event
      OBVIOUS
    <2>2. \A s \in Screens : New(s) \in SUBSET Event
      BY <2>1
    <2> HIDE DEF New
    <2>3. owed' \in [Screens -> SUBSET Event]
      BY <1>1, <2>2 DEF Inv, TypeOK
    <2>4. \A h \in committed' : h \subseteq [key: Keys, event: Event]
      BY <1>1 DEF Inv, TypeOK
    <2> QED
      BY <1>1, <2>3, <2>4 DEF Inv, TypeOK
  <1>3. \A b \in Auctions : /\ row'[b].price >= row[b].price
                            /\ row'[b].status = "LIVE" => row[b].status = "LIVE"
    <2>1. \A b \in Auctions : row[b].price \in Nat
      BY DEF Inv, TypeOK
    <2> QED
      BY <2>1
  <1>4. \A e \in Event : Past(e) => Past(e)'
    BY <1>2, <1>3, PastStays DEF Inv
  <1>5. ASSUME NEW h \in committed' PROVE Notes(h)'
    <2>1. CASE h = notes
      BY <2>1
    <2>2. CASE h \in committed
      <3>1. Notes(h) /\ \A n \in h : n.event \in Event
        BY <2>2 DEF Inv, TypeOK
      <3>2. \A n \in h : Past(n.event)'
        BY <1>4, <3>1 DEF Notes
      <3> QED
        BY <3>1, <3>2 DEF Notes
    <2> QED
      BY <1>1, <2>1, <2>2
  <1>6. Apart'
    <2>1. \A h \in committed : \A n \in h : Past(n.event)
      BY DEF Inv, Notes
    <2>2. \A g, h \in committed' : \A m \in g, n \in h : m.key = n.key /\ m.event = n.event => g = h
      BY <1>1, <2>1 DEF Inv, Apart
    <2> QED
      BY <2>2 DEF Apart
  <1>7. \A s \in Screens : (Listening(s)' <=> Listening(s)) /\ (Phases(s) => Phases(s)')
    BY <1>1 DEF Listening, Phases
  <1>8. \A k : PendingFor(k)' = PendingFor(k) \cup EventsFor(notes, k)
    BY <1>1 DEF PendingFor, EventsFor
  <1>9. ASSUME NEW s \in Screens PROVE Owed(s)'
    <2>1. \A e \in owed[s] : e \in Event /\ Past(e)
      BY DEF Inv, Owed, TypeOK
    <2>2. \A e \in New(s) : Past(e)'
      BY DEF Notes
    <2>3. owed'[s] = owed[s] \cup New(s)
      BY <1>1
    <2>4. Listening(s) => EventsFor(notes, stream[s].key) = New(s)
      BY DEF EventsFor
    <2>5. Listening(s)' => PendingFor(stream[s].key)' \subseteq owed'[s]
      BY <1>1, <1>7, <1>8, <2>3, <2>4 DEF Inv, Owed
    <2>6. \A e \in owed'[s] : Past(e)'
      BY <1>4, <2>1, <2>2, <2>3
    <2> QED
      BY <2>5, <2>6 DEF Owed
  <1>10. ASSUME NEW s \in Screens, Listening(s)
         PROVE  owed'[s] \ PendingFor(stream[s].key)' = owed[s] \ PendingFor(stream[s].key)
    <2>1. \A e \in owed[s] : Past(e)
      BY DEF Inv, Owed
    <2>2. \A e \in EventsFor(notes, stream[s].key) : ~Past(e)
      BY DEF EventsFor
    <2>3. owed'[s] = owed[s] \cup EventsFor(notes, stream[s].key)
      BY <1>1, <1>10 DEF EventsFor
    <2>4. PendingFor(stream[s].key)' = PendingFor(stream[s].key) \cup EventsFor(notes, stream[s].key)
      BY <1>1, <1>8
    <2> QED
      BY <2>1, <2>2, <2>3, <2>4
  <1>11. ToldOnce'
    BY <1>1, <1>7, <1>10 DEF Inv, ToldOnce
  <1>12. ASSUME NEW s \in Screens PROVE Views(s)'
    <2>0. stream' = stream /\ answer'[s] = answer[s] /\ shown'[s] = shown[s]
          /\ answer[s].price \in Nat /\ shown[s].price \in Nat
      BY <1>1, ViewFields DEF Inv, TypeOK
    <2>1. SUFFICES ASSUME NEW b \in Auctions, b = stream[s].key PROVE Views(s)'
      BY <2>0 DEF Views
    <2>2. Views(s) /\ row[b].price \in Nat /\ row'[b].price \in Nat
      BY <1>2 DEF Inv, TypeOK
    <2>3. PendingFor(b)' = PendingFor(b) \cup EventsFor(notes, b)
      BY <1>8
    <2>4. /\ shown[s].price <= row'[b].price /\ answer[s].price <= row'[b].price
          /\ shown[s].closed \/ answer[s].closed => row'[b].status # "LIVE"
      BY <1>3, <2>0, <2>1, <2>2 DEF Views
    <2>5. ASSUME At(s, "asked") \/ At(s, "current")
          PROVE  \/ shown[s].price = row'[b].price
                 \/ At(s, "asked") /\ answer[s].price = row'[b].price
                 \/ \E e \in PendingFor(b)' : e.type = "bid" /\ e.price = row'[b].price
      <3>1. CASE row'[b].price = row[b].price
        BY <2>1, <2>2, <2>3, <2>5, <3>1 DEF Views
      <3>2. CASE row'[b].price # row[b].price
        BY <2>3, <3>2
      <3> QED
        BY <3>1, <3>2
    <2>6. ASSUME At(s, "asked") \/ At(s, "current"), row'[b].status \in Closed
          PROVE  \/ shown[s].closed
                 \/ At(s, "asked") /\ answer[s].closed
                 \/ \E e \in PendingFor(b)' : e.type = "closed"
      <3>1. CASE b = a
        BY <2>3, <2>6, <3>1
      <3>2. CASE b # a
        BY <2>1, <2>2, <2>3, <2>6, <3>2 DEF Views
      <3> QED
        BY <3>1, <3>2
    <2>7. stream'[s].key = b /\ (At(s, "asked")' <=> At(s, "asked"))
          /\ (At(s, "current")' <=> At(s, "current"))
      BY <2>0, <2>1 DEF At
    <2> QED
      BY <2>0, <2>4, <2>5, <2>6, <2>7 DEF Views
  <1>13. Subjects' /\ ChannelsMatchStreams'
    BY <1>1, ChannelsFrame DEF Inv
  <1> QED
    BY <1>2, <1>5, <1>6, <1>7, <1>9, <1>11, <1>12, <1>13 DEF Inv

(* A note, and what Notes asks of the notes about one auction.             *)
LEMMA NoteFields ==
  ASSUME NEW k \in Keys, NEW type \in {"bid", "closed", "outbid", "won"},
         NEW a \in Auctions, NEW p \in Nat
  PROVE  /\ Note(k, type, a, p) \in [key: Keys, event: Event]
         /\ Note(k, type, a, p).key = k
         /\ Note(k, type, a, p).event.type = type
         /\ Note(k, type, a, p).event.auction = a /\ Note(k, type, a, p).event.price = p
  BY DEF Note, Event

NotesAbout(a, public, personal, p, W) ==
  {Note(a, public, a, p)} \cup {Note(u, personal, a, p) : u \in W}

(* The public note goes to the auction, the personal ones to users: no key *)
(* has two of them.                                                        *)
LEMMA NotesOfOne ==
  ASSUME NEW a \in Auctions, NEW p \in Nat, NEW W \in SUBSET Users, NEW w, W \subseteq {w},
         NEW public \in {"bid", "closed"}, NEW personal \in {"outbid", "won"},
         NEW notes, notes = NotesAbout(a, public, personal, p, W)
  PROVE  /\ notes \in SUBSET [key: Keys, event: Event]
         /\ \A m, n \in notes : m.key = n.key => m = n
         /\ \A n \in notes : /\ n.event.auction = a /\ n.event.price = p
                             /\ n.event.type \in {public, personal}
                             /\ n.key \in Auctions => n.key = a /\ n.event.type = public
         /\ \E e \in EventsFor(notes, a) : e.type = public /\ e.price = p
  <1>1. a \in Keys /\ \A u \in W : u \in Keys /\ u \in Users /\ u \notin Auctions /\ u # a
    BY KeysAssumption DEF Keys
  <1>2. /\ Note(a, public, a, p) \in [key: Keys, event: Event]
        /\ Note(a, public, a, p).key = a
        /\ Note(a, public, a, p).event.type = public
        /\ Note(a, public, a, p).event.auction = a /\ Note(a, public, a, p).event.price = p
    BY <1>1, NoteFields
  <1>3. ASSUME NEW u \in W
        PROVE  /\ Note(u, personal, a, p) \in [key: Keys, event: Event]
               /\ Note(u, personal, a, p).key = u
               /\ Note(u, personal, a, p).event.type = personal
               /\ Note(u, personal, a, p).event.auction = a
               /\ Note(u, personal, a, p).event.price = p
    BY <1>1, NoteFields
  <1>4. \A n \in notes : n = Note(a, public, a, p) \/ \E u \in W : n = Note(u, personal, a, p)
    BY DEF NotesAbout
  <1>5. notes \in SUBSET [key: Keys, event: Event]
    BY <1>2, <1>3, <1>4
  <1>6. ASSUME NEW m \in notes, NEW n \in notes, m.key = n.key PROVE m = n
    BY <1>1, <1>2, <1>3, <1>4, <1>6
  <1>7. ASSUME NEW n \in notes
        PROVE  /\ n.event.auction = a /\ n.event.price = p
               /\ n.event.type \in {public, personal}
               /\ n.key \in Auctions => n.key = a /\ n.event.type = public
    BY <1>1, <1>2, <1>3, <1>4
  <1>8. Note(a, public, a, p).event \in EventsFor(notes, a)
    BY <1>2 DEF EventsFor, NotesAbout
  <1> QED
    BY <1>2, <1>5, <1>6, <1>7, <1>8

(* A bid tells a price that no event has told before.                      *)
LEMMA BidKeeps ==
  ASSUME Inv, NEW u \in Users, NEW a \in Auctions, Bid(u, a)
  PROVE  Inv'
  <1>a. PICK p \in Nat : p = row[a].price + 1
    BY DEF Inv, TypeOK
  <1>b. PICK W, w : W = {row[a].winner} \ {Nobody} /\ w = row[a].winner
    OBVIOUS
  <1>c. PICK notes : notes = BidNotes(a, p)
    OBVIOUS
  <1>1. /\ row \in [Auctions -> [status: Statuses, price: Nat, winner: Users \cup {Nobody}]]
        /\ row[a].price \in Nat /\ W \in SUBSET Users /\ W \subseteq {w}
    BY <1>b DEF Inv, TypeOK
  <1>2. /\ row[a].status = "LIVE" /\ Owes(notes)
        /\ row' = [row EXCEPT ![a] = [row[a] EXCEPT !.price = p, !.winner = u]]
    BY <1>a, <1>c DEF Bid
  <1>3. /\ row' \in [Auctions -> [status: Statuses, price: Nat, winner: Users \cup {Nobody}]]
        /\ row'[a].price = p /\ row'[a].status = "LIVE"
        /\ \A b \in Auctions : b # a => row'[b] = row[b]
    BY <1>1, <1>2
  <1>4. notes = NotesAbout(a, "bid", "outbid", p, W)
    BY <1>b, <1>c DEF BidNotes, NotesAbout
  <1>5. /\ notes \in SUBSET [key: Keys, event: Event]
        /\ \A m, n \in notes : m.key = n.key => m = n
        /\ \A n \in notes : /\ n.event.auction = a /\ n.event.price = p
                            /\ n.event.type \in {"bid", "outbid"}
                            /\ n.key \in Auctions => n.key = a /\ n.event.type = "bid"
        /\ \E e \in EventsFor(notes, a) : e.type = "bid" /\ e.price = p
    BY <1>1, <1>4, NotesOfOne, SMTT(60)
  <1>6. Notes(notes)'
    BY <1>1, <1>3, <1>5 DEF Notes, Past
  <1>7. \A n \in notes : ~Past(n.event)
    BY <1>a, <1>1, <1>5 DEF Past
  <1>8. row'[a].price >= row[a].price /\ row'[a].status \notin Closed
    BY <1>a, <1>1, <1>3 DEF Closed
  <1> QED
    BY <1>2, <1>3, <1>5, <1>6, <1>7, <1>8, CommitKeeps

(* A closing tells of an end that no event has told before.                *)
LEMMA CloseKeeps ==
  ASSUME Inv, NEW a \in Auctions, Close(a)
  PROVE  Inv'
  <1>a. PICK p \in Nat : p = row[a].price
    BY DEF Inv, TypeOK
  <1>b. PICK W, w : W = {row[a].winner} \ {Nobody} /\ w = row[a].winner
    OBVIOUS
  <1>c. PICK notes : notes = CloseNotes(a)
    OBVIOUS
  <1> DEFINE st == IF row[a].winner = Nobody THEN "UNSOLD" ELSE "ENDED"
  <1>1. /\ row \in [Auctions -> [status: Statuses, price: Nat, winner: Users \cup {Nobody}]]
        /\ W \in SUBSET Users /\ W \subseteq {w} /\ st \in Statuses
    BY <1>b DEF Inv, TypeOK, Statuses
  <1>2. /\ row[a].status = "LIVE" /\ Owes(notes) /\ row' = [row EXCEPT ![a].status = st]
    BY <1>c DEF Close
  <1>3. /\ row' \in [Auctions -> [status: Statuses, price: Nat, winner: Users \cup {Nobody}]]
        /\ row'[a].price = p /\ row'[a].status # "LIVE"
        /\ \A b \in Auctions : b # a => row'[b] = row[b]
    BY <1>a, <1>1, <1>2
  <1>4. notes = NotesAbout(a, "closed", "won", p, W)
    BY <1>a, <1>b, <1>c DEF CloseNotes, NotesAbout
  <1>5. /\ notes \in SUBSET [key: Keys, event: Event]
        /\ \A m, n \in notes : m.key = n.key => m = n
        /\ \A n \in notes : /\ n.event.auction = a /\ n.event.price = p
                            /\ n.event.type \in {"closed", "won"}
                            /\ n.key \in Auctions => n.key = a /\ n.event.type = "closed"
        /\ \E e \in EventsFor(notes, a) : e.type = "closed" /\ e.price = p
    BY <1>1, <1>4, NotesOfOne
  <1>6. Notes(notes)'
    BY <1>1, <1>3, <1>5 DEF Notes, Past
  <1>7. \A n \in notes : ~Past(n.event)
    BY <1>2, <1>5 DEF Past
  <1>8. row'[a].price = row[a].price /\ row'[a].price >= row[a].price
    BY <1>a, <1>3
  <1> QED
    BY <1>2, <1>3, <1>5, <1>6, <1>7, <1>8, CommitKeeps

(* A cancel tells nothing and takes nothing back.                          *)
LEMMA CancelKeeps ==
  ASSUME Inv, NEW a \in Auctions, Cancel(a)
  PROVE  Inv'
  <1>1. /\ row' = [row EXCEPT ![a].status = "CANCELLED"]
        /\ UNCHANGED <<committed, channel, stream, got, owed, answer, shown>>
    BY DEF Cancel
  <1>2. /\ TypeOK' /\ row'[a].status = "CANCELLED"
        /\ \A b \in Auctions : row'[b].price = row[b].price /\ row[b].price \in Nat
        /\ \A b \in Auctions : b # a => row'[b] = row[b]
    BY <1>1 DEF Inv, TypeOK, Statuses
  <1>3. \A e \in Event : Past(e) => Past(e)'
    BY <1>2, PastStays DEF Inv
  <1>4. \A h \in committed : Notes(h)'
    <2>1. \A h \in committed : Notes(h) /\ \A n \in h : n.event \in Event
      BY DEF Inv, TypeOK
    <2> QED
      BY <1>3, <2>1 DEF Notes
  <1>5. Apart' /\ ToldOnce' /\ Subjects' /\ ChannelsMatchStreams'
    BY <1>1, ChannelsFrame DEF Inv, Apart, ToldOnce, Listening, PendingFor
  <1>6. ASSUME NEW s \in Screens PROVE Phases(s)' /\ Owed(s)' /\ Views(s)'
    <2>0. Phases(s) /\ Owed(s) /\ Views(s) /\ \A e \in owed[s] : e \in Event
      BY DEF Inv, TypeOK
    <2>1. Phases(s)'
      BY <1>1, <2>0 DEF Phases, Listening
    <2>2. Owed(s)'
      BY <1>1, <1>3, <2>0 DEF Owed, Listening, PendingFor
    <2>3. Views(s)'
      BY <1>1, <1>2, <2>0 DEF Views, At, PendingFor, Closed
    <2> QED
      BY <2>1, <2>2, <2>3
  <1> QED
    BY <1>1, <1>2, <1>4, <1>5, <1>6 DEF Inv

----------------------------------------------------------------------------
(* Publishing.                                                             *)

(* It reaches the streams of the key of each note, and no other stream.    *)
LEMMA ReachedIsMeant ==
  ASSUME Inv, NEW h \in committed, NEW s \in Screens
  PROVE  /\ Listening(s) => Reached(h, s) = EventsFor(h, stream[s].key)
         /\ ~Listening(s) => Reached(h, s) = {}
  <1>1. ~Listening(s) => Reached(h, s) = {}
    BY DEF Reached
  <1>2. ASSUME Listening(s), NEW m \in h
        PROVE  channel[m.key].subject = stream[s].subject <=> m.key = stream[s].key
    <2>1. stream[s].key \in Keys /\ m.key \in Keys
      BY <1>2 DEF Inv, Phases, TypeOK
    <2>2. s \in On(stream[s].key)
      BY <1>2 DEF On
    <2>3. channel[stream[s].key].subject = stream[s].subject /\ channel[stream[s].key] # NoChannel
      BY <2>1, <2>2, MatchesAll DEF Matches, Inv
    <2> QED
      BY <2>1, <2>3 DEF Inv, Subjects
  <1>3. Listening(s) => Reached(h, s) = EventsFor(h, stream[s].key)
    BY <1>2 DEF Reached, EventsFor
  <1> QED
    BY <1>1, <1>3

(* One key gets at most one event of a handler.                            *)
LEMMA OneEvent ==
  ASSUME Inv, NEW h \in committed, NEW k
  PROVE  \/ EventsFor(h, k) = {}
         \/ \E e \in Event : EventsFor(h, k) = {e} /\ e \in PendingFor(k)
                               /\ (k \in Auctions => e.auction = k /\ e.type \in {"bid", "closed"})
  <1>1. Notes(h) /\ h \subseteq [key: Keys, event: Event]
    BY DEF Inv, TypeOK
  <1>2. CASE EventsFor(h, k) # {}
    <2>1. PICK n \in h : n.key = k
      BY <1>2 DEF EventsFor
    <2>2. EventsFor(h, k) = {n.event}
      BY <1>1, <2>1 DEF Notes, EventsFor
    <2>3. n.event \in Event /\ n.event \in PendingFor(k)
      BY <1>1, <2>1 DEF PendingFor
    <2> QED
      BY <1>1, <2>1, <2>2, <2>3 DEF Notes
  <1> QED
    BY <1>2

(* Once a handler has published, exactly its events are no longer pending. *)
LEMMA PublishedIsDone ==
  ASSUME Inv, NEW h \in committed, committed' = committed \ {h}, NEW k
  PROVE  /\ PendingFor(k)' = PendingFor(k) \ EventsFor(h, k)
         /\ EventsFor(h, k) \subseteq PendingFor(k)
  <1>1. EventsFor(h, k) \subseteq PendingFor(k)
    BY DEF EventsFor, PendingFor
  <1>2. ASSUME NEW e \in PendingFor(k)', e \in EventsFor(h, k) PROVE FALSE
    <2>1. PICK g \in committed : g # h /\ \E n \in g : n.key = k /\ n.event = e
      <3>1. PICK n \in UNION (committed \ {h}) : n.key = k /\ n.event = e
        BY <1>2 DEF PendingFor
      <3> QED
        BY <3>1
    <2>2. \E n \in h : n.key = k /\ n.event = e
      BY <1>2 DEF EventsFor
    <2> QED
      BY <2>1, <2>2 DEF Inv, Apart
  <1>3. PendingFor(k)' \subseteq PendingFor(k)
    BY DEF PendingFor
  <1>4. ASSUME NEW e \in PendingFor(k), e \notin EventsFor(h, k) PROVE e \in PendingFor(k)'
    <2>1. PICK g \in committed : \E n \in g : n.key = k /\ n.event = e
      BY DEF PendingFor
    <2>2. g # h
      BY <1>4, <2>1 DEF EventsFor
    <2>3. PICK n \in g : n.key = k /\ n.event = e
      BY <2>1
    <2>4. n \in UNION (committed \ {h})
      BY <2>2
    <2> QED
      BY <2>3, <2>4 DEF PendingFor
  <1> QED
    BY <1>1, <1>2, <1>3, <1>4

(* The stream carries a new event once.                                    *)
LEMMA ReceivedOnce ==
  ASSUME NEW s \in Screens, NEW O, got[s] = {[event |-> e, times |-> 1] : e \in O}
  PROVE  /\ Received(s, {}) = got[s]
         /\ \A e : e \notin O => Received(s, {e}) = {[event |-> x, times |-> 1] : x \in O \cup {e}}
  <1>1. Received(s, {}) = got[s]
    BY DEF Received
  <1>2. ASSUME NEW e, e \notin O
        PROVE  Received(s, {e}) = {[event |-> x, times |-> 1] : x \in O \cup {e}}
    <2>1. \A g \in got[s] : g.event \in O
      OBVIOUS
    <2>2. Told(s, e) = {}
      BY <1>2, <2>1 DEF Told
    <2>3. Times(s, e) = 0
      BY <2>2 DEF Times
    <2>4. {g \in got[s] : g.event \notin {e}} = got[s]
      BY <1>2, <2>1
    <2>5. Received(s, {e}) = got[s] \cup {[event |-> e, times |-> 1]}
      BY <2>3, <2>4 DEF Received
    <2> QED
      BY <2>5
  <1> QED
    BY <1>1, <1>2

(* What a publication does to a screen.                                    *)
LEMMA ScreenAfterPublish ==
  ASSUME Inv, NEW h \in committed, Publish(h), NEW s \in Screens
  PROVE  \/ shown'[s] = shown[s] /\ (stream[s].key \in Auctions =>
                                       EventsFor(h, stream[s].key) = {} \/ ~Listening(s))
         \/ /\ Listening(s) /\ stream[s].key \in Auctions
            /\ \E e \in Event : /\ EventsFor(h, stream[s].key) = {e} /\ Past(e)
                                /\ e.auction = stream[s].key
                                /\ shown'[s] = Merged(shown[s], e.price, e.type = "closed")
  <1>1. shown'[s] = IF stream[s].key \in Auctions THEN Shows(shown[s], Reached(h, s)) ELSE shown[s]
    BY DEF Publish
  <1>2. Shows(shown[s], {}) = shown[s]
    BY DEF Shows
  <1>3. CASE stream[s].key \notin Auctions
    BY <1>1, <1>3
  <1>4. CASE stream[s].key \in Auctions /\ (~Listening(s) \/ EventsFor(h, stream[s].key) = {})
    BY <1>1, <1>2, <1>4, ReachedIsMeant
  <1>5. CASE stream[s].key \in Auctions /\ Listening(s) /\ EventsFor(h, stream[s].key) # {}
    <2>1. PICK e \in Event : /\ EventsFor(h, stream[s].key) = {e}
                             /\ e.auction = stream[s].key
      BY <1>5, OneEvent
    <2>2. Past(e)
      BY <2>1 DEF Inv, Notes, EventsFor
    <2>3. Max({x.price : x \in {e}}) = e.price
      <3>1. {x.price : x \in {e}} = {e.price} /\ e.price \in Nat
        BY EventFields
      <3> QED
        BY <3>1, MaxOfOne
    <2>4. (\E x \in {e} : x.type = "closed") = (e.type = "closed")
      OBVIOUS
    <2>5. Shows(shown[s], {e}) = Merged(shown[s], e.price, e.type = "closed")
      BY <2>3, <2>4 DEF Shows
    <2> QED
      BY <1>1, <1>5, <2>1, <2>2, <2>5, ReachedIsMeant
  <1> QED
    BY <1>3, <1>4, <1>5

(* What a handler publishes moves from what is pending to what the streams *)
(* of its keys have carried, and its screens show it.                      *)
LEMMA PublishKeeps ==
  ASSUME Inv, NEW h \in committed, Publish(h)
  PROVE  Inv'
  <1>1. /\ committed' = committed \ {h}
        /\ got' = [s \in Screens |-> Received(s, Reached(h, s))]
        /\ UNCHANGED <<row, channel, stream, owed, answer>>
    BY DEF Publish
  <1>2. \A k : /\ PendingFor(k)' = PendingFor(k) \ EventsFor(h, k)
               /\ EventsFor(h, k) \subseteq PendingFor(k)
    BY <1>1, PublishedIsDone
  <1>3. ASSUME NEW s \in Screens, Listening(s)
        PROVE  got'[s] = {[event |-> e, times |-> 1] : e \in owed[s] \ PendingFor(stream[s].key)'}
    <2>1. PICK k : k = stream[s].key
      OBVIOUS
    <2>2. PICK O : O = owed[s] \ PendingFor(k)
      OBVIOUS
    <2>3. got[s] = {[event |-> e, times |-> 1] : e \in O}
      BY <1>3, <2>1, <2>2 DEF Inv, ToldOnce
    <2>4. got'[s] = Received(s, EventsFor(h, k))
      BY <1>1, <1>3, <2>1, ReachedIsMeant
    <2>5. owed[s] \ PendingFor(k)' = O \cup EventsFor(h, k)
      BY <1>2, <1>3, <2>1, <2>2 DEF Inv, Owed
    <2>6. got'[s] = {[event |-> e, times |-> 1] : e \in O \cup EventsFor(h, k)}
      <3>1. CASE EventsFor(h, k) = {}
        <4>1. O \cup EventsFor(h, k) = O
          BY <3>1
        <4> QED
          BY <2>3, <2>4, <3>1, <4>1, ReceivedOnce
      <3>2. CASE EventsFor(h, k) # {}
        <4>1. PICK e : EventsFor(h, k) = {e} /\ e \in PendingFor(k)
          BY <3>2, OneEvent
        <4>2. e \notin O
          BY <2>2, <4>1
        <4> QED
          BY <2>3, <2>4, <4>1, <4>2, ReceivedOnce
      <3> QED
        BY <3>1, <3>2
    <2>7. PendingFor(stream[s].key)' = PendingFor(k)'
      BY <1>1, <2>1
    <2> QED
      BY <2>5, <2>6, <2>7
  <1>4. ASSUME NEW s \in Screens, ~Listening(s)
        PROVE  got'[s] = {} /\ shown'[s] = shown[s]
    <2>1. got[s] = {}
      BY <1>4 DEF Inv, Phases
    <2>2. got'[s] = {}
      BY <1>1, <1>4, <2>1, ReachedIsMeant DEF Received
    <2> QED
      BY <1>4, <2>2, ScreenAfterPublish
  <1>5. ToldOnce'
    BY <1>1, <1>3 DEF ToldOnce, Listening
  <1>6. TypeOK'
    <2>1. ASSUME NEW s \in Screens PROVE got'[s] \in SUBSET [event: Event, times: Nat]
      <3>1. owed[s] \in SUBSET Event
        BY DEF Inv, TypeOK
      <3> QED
        BY <1>3, <1>4, <3>1
    <2>2. ASSUME NEW s \in Screens PROVE shown'[s] \in View
      <3>1. shown[s] \in View
        BY DEF Inv, TypeOK
      <3>2. \A e \in Event : Merged(shown[s], e.price, e.type = "closed") \in View
        BY <3>1, MergedView, EventFields
      <3> QED
        BY <3>1, <3>2, ScreenAfterPublish
    <2>3. got' \in [Screens -> SUBSET [event: Event, times: Nat]]
      BY <1>1, <2>1
    <2>4. shown' \in [Screens -> View]
      BY <2>2 DEF Publish
    <2>5. \A g \in committed' : g \subseteq [key: Keys, event: Event]
      BY <1>1 DEF Inv, TypeOK
    <2> QED
      BY <1>1, <2>3, <2>4, <2>5 DEF Inv, TypeOK
  <1>7. /\ \A g \in committed' : Notes(g)'
        /\ Apart' /\ Subjects' /\ ChannelsMatchStreams'
    <2>1. \A g \in committed : Notes(g)'
      BY <1>1 DEF Inv, Notes, Past
    <2> QED
      BY <1>1, <2>1, ChannelsFrame DEF Inv, Apart
  <1>8. ASSUME NEW s \in Screens PROVE Phases(s)' /\ Owed(s)'
    <2>1. Phases(s) /\ Owed(s)
      BY DEF Inv
    <2>2. Phases(s)'
      BY <1>1, <1>4, <2>1 DEF Phases, Listening
    <2>3. PendingFor(stream[s].key)' \subseteq PendingFor(stream[s].key)
      BY <1>1, <1>2
    <2>4. Owed(s)'
      BY <1>1, <2>1, <2>3 DEF Owed, Listening, Past
    <2> QED
      BY <2>2, <2>4
  <1>9. ASSUME NEW s \in Screens PROVE Views(s)'
    <2>0. SUFFICES ASSUME NEW a \in Auctions, a = stream[s].key PROVE Views(s)'
      BY <1>1 DEF Views
    <2>1. /\ Views(s) /\ stream'[s] = stream[s] /\ row'[a] = row[a] /\ answer'[s] = answer[s]
          /\ At(s, "asked")' = At(s, "asked") /\ At(s, "current")' = At(s, "current")
          /\ PendingFor(stream[s].key)' = PendingFor(a) \ EventsFor(h, a)
      BY <1>1, <1>2, <2>0 DEF Inv, At
    <2>2. CASE shown'[s] = shown[s] /\ (EventsFor(h, a) = {} \/ ~Listening(s))
      <3>1. At(s, "asked") \/ At(s, "current") => PendingFor(a)' = PendingFor(a)
        BY <1>2, <2>2 DEF Inv, Phases, At
      <3> QED
        BY <2>0, <2>1, <2>2, <3>1 DEF Views
    <2>3. ASSUME NEW e \in Event, EventsFor(h, a) = {e}, Past(e), e.auction = a,
                 shown'[s] = Merged(shown[s], e.price, e.type = "closed")
          PROVE  Views(s)'
      <3>1. /\ shown[s] \in View /\ shown[s].price \in Nat /\ e.price \in Nat
            /\ answer[s].price \in Nat /\ row[a].price \in Nat
        BY EventFields, ViewFields DEF Inv, TypeOK
      <3>2. /\ shown'[s].price \in {shown[s].price, e.price}
            /\ shown'[s].price >= shown[s].price /\ shown'[s].price >= e.price
            /\ shown'[s].closed <=> shown[s].closed \/ e.type = "closed"
        <4>1. PICK c \in BOOLEAN : c = (e.type = "closed")
          OBVIOUS
        <4>2. shown'[s] = Merged(shown[s], e.price, c)
          BY <2>3, <4>1
        <4>3. /\ shown'[s].price \in {shown[s].price, e.price}
              /\ shown'[s].price >= shown[s].price /\ shown'[s].price >= e.price
              /\ shown'[s].closed <=> shown[s].closed \/ c
          <5>1. PICK v, q : v = shown[s] /\ q = e.price
            OBVIOUS
          <5> QED
            BY <3>1, <4>2, <5>1, MergedView
        <4>4. c <=> e.type = "closed"
          BY <4>1
        <4> QED
          BY <4>3, <4>4
      <3>3. /\ e.price <= row[a].price /\ (e.type = "closed" => row[a].status # "LIVE")
        BY <2>3 DEF Past
      <3>4. /\ shown[s].price <= row[a].price /\ answer[s].price <= row[a].price
            /\ shown[s].closed \/ answer[s].closed => row[a].status # "LIVE"
        BY <2>0, <2>1 DEF Views
      <3>5. /\ shown'[s].price <= row[a].price
            /\ shown'[s].closed \/ answer[s].closed => row[a].status # "LIVE"
        BY <3>1, <3>2, <3>3, <3>4
      <3>6. ASSUME At(s, "asked") \/ At(s, "current")
            PROVE  \/ shown'[s].price = row[a].price
                   \/ At(s, "asked") /\ answer[s].price = row[a].price
                   \/ \E x \in PendingFor(a) \ {e} : x.type = "bid" /\ x.price = row[a].price
        <4>1. CASE shown[s].price = row[a].price
          BY <3>1, <3>2, <3>5, <4>1
        <4>2. ASSUME NEW x \in PendingFor(a), x.type = "bid", x.price = row[a].price
              PROVE  \/ shown'[s].price = row[a].price
                     \/ \E y \in PendingFor(a) \ {e} : y.type = "bid" /\ y.price = row[a].price
          BY <3>1, <3>2, <3>5, <4>2
        <4> QED
          BY <2>0, <2>1, <3>6, <4>1, <4>2 DEF Views
      <3>7. ASSUME At(s, "asked") \/ At(s, "current"), row[a].status \in Closed
            PROVE  \/ shown'[s].closed
                   \/ At(s, "asked") /\ answer[s].closed
                   \/ \E x \in PendingFor(a) \ {e} : x.type = "closed"
        BY <2>0, <2>1, <3>2, <3>7 DEF Views
      <3> QED
        BY <2>0, <2>1, <2>3, <3>4, <3>5, <3>6, <3>7 DEF Views
    <2> QED
      BY <2>0, <2>2, <2>3, ScreenAfterPublish
  <1> QED
    BY <1>5, <1>6, <1>7, <1>8, <1>9 DEF Inv

----------------------------------------------------------------------------
(* Streams.                                                                *)

(* What a stream has carried, of what it is owed.                          *)
Told1(s) ==
  Listening(s) =>
    got[s] = {[event |-> e, times |-> 1] : e \in owed[s] \ PendingFor(stream[s].key)}

(* A step of one screen alone: what holds of it is all there is to show.   *)
LEMMA OneScreen ==
  ASSUME Inv, row' = row, committed' = committed, NEW s \in Screens,
         \A x \in Screens : x # s =>
           /\ stream'[x] = stream[x] /\ got'[x] = got[x] /\ owed'[x] = owed[x]
           /\ answer'[x] = answer[x] /\ shown'[x] = shown[x],
         TypeOK', Subjects', ChannelsMatchStreams',
         Phases(s)', Owed(s)', Views(s)', Told1(s)'
  PROVE  Inv'
  <1>1. \A k : PendingFor(k)' = PendingFor(k)
    BY DEF PendingFor
  <1>2. \A h \in committed : Notes(h)'
    BY DEF Inv, Notes, Past
  <1>3. Apart'
    BY DEF Inv, Apart
  <1>4. ASSUME NEW x \in Screens, x # s
        PROVE  Phases(x)' /\ Owed(x)' /\ Views(x)' /\ Told1(x)'
    <2>1. Phases(x) /\ Owed(x) /\ Views(x) /\ Told1(x)
      BY DEF Inv, ToldOnce, Told1
    <2>2. /\ stream'[x] = stream[x] /\ got'[x] = got[x] /\ owed'[x] = owed[x]
          /\ answer'[x] = answer[x] /\ shown'[x] = shown[x]
      BY <1>4
    <2>3. Phases(x)'
      BY <2>1, <2>2 DEF Phases, Listening
    <2>4. PendingFor(stream[x].key)' = PendingFor(stream[x].key)
      BY <1>1, <2>2
    <2>5. Owed(x)'
      BY <2>1, <2>2, <2>4 DEF Owed, Listening, Past
    <2>6. Told1(x)'
      BY <2>1, <2>2, <2>4 DEF Told1, Listening
    <2>7. Views(x)'
      BY <2>1, <2>2, <2>4 DEF Views, At
    <2> QED
      BY <2>3, <2>5, <2>6, <2>7
  <1>5. \A x \in Screens : Phases(x)' /\ Owed(x)' /\ Views(x)' /\ Told1(x)'
    BY <1>4
  <1>6. ToldOnce'
    BY <1>5 DEF ToldOnce, Told1
  <1> QED
    BY <1>2, <1>3, <1>5, <1>6 DEF Inv

(* A screen that has asked for a stream does not listen yet.               *)
LEMMA ConnectKeeps ==
  ASSUME Inv, NEW s \in Screens, NEW k \in Keys, Connect(s, k)
  PROVE  Inv'
  <1>1. /\ stream[s].phase = "off"
        /\ stream' = [stream EXCEPT ![s] = [phase |-> "checked", key |-> k, subject |-> 0]]
        /\ UNCHANGED <<row, committed, channel, got, owed, answer, shown>>
    BY DEF Connect, At
  <1>2. /\ ~Listening(s) /\ stream[s].subject = 0
        /\ got[s] = {} /\ shown[s] = NoView /\ answer[s] = NoView
    BY <1>1 DEF Inv, Phases, Listening, TypeOK
  <1>3. /\ stream'[s] = [phase |-> "checked", key |-> k, subject |-> 0] /\ ~Listening(s)'
        /\ \A x \in Screens : x # s => stream'[x] = stream[x]
    BY <1>1 DEF Inv, TypeOK, Listening
  <1>4. TypeOK'
    BY <1>1 DEF Inv, TypeOK
  <1>5. Subjects' /\ ChannelsMatchStreams'
    BY <1>1, <1>2, <1>3, ChannelsFrame DEF Inv
  <1>6. Phases(s)' /\ Told1(s)'
    BY <1>1, <1>2, <1>3 DEF Phases, Told1
  <1>7. Owed(s)'
    BY <1>1, <1>3 DEF Inv, Owed, Past
  <1>8. Views(s)'
    <2>1. \A a \in Auctions : row[a].price \in Nat
      BY DEF Inv, TypeOK
    <2> QED
      BY <1>1, <1>2, <1>3, <2>1 DEF Views, At, NoView
  <1> QED
    BY <1>1, <1>3, <1>4, <1>5, <1>6, <1>7, <1>8, OneScreen

(* A new stream is owed what handlers have still to publish, and has got   *)
(* nothing.                                                                *)
LEMMA SubscribeKeeps ==
  ASSUME Inv, NEW s \in Screens, Subscribe(s)
  PROVE  Inv'
  <1>0. PICK k \in Keys : k = stream[s].key
    BY DEF Inv, Phases, Subscribe, At
  <1>c. PICK c \in [subject: Nat, count: Nat] : c = Acquired(k) /\ c.subject > 0
    BY <1>0, SubscribeChannels
  <1>1. /\ stream[s].phase = "checked"
        /\ channel' = [channel EXCEPT ![k] = c]
        /\ stream' = [stream EXCEPT ![s] = [phase |-> "open", key |-> k, subject |-> c.subject]]
        /\ owed' = [owed EXCEPT ![s] = PendingFor(k)]
        /\ UNCHANGED <<row, committed, got, answer, shown>>
    BY <1>0, <1>c DEF Subscribe, At
  <1>2. got[s] = {} /\ shown[s] = NoView /\ answer[s] = NoView
    BY <1>1 DEF Inv, Phases
  <1>3. /\ stream'[s] = [phase |-> "open", key |-> k, subject |-> c.subject] /\ Listening(s)'
        /\ owed'[s] = PendingFor(k)
        /\ \A x \in Screens : x # s => stream'[x] = stream[x] /\ owed'[x] = owed[x]
    BY <1>1, <1>c DEF Inv, TypeOK, Listening
  <1>4. \A e \in PendingFor(k) : e \in Event /\ Past(e)
    BY DEF Inv, TypeOK, Notes, PendingFor
  <1>5. TypeOK'
    <2>1. PendingFor(k) \in SUBSET Event
      BY <1>4
    <2> QED
      BY <1>1, <1>c, <2>1 DEF Inv, TypeOK
  <1>6. PendingFor(k)' = PendingFor(k) /\ PendingFor(stream[s].key)' = PendingFor(k)
    BY <1>1, <1>3 DEF PendingFor
  <1>7. Phases(s)'
    BY <1>3 DEF Phases
  <1>8. Owed(s)'
    BY <1>1, <1>3, <1>4, <1>6 DEF Owed, Past
  <1>9. Told1(s)'
    <2>1. got'[s] = {} /\ owed'[s] \ PendingFor(stream[s].key)' = {}
      BY <1>1, <1>2, <1>3, <1>6
    <2> QED
      BY <2>1 DEF Told1
  <1>10. Views(s)'
    <2>1. \A a \in Auctions : row[a].price \in Nat
      BY DEF Inv, TypeOK
    <2> QED
      BY <1>1, <1>2, <1>3, <2>1 DEF Views, At, NoView
  <1>11. Subjects' /\ ChannelsMatchStreams'
    BY SubscribeChannels
  <1> QED
    BY <1>1, <1>3, <1>5, <1>7, <1>8, <1>9, <1>10, <1>11, OneScreen

(* A stream that ends leaves nothing behind.                               *)
LEMMA DisconnectKeeps ==
  ASSUME Inv, NEW s \in Screens, Disconnect(s)
  PROVE  Inv'
  <1>1. /\ stream' = [stream EXCEPT ![s] = NoStream]
        /\ got' = [got EXCEPT ![s] = {}] /\ owed' = [owed EXCEPT ![s] = {}]
        /\ answer' = [answer EXCEPT ![s] = NoView] /\ shown' = [shown EXCEPT ![s] = NoView]
        /\ UNCHANGED <<row, committed>>
    BY DEF Disconnect
  <1>2. /\ Subjects' /\ ChannelsMatchStreams'
        /\ channel' \in [Keys -> [subject: Nat, count: Nat]]
    BY DisconnectChannels
  <1>3. /\ stream'[s] = NoStream /\ got'[s] = {} /\ owed'[s] = {}
        /\ answer'[s] = NoView /\ shown'[s] = NoView
        /\ \A x \in Screens : x # s =>
             /\ stream'[x] = stream[x] /\ got'[x] = got[x] /\ owed'[x] = owed[x]
             /\ answer'[x] = answer[x] /\ shown'[x] = shown[x]
    BY <1>1 DEF Inv, TypeOK
  <1>4. TypeOK'
    BY <1>1, <1>2 DEF Inv, TypeOK, NoStream, NoView, View
  <1>5. ~Listening(s)' /\ stream'[s].key = Nobody /\ stream'[s].phase = "off"
    BY <1>3 DEF Listening, NoStream
  <1>6. Phases(s)' /\ Owed(s)' /\ Told1(s)'
    BY <1>3, <1>5 DEF Phases, Owed, Told1
  <1>7. Views(s)'
    BY <1>5, KeysAssumption DEF Views
  <1> QED
    BY <1>1, <1>2, <1>3, <1>4, <1>6, <1>7, OneScreen

(* The answer is what the row says, so nothing is missing when it is read. *)
LEMMA AskKeeps ==
  ASSUME Inv, NEW s \in Screens, Ask(s)
  PROVE  Inv'
  <1>0. PICK a \in Auctions : a = stream[s].key
    BY DEF Ask
  <1>1. /\ stream[s].phase = "open" /\ row[a].status \in Public
        /\ stream' = [stream EXCEPT ![s].phase = "asked"]
        /\ answer' = [answer EXCEPT ![s] =
             [price |-> row[a].price, closed |-> row[a].status \in Closed]]
        /\ UNCHANGED <<row, committed, channel, got, owed, shown>>
    BY <1>0 DEF Ask, At, Goes
  <1>2. /\ row[a].price \in Nat /\ Listening(s) /\ Views(s) /\ Owed(s) /\ Told1(s)
        /\ stream[s].subject \in Nat
    BY <1>0, <1>1 DEF Inv, TypeOK, Phases, ToldOnce, Told1
  <1>3. /\ stream'[s].phase = "asked" /\ stream'[s].key = a
        /\ stream'[s].subject = stream[s].subject
        /\ answer'[s] = [price |-> row[a].price, closed |-> row[a].status \in Closed]
        /\ \A x \in Screens : x # s => stream'[x] = stream[x] /\ answer'[x] = answer[x]
    BY <1>0, <1>1 DEF Inv, TypeOK
  <1>4. TypeOK'
    <2>1. [price |-> row[a].price, closed |-> row[a].status \in Closed] \in View
      BY <1>2 DEF View
    <2> QED
      BY <1>1, <2>1 DEF Inv, TypeOK
  <1>5. Subjects' /\ ChannelsMatchStreams'
    <2>1. \A x \in Screens : stream'[x].subject = stream[x].subject /\ stream'[x].key = stream[x].key
      BY <1>0, <1>3
    <2> QED
      BY <1>1, <2>1, ChannelsFrame DEF Inv
  <1>6. PendingFor(stream[s].key)' = PendingFor(stream[s].key)
    BY <1>0, <1>1, <1>3 DEF PendingFor
  <1>7. Phases(s)'
    BY <1>2, <1>3 DEF Phases, Listening, Keys
  <1>8. Owed(s)' /\ Told1(s)'
    BY <1>0, <1>1, <1>2, <1>3, <1>6 DEF Owed, Told1, Listening, Past
  <1>9. Views(s)'
    <2>1. answer'[s].price = row[a].price /\ (answer'[s].closed <=> row[a].status \in Closed)
      <3>1. PICK c : c = (row[a].status \in Closed)
        OBVIOUS
      <3>2. answer'[s] = [price |-> row[a].price, closed |-> c]
        BY <1>3, <3>1
      <3>3. answer'[s].price = row[a].price /\ answer'[s].closed = c
        BY <3>2
      <3> QED
        BY <3>1, <3>3
    <2>2. row[a].status \in Closed => row[a].status # "LIVE"
      BY DEF Closed
    <2>3. shown[s].price <= row[a].price /\ (shown[s].closed => row[a].status # "LIVE")
      BY <1>0, <1>2 DEF Views
    <2> QED
      BY <1>1, <1>2, <1>3, <2>1, <2>2, <2>3 DEF Views, At
  <1> QED
    BY <1>1, <1>3, <1>4, <1>5, <1>7, <1>8, <1>9, OneScreen

(* What the answer lacks is on its way, or the screen has it already.      *)
LEMMA AnswerKeeps ==
  ASSUME Inv, NEW s \in Screens, Answer(s)
  PROVE  Inv'
  <1>0. PICK a \in Auctions : a = stream[s].key
    BY DEF Inv, Phases, Answer, At
  <1>1. /\ stream[s].phase = "asked"
        /\ stream' = [stream EXCEPT ![s].phase = "current"]
        /\ shown' = [shown EXCEPT ![s] = Merged(shown[s], answer[s].price, answer[s].closed)]
        /\ answer' = [answer EXCEPT ![s] = NoView]
        /\ UNCHANGED <<row, committed, channel, got, owed>>
    BY DEF Answer, At, Goes
  <1>2. /\ row[a].price \in Nat /\ Listening(s) /\ Views(s) /\ Owed(s) /\ Told1(s)
        /\ stream[s].subject \in Nat /\ shown[s] \in View /\ answer[s] \in View
        /\ shown[s].price \in Nat /\ answer[s].price \in Nat /\ answer[s].closed \in BOOLEAN
    BY <1>0, <1>1, ViewFields DEF Inv, TypeOK, Phases, ToldOnce, Told1
  <1>3. /\ stream'[s].phase = "current" /\ stream'[s].key = a
        /\ stream'[s].subject = stream[s].subject /\ answer'[s] = NoView
        /\ shown'[s] = Merged(shown[s], answer[s].price, answer[s].closed)
        /\ \A x \in Screens : x # s =>
             stream'[x] = stream[x] /\ answer'[x] = answer[x] /\ shown'[x] = shown[x]
    BY <1>0, <1>1 DEF Inv, TypeOK
  <1>m. /\ shown'[s] \in View /\ shown'[s].price \in {shown[s].price, answer[s].price}
        /\ shown'[s].price >= shown[s].price /\ shown'[s].price >= answer[s].price
        /\ shown'[s].closed <=> shown[s].closed \/ answer[s].closed
    <2>1. PICK v \in View, p \in Nat, c \in BOOLEAN :
            v = shown[s] /\ p = answer[s].price /\ c = answer[s].closed
      BY <1>2
    <2>2. shown'[s] = Merged(v, p, c)
      BY <1>3, <2>1
    <2> QED
      BY <2>1, <2>2, MergedView
  <1>4. TypeOK'
    <2>1. shown' \in [Screens -> View]
      BY <1>1, <1>3, <1>m DEF Inv, TypeOK
    <2> QED
      BY <1>1, <2>1 DEF Inv, TypeOK, NoView, View
  <1>5. Subjects' /\ ChannelsMatchStreams'
    <2>1. \A x \in Screens : stream'[x].subject = stream[x].subject /\ stream'[x].key = stream[x].key
      BY <1>0, <1>3
    <2> QED
      BY <1>1, <2>1, ChannelsFrame DEF Inv
  <1>6. PendingFor(stream[s].key)' = PendingFor(stream[s].key)
    BY <1>0, <1>1, <1>3 DEF PendingFor
  <1>7. Phases(s)'
    BY <1>2, <1>3 DEF Phases, Listening, Keys
  <1>8. Owed(s)' /\ Told1(s)'
    BY <1>0, <1>1, <1>2, <1>3, <1>6 DEF Owed, Told1, Listening, Past
  <1>9. Views(s)'
    <2>1. /\ shown[s].price <= row[a].price /\ answer[s].price <= row[a].price
          /\ shown[s].closed \/ answer[s].closed => row[a].status # "LIVE"
          /\ \/ shown[s].price = row[a].price
             \/ answer[s].price = row[a].price
             \/ \E e \in PendingFor(a) : e.type = "bid" /\ e.price = row[a].price
          /\ row[a].status \in Closed =>
               \/ shown[s].closed
               \/ answer[s].closed
               \/ \E e \in PendingFor(a) : e.type = "closed"
      BY <1>0, <1>1, <1>2 DEF Views, At
    <2>2. /\ shown'[s].price <= row[a].price
          /\ shown'[s].closed => row[a].status # "LIVE"
          /\ \/ shown'[s].price = row[a].price
             \/ \E e \in PendingFor(a) : e.type = "bid" /\ e.price = row[a].price
          /\ row[a].status \in Closed =>
               \/ shown'[s].closed
               \/ \E e \in PendingFor(a) : e.type = "closed"
      <3>1. shown'[s].price = row[a].price
              \/ \E e \in PendingFor(a) : e.type = "bid" /\ e.price = row[a].price
        <4>1. CASE shown[s].price = row[a].price \/ answer[s].price = row[a].price
          BY <1>2, <1>m, <2>1, <4>1
        <4> QED
          BY <2>1, <4>1
      <3> QED
        BY <1>m, <2>1, <3>1
    <2>3. answer'[s].price <= row[a].price /\ ~answer'[s].closed
      BY <1>2, <1>3 DEF NoView
    <2>4. row' = row /\ PendingFor(a)' = PendingFor(a) /\ stream'[s].key = a
      BY <1>0, <1>1, <1>3, <1>6
    <2> QED
      BY <2>2, <2>3, <2>4 DEF Views, At
  <1> QED
    BY <1>1, <1>3, <1>4, <1>5, <1>7, <1>8, <1>9, OneScreen

(* Nobody has a stream and nothing is to be told: at the start, and after  *)
(* the process has died.                                                   *)
Quiet ==
  /\ committed = {}
  /\ channel = [k \in Keys |-> NoChannel]
  /\ stream = [s \in Screens |-> NoStream]
  /\ got = [s \in Screens |-> {}] /\ owed = [s \in Screens |-> {}]
  /\ answer = [s \in Screens |-> NoView] /\ shown = [s \in Screens |-> NoView]

RowsTyped == row \in [Auctions -> [status: Statuses, price: Nat, winner: Users \cup {Nobody}]]

LEMMA QuietIsInv ==
  RowsTyped /\ Quiet => Inv
  <1> SUFFICES ASSUME RowsTyped, Quiet PROVE Inv
    OBVIOUS
  <1>1. TypeOK
    BY DEF RowsTyped, Quiet, TypeOK, NoChannel, NoStream, NoView, View
  <1>2. \A s \in Screens : /\ ~Listening(s) /\ stream[s].key = Nobody /\ stream[s].phase = "off"
                           /\ got[s] = {} /\ owed[s] = {} /\ shown[s] = NoView /\ answer[s] = NoView
    BY DEF Quiet, Listening, NoStream
  <1>3. Subjects
    BY DEF Quiet, Subjects
  <1>4. ChannelsMatchStreams
    <2>1. ASSUME NEW k \in Keys PROVE Matches(k)
      <3>1. On(k) = {}
        BY <1>2 DEF On
      <3>2. Cardinality(On(k)) = 0
        BY <3>1, FS_EmptySet
      <3>3. channel[k] = NoChannel /\ channel[k].count = 0
        BY DEF Quiet, NoChannel
      <3> QED
        BY <3>1, <3>2, <3>3 DEF Matches
    <2> QED
      BY <2>1, MatchesAll
  <1>5. (\A h \in committed : Notes(h)) /\ Apart
    BY DEF Quiet, Apart
  <1>6. ToldOnce /\ \A s \in Screens : Phases(s) /\ Owed(s) /\ Views(s)
    BY <1>2, KeysAssumption DEF ToldOnce, Phases, Owed, Views
  <1> QED
    BY <1>1, <1>3, <1>4, <1>5, <1>6 DEF Inv

(* After a crash all is quiet, and the rows are what they were.            *)
LEMMA CrashKeeps ==
  ASSUME Inv, Crash
  PROVE  Inv'
  <1>1. RowsTyped'
    BY DEF Inv, TypeOK, RowsTyped, Crash
  <1>2. Quiet'
    BY DEF Quiet, Crash
  <1>3. (RowsTyped /\ Quiet => Inv)'
    BY QuietIsInv, PTL
  <1> QED
    BY <1>1, <1>2, <1>3

LEMMA StutterKeeps ==
  ASSUME Inv, UNCHANGED vars
  PROVE  Inv'
  <1>1. UNCHANGED <<row, committed, channel, stream, got, owed, answer, shown>>
    BY DEF vars
  <1>2. TypeOK' /\ Apart' /\ ToldOnce'
    BY <1>1 DEF Inv, TypeOK, Apart, ToldOnce, Listening, PendingFor
  <1>3. Subjects' /\ ChannelsMatchStreams'
    BY <1>1, ChannelsFrame DEF Inv
  <1>4. \A h \in committed' : Notes(h)'
    BY <1>1 DEF Inv, Notes, Past
  <1>5. \A k : PendingFor(k)' = PendingFor(k)
    BY <1>1 DEF PendingFor
  <1>6. ASSUME NEW s \in Screens PROVE Phases(s)' /\ Owed(s)' /\ Views(s)'
    <2>1. Phases(s) /\ Owed(s) /\ Views(s)
      BY DEF Inv
    <2>2. PendingFor(stream[s].key)' = PendingFor(stream[s].key)
      BY <1>1, <1>5
    <2>3. Phases(s)'
      BY <1>1, <2>1 DEF Phases, Listening
    <2>4. Owed(s)'
      BY <1>1, <2>1, <2>2 DEF Owed, Listening, Past
    <2>5. Views(s)'
      BY <1>1, <2>1, <2>2 DEF Views, At
    <2> QED
      BY <2>3, <2>4, <2>5
  <1> QED
    BY <1>2, <1>3, <1>4, <1>6 DEF Inv

----------------------------------------------------------------------------
(* The theorems.                                                           *)

(* The invariant holds at the start and is kept by every step.             *)
LEMMA InvInit ==
  Init => Inv
  <1> SUFFICES ASSUME Init PROVE Inv
    OBVIOUS
  <1>1. RowsTyped
    BY DEF Init, RowsTyped, Statuses
  <1>2. Quiet
    BY DEF Init, Quiet
  <1> QED
    BY <1>1, <1>2, QuietIsInv

LEMMA InvNext ==
  Inv /\ [Next]_vars => Inv'
  <1> SUFFICES ASSUME Inv, [Next]_vars PROVE Inv'
    OBVIOUS
  <1>1. ASSUME NEW u \in Users, NEW a \in Auctions, Bid(u, a) PROVE Inv'
    BY <1>1, BidKeeps
  <1>2. ASSUME NEW a \in Auctions, Close(a) PROVE Inv'
    BY <1>2, CloseKeeps
  <1>3. ASSUME NEW a \in Auctions, Cancel(a) PROVE Inv'
    BY <1>3, CancelKeeps
  <1>4. ASSUME NEW h \in committed, Publish(h) PROVE Inv'
    BY <1>4, PublishKeeps
  <1>5. ASSUME NEW s \in Screens, NEW k \in Keys, Connect(s, k) PROVE Inv'
    BY <1>5, ConnectKeeps
  <1>6. ASSUME NEW s \in Screens, Subscribe(s) PROVE Inv'
    BY <1>6, SubscribeKeeps
  <1>7. ASSUME NEW s \in Screens, Disconnect(s) PROVE Inv'
    BY <1>7, DisconnectKeeps
  <1>8. ASSUME NEW s \in Screens, Ask(s) PROVE Inv'
    BY <1>8, AskKeeps
  <1>9. ASSUME NEW s \in Screens, Answer(s) PROVE Inv'
    BY <1>9, AnswerKeeps
  <1>10. CASE Crash
    BY <1>10, CrashKeeps
  <1>11. CASE UNCHANGED vars
    BY <1>11, StutterKeeps
  <1> QED
    BY <1>1, <1>2, <1>3, <1>4, <1>5, <1>6, <1>7, <1>8, <1>9, <1>10, <1>11 DEF Next

(* Whatever is committed and not yet published belongs to one handler, is  *)
(* owed to every stream of its key, and is true of the committed row; no   *)
(* screen is ahead of the row, and what it lacks is on its way.            *)
THEOREM StreamsAgree == Spec => []Inv
  <1> QED
    BY InvInit, InvNext, PTL DEF Spec

(* RealtimeService's maps, the streams and the screens keep their shapes.  *)
THEOREM RealtimeTypes == Spec => []TypeOK
  <1>1. Inv => TypeOK
    BY DEF Inv
  <1> QED
    BY <1>1, StreamsAgree, PTL

(* acquire and release: whoever listens, listens to the Subject that the   *)
(* map has under his key, and a channel is there as long as its streams    *)
(* are, whatever the order in which streams open, end and crash.           *)
THEOREM ChannelsAgree == Spec => []ChannelsMatchStreams
  <1>1. Inv => ChannelsMatchStreams
    BY DEF Inv
  <1> QED
    BY <1>1, StreamsAgree, PTL

(* No event is lost, doubled or told to the wrong stream, in whatever      *)
(* order handlers publish what they have committed.                        *)
THEOREM EachIsToldOnce == Spec => []ToldOnce
  <1>1. Inv => ToldOnce
    BY DEF Inv
  <1> QED
    BY <1>1, StreamsAgree, PTL

(* With its answer in and nothing left to publish, a screen shows the      *)
(* committed price and whether the auction is over.                        *)
THEOREM ScreensCatchUp == Spec => []ScreensAreCurrent
  <1>1. Inv => ScreensAreCurrent
    <2> SUFFICES ASSUME Inv, NEW s \in Screens, At(s, "current"),
                        PendingFor(stream[s].key) = {},
                        row[stream[s].key].status # "CANCELLED"
                 PROVE  shown[s] = [price |-> row[stream[s].key].price,
                                    closed |-> row[stream[s].key].status \in Closed]
      BY DEF ScreensAreCurrent
    <2>1. PICK a \in Auctions : a = stream[s].key
      BY DEF Inv, Phases, At
    <2>2. /\ row[a].status \in Statuses /\ row[a].status # "CANCELLED"
          /\ shown[s] \in View /\ PendingFor(a) = {} /\ ~At(s, "asked")
      BY <2>1 DEF Inv, TypeOK, At
    <2>3. /\ shown[s].price = row[a].price
          /\ shown[s].closed => row[a].status # "LIVE"
          /\ row[a].status \in Closed => shown[s].closed
      BY <2>1, <2>2 DEF Inv, Views
    <2>4. shown[s].closed <=> row[a].status \in Closed
      BY <2>2, <2>3 DEF Statuses, Closed
    <2>5. shown[s].closed = (row[a].status \in Closed)
      BY <2>2, <2>4, ViewFields
    <2> QED
      BY <2>1, <2>2, <2>3, <2>5 DEF View
  <1> QED
    BY <1>1, StreamsAgree, PTL
=============================================================================
