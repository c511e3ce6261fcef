---------------------------- MODULE EyreIds_proofs ----------------------------
(***************************************************************************)
(* Proofs about the request ids of EyreChannel.  The client knows what an  *)
(* event is about only by a number that starts over on every channel; here *)
(* it is proved that the number names what the client takes it to name:    *)
(* an answer settles the poke it answers, a fact reaches the handler whose *)
(* watch produced it, the registry holds what the callers were told, and   *)
(* the ship watches what the registry holds.                               *)
(***************************************************************************)
EXTENDS EyreChannel_proofs

(* The events of a channel, in no order. *)
EventsOf(c) == {c.log[n] : n \in 1 .. Len(c.log)}

(* The request is under way, registered, watched or mentioned in an event. *)
Around(r) ==
    \/ r \in wire \cup taken \cup outPokes \cup outSubs \cup replaced \cup Pending(puts)
    \/ \E u \in Uid : r \in chan[u].watches \/ \E v \in EventsOf(chan[u]) : v.req = r

Numbered(r) == Around(r) /\ r.kind # "ack"

(* Ids are handed out in order, channel by channel... *)
IdsInOrder ==
    \A r \in Request : Numbered(r) => /\ r.id > 0 /\ r.uid <= uid
                                      /\ r.uid = uid => r.id <= lastEventId

(* ...each to one request... *)
OneRequestPerId ==
    \A r, q \in Request : Numbered(r) /\ Numbered(q) /\ r.uid = q.uid /\ r.id = q.id => r = q

(* ...the client registers nothing of an older channel... *)
OnCurrent ==
    /\ \A e \in outPokes : e.uid = uid /\ e.kind = "poke"
    /\ \A e \in outSubs : e.uid = uid
    /\ \A e \in replaced : e.uid < uid

(* ...and a channel hears of its own requests only. *)
AtHome ==
    \A u \in Uid : /\ \A w \in chan[u].watches : w.uid = u
                   /\ \A v \in EventsOf(chan[u]) :
                         /\ v.req.uid = u
                         /\ v.kind \in {"ack", "nack"} => v.req.kind = "poke"

NumberInv == StatusInv /\ IdsInOrder /\ OneRequestPerId /\ OnCurrent /\ AtHome

-----------------------------------------------------------------------------
(* What a step on the same channel does to the requests: `new' are sent.   *)

(* An ack or nack that is logged is what the ship now did with the poke. *)
Answering(v) ==
    \/ v.kind = "refused"
    \/ /\ v.kind \in {"ack", "nack"} /\ v.req.kind = "poke"
       /\ v.req.arg \in Poke => answer'[v.req.arg] = v.kind

(* Of a watch the ship logs facts, and its end: no earlier than its PUT    *)
(* has settled, unless kicks may be early.                                 *)
Watching(v) == v.kind = "fact" \/ (v.kind = "kick" /\ (EarlyKicks \/ v.req \notin Pending(puts)))

Ships(u) ==
    /\ \A w \in chan'[u].watches : w \in chan[u].watches \/ (w \in wire /\ w.uid = u)
    /\ \A v \in EventsOf(chan'[u]) :
          \/ v \in EventsOf(chan[u])
          \/ v.req \in wire /\ v.req.uid = u /\ Answering(v)
          \/ v.req \in chan[u].watches /\ Watching(v)

Sends(new) ==
    /\ uid' = uid
    /\ wire' \subseteq wire \cup new
    /\ taken' \subseteq taken \cup wire
    /\ outPokes' \subseteq outPokes \cup {r \in new : r.kind = "poke"}
    /\ outSubs' \subseteq outSubs \cup {r \in new : r.kind = "watch"}
    /\ replaced' \subseteq replaced
    /\ Pending(puts') \subseteq Pending(puts) \cup new
    /\ \A u \in Uid : Ships(u)

(* The requests sent are acks, or take the next ids. *)
NextIds(new) ==
    /\ lastEventId' \in Nat /\ lastEventId' >= lastEventId
    /\ \A r \in new : \/ r.kind = "ack"
                      \/ r.uid = uid /\ r.id = lastEventId + 1 /\ r.id <= lastEventId'
    /\ \A r, q \in new : r.kind # "ack" /\ q.kind # "ack" => r = q
    /\ \A r \in new : r.kind = "poke" /\ r.arg \in Poke => poke[r.arg] = "idle" /\ poke'[r.arg] # "idle"

LEMMA PendingStep == Pending(puts)' = Pending(puts')
BY DEF Pending

LEMMA AroundAfter ==
    ASSUME NEW new, Sends(new), NEW r, Around(r)'
    PROVE  Around(r) \/ r \in new
<1>1. CASE \E u \in Uid : r \in chan'[u].watches \/ \E v \in EventsOf(chan'[u]) : v.req = r
  <2>1. PICK u \in Uid : r \in chan'[u].watches \/ \E v \in EventsOf(chan'[u]) : v.req = r
    BY <1>1
  <2>2. Ships(u)
    BY DEF Sends
  <2>3. r \in wire \/ r \in chan[u].watches \/ \E v \in EventsOf(chan[u]) : v.req = r
    BY <2>1, <2>2 DEF Ships
  <2> QED
    BY <2>3 DEF Around
<1>2. CASE r \in wire' \cup taken' \cup outPokes' \cup outSubs' \cup replaced' \cup Pending(puts')
  BY <1>2 DEF Sends, Around
<1>3. \/ r \in wire' \cup taken' \cup outPokes' \cup outSubs' \cup replaced' \cup Pending(puts')
      \/ \E u \in Uid : r \in chan'[u].watches \/ \E v \in EventsOf(chan'[u]) : v.req = r
  <2>1. EventsOf(chan[0])' = EventsOf(chan'[0]) /\ \A u : EventsOf(chan[u])' = EventsOf(chan'[u])
    BY DEF EventsOf
  <2> QED
    BY <2>1, PendingStep DEF Around
<1> QED
  BY <1>1, <1>2, <1>3

LEMMA NumbersKept ==
    ASSUME NumberInv, TypeOK', NEW new, Sends(new), NextIds(new)
    PROVE  (IdsInOrder /\ OneRequestPerId /\ OnCurrent /\ AtHome)'
<1>1. uid \in Nat /\ uid' = uid /\ lastEventId \in Nat /\ lastEventId' \in Nat
      /\ lastEventId' >= lastEventId
  BY DEF NumberInv, StatusInv, TypeOK, ClientTypeOK, Uid, Sends, NextIds
<1>2. ASSUME NEW r \in Request, Numbered(r)'
      PROVE  \/ Numbered(r)
             \/ r \in new /\ r.uid = uid /\ r.id = lastEventId + 1 /\ r.id <= lastEventId' /\ r.kind # "ack"
  BY <1>2, AroundAfter DEF Numbered, NextIds
<1>3. \A r \in Request : r.id \in Nat /\ r.uid \in Nat
  BY DEF Request, Uid
<1>4. IdsInOrder'
  BY <1>1, <1>2, <1>3 DEF NumberInv, IdsInOrder
<1>5. OneRequestPerId'
  <2> SUFFICES ASSUME NEW r \in Request, NEW q \in Request, Numbered(r)', Numbered(q)',
                      r.uid = q.uid, r.id = q.id
               PROVE  r = q
    BY DEF OneRequestPerId
  <2>1. CASE Numbered(r) /\ Numbered(q)
    BY <2>1 DEF NumberInv, OneRequestPerId
  <2>2. CASE ~Numbered(r) /\ ~Numbered(q)
    BY <1>2, <2>2 DEF NextIds
  <2>3. \A x \in Request : Numbered(x) /\ x.uid = uid => x.id <= lastEventId
    BY DEF NumberInv, IdsInOrder
  <2>4. Numbered(r) <=> Numbered(q)
    BY <1>1, <1>2, <1>3, <2>3
  <2> QED
    BY <2>1, <2>2, <2>4
<1>6. OnCurrent'
  <2>1. \A r \in new : r.kind \in {"poke", "watch"} => r.uid = uid
    BY DEF NextIds
  <2> QED
    BY <1>1, <2>1 DEF NumberInv, OnCurrent, Sends
<1>7. AtHome'
  <2> SUFFICES ASSUME NEW u \in Uid
               PROVE  /\ \A w \in chan'[u].watches : w.uid = u
                      /\ \A v \in EventsOf(chan'[u]) :
                            /\ v.req.uid = u
                            /\ v.kind \in {"ack", "nack"} => v.req.kind = "poke"
    BY DEF AtHome, EventsOf
  <2>1. Ships(u)
    BY DEF Sends
  <2>2. /\ \A w \in chan[u].watches : w.uid = u
        /\ \A v \in EventsOf(chan[u]) : /\ v.req.uid = u
                                        /\ v.kind \in {"ack", "nack"} => v.req.kind = "poke"
    BY DEF NumberInv, AtHome
  <2> QED
    BY <2>1, <2>2 DEF Ships, Answering, Watching
<1> QED
  BY <1>4, <1>5, <1>6, <1>7

-----------------------------------------------------------------------------
(* Events, as the ship's steps log them. *)

LEMMA LoggedEvents ==
    ASSUME NEW c \in Channel, NEW kind, NEW r, [kind |-> kind, req |-> r] \in Event
    PROVE  EventsOf(Logged(c, kind, r)) = EventsOf(c) \cup {[kind |-> kind, req |-> r]}
<1> DEFINE e == [kind |-> kind, req |-> r]
<1>1. c.log \in Seq(Event) /\ e \in Event
  BY ChannelFields
<1>2. Logged(c, kind, r).log = Append(c.log, e)
  BY DEF Logged, Channel
<1>3. /\ Len(Append(c.log, e)) = Len(c.log) + 1 /\ Len(c.log) \in Nat
      /\ Append(c.log, e)[Len(c.log) + 1] = e
      /\ \A n \in 1 .. Len(c.log) : Append(c.log, e)[n] = c.log[n]
  BY <1>1
<1> HIDE DEF e
<1>4. EventsOf(Logged(c, kind, r)) = {Append(c.log, e)[n] : n \in 1 .. Len(c.log) + 1}
  BY <1>2, <1>3 DEF EventsOf
<1>5. \A n : n \in 1 .. Len(c.log) + 1 <=> n \in 1 .. Len(c.log) \/ n = Len(c.log) + 1
  BY <1>3
<1>6. ASSUME NEW v \in EventsOf(Logged(c, kind, r)) PROVE v \in EventsOf(c) \cup {e}
  <2>1. PICK n \in 1 .. Len(c.log) + 1 : v = Append(c.log, e)[n]
    BY <1>4, <1>6
  <2>2. CASE n \in 1 .. Len(c.log)
    BY <1>3, <2>1, <2>2 DEF EventsOf
  <2> QED
    BY <1>3, <1>5, <2>1, <2>2
<1>7. ASSUME NEW v \in EventsOf(c) PROVE v \in EventsOf(Logged(c, kind, r))
  <2>1. PICK n \in 1 .. Len(c.log) : v = c.log[n]
    BY <1>7 DEF EventsOf
  <2> QED
    BY <1>3, <1>4, <1>5, <2>1
<1>8. e \in EventsOf(Logged(c, kind, r))
  BY <1>3, <1>4, <1>5
<1>9. EventsOf(Logged(c, kind, r)) = EventsOf(c) \cup {e}
  BY <1>6, <1>7, <1>8
<1> QED
  BY <1>9 DEF e

LEMMA OpenedEvents ==
    ASSUME NEW u
    PROVE  /\ EventsOf(Opened(u)) \subseteq EventsOf(chan[u])
           /\ Opened(u).watches \subseteq chan[u].watches
<1>1. CASE chan[u].state = "live"
  BY <1>1 DEF Opened
<1>2. CASE chan[u].state # "live"
  <2>1. Opened(u) = FreshChannel
    BY <1>2 DEF Opened
  <2>2. FreshChannel.log = <<>> /\ FreshChannel.watches = {} /\ 1 .. Len(<<>>) = {}
    BY DEF FreshChannel
  <2> QED
    BY <2>1, <2>2 DEF EventsOf
<1> QED
  BY <1>1, <1>2

LEMMA HeardEventOf ==
    ASSUME TypeOK, Due
    PROVE  HeardEvent \in EventsOf(chan[stream.uid]) /\ HeardEvent \in Event
<1>1. stream.next \in Nat /\ Len(chan[stream.uid].log) \in Nat
  BY StreamFields, ChannelFields
<1>2. stream.next + 1 \in 1 .. Len(chan[stream.uid].log)
  BY <1>1 DEF Due
<1> QED
  BY <1>2, HeardEventTyped DEF HeardEvent, EventsOf

LEMMA ShipsStill == ASSUME UNCHANGED chan PROVE \A u \in Uid : Ships(u)
BY DEF Ships

LEMMA ShipsChanged ==
    ASSUME TypeOK, NEW u \in Uid, NEW c, chan' = [chan EXCEPT ![u] = c],
           \A w \in c.watches : w \in chan[u].watches \/ (w \in wire /\ w.uid = u),
           \A v \in EventsOf(c) :
              \/ v \in EventsOf(chan[u])
              \/ v.req \in wire /\ v.req.uid = u /\ Answering(v)
              \/ v.req \in chan[u].watches /\ Watching(v)
    PROVE  \A x \in Uid : Ships(x)
<1>1. chan'[u] = c /\ \A x \in Uid \ {u} : chan'[x] = chan[x]
  BY DEF TypeOK, ShipTypeOK
<1>2. Ships(u)
  BY <1>1 DEF Ships
<1>3. \A x \in Uid \ {u} : Ships(x)
  BY <1>1 DEF Ships
<1> QED
  BY <1>2, <1>3

LEMMA SettleDrops ==
    ASSUME NEW done, NEW failed, Settle(done, failed)
    PROVE  outSubs' \subseteq outSubs /\ replaced' \subseteq replaced
BY DEF Settle, SubscribesEnd, Dropped

LEMMA PendingOf ==
    ASSUME NEW ps, NEW qs, NEW reqs
    PROVE  /\ Pending(Sent(reqs)) = reqs
           /\ Pending(ps \cup qs) = Pending(ps) \cup Pending(qs)
           /\ Pending(ps \ qs) \subseteq Pending(ps)
<1>1. \A r : r \in Pending(Sent(reqs)) <=> r \in reqs
  <2>1. \A r : [req |-> r, phase |-> "sent"].req = r
    OBVIOUS
  <2> QED
    BY <2>1 DEF Pending, Sent
<1>2. Pending(Sent(reqs)) = reqs
  BY <1>1
<1>3. Pending(ps \cup qs) = Pending(ps) \cup Pending(qs)
  BY DEF Pending
<1>4. Pending(ps \ qs) \subseteq Pending(ps)
  BY DEF Pending
<1> QED
  BY <1>2, <1>3, <1>4

-----------------------------------------------------------------------------
(* Every step on the same channel sends requests under the next ids. *)

LEMMA NothingSent ==
    ASSUME TypeOK, UNCHANGED <<uid, lastEventId>>, wire' \subseteq wire, taken' \subseteq taken \cup wire,
           outPokes' \subseteq outPokes, outSubs' \subseteq outSubs, replaced' \subseteq replaced,
           Pending(puts') \subseteq Pending(puts), \A u \in Uid : Ships(u)
    PROVE  Sends({}) /\ NextIds({})
BY DEF Sends, NextIds, TypeOK, ClientTypeOK

LEMMA CallersSend == ASSUME TypeOK, Callers PROVE \E new : Sends(new) /\ NextIds(new)
<1>1. ASSUME NEW r, r.uid = uid, r.id = lastEventId + 1, r.kind \in {"poke", "watch", "unsub"},
             UNCHANGED <<uid, taken, chan>>,
             wire' = wire \cup {r}, puts' = puts \cup Sent({r}), lastEventId' = lastEventId + 1,
             outPokes' \subseteq outPokes \cup {x \in {r} : x.kind = "poke"},
             outSubs' \subseteq outSubs \cup {x \in {r} : x.kind = "watch"},
             replaced' \subseteq replaced,
             r.kind = "poke" => poke[r.arg] = "idle" /\ poke'[r.arg] # "idle"
      PROVE  \E new : Sends(new) /\ NextIds(new)
  <2>1. Pending(puts') = Pending(puts) \cup {r}
    <3>1. Pending(puts \cup Sent({r})) = Pending(puts) \cup Pending(Sent({r})) /\ Pending(Sent({r})) = {r}
      BY PendingOf
    <3> QED
      BY <1>1, <3>1
  <2>2. Sends({r})
    BY <1>1, <2>1, ShipsStill DEF Sends
  <2>3. NextIds({r})
    BY <1>1 DEF NextIds, TypeOK, ClientTypeOK
  <2> QED
    BY <2>2, <2>3
<1>2. ASSUME NEW p \in Poke, DoPoke(p) PROVE \E new : Sends(new) /\ NextIds(new)
  <2> DEFINE r == NewRequest("poke", p)
  <2>1. r.uid = uid /\ r.id = lastEventId + 1 /\ r.kind = "poke" /\ r.arg = p
    BY DEF NewRequest
  <2>2. poke[p] = "idle" /\ poke'[p] # "idle"
    BY <1>2 DEF DoPoke, TypeOK
  <2> HIDE DEF r
  <2> QED
    BY <1>1, <1>2, <2>1, <2>2 DEF DoPoke, SubsUnchanged, r
<1>3. ASSUME NEW s \in Sub, Subscribe(s) PROVE \E new : Sends(new) /\ NextIds(new)
  <2> DEFINE r == NewRequest("watch", s)
  <2>1. r.uid = uid /\ r.id = lastEventId + 1 /\ r.kind = "watch"
    BY DEF NewRequest
  <2> HIDE DEF r
  <2> QED
    BY <1>1, <1>3, <2>1 DEF Subscribe, r
<1>4. ASSUME NEW s \in Sub, Unsubscribe(s) PROVE \E new : Sends(new) /\ NextIds(new)
  <2> DEFINE r == NewRequest("unsub", held[s])
  <2>1. r.uid = uid /\ r.id = lastEventId + 1 /\ r.kind = "unsub"
    BY DEF NewRequest
  <2> HIDE DEF r
  <2> QED
    BY <1>1, <1>4, <2>1 DEF Unsubscribe, Without, r
<1> QED
  BY <1>2, <1>3, <1>4 DEF Callers

(* A request that arrives leaves the wire, and is all that its channel hears of. *)
LEMMA AcceptSends ==
    ASSUME TypeOK, NEW r \in wire, NEW c, Accept(r, c),
           c.watches \subseteq Opened(r.uid).watches \cup {r},
           \A v \in EventsOf(c) : \/ v \in EventsOf(Opened(r.uid))
                                  \/ v.req = r /\ Answering(v)
    PROVE  Sends({}) /\ NextIds({})
<1>1. r.uid \in Uid
  BY DEF TypeOK, ShipTypeOK, Request
<1>2. /\ chan' = [chan EXCEPT ![r.uid] = c] /\ wire' \subseteq wire /\ taken' \subseteq taken \cup wire
      /\ UNCHANGED <<client, callers>>
  BY DEF Accept
<1>3. \A u \in Uid : Ships(u)
  <2>1. /\ Opened(r.uid).watches \subseteq chan[r.uid].watches
        /\ EventsOf(Opened(r.uid)) \subseteq EventsOf(chan[r.uid])
    BY OpenedEvents
  <2>2. \A w \in c.watches : w \in chan[r.uid].watches \/ (w \in wire /\ w.uid = r.uid)
    BY <2>1
  <2>3. \A v \in EventsOf(c) : \/ v \in EventsOf(chan[r.uid])
                               \/ v.req \in wire /\ v.req.uid = r.uid /\ Answering(v)
    BY <2>1
  <2> QED
    BY <1>1, <1>2, <2>2, <2>3, ShipsChanged
<1> QED
  BY <1>2, <1>3, NothingSent DEF client, callers

LEMMA ArrivalsSend == ASSUME TypeOK, Arrivals PROVE Sends({}) /\ NextIds({})
<1> SUFFICES ASSUME NEW r \in wire,
                    ArrivePoke(r) \/ ArriveWatch(r) \/ ArriveUnsub(r) \/ ArriveAck(r)
             PROVE  Sends({}) /\ NextIds({})
  BY DEF Arrivals
<1> DEFINE o == Opened(r.uid)
<1>1. r \in Request /\ r.uid \in Uid /\ o \in Channel
  BY OpenedTyped DEF TypeOK, ShipTypeOK, Request
<1> HIDE DEF o
<1>2. CASE ArrivePoke(r)
  <2>1. PICK word \in {"ack", "nack"} :
           /\ answer' = [p \in Poke |-> IF p = r.arg THEN word ELSE answer[p]]
           /\ Accept(r, Logged(o, word, r))
    BY <1>2 DEF ArrivePoke, o
  <2>2. [kind |-> word, req |-> r] \in Event /\ r.kind = "poke"
    BY <1>1, <1>2 DEF Event, ArrivePoke
  <2>3. /\ Logged(o, word, r).watches = o.watches
        /\ EventsOf(Logged(o, word, r)) = EventsOf(o) \cup {[kind |-> word, req |-> r]}
    BY <1>1, <2>2, LoggedIs, LoggedEvents
  <2>4. Answering([kind |-> word, req |-> r])
    BY <2>1, <2>2 DEF Answering
  <2> QED
    BY <2>1, <2>3, <2>4, AcceptSends DEF o
<1>3. CASE ArriveWatch(r)
  <2>1. r \in Watch /\ [kind |-> "refused", req |-> r] \in Event
    BY <1>1, <1>3 DEF ArriveWatch, Request, Watch, Event
  <2>2. CASE Accept(r, [o EXCEPT !.watches = o.watches \cup {r}])
    <3> DEFINE c == [o EXCEPT !.watches = o.watches \cup {r}]
    <3>1. o.watches \cup {r} \in SUBSET Watch
      BY <1>1, <2>1, ChannelFields
    <3>2. c.log = o.log /\ c.watches = o.watches \cup {r} /\ Accept(r, c)
      BY <1>1, <2>2, <3>1, WatchesTyped
    <3> HIDE DEF c
    <3> QED
      BY <3>2, AcceptSends DEF EventsOf, o
  <2>3. CASE Accept(r, Logged(o, "refused", r))
    <3>1. /\ Logged(o, "refused", r).watches = o.watches
          /\ EventsOf(Logged(o, "refused", r)) = EventsOf(o) \cup {[kind |-> "refused", req |-> r]}
      BY <1>1, <2>1, LoggedIs, LoggedEvents
    <3>2. Answering([kind |-> "refused", req |-> r])
      BY DEF Answering
    <3> QED
      BY <2>3, <3>1, <3>2, AcceptSends DEF o
  <2> QED
    BY <1>3, <2>2, <2>3 DEF ArriveWatch, o
<1>4. CASE ArriveUnsub(r)
  <2> DEFINE left == {w \in o.watches : w.id # r.arg}
             c    == [o EXCEPT !.watches = left]
  <2>1. left \in SUBSET Watch /\ left \subseteq o.watches
    BY <1>1, ChannelFields
  <2>2. Accept(r, c)
    BY <1>4 DEF ArriveUnsub, o
  <2>3. c.log = o.log /\ c.watches = left
    BY <1>1, <2>1, WatchesTyped
  <2> HIDE DEF c, left
  <2> QED
    BY <2>1, <2>2, <2>3, AcceptSends DEF EventsOf, o
<1>5. CASE ArriveAck(r)
  <2> DEFINE c == Flushed(o, r.arg)
  <2>1. r.arg \in Nat /\ Accept(r, c)
    BY <1>1, <1>5 DEF ArriveAck, Request, o
  <2>2. c.log = o.log /\ c.watches = o.watches
    BY <1>1, <2>1, FlushedIs
  <2> HIDE DEF c
  <2> QED
    BY <2>1, <2>2, AcceptSends DEF EventsOf, o
<1> QED
  BY <1>2, <1>3, <1>4, <1>5

LEMMA AgentsSend == ASSUME TypeOK, AtHome, Agents PROVE Sends({}) /\ NextIds({})
<1>1. uid \in Uid /\ chan[uid] \in Channel /\ chan \in [Uid -> Channel]
  BY DEF TypeOK, ClientTypeOK, ShipTypeOK
<1>2. ASSUME UNCHANGED <<client, callers, wire, taken>>, NEW c, chan' = [chan EXCEPT ![uid] = c],
             c.watches \subseteq chan[uid].watches,
             \A v \in EventsOf(c) : \/ v \in EventsOf(chan[uid])
                                    \/ v.req \in chan[uid].watches /\ Watching(v)
      PROVE  Sends({}) /\ NextIds({})
  <2>1. \A u \in Uid : Ships(u)
    <3>1. \A w \in c.watches : w \in chan[uid].watches \/ (w \in wire /\ w.uid = uid)
      BY <1>2
    <3> QED
      BY <1>1, <1>2, <3>1, ShipsChanged
  <2> QED
    BY <1>2, <2>1, NothingSent DEF client, callers
<1>3. CASE Reap(uid)
  <2> DEFINE c == [chan[uid] EXCEPT !.state = "reaped", !.watches = {}]
  <2>1. c.log = chan[uid].log /\ c.watches = {}
    BY <1>1 DEF Channel
  <2>2. chan' = [chan EXCEPT ![uid] = c] /\ UNCHANGED <<client, callers, wire, taken>>
    BY <1>1, <1>3 DEF Reap
  <2> HIDE DEF c
  <2>3. c.watches \subseteq chan[uid].watches /\ EventsOf(c) = EventsOf(chan[uid])
    BY <2>1 DEF EventsOf
  <2> QED
    BY <1>2, <2>2, <2>3
<1>4. ASSUME NEW w \in chan[uid].watches, Emit(w) PROVE Sends({}) /\ NextIds({})
  <2>1. w \in Watch /\ w.uid = uid /\ [kind |-> "fact", req |-> w] \in Event
    BY <1>1, ChannelFields DEF AtHome, Event
  <2> DEFINE c == Logged(chan[uid], "fact", w)
  <2>2. c.watches = chan[uid].watches /\ EventsOf(c) = EventsOf(chan[uid]) \cup {[kind |-> "fact", req |-> w]}
    BY <1>1, <2>1, LoggedIs, LoggedEvents
  <2>3. chan' = [chan EXCEPT ![uid] = c] /\ UNCHANGED <<client, callers, wire, taken>>
    BY <1>4, <2>1 DEF Emit
  <2> HIDE DEF c
  <2>4. \A v \in EventsOf(c) : \/ v \in EventsOf(chan[uid])
                               \/ v.req \in chan[uid].watches /\ Watching(v)
    BY <1>4, <2>2 DEF Watching
  <2>5. c.watches \subseteq chan[uid].watches
    BY <2>2
  <2> QED
    BY <1>2, <2>3, <2>4, <2>5
<1>5. ASSUME NEW w \in chan[uid].watches, Kick(w) PROVE Sends({}) /\ NextIds({})
  <2>1. w \in Watch /\ w.uid = uid /\ [kind |-> "kick", req |-> w] \in Event
    BY <1>1, ChannelFields DEF AtHome, Event
  <2> DEFINE d == Unwatched(chan[uid], w)
             c == Logged(d, "kick", w)
  <2>2. d \in Channel /\ d.log = chan[uid].log /\ d.watches = chan[uid].watches \ {w}
    <3>1. chan[uid].watches \ {w} \in SUBSET Watch
      BY <1>1, ChannelFields
    <3> QED
      BY <1>1, <3>1, WatchesTyped DEF Unwatched
  <2>3. chan' = [chan EXCEPT ![uid] = c] /\ UNCHANGED <<client, callers, wire, taken>>
    BY <1>5, <2>1 DEF Kick
  <2> HIDE DEF d
  <2>4. c.watches = d.watches /\ EventsOf(c) = EventsOf(d) \cup {[kind |-> "kick", req |-> w]}
    BY <2>1, <2>2, LoggedIs, LoggedEvents
  <2>5. EventsOf(d) = EventsOf(chan[uid])
    BY <2>2 DEF EventsOf
  <2> HIDE DEF c
  <2>6. \A v \in EventsOf(c) : \/ v \in EventsOf(chan[uid])
                               \/ v.req \in chan[uid].watches /\ Watching(v)
    <3>1. EarlyKicks \/ w \notin Pending(puts)
      BY <1>5 DEF Kick
    <3> QED
      BY <1>5, <2>4, <2>5, <3>1 DEF Watching
  <2>7. c.watches \subseteq chan[uid].watches
    BY <2>2, <2>4
  <2> QED
    BY <1>2, <2>3, <2>6, <2>7
<1> QED
  BY <1>3, <1>4, <1>5 DEF Agents

LEMMA ResponsesSend == ASSUME TypeOK, Responses PROVE \E new : Sends(new) /\ NextIds(new)
<1> SUFFICES ASSUME NEW x \in puts,
                    PutOk(x) \/ PutOpensStream(x) \/ PutSaysHi(x) \/ PutFail(x)
             PROVE  \E new : Sends(new) /\ NextIds(new)
  BY DEF Responses
<1>1. CASE PutOk(x) \/ PutFail(x)
  <2>1. /\ \E done, failed : Settle(done, failed)
        /\ \E gone : puts' = puts \ gone
        /\ UNCHANGED <<uid, lastEventId, wire, chan>> /\ taken' \subseteq taken
        /\ outPokes' \subseteq outPokes
    BY <1>1 DEF PutOk, PutFail
  <2>2. outSubs' \subseteq outSubs /\ replaced' \subseteq replaced
    BY <2>1, SettleDrops
  <2>3. Pending(puts') \subseteq Pending(puts)
    BY <2>1, PendingOf
  <2> QED
    BY <2>1, <2>2, <2>3, ShipsStill, NothingSent
<1>2. CASE PutOpensStream(x)
  <2>1. /\ puts' = (puts \ {x}) \cup {[x EXCEPT !.phase = "opening"]}
        /\ UNCHANGED <<uid, lastEventId, wire, chan, outPokes, outSubs, replaced>>
        /\ taken' \subseteq taken
    BY <1>2 DEF PutOpensStream, SubsUnchanged
  <2>2. [x EXCEPT !.phase = "opening"].req = x.req
    BY DEF TypeOK, ClientTypeOK, Put
  <2>3. Pending(puts') \subseteq Pending(puts)
    BY <2>1, <2>2 DEF Pending
  <2> QED
    BY <2>1, <2>3, ShipsStill, NothingSent
<1>3. CASE PutSaysHi(x)
  <2> DEFINE hi == NewRequest("poke", Hi)
             y  == [x EXCEPT !.phase = "hello"]
  <2>1. /\ puts' = (puts \ {x}) \cup {y} \cup Sent({hi})
        /\ wire' = wire \cup {hi} /\ outPokes' = outPokes \cup {hi}
        /\ lastEventId = 0 /\ lastEventId' = 1
        /\ UNCHANGED <<uid, chan, outSubs, replaced>> /\ taken' \subseteq taken
    BY <1>3 DEF PutSaysHi, SubsUnchanged
  <2>2. y.req = x.req
    BY DEF TypeOK, ClientTypeOK, Put
  <2>3. hi.uid = uid /\ hi.id = lastEventId + 1 /\ hi.kind = "poke" /\ hi.arg \notin Poke
    BY ConstantsAssumption DEF NewRequest
  <2> HIDE DEF hi, y
  <2>4. Pending(puts') \subseteq Pending(puts) \cup {hi}
    <3>1. Pending((puts \ {x}) \cup {y}) \subseteq Pending(puts)
      BY <2>2 DEF Pending
    <3>2. Pending(Sent({hi})) = {hi}
      BY PendingOf
    <3>3. Pending(puts') = Pending((puts \ {x}) \cup {y}) \cup Pending(Sent({hi}))
      BY <2>1, PendingOf
    <3> QED
      BY <3>1, <3>2, <3>3
  <2>5. Sends({hi})
    BY <2>1, <2>3, <2>4, ShipsStill DEF Sends
  <2>6. NextIds({hi})
    BY <2>1, <2>3 DEF NextIds
  <2> QED
    BY <2>5, <2>6
<1> QED
  BY <1>1, <1>2, <1>3

LEMMA TimeoutsSend == ASSUME TypeOK, Timeouts PROVE Sends({}) /\ NextIds({})
<1> SUFFICES ASSUME NEW e \in outPokes, PokeTimeout(e) PROVE Sends({}) /\ NextIds({})
  BY DEF Timeouts
<1>1. outSubs' \subseteq outSubs /\ replaced' \subseteq replaced
  BY SettleDrops DEF PokeTimeout
<1>2. Pending(puts') \subseteq Pending(puts)
  BY PendingOf DEF PokeTimeout
<1> QED
  BY <1>1, <1>2, ShipsStill, NothingSent DEF PokeTimeout, ship

(* What the event source does, short of a new channel. *)
LEMMA ConnectionSends ==
    ASSUME TypeOK, StreamOpen \/ StreamBreak \/ StreamTear
    PROVE  Sends({}) /\ NextIds({})
<1>1. CASE StreamOpen
  <2> DEFINE c == Flushed(chan[stream.uid], stream.resume)
  <2>1. /\ stream.uid \in Uid /\ chan' = [chan EXCEPT ![stream.uid] = c]
        /\ \E done : puts' = puts \ done
        /\ \E done, failed : Settle(done, failed)
        /\ UNCHANGED <<uid, lastEventId, outPokes, wire, taken>>
    BY <1>1, StreamFields DEF StreamOpen
  <2>2. c.log = chan[stream.uid].log /\ c.watches = chan[stream.uid].watches
    BY StreamFields, FlushedIs
  <2> HIDE DEF c
  <2>3. EventsOf(c) = EventsOf(chan[stream.uid])
    BY <2>2 DEF EventsOf
  <2>4. \A u \in Uid : Ships(u)
    BY <2>1, <2>2, <2>3, ShipsChanged
  <2>5. outSubs' \subseteq outSubs /\ replaced' \subseteq replaced /\ Pending(puts') \subseteq Pending(puts)
    BY <2>1, SettleDrops, PendingOf
  <2> QED
    BY <2>1, <2>4, <2>5, NothingSent
<1>2. CASE StreamBreak \/ StreamTear
  <2>1. UNCHANGED <<uid, lastEventId, outPokes, outSubs, replaced, puts, ship>>
    BY <1>2 DEF StreamBreak, StreamTear, Reconnect, SubsUnchanged
  <2> QED
    BY <2>1, ShipsStill, NothingSent DEF ship
<1> QED
  BY <1>1, <1>2

(* The entry that an event's request id names is the request it is about. *)
LEMMA ListenerIsMine ==
    ASSUME NumberInv, Due, HeardEvent.req.kind # "ack"
    PROVE  Listener \subseteq {HeardEvent.req}
<1> SUFFICES ASSUME NEW e \in Listener PROVE e = HeardEvent.req
  OBVIOUS
<1>1. e \in outSubs /\ e.id = HeardEvent.req.id
  BY DEF Listener
<1>2. HeardEvent \in EventsOf(chan[stream.uid]) /\ HeardEvent \in Event /\ stream.uid \in Uid
  BY HeardEventOf, StreamFields DEF NumberInv, StatusInv
<1>3. stream.uid = uid
  BY DEF Due, NumberInv, StatusInv, Current
<1>4. HeardEvent.req.uid = uid /\ e.uid = uid
  BY <1>1, <1>2, <1>3 DEF NumberInv, AtHome, OnCurrent
<1>5. e \in Request /\ HeardEvent.req \in Request /\ e.kind = "watch"
  BY <1>1, <1>2, WatchIsRequest DEF NumberInv, StatusInv, TypeOK, CallersTypeOK, Event, Watch
<1>6. Numbered(e) /\ Numbered(HeardEvent.req)
  BY <1>1, <1>2, <1>5 DEF Numbered, Around
<1> QED
  BY <1>1, <1>4, <1>5, <1>6 DEF NumberInv, OneRequestPerId

LEMMA PokeAnsweredIsMine ==
    ASSUME NumberInv, Due, HeardEvent.kind \in {"ack", "nack"}
    PROVE  {e \in outPokes : e.id = HeardEvent.req.id} \subseteq {HeardEvent.req}
<1> SUFFICES ASSUME NEW e \in outPokes, e.id = HeardEvent.req.id PROVE e = HeardEvent.req
  OBVIOUS
<1>2. HeardEvent \in EventsOf(chan[stream.uid]) /\ HeardEvent \in Event /\ stream.uid \in Uid
  BY HeardEventOf, StreamFields DEF NumberInv, StatusInv
<1>3. stream.uid = uid
  BY DEF Due, NumberInv, StatusInv, Current
<1>4. HeardEvent.req.uid = uid /\ HeardEvent.req.kind = "poke" /\ e.uid = uid /\ e.kind = "poke"
  BY <1>2, <1>3 DEF NumberInv, AtHome, OnCurrent
<1>5. e \in Request /\ HeardEvent.req \in Request
  BY <1>2, WatchIsRequest DEF NumberInv, StatusInv, TypeOK, ClientTypeOK, Event
<1>6. Numbered(e) /\ Numbered(HeardEvent.req)
  BY <1>2, <1>4 DEF Numbered, Around
<1> QED
  BY <1>4, <1>5, <1>6 DEF NumberInv, OneRequestPerId

(* The subscriber that is resubscribed is one. *)
LEMMA AgainIsOne ==
    ASSUME NumberInv, Due, HeardEvent.kind = "kick"
    PROVE  /\ \A r, q \in Again : r = q
           /\ \A r \in Again : /\ r.uid = uid /\ r.kind = "watch" /\ r.id = lastEventId + 1
                               /\ lastEventId + Cardinality(Again) >= lastEventId + 1
<1>1. HeardEvent.req \in Watch
  BY HeardEventTyped DEF NumberInv, StatusInv, Event
<1>2. Listener \subseteq {HeardEvent.req}
  BY <1>1, ListenerIsMine DEF Watch
<1>3. \A r, q \in Again : r = q
  BY <1>2 DEF Again
<1>4. ASSUME NEW r \in Again PROVE Cardinality(Again) = 1
  <2>1. Again = {r}
    BY <1>3
  <2> QED
    BY <2>1, FS_Singleton
<1>5. \A r \in Again : r.uid = uid /\ r.kind = "watch" /\ r.id = lastEventId + 1
  BY DEF Again, NewRequest
<1>6. lastEventId \in Nat
  BY DEF NumberInv, StatusInv, TypeOK, ClientTypeOK
<1> QED
  BY <1>3, <1>4, <1>5, <1>6

LEMMA ReceiveSent ==
    ASSUME TypeOK, NEW sent, NEW gone, Receive(sent, gone),
           outPokes' \subseteq outPokes, replaced' \subseteq replaced,
           outSubs' \subseteq outSubs \cup {r \in sent : r.kind = "watch"}
    PROVE  /\ Sends(AckDue(stream.next) \cup sent)
           /\ \A r \in AckDue(stream.next) : r.kind = "ack"
<1> DEFINE new == AckDue(stream.next) \cup sent
<1>1. /\ puts' = (puts \ gone) \cup Sent(new) /\ wire' = wire \cup new
      /\ UNCHANGED <<uid, taken, chan>>
  BY DEF Receive
<1>2. Pending(puts') \subseteq Pending(puts) \cup new
  <2>1. Pending(Sent(new)) = new /\ Pending(puts \ gone) \subseteq Pending(puts)
    BY PendingOf
  <2>2. Pending(puts') = Pending(puts \ gone) \cup Pending(Sent(new))
    BY <1>1, PendingOf
  <2> QED
    BY <2>1, <2>2
<1>3. sent \subseteq new
  OBVIOUS
<1> HIDE DEF new
<1>4. Sends(new)
  BY <1>1, <1>2, <1>3, ShipsStill DEF Sends
<1>5. \A r \in AckDue(stream.next) : r.kind = "ack"
  BY DEF AckDue
<1> QED
  BY <1>4, <1>5 DEF new

LEMMA HearingSends == ASSUME NumberInv, Hearing PROVE \E new : Sends(new) /\ NextIds(new)
<1>1. TypeOK /\ lastEventId \in Nat
  BY DEF NumberInv, StatusInv, TypeOK, ClientTypeOK
<1>2. CASE HearOld
  BY <1>1, <1>2, ShipsStill, NothingSent DEF HearOld, SubsUnchanged, ship
<1>3. CASE HearPokeAnswer \/ HearRefused \/ HearFact
  <2>1. /\ \E gone : Receive({}, gone)
        /\ lastEventId' = lastEventId
        /\ outPokes' \subseteq outPokes
    BY <1>3 DEF HearPokeAnswer, HearRefused, HearFact
  <2>2. outSubs' \subseteq outSubs /\ replaced' \subseteq replaced
    BY <1>3, SettleDrops DEF HearPokeAnswer, HearRefused, HearFact, SubsUnchanged
  <2> DEFINE acks == AckDue(stream.next) \cup {}
  <2>3. Sends(acks) /\ \A r \in AckDue(stream.next) : r.kind = "ack"
    BY <1>1, <2>1, <2>2, ReceiveSent
  <2>4. NextIds(acks)
    BY <1>1, <2>1, <2>3 DEF NextIds
  <2> HIDE DEF acks
  <2> QED
    BY <2>3, <2>4
<1>4. CASE HearKick
  <2>1. /\ Receive(Again, {}) /\ Due /\ HeardEvent.kind = "kick"
        /\ outSubs' = (outSubs \ Listener) \cup Again
        /\ lastEventId' = lastEventId + Cardinality(Again)
        /\ UNCHANGED <<outPokes, replaced>>
    BY <1>4 DEF HearKick
  <2>2. /\ \A r, q \in Again : r = q
        /\ \A r \in Again : /\ r.uid = uid /\ r.kind = "watch" /\ r.id = lastEventId + 1
                            /\ lastEventId + Cardinality(Again) >= lastEventId + 1
    BY <2>1, AgainIsOne
  <2> DEFINE new == AckDue(stream.next) \cup Again
  <2>3. outSubs' \subseteq outSubs \cup {r \in Again : r.kind = "watch"}
    BY <2>1, <2>2
  <2>4. Sends(new) /\ \A r \in AckDue(stream.next) : r.kind = "ack"
    BY <1>1, <2>1, <2>3, ReceiveSent
  <2>5. Cardinality(Again) \in Nat
    BY <1>1, AgainTyped
  <2>6. NextIds(new)
    BY <1>1, <2>1, <2>2, <2>4, <2>5 DEF NextIds
  <2> HIDE DEF new
  <2> QED
    BY <2>4, <2>6
<1> QED
  BY <1>2, <1>3, <1>4 DEF Hearing

-----------------------------------------------------------------------------
(* The new channel: the kept subscriptions are replayed under ids 1, 2, ... *)

KeptSubs  == {e \in outSubs : e.arg \in Resub}
Rank(e)   == Cardinality({f \in KeptSubs : f.id <= e.id})
Replay(e) == [uid |-> uid + 1, id |-> Rank(e), kind |-> "watch", arg |-> e.arg]
Replays   == {Replay(e) : e \in KeptSubs}

ReplayFibers == [s \in Sub |-> fibers[s] \cup {Replay(e) : e \in KeptSubs \cap fibers[s]}]
ReplayRepl   == replaced \cup (KeptSubs \cap Pending(puts))
ResetCall    == [s \in Sub |-> IF \E e \in outSubs \ KeptSubs : e.arg = s THEN "over" ELSE caller[s]]

LEMMA ResetIs ==
    ASSUME TypeOK, SeamlessReset
    PROVE  /\ uid' = uid + 1 /\ lastEventId' = Cardinality(Replays)
           /\ lastHeard' = HeardOnReset /\ outPokes' = {}
           /\ puts' = {x \in puts : x.phase = "sent"} \cup Sent(Replays)
           /\ wire' = wire \cup Replays
           /\ Tell(outPokes, "reaped")
           /\ SubscribesEnd(Replays, ReplayFibers, ReplayRepl, ResetCall, Aborted, Aborted)
           /\ UNCHANGED <<taken, chan, answer, handed, budget>>
BY DEF SeamlessReset, KeptSubs, Rank, Replay, Replays, ReplayFibers, ReplayRepl, ResetCall

LEMMA ReplayFields ==
    ASSUME NEW e
    PROVE  /\ Replay(e).uid = uid + 1 /\ Replay(e).id = Rank(e)
           /\ Replay(e).kind = "watch" /\ Replay(e).arg = e.arg
BY DEF Replay

LEMMA RankOrders ==
    ASSUME NumberInv
    PROVE  /\ \A e \in KeptSubs : Rank(e) \in Nat /\ Rank(e) > 0 /\ Rank(e) <= Cardinality(KeptSubs)
           /\ \A e, g \in KeptSubs : Rank(e) = Rank(g) => e = g
           /\ IsFiniteSet(KeptSubs)
<1> DEFINE upTo(e) == {f \in KeptSubs : f.id <= e.id}
<1>1. IsFiniteSet(KeptSubs) /\ KeptSubs \subseteq Watch /\ KeptSubs \subseteq outSubs
  BY FS_Subset DEF NumberInv, StatusInv, TypeOK, CallersTypeOK, KeptSubs
<1>2. \A e \in KeptSubs : e \in Request /\ e.id \in Nat /\ e.uid = uid /\ Numbered(e)
  BY <1>1, WatchIsRequest DEF NumberInv, OnCurrent, Watch, Numbered, Around
<1>3. ASSUME NEW e \in KeptSubs
      PROVE  /\ IsFiniteSet(upTo(e)) /\ Rank(e) = Cardinality(upTo(e)) /\ e \in upTo(e)
             /\ Rank(e) \in Nat /\ Rank(e) > 0 /\ Rank(e) <= Cardinality(KeptSubs)
  <2>1. upTo(e) \in SUBSET KeptSubs /\ e \in upTo(e) /\ Rank(e) = Cardinality(upTo(e))
    BY <1>2 DEF Rank
  <2> HIDE DEF upTo
  <2>2. IsFiniteSet(upTo(e)) /\ Cardinality(upTo(e)) <= Cardinality(KeptSubs)
    BY <1>1, <2>1, FS_Subset
  <2>3. Cardinality(upTo(e)) \in Nat /\ Cardinality(upTo(e)) # 0
    BY <2>1, <2>2, FS_CardinalityType, FS_EmptySet
  <2> QED
    BY <2>1, <2>2, <2>3
<1>4. ASSUME NEW e \in KeptSubs, NEW g \in KeptSubs, e.id < g.id PROVE Rank(e) # Rank(g)
  <2>1. upTo(e) \in SUBSET upTo(g) /\ g \notin upTo(e) /\ g \in upTo(g)
    BY <1>2, <1>4
  <2> HIDE DEF upTo
  <2>2. Cardinality(upTo(e)) # Cardinality(upTo(g))
    BY <1>3, <2>1, FS_Subset
  <2> QED
    BY <1>3, <2>2
<1>5. ASSUME NEW e \in KeptSubs, NEW g \in KeptSubs, Rank(e) = Rank(g) PROVE e = g
  <2>1. e.id = g.id
    BY <1>2, <1>4, <1>5
  <2> QED
    BY <1>2, <2>1 DEF NumberInv, OneRequestPerId
<1> QED
  BY <1>1, <1>3, <1>5

LEMMA ReplaysNumbered ==
    ASSUME NumberInv, NEW r \in Replays
    PROVE  /\ r.uid = uid + 1 /\ r.kind = "watch"
           /\ r.id \in Nat /\ r.id > 0 /\ r.id <= Cardinality(Replays)
           /\ \A q \in Replays : r.id = q.id => r = q
<1> DEFINE f == [e \in KeptSubs |-> Replay(e)]
<1>1. f \in Bijection(KeptSubs, Replays)
  <2>1. f \in Surjection(KeptSubs, Replays)
    BY DEF Surjection, Replays
  <2>2. \A e, g \in KeptSubs : Replay(e) = Replay(g) => e = g
    BY RankOrders, ReplayFields
  <2>3. f \in Injection(KeptSubs, Replays)
    BY <2>2 DEF Injection, IsInjective, Replays
  <2> QED
    BY <2>1, <2>3 DEF Bijection
<1> HIDE DEF f
<1>2. Cardinality(Replays) = Cardinality(KeptSubs)
  BY <1>1, RankOrders, FS_Bijection DEF ExistsBijection
<1>3. PICK e \in KeptSubs : r = Replay(e)
  BY DEF Replays
<1>4. \A q \in Replays : r.id = q.id => r = q
  BY <1>3, RankOrders, ReplayFields DEF Replays
<1> QED
  BY <1>2, <1>3, <1>4, RankOrders, ReplayFields

LEMMA AroundReset ==
    ASSUME TypeOK, SeamlessReset, NEW r, Around(r)'
    PROVE  Around(r) \/ r \in Replays
<1>1. /\ wire' = wire \cup Replays /\ UNCHANGED <<taken, chan>> /\ outPokes' = {}
      /\ outSubs' \subseteq Replays /\ replaced' \subseteq replaced \cup outSubs
      /\ puts' = {x \in puts : x.phase = "sent"} \cup Sent(Replays)
  BY ResetIs DEF SubscribesEnd, Dropped, ReplayRepl, KeptSubs
<1>2. Pending(puts') \subseteq Pending(puts) \cup Replays
  <2>1. Pending({x \in puts : x.phase = "sent"}) \subseteq Pending(puts)
    BY DEF Pending
  <2>2. Pending(puts') = Pending({x \in puts : x.phase = "sent"}) \cup Pending(Sent(Replays))
    BY <1>1, PendingOf
  <2>3. Pending(Sent(Replays)) = Replays
    BY PendingOf
  <2> QED
    BY <2>1, <2>2, <2>3
<1>3. \/ r \in wire' \cup taken' \cup outPokes' \cup outSubs' \cup replaced' \cup Pending(puts')
      \/ \E u \in Uid : r \in chan[u].watches \/ \E v \in EventsOf(chan[u]) : v.req = r
  BY <1>1, PendingStep DEF Around, EventsOf
<1> QED
  BY <1>1, <1>2, <1>3 DEF Around

LEMMA NumbersReset ==
    ASSUME NumberInv, TypeOK', SeamlessReset
    PROVE  (IdsInOrder /\ OneRequestPerId /\ OnCurrent /\ AtHome)'
<1>1. TypeOK /\ uid \in Nat
  BY DEF NumberInv, StatusInv, TypeOK, ClientTypeOK, Uid
<1>2. /\ uid' = uid + 1 /\ lastEventId' = Cardinality(Replays) /\ outPokes' = {} /\ chan' = chan
      /\ outSubs' \subseteq Replays /\ replaced' \subseteq replaced \cup outSubs
  BY <1>1, ResetIs DEF SubscribesEnd, Dropped, ReplayRepl, KeptSubs
<1>3. \A r \in Request : r.id \in Nat /\ r.uid \in Nat
  BY DEF Request, Uid
<1>4. ASSUME NEW r \in Request, Numbered(r)'
      PROVE  (Numbered(r) /\ r.uid <= uid /\ r.id > 0) \/ r \in Replays
  BY <1>1, <1>4, AroundReset DEF Numbered, NumberInv, IdsInOrder
<1>5. IdsInOrder'
  BY <1>1, <1>2, <1>3, <1>4, ReplaysNumbered DEF IdsInOrder
<1>6. OneRequestPerId'
  <2> SUFFICES ASSUME NEW r \in Request, NEW q \in Request, Numbered(r)', Numbered(q)',
                      r.uid = q.uid, r.id = q.id
               PROVE  r = q
    BY DEF OneRequestPerId
  <2>1. CASE r \in Replays /\ q \in Replays
    BY <2>1, ReplaysNumbered
  <2>2. CASE r \notin Replays /\ q \notin Replays
    BY <1>4, <2>2 DEF NumberInv, OneRequestPerId
  <2>3. \A x \in Replays : x.uid = uid + 1
    BY ReplaysNumbered
  <2>4. r \in Replays <=> q \in Replays
    BY <1>1, <1>3, <1>4, <2>3
  <2> QED
    BY <2>1, <2>2, <2>4
<1>7. OnCurrent'
  <2>1. \A e \in replaced \cup outSubs : e.uid <= uid /\ e.uid \in Nat
    <3>1. outSubs \subseteq Request /\ replaced \subseteq Request
      BY <1>1, WatchIsRequest DEF TypeOK, CallersTypeOK
    <3> QED
      BY <1>1, <1>3, <3>1 DEF NumberInv, OnCurrent
  <2>2. \A e \in outSubs' : e.uid = uid + 1
    BY <1>2, ReplaysNumbered
  <2> QED
    BY <1>1, <1>2, <2>1, <2>2 DEF OnCurrent
<1>8. AtHome'
  BY <1>2 DEF NumberInv, AtHome, EventsOf
<1> QED
  BY <1>5, <1>6, <1>7, <1>8

(* Every step sends requests under new ids, or starts a new channel. *)
LEMMA StepSends ==
    ASSUME NumberInv, [Next]_vars
    PROVE  SeamlessReset \/ \E new : Sends(new) /\ NextIds(new)
<1>1. TypeOK /\ AtHome
  BY DEF NumberInv, StatusInv
<1>2. CASE UNCHANGED vars
  BY <1>1, <1>2, ShipsStill, NothingSent DEF vars, client, callers, ship
<1>3. CASE Callers
  BY <1>1, <1>3, CallersSend
<1>4. CASE Arrivals \/ Agents
  BY <1>1, <1>4, ArrivalsSend, AgentsSend
<1>5. CASE Responses
  BY <1>1, <1>5, ResponsesSend
<1>6. CASE Timeouts
  BY <1>1, <1>6, TimeoutsSend
<1>7. CASE Connection
  BY <1>1, <1>7, ConnectionSends DEF Connection, StreamReaped, Rotate
<1>8. CASE Hearing
  BY <1>8, HearingSends
<1> QED
  BY <1>2, <1>3, <1>4, <1>5, <1>6, <1>7, <1>8 DEF Next

LEMMA NumberInit == Init => NumberInv
<1> SUFFICES ASSUME Init PROVE NumberInv
  OBVIOUS
<1>1. /\ wire = {} /\ taken = {} /\ outPokes = {} /\ outSubs = {} /\ replaced = {} /\ puts = {}
      /\ \A u \in Uid : chan[u].watches = {} /\ chan[u].log = <<>>
  BY DEF Init
<1>2. \A u \in Uid : EventsOf(chan[u]) = {}
  <2>1. 1 .. Len(<<>>) = {}
    OBVIOUS
  <2> QED
    BY <1>1, <2>1 DEF EventsOf
<1>3. \A r : ~Around(r)
  BY <1>1, <1>2 DEF Around, Pending
<1>4. IdsInOrder /\ OneRequestPerId
  BY <1>3 DEF IdsInOrder, OneRequestPerId, Numbered
<1>5. OnCurrent /\ AtHome
  BY <1>1, <1>2 DEF OnCurrent, AtHome
<1> QED
  BY <1>4, <1>5, StatusInit DEF NumberInv

LEMMA NumberStep == ASSUME NumberInv, [Next]_vars PROVE NumberInv'
<1>1. StatusInv'
  BY StatusStep DEF NumberInv
<1>2. TypeOK'
  BY <1>1 DEF StatusInv
<1>3. (IdsInOrder /\ OneRequestPerId /\ OnCurrent /\ AtHome)'
  BY <1>2, StepSends, NumbersKept, NumbersReset
<1> QED
  BY <1>1, <1>3 DEF NumberInv

-----------------------------------------------------------------------------
(* A fact reaches its own handler. *)

LEMMA FactsStep ==
    ASSUME NumberInv, FactsReachTheirHandler, [Next]_vars
    PROVE  FactsReachTheirHandler'
<1>1. CASE HearFact
  <2>1. Due /\ HeardEvent.kind = "fact"
        /\ handed' = handed \cup {<<e.arg, HeardEvent.req.arg>> : e \in Listener}
    BY <1>1 DEF HearFact
  <2>2. HeardEvent.req \in Watch
    BY <2>1, HeardEventTyped DEF NumberInv, StatusInv, Event
  <2>3. Listener \subseteq {HeardEvent.req}
    BY <2>1, <2>2, ListenerIsMine DEF Watch
  <2>4. \A h \in handed' : h \in handed \/ h = <<HeardEvent.req.arg, HeardEvent.req.arg>>
    BY <2>1, <2>3
  <2> QED
    BY <2>4 DEF FactsReachTheirHandler
<1>2. CASE ~HearFact
  <2>1. UNCHANGED handed
    <3>1. CASE Callers \/ Arrivals \/ Agents \/ UNCHANGED vars
      BY <3>1 DEF Callers, DoPoke, Subscribe, Unsubscribe, Arrivals, ArrivePoke, ArriveWatch,
                  ArriveUnsub, ArriveAck, Accept, Agents, Reap, Emit, Kick, vars
    <3>2. CASE Responses \/ Timeouts
      BY <3>2 DEF Responses, PutOk, PutOpensStream, PutSaysHi, PutFail, Timeouts, PokeTimeout
    <3>3. CASE Connection
      BY <3>3 DEF Connection, StreamOpen, StreamBreak, StreamTear, Reconnect, StreamReaped,
                  Rotate, SeamlessReset
    <3>4. CASE Hearing
      BY <1>2, <3>4 DEF Hearing, HearOld, HearPokeAnswer, HearRefused, HearKick
    <3> QED
      BY <3>1, <3>2, <3>3, <3>4 DEF Next
  <2> QED
    BY <2>1 DEF FactsReachTheirHandler
<1> QED
  BY <1>1, <1>2

(* Whatever is delayed, replayed or rotated, a fact is handed only to the  *)
(* subscriber whose watch produced it (handleEvent looks it up by the id). *)
THEOREM FactsCorrect == Spec => []FactsReachTheirHandler
<1> DEFINE IInv == NumberInv /\ FactsReachTheirHandler
<1>1. Init => IInv
  BY NumberInit DEF Init, FactsReachTheirHandler
<1>2. IInv /\ [Next]_vars => IInv'
  BY NumberStep, FactsStep
<1>3. IInv => FactsReachTheirHandler
  OBVIOUS
<1> QED
  BY <1>1, <1>2, <1>3, PTL DEF Spec

-----------------------------------------------------------------------------
(* The answers.  A poke is one request from its call on, which the ship    *)
(* takes off the wire once; what it did with it is what it logs.           *)

PokeOf(r, p) == r.kind = "poke" /\ r.arg = p

PokeInv ==
    /\ \A r, q \in Request, p \in Poke :
          Around(r) /\ Around(q) /\ PokeOf(r, p) /\ PokeOf(q, p) => r = q
    /\ \A r \in Request, p \in Poke : Around(r) /\ PokeOf(r, p) => poke[p] # "idle"
    /\ \A r \in wire, p \in Poke : PokeOf(r, p) => answer[p] = "none"
    /\ \A p \in Poke : poke[p] = "idle" => answer[p] = "none"
    /\ \A u \in Uid : \A v \in EventsOf(chan[u]) :
          v.kind \in {"ack", "nack"} /\ v.req.arg \in Poke => answer[v.req.arg] = v.kind

(* The ship changes its mind about no poke, and no poke is called twice. *)
Answered ==
    \A p \in Poke : /\ answer'[p] # answer[p] => \E r \in wire \ wire' : PokeOf(r, p)
                    /\ poke'[p] = "idle" => poke[p] = "idle"

(* What a caller is told of its poke, other than on an answer. *)
Told == \A p \in Poke : poke'[p] \in {"acked", "nacked"} => poke'[p] = poke[p]

LEMMA TellTells ==
    ASSUME NEW entries, NEW word, Tell(entries, word), word # "idle"
    PROVE  \A p \in Poke : /\ poke'[p] = "idle" => poke[p] = "idle"
                           /\ poke'[p] # poke[p] => poke'[p] = word /\ \E e \in entries : e.arg = p
BY DEF Tell

LEMMA StepAnswers ==
    ASSUME TypeOK, [Next]_vars
    PROVE  Answered /\ (HearPokeAnswer \/ Told)
<1>1. ASSUME UNCHANGED <<poke, answer>> PROVE Answered /\ Told
  BY <1>1 DEF Answered, Told
<1>2. ASSUME UNCHANGED answer, NEW entries, NEW word \in {"unsent", "timeout", "reaped"},
             Tell(entries, word)
      PROVE  Answered /\ Told
  BY <1>2, TellTells DEF Answered, Told
<1>3. ASSUME NEW p \in Poke, DoPoke(p) PROVE Answered /\ Told
  BY <1>3 DEF DoPoke, Answered, Told, TypeOK
<1>4. CASE UNCHANGED vars \/ Agents \/ \E s \in Sub : Subscribe(s) \/ Unsubscribe(s)
  BY <1>1, <1>4 DEF Agents, Reap, Emit, Kick, Subscribe, Unsubscribe, vars, callers, ship
<1>5. ASSUME NEW r \in wire, ArrivePoke(r) \/ ArriveWatch(r) \/ ArriveUnsub(r) \/ ArriveAck(r)
      PROVE  Answered /\ Told
  <2>1. wire' = wire \ {r} /\ UNCHANGED poke
    BY <1>5 DEF ArrivePoke, ArriveWatch, ArriveUnsub, ArriveAck, Accept, callers
  <2>2. CASE ArrivePoke(r)
    BY <2>1, <2>2 DEF ArrivePoke, Answered, Told, PokeOf
  <2> QED
    BY <1>1, <1>5, <2>1, <2>2 DEF ArriveWatch, ArriveUnsub, ArriveAck
<1>6. ASSUME NEW x \in puts, PutOk(x) \/ PutOpensStream(x) \/ PutSaysHi(x) \/ PutFail(x)
      PROVE  Answered /\ Told
  <2>1. CASE PutFail(x)
    BY <1>2, <2>1 DEF PutFail
  <2> QED
    BY <1>1, <1>6, <2>1 DEF PutOk, PutOpensStream, PutSaysHi
<1>7. CASE Timeouts
  BY <1>2, <1>7 DEF Timeouts, PokeTimeout, ship
<1>8. CASE StreamOpen \/ StreamBreak \/ StreamTear
  BY <1>1, <1>8 DEF StreamOpen, StreamBreak, StreamTear, Reconnect, ship
<1>9. CASE SeamlessReset
  BY <1>2, <1>9 DEF SeamlessReset
<1>10. CASE HearOld \/ HearRefused \/ HearFact \/ HearKick
  BY <1>1, <1>10 DEF HearOld, HearRefused, HearFact, HearKick, Receive, ship
<1>11. ASSUME HearPokeAnswer PROVE Answered
  <2>1. UNCHANGED answer
    BY <1>11 DEF HearPokeAnswer, Receive
  <2>2. \E entries, word : word # "idle" /\ Tell(entries, word)
    <3>1. Tell({e \in outPokes : e.id = HeardEvent.req.id},
               IF HeardEvent.kind = "ack" THEN "acked" ELSE "nacked")
      BY <1>11 DEF HearPokeAnswer
    <3>2. (IF HeardEvent.kind = "ack" THEN "acked" ELSE "nacked") # "idle"
      OBVIOUS
    <3> QED
      BY <3>1, <3>2
  <2> QED
    BY <2>1, <2>2, TellTells DEF Answered
<1> QED
  BY <1>3, <1>4, <1>5, <1>6, <1>7, <1>8, <1>9, <1>10, <1>11
  DEF Next, Callers, Arrivals, Responses, Connection, StreamReaped, Rotate, Hearing

(* What was decided on stays so: a poke on the wire is undecided. *)
LEMMA AnswerStays ==
    ASSUME TypeOK, PokeInv, Answered, NEW p \in Poke, answer[p] # "none"
    PROVE  answer'[p] = answer[p]
BY DEF PokeInv, Answered

LEMMA PokesKept ==
    ASSUME NumberInv, PokeInv, TypeOK', NEW new, Sends(new), NextIds(new), Answered
    PROVE  PokeInv'
<1> DEFINE Fresh(r, p) == r \in new /\ PokeOf(r, p)
<1>1. ASSUME NEW r \in Request, NEW p \in Poke, Around(r)', PokeOf(r, p)
      PROVE  Around(r) \/ (Fresh(r, p) /\ poke[p] = "idle" /\ poke'[p] # "idle")
  BY <1>1, AroundAfter DEF NextIds, PokeOf
<1>2. \A r, q, p : Fresh(r, p) /\ Fresh(q, p) => r = q
  BY DEF NextIds, PokeOf
<1> HIDE DEF Fresh
<1>3. \A r \in Request, p \in Poke : Around(r) /\ PokeOf(r, p) => poke[p] # "idle" /\ poke'[p] # "idle"
  BY DEF PokeInv, Answered
<1>4. \A r, q \in Request, p \in Poke :
         (Around(r) /\ Around(q))' /\ PokeOf(r, p) /\ PokeOf(q, p) => r = q
  BY <1>1, <1>2, <1>3 DEF PokeInv
<1>5. \A r \in Request, p \in Poke : Around(r)' /\ PokeOf(r, p) => poke'[p] # "idle"
  BY <1>1, <1>3
<1>6. \A r \in wire : r \in Request /\ Around(r)
  BY DEF NumberInv, StatusInv, TypeOK, ShipTypeOK, Around
<1>7. \A r \in wire' : r \in Request /\ Around(r)'
  BY DEF TypeOK, ShipTypeOK, Around
<1>8. ASSUME NEW p \in Poke, poke[p] = "idle" PROVE answer[p] = "none" /\ answer'[p] = "none"
  BY <1>3, <1>6, <1>8 DEF PokeInv, Answered
<1>9. ASSUME NEW r \in wire', NEW p \in Poke, PokeOf(r, p) PROVE answer'[p] = "none"
  <2>1. CASE r \in wire
    <3>1. answer[p] = "none" /\ \A q \in wire : PokeOf(q, p) => q = r
      BY <1>6, <1>9, <2>1 DEF PokeInv
    <3> QED
      BY <1>9, <3>1 DEF Answered
  <2>2. CASE r \notin wire
    <3>1. r \in new
      BY <2>2 DEF Sends
    <3> QED
      BY <1>8, <1>9, <3>1 DEF NextIds, PokeOf
  <2> QED
    BY <2>1, <2>2
<1>10. \A p \in Poke : poke'[p] = "idle" => answer'[p] = "none"
  BY <1>8 DEF Answered
<1>11. ASSUME NEW u \in Uid, NEW v \in EventsOf(chan'[u]), v.kind \in {"ack", "nack"}, v.req.arg \in Poke
       PROVE  answer'[v.req.arg] = v.kind
  <2>1. Ships(u)
    BY DEF Sends
  <2>2. CASE v \in EventsOf(chan[u])
    <3>1. answer[v.req.arg] = v.kind
      BY <1>11, <2>2 DEF PokeInv
    <3> QED
      BY <1>11, <3>1, AnswerStays DEF NumberInv, StatusInv
  <2>3. CASE v \notin EventsOf(chan[u])
    BY <1>11, <2>1, <2>3 DEF Ships, Answering, Watching
  <2> QED
    BY <2>2, <2>3
<1> QED
  BY <1>4, <1>5, <1>9, <1>10, <1>11 DEF PokeInv, PokeOf, EventsOf

LEMMA PokesReset ==
    ASSUME NumberInv, PokeInv, SeamlessReset, Answered
    PROVE  PokeInv'
<1>1. TypeOK /\ wire' = wire \cup Replays /\ UNCHANGED <<chan, answer>>
  BY ResetIs DEF NumberInv, StatusInv
<1>2. \A r \in Replays : \A p : ~PokeOf(r, p)
  BY ReplaysNumbered DEF PokeOf
<1>3. \A r, p : Around(r)' /\ PokeOf(r, p) => Around(r)
  BY <1>1, <1>2, AroundReset
<1> QED
  BY <1>1, <1>2, <1>3 DEF PokeInv, PokeOf, Answered, EventsOf

LEMMA PokeInit == Init => PokeInv
<1> SUFFICES ASSUME Init PROVE PokeInv
  OBVIOUS
<1>1. /\ wire = {} /\ taken = {} /\ outPokes = {} /\ outSubs = {} /\ replaced = {} /\ puts = {}
      /\ \A u \in Uid : chan[u].watches = {} /\ chan[u].log = <<>>
      /\ answer = [p \in Poke |-> "none"]
  BY DEF Init
<1>2. \A u \in Uid : EventsOf(chan[u]) = {}
  <2>1. 1 .. Len(<<>>) = {}
    OBVIOUS
  <2> QED
    BY <1>1, <2>1 DEF EventsOf
<1>3. \A r : ~Around(r)
  BY <1>1, <1>2 DEF Around, Pending
<1> QED
  BY <1>1, <1>2, <1>3 DEF PokeInv

LEMMA AnswersStep ==
    ASSUME NumberInv, PokeInv, AnswersAreMine, [Next]_vars
    PROVE  AnswersAreMine'
<1>1. TypeOK /\ Answered
  BY StepAnswers DEF NumberInv, StatusInv
<1>2. CASE Told
  BY <1>1, <1>2, AnswerStays DEF Told, AnswersAreMine
<1>3. CASE HearPokeAnswer
  <2> DEFINE mine == {e \in outPokes : e.id = HeardEvent.req.id}
             word == IF HeardEvent.kind = "ack" THEN "acked" ELSE "nacked"
  <2>1. Due /\ HeardEvent.kind \in {"ack", "nack"} /\ Tell(mine, word) /\ UNCHANGED answer
    BY <1>3 DEF HearPokeAnswer, Receive
  <2>2. mine \subseteq {HeardEvent.req}
    BY <2>1, PokeAnsweredIsMine
  <2>3. HeardEvent \in EventsOf(chan[stream.uid]) /\ stream.uid \in Uid
    BY <1>1, <2>1, HeardEventOf, StreamFields
  <2>4. HeardEvent.req.arg \in Poke => answer[HeardEvent.req.arg] = HeardEvent.kind
    BY <2>1, <2>3 DEF PokeInv
  <2>5. word \in {"acked", "nacked"} /\ (word = "acked" <=> HeardEvent.kind = "ack")
    OBVIOUS
  <2> HIDE DEF mine, word
  <2>6. \A p \in Poke : poke'[p] # poke[p] => poke'[p] = word /\ \E e \in mine : e.arg = p
    BY <2>1, <2>5, TellTells
  <2> QED
    BY <2>1, <2>2, <2>4, <2>5, <2>6 DEF AnswersAreMine
<1> QED
  BY <1>1, <1>2, <1>3, StepAnswers

(* A poke is reported acked or nacked only if the ship did that with it,   *)
(* although ids start over on every channel (handleEvent finds the poke in *)
(* outstandingPokes by the id in the event).                               *)
THEOREM AnswersCorrect == Spec => []AnswersAreMine
<1> DEFINE IInv == NumberInv /\ PokeInv /\ AnswersAreMine
<1>1. Init => IInv
  BY NumberInit, PokeInit DEF Init, AnswersAreMine
<1>2. IInv /\ [Next]_vars => IInv'
  <2> SUFFICES ASSUME IInv, [Next]_vars PROVE IInv'
    OBVIOUS
  <2>1. NumberInv' /\ TypeOK' /\ TypeOK /\ AnswersAreMine'
    BY NumberStep, AnswersStep DEF NumberInv, StatusInv
  <2>2. Answered
    BY <2>1, StepAnswers
  <2>3. PokeInv'
    BY <2>1, <2>2, StepSends, PokesKept, PokesReset
  <2> QED
    BY <2>1, <2>3
<1>3. IInv => AnswersAreMine
  OBVIOUS
<1> QED
  BY <1>1, <1>2, <1>3, PTL DEF Spec

-----------------------------------------------------------------------------
(* The registry, when a subscription neither ends before the response to   *)
(* its PUT is in nor is unsubscribed by an id of an older channel.         *)

(* The entries, and the calls they belong to.  While the PUTs of a call    *)
(* are pending, the entry is that of the one PUT the call depends on, or   *)
(* the call has its id already; without an entry the call is one whose     *)
(* last PUTs fail or are of no interest, and it will throw.                *)
Entries(subs, fib, repl, call, id, quiet) ==
    /\ \A e, f \in subs : e.arg = f.arg => e = f
    /\ \A e \in subs : /\ call[e.arg] = "open"
                       /\ \/ fib[e.arg] = {}
                          \/ e \in fib[e.arg] /\ fib[e.arg] \subseteq repl \cup {e}
                          \/ id[e.arg] # 0 /\ fib[e.arg] \subseteq repl
    /\ \A s \in Sub : call[s] = "open" /\ (\A e \in subs : e.arg # s) =>
          \/ s \in quiet
          \/ fib[s] # {} /\ fib[s] \subseteq repl /\ id[s] = 0

FibersPending == \A s \in Sub : fibers[s] \subseteq Pending(puts)

KicksSettled ==
    \A u \in Uid : \A v \in EventsOf(chan[u]) : v.kind = "kick" => v.req \notin Pending(puts)

RegistryInv ==
    Entries(outSubs, fibers, replaced, caller, held, silent) /\ FibersPending /\ KicksSettled

(* What settles leaves the entries and the calls in agreement. *)
LEMMA EndKeepsEntries ==
    ASSUME CallersTypeOK, NEW subs \in SUBSET Watch, NEW fib, NEW repl, NEW call, NEW done,
           NEW failed \in SUBSET done,
           SubscribesEnd(subs, fib, repl, call, done, failed),
           subs \cap repl = {}, \A e \in subs : e.id # 0,
           Entries(subs, fib, repl, call, held, silent)
    PROVE  Entries(outSubs', fibers', replaced', caller', held', silent')
<1> DEFINE bad     == failed \ repl
           mine(s) == {r \in done \cap fib[s] : r \notin repl}
<1>1. /\ outSubs' = subs \ bad /\ replaced' = repl \ done
      /\ \A s \in Sub : fibers'[s] = fib[s] \ done
  BY DEF SubscribesEnd, Dropped
<1>2. \A s \in Sub :
         held'[s] = IF mine(s) = {} THEN held[s]
                    ELSE IF mine(s) \subseteq bad THEN 0 ELSE (CHOOSE r \in mine(s) : TRUE).id
  BY DEF SubscribesEnd
<1>3. \A s \in Sub :
         caller'[s] = IF fib[s] # {} /\ fibers'[s] = {} /\ held'[s] = 0 THEN "over" ELSE call[s]
  BY DEF SubscribesEnd
<1>4. silent' = silent \cup {s \in Sub : \E r \in (bad \cap subs) \ fib[s] : r.arg = s}
  BY DEF SubscribesEnd
<1>5. \A e \in subs : e.arg \in Sub /\ e \notin repl
  BY DEF Watch
<1>6. bad \subseteq done /\ \A e \in subs : e \in failed => e \in bad
  BY <1>5
<1>7. ASSUME NEW s \in Sub, fib[s] \subseteq repl PROVE mine(s) = {} /\ held'[s] = held[s]
  <2>1. mine(s) = {}
    BY <1>7
  <2> QED
    BY <1>2, <2>1
<1>8. ASSUME NEW s \in Sub, NEW e \in subs, e \in fib[s], fib[s] \subseteq repl \cup {e}
      PROVE  /\ e \in done => mine(s) = {e} /\ held'[s] = IF e \in bad THEN 0 ELSE e.id
             /\ e \notin done => mine(s) = {} /\ held'[s] = held[s]
  <2>1. mine(s) = IF e \in done THEN {e} ELSE {}
    BY <1>5, <1>8
  <2>2. (CHOOSE r \in {e} : TRUE) = e
    OBVIOUS
  <2> HIDE DEF mine, bad
  <2>3. CASE e \in done
    <3>1. mine(s) = {e} /\ mine(s) # {} /\ (mine(s) \subseteq bad <=> e \in bad)
      BY <2>1, <2>3
    <3> QED
      BY <1>2, <2>2, <2>3, <3>1
  <2>4. CASE e \notin done
    BY <1>2, <2>1, <2>4
  <2> QED
    BY <2>3, <2>4
<1> HIDE DEF mine
<1>9. \A e, f \in outSubs' : e.arg = f.arg => e = f
  BY <1>1 DEF Entries
<1>10. ASSUME NEW e \in outSubs'
       PROVE  /\ caller'[e.arg] = "open"
              /\ \/ fibers'[e.arg] = {}
                 \/ e \in fibers'[e.arg] /\ fibers'[e.arg] \subseteq replaced' \cup {e}
                 \/ held'[e.arg] # 0 /\ fibers'[e.arg] \subseteq replaced'
  <2> DEFINE s == e.arg
  <2>1. e \in subs /\ e \notin bad /\ s \in Sub /\ call[s] = "open" /\ e.id # 0
    BY <1>1, <1>5, <1>10 DEF Entries
  <2>2. \/ fib[s] = {}
        \/ e \in fib[s] /\ fib[s] \subseteq repl \cup {e}
        \/ held[s] # 0 /\ fib[s] \subseteq repl
    BY <2>1 DEF Entries
  <2>3. fibers'[s] = fib[s] \ done /\ replaced' = repl \ done
    BY <1>1, <2>1
  <2>4. caller'[s] = IF fib[s] # {} /\ fibers'[s] = {} /\ held'[s] = 0 THEN "over" ELSE call[s]
    BY <1>3, <2>1
  <2> HIDE DEF s, bad
  <2>5. CASE fib[s] = {}
    BY <2>1, <2>3, <2>4, <2>5 DEF s
  <2>6. CASE e \in fib[s] /\ fib[s] \subseteq repl \cup {e}
    <3>1. CASE e \in done
      <4>1. held'[s] = e.id
        BY <1>8, <2>1, <2>6, <3>1
      <4> QED
        BY <2>1, <2>3, <2>4, <2>6, <3>1, <4>1 DEF s
    <3>2. CASE e \notin done
      BY <2>1, <2>3, <2>4, <2>6, <3>2 DEF s
    <3> QED
      BY <3>1, <3>2
  <2>7. CASE held[s] # 0 /\ fib[s] \subseteq repl
    <3>1. held'[s] = held[s]
      BY <1>7, <2>1, <2>7
    <3> QED
      BY <2>1, <2>3, <2>4, <2>7, <3>1 DEF s
  <2> QED
    BY <2>2, <2>5, <2>6, <2>7
<1>11. ASSUME NEW s \in Sub, caller'[s] = "open", \A e \in outSubs' : e.arg # s
       PROVE  \/ s \in silent'
              \/ fibers'[s] # {} /\ fibers'[s] \subseteq replaced' /\ held'[s] = 0
  <2>1. call[s] = "open" /\ ~(fib[s] # {} /\ fibers'[s] = {} /\ held'[s] = 0)
    BY <1>3, <1>11
  <2>2. fibers'[s] = fib[s] \ done /\ replaced' = repl \ done
    BY <1>1
  <2>3. CASE \A e \in subs : e.arg # s
    <3>1. s \in silent \/ (fib[s] # {} /\ fib[s] \subseteq repl /\ held[s] = 0)
      BY <2>1, <2>3 DEF Entries
    <3>2. CASE s \in silent
      BY <1>4, <3>2
    <3>3. CASE fib[s] # {} /\ fib[s] \subseteq repl /\ held[s] = 0
      <4>1. held'[s] = 0
        BY <1>7, <3>3
      <4> QED
        BY <2>1, <2>2, <3>3, <4>1
    <3> QED
      BY <3>1, <3>2, <3>3
  <2>4. ASSUME NEW e \in subs, e.arg = s
        PROVE  \/ s \in silent'
               \/ fibers'[s] # {} /\ fibers'[s] \subseteq replaced' /\ held'[s] = 0
    <3>1. e \in bad /\ e \in done /\ e \notin repl
      BY <1>1, <1>5, <1>6, <1>11, <2>4
    <3>2. CASE e \notin fib[s]
      BY <1>4, <2>4, <3>1, <3>2
    <3>3. CASE e \in fib[s]
      <4>1. fib[s] \subseteq repl \cup {e}
        BY <2>4, <3>1, <3>3 DEF Entries
      <4>2. held'[s] = 0
        BY <1>8, <3>1, <3>3, <4>1
      <4> QED
        BY <2>1, <2>2, <3>1, <3>3, <4>1, <4>2
    <3> QED
      BY <3>2, <3>3
  <2> QED
    BY <2>3, <2>4
<1> QED
  BY <1>9, <1>10, <1>11 DEF Entries

LEMMA KicksKept ==
    ASSUME ~EarlyKicks, NumberInv, KicksSettled, NEW new, Sends(new), NextIds(new)
    PROVE  KicksSettled'
<1> SUFFICES ASSUME NEW u \in Uid, NEW v \in EventsOf(chan'[u]), v.kind = "kick", TypeOK
             PROVE  v.req \notin Pending(puts')
  BY PendingStep DEF KicksSettled, EventsOf, NumberInv, StatusInv
<1>1. Ships(u)
  BY DEF Sends
<1>2. \/ v \in EventsOf(chan[u])
      \/ v.req \in chan[u].watches /\ v.req \notin Pending(puts)
  BY <1>1 DEF Ships, Answering, Watching
<1>3. v.req \notin Pending(puts)
  BY <1>2 DEF KicksSettled
<1>4. Around(v.req) /\ v.req \in Watch
  <2>1. CASE v \in EventsOf(chan[u])
    <3>1. chan[u].log \in Seq(Event)
      BY ChannelFields DEF TypeOK, ShipTypeOK
    <3>2. v \in Event
      BY <2>1, <3>1 DEF EventsOf
    <3> QED
      BY <2>1, <3>2 DEF Around, Event
  <2>2. CASE v.req \in chan[u].watches
    <3>1. chan[u].watches \subseteq Watch
      BY ChannelFields DEF TypeOK, ShipTypeOK
    <3> QED
      BY <2>2, <3>1 DEF Around
  <2> QED
    BY <1>2, <2>1, <2>2
<1>5. v.req \in Request /\ v.req.kind # "ack" /\ v.req.id \in Nat
  BY <1>4, WatchIsRequest DEF Watch
<1>6. v.req.uid = uid => v.req.id <= lastEventId
  BY <1>4, <1>5 DEF NumberInv, IdsInOrder, Numbered
<1>7. v.req \notin new
  BY <1>5, <1>6 DEF NextIds, TypeOK, ClientTypeOK
<1> QED
  BY <1>3, <1>7 DEF Sends

LEMMA KicksReset ==
    ASSUME NumberInv, KicksSettled, SeamlessReset
    PROVE  KicksSettled'
<1> SUFFICES ASSUME NEW u \in Uid, NEW v \in EventsOf(chan[u]), v.kind = "kick"
             PROVE  v.req \notin Pending(puts')
  BY PendingStep DEF KicksSettled, EventsOf, SeamlessReset
<1>1. TypeOK /\ puts' = {x \in puts : x.phase = "sent"} \cup Sent(Replays)
  BY ResetIs DEF NumberInv, StatusInv
<1>2. v.req \notin Pending(puts) /\ v.req.uid = u
  BY DEF KicksSettled, NumberInv, AtHome
<1>3. v.req.uid <= uid /\ uid \in Nat
  <2>1. chan[u].log \in Seq(Event)
    BY <1>1, ChannelFields DEF TypeOK, ShipTypeOK
  <2>2. v \in Event
    BY <2>1 DEF EventsOf
  <2>3. v.req \in Request /\ v.req.kind # "ack" /\ Around(v.req)
    BY <2>2, WatchIsRequest DEF Around, Event, Watch
  <2> QED
    BY <1>1, <2>3 DEF NumberInv, IdsInOrder, Numbered, TypeOK, ClientTypeOK, Uid
<1>4. v.req \notin Replays
  BY <1>3, ReplaysNumbered
<1>5. Pending(puts') = Pending({x \in puts : x.phase = "sent"}) \cup Pending(Sent(Replays))
  BY <1>1, PendingOf
<1>6. Pending(Sent(Replays)) = Replays /\ Pending({x \in puts : x.phase = "sent"}) \subseteq Pending(puts)
  BY PendingOf DEF Pending
<1> QED
  BY <1>2, <1>4, <1>5, <1>6

RegistryKept ==
    /\ Entries(outSubs', fibers', replaced', caller', held', silent')
    /\ \A s \in Sub : fibers'[s] \subseteq Pending(puts')

LEMMA EntryIds ==
    ASSUME NumberInv
    PROVE  /\ outSubs \in SUBSET Watch /\ outSubs \cap replaced = {}
           /\ \A e \in outSubs : e.id \in Nat /\ e.id # 0
           /\ \A e, f \in outSubs : e.id = f.id => e = f
<1>1. outSubs \in SUBSET Watch /\ uid \in Nat
  BY DEF NumberInv, StatusInv, TypeOK, ClientTypeOK, CallersTypeOK, Uid
<1>2. \A e \in outSubs : e \in Request /\ e.id \in Nat /\ Numbered(e) /\ e.uid = uid
  BY <1>1, WatchIsRequest DEF Watch, Numbered, Around, NumberInv, OnCurrent
<1>3. \A e \in outSubs : e.id # 0
  BY <1>2 DEF NumberInv, IdsInOrder
<1>4. \A e, f \in outSubs : e.id = f.id => e = f
  BY <1>2 DEF NumberInv, OneRequestPerId
<1>5. outSubs \cap replaced = {}
  BY <1>1 DEF NumberInv, OnCurrent
<1> QED
  BY <1>1, <1>2, <1>3, <1>4, <1>5

LEMMA CallsSame ==
    ASSUME RegistryInv, UNCHANGED <<outSubs, replaced, fibers, held, caller, silent>>,
           Pending(puts) \subseteq Pending(puts')
    PROVE  RegistryKept
BY DEF RegistryInv, RegistryKept, FibersPending

LEMMA SettleKeepsRegistry ==
    ASSUME NumberInv, RegistryInv, NEW done, NEW failed \in SUBSET done, Settle(done, failed),
           Pending(puts) \ done \subseteq Pending(puts')
    PROVE  RegistryKept
<1>1. CallersTypeOK /\ SubscribesEnd(outSubs, fibers, replaced, caller, done, failed)
  BY DEF NumberInv, StatusInv, TypeOK, Settle
<1>2. Entries(outSubs', fibers', replaced', caller', held', silent')
  <2>1. Entries(outSubs, fibers, replaced, caller, held, silent)
    BY DEF RegistryInv
  <2> QED
    BY <1>1, <2>1, EntryIds, EndKeepsEntries
<1>3. \A s \in Sub : fibers'[s] = fibers[s] \ done
  BY <1>1 DEF SubscribesEnd
<1> QED
  BY <1>2, <1>3 DEF RegistryKept, RegistryInv, FibersPending

LEMMA PutsLeft ==
    ASSUME NEW gone
    PROVE  Pending(puts) \ Pending(gone) \subseteq Pending(puts \ gone)
BY DEF Pending

LEMMA SubscribeRegisters ==
    ASSUME NumberInv, RegistryInv, NEW s \in Sub, Subscribe(s)
    PROVE  RegistryKept
<1> DEFINE r == NewRequest("watch", s)
<1>1. r.arg = s
  BY DEF NewRequest
<1>2. /\ caller[s] # "open" /\ fibers[s] = {}
      /\ outSubs' = outSubs \cup {r}
      /\ puts' = puts \cup Sent({r})
      /\ fibers' = [fibers EXCEPT ![s] = {r}]
      /\ caller' = [caller EXCEPT ![s] = "open"]
      /\ held' = [held EXCEPT ![s] = 0]
      /\ UNCHANGED <<replaced, silent>>
  BY DEF Subscribe
<1> HIDE DEF r
<1>3. Entries(outSubs, fibers, replaced, caller, held, silent) /\ FibersPending
  BY DEF RegistryInv
<1>4. \A e \in outSubs : e.arg # s /\ e.arg \in Sub
  BY <1>2, <1>3, EntryIds DEF Entries, Watch
<1>5. /\ fibers'[s] = {r} /\ caller'[s] = "open"
      /\ \A t \in Sub \ {s} : fibers'[t] = fibers[t] /\ caller'[t] = caller[t] /\ held'[t] = held[t]
  BY <1>2 DEF NumberInv, StatusInv, TypeOK, CallersTypeOK
<1>6. Pending(puts') = Pending(puts) \cup {r}
  <2>1. Pending(puts') = Pending(puts) \cup Pending(Sent({r})) /\ Pending(Sent({r})) = {r}
    BY <1>2, PendingOf
  <2> QED
    BY <2>1
<1>7. \A e, f \in outSubs' : e.arg = f.arg => e = f
  BY <1>1, <1>2, <1>3, <1>4 DEF Entries
<1>8. ASSUME NEW e \in outSubs'
      PROVE  /\ caller'[e.arg] = "open"
             /\ \/ fibers'[e.arg] = {}
                \/ e \in fibers'[e.arg] /\ fibers'[e.arg] \subseteq replaced' \cup {e}
                \/ held'[e.arg] # 0 /\ fibers'[e.arg] \subseteq replaced'
  <2>1. CASE e = r
    BY <1>1, <1>5, <2>1
  <2>2. CASE e \in outSubs
    BY <1>2, <1>3, <1>4, <1>5, <2>2 DEF Entries
  <2> QED
    BY <1>2, <2>1, <2>2
<1>9. ASSUME NEW t \in Sub, caller'[t] = "open", \A e \in outSubs' : e.arg # t
      PROVE  t \in silent' \/ (fibers'[t] # {} /\ fibers'[t] \subseteq replaced' /\ held'[t] = 0)
  <2>1. t # s
    BY <1>1, <1>2, <1>9
  <2> QED
    BY <1>2, <1>3, <1>5, <1>9, <2>1 DEF Entries
<1>10. \A t \in Sub : fibers'[t] \subseteq Pending(puts')
  BY <1>3, <1>5, <1>6 DEF FibersPending
<1> QED
  BY <1>7, <1>8, <1>9, <1>10 DEF RegistryKept, Entries

(* Entries leave with a word to their callers. *)
LEMMA EntriesLeave ==
    ASSUME NumberInv, RegistryInv, NEW gone \in SUBSET outSubs, outSubs' = outSubs \ gone,
           NEW word \in CallerWord, word # "open",
           \A s \in Sub : caller'[s] = IF \E e \in gone : e.arg = s THEN word ELSE caller[s],
           UNCHANGED <<replaced, fibers, held, silent>>, Pending(puts) \subseteq Pending(puts')
    PROVE  RegistryKept
<1>1. Entries(outSubs, fibers, replaced, caller, held, silent) /\ FibersPending
  BY DEF RegistryInv
<1>2. \A e \in outSubs : e.arg \in Sub
  BY EntryIds DEF Watch
<1>3. \A e, f \in outSubs' : e.arg = f.arg => e = f
  BY <1>1 DEF Entries
<1>4. \A e \in outSubs' : caller'[e.arg] = caller[e.arg]
  BY <1>1, <1>2 DEF Entries
<1>5. \A e \in outSubs' : /\ caller'[e.arg] = "open"
                          /\ \/ fibers'[e.arg] = {}
                             \/ e \in fibers'[e.arg] /\ fibers'[e.arg] \subseteq replaced' \cup {e}
                             \/ held'[e.arg] # 0 /\ fibers'[e.arg] \subseteq replaced'
  BY <1>1, <1>4 DEF Entries
<1>6. \A s \in Sub : caller'[s] = "open" /\ (\A e \in outSubs' : e.arg # s) =>
         caller[s] = "open" /\ (\A e \in outSubs : e.arg # s)
  OBVIOUS
<1>7. \A s \in Sub : caller'[s] = "open" /\ (\A e \in outSubs' : e.arg # s) =>
         s \in silent' \/ (fibers'[s] # {} /\ fibers'[s] \subseteq replaced' /\ held'[s] = 0)
  BY <1>1, <1>6 DEF Entries
<1>8. \A s \in Sub : fibers'[s] \subseteq Pending(puts')
  BY <1>1 DEF FibersPending
<1> QED
  BY <1>3, <1>5, <1>7, <1>8 DEF RegistryKept, Entries

LEMMA UnsubscribeRegisters ==
    ASSUME ~StaleUnsubs, NumberInv, RegistryInv, NEW s \in Sub, Unsubscribe(s)
    PROVE  RegistryKept
<1>1. PICK e \in outSubs : e.id = held[s] /\ e.arg = s
  BY DEF Unsubscribe, Names
<1>2. outSubs' = outSubs \ {e}
  BY <1>1, EntryIds DEF Unsubscribe, Without
<1>3. \A t \in Sub : caller'[t] = IF \E f \in {e} : f.arg = t THEN "over" ELSE caller[t]
  BY <1>1 DEF Unsubscribe, NumberInv, StatusInv, TypeOK, CallersTypeOK
<1>4. Pending(puts) \subseteq Pending(puts')
  <2>1. puts \subseteq puts'
    BY DEF Unsubscribe
  <2> QED
    BY <2>1 DEF Pending
<1>5. "over" \in CallerWord /\ "over" # "open" /\ {e} \in SUBSET outSubs
  BY DEF CallerWord
<1>6. UNCHANGED <<replaced, fibers, held, silent>>
  BY DEF Unsubscribe
<1> QED
  BY <1>2, <1>3, <1>4, <1>5, <1>6, EntriesLeave

LEMMA RefusedRegisters ==
    ASSUME NumberInv, RegistryInv, HearRefused
    PROVE  RegistryKept
<1>1. /\ outSubs' = outSubs \ Listener
      /\ caller' = [s \in Sub |-> IF \E e \in Listener : e.arg = s THEN "over" ELSE caller[s]]
      /\ UNCHANGED <<replaced, fibers, held, silent>>
      /\ puts' = (puts \ {}) \cup Sent(AckDue(stream.next) \cup {})
  BY DEF HearRefused, Receive
<1>2. Listener \in SUBSET outSubs
  BY DEF Listener
<1>3. Pending(puts) \subseteq Pending(puts')
  BY <1>1 DEF Pending
<1>4. "over" \in CallerWord /\ "over" # "open"
  BY DEF CallerWord
<1> HIDE DEF Listener
<1>5. \A s \in Sub : caller'[s] = IF \E e \in Listener : e.arg = s THEN "over" ELSE caller[s]
  BY <1>1
<1> QED
  BY <1>1, <1>2, <1>3, <1>4, <1>5, EntriesLeave

(* A quit finds a settled call: the entry leaves, or is resubscribed. *)
LEMMA KickRegisters ==
    ASSUME NumberInv, RegistryInv, HearKick
    PROVE  RegistryKept
<1> DEFINE w == HeardEvent.req
<1>1. /\ Due /\ HeardEvent.kind = "kick"
      /\ outSubs' = (outSubs \ Listener) \cup Again
      /\ caller' = [s \in Sub |-> IF s \notin Resub /\ (\E e \in Listener : e.arg = s)
                                  THEN "over" ELSE caller[s]]
      /\ UNCHANGED <<replaced, fibers, held, silent>>
      /\ puts' = (puts \ {}) \cup Sent(AckDue(stream.next) \cup Again)
  BY DEF HearKick, Receive
<1>2. TypeOK /\ HeardEvent \in EventsOf(chan[stream.uid]) /\ stream.uid \in Uid /\ w \in Watch
  BY <1>1, HeardEventOf, StreamFields DEF NumberInv, StatusInv, Event
<1>3. w \notin Pending(puts)
  BY <1>1, <1>2 DEF RegistryInv, KicksSettled
<1>4. Listener \subseteq {w} /\ Listener \subseteq outSubs
  BY <1>1, <1>2, ListenerIsMine DEF Watch, Listener
<1>5. Pending(puts) \subseteq Pending(puts')
  BY <1>1 DEF Pending
<1>6. Entries(outSubs, fibers, replaced, caller, held, silent) /\ FibersPending
  BY DEF RegistryInv
<1>7. Again = {NewRequest("watch", e.arg) : e \in {l \in Listener : l.arg \in Resub}}
  BY DEF Again
<1> HIDE DEF w, Listener, Again
<1>8. CASE Again = {}
  <2>1. \A e \in Listener : e.arg \notin Resub
    BY <1>7, <1>8
  <2>2. \A s \in Sub : caller'[s] = IF \E e \in Listener : e.arg = s THEN "over" ELSE caller[s]
    BY <1>1, <2>1
  <2>3. "over" \in CallerWord /\ "over" # "open"
    BY DEF CallerWord
  <2>4. /\ Listener \in SUBSET outSubs /\ outSubs' = outSubs \ Listener
        /\ UNCHANGED <<replaced, fibers, held, silent>>
    BY <1>1, <1>4, <1>8
  <2> QED
    BY <1>5, <2>2, <2>3, <2>4, EntriesLeave
<1>9. CASE Again # {}
  <2> DEFINE n == NewRequest("watch", w.arg)
  <2>1. Listener = {w} /\ w.arg \in Resub /\ w \in outSubs /\ Again = {n} /\ w.arg \in Sub
    <3>1. PICK l \in Listener : l.arg \in Resub
      BY <1>7, <1>9
    <3>2. l = w /\ Listener = {w} /\ w.arg \in Resub /\ w \in outSubs
      BY <1>4, <3>1
    <3> HIDE DEF n
    <3>3. {x \in Listener : x.arg \in Resub} = {w}
      BY <3>2
    <3>4. Again = {n}
      BY <1>7, <3>3 DEF n
    <3>5. w.arg \in Sub
      BY <1>2 DEF Watch
    <3> QED
      BY <3>2, <3>4, <3>5
  <2>2. n.arg = w.arg
    BY DEF NewRequest
  <2> HIDE DEF n
  <2>3. outSubs' = (outSubs \ {w}) \cup {n} /\ \A s \in Sub : caller'[s] = caller[s]
    BY <1>1, <2>1
  <2>4. w \notin fibers[w.arg]
    BY <1>3, <1>6, <2>1 DEF FibersPending
  <2>5. caller[w.arg] = "open" /\ (fibers[w.arg] = {} \/ (held[w.arg] # 0 /\ fibers[w.arg] \subseteq replaced))
    BY <1>6, <2>1, <2>4 DEF Entries
  <2>6. \A e \in outSubs \ {w} : e.arg # w.arg /\ e.arg \in Sub
    BY <1>6, <2>1, EntryIds DEF Entries, Watch
  <2>7. \A e, f \in outSubs' : e.arg = f.arg => e = f
    BY <1>6, <2>2, <2>3, <2>6 DEF Entries
  <2>8. \A e \in outSubs' : /\ caller'[e.arg] = "open"
                            /\ \/ fibers'[e.arg] = {}
                               \/ e \in fibers'[e.arg] /\ fibers'[e.arg] \subseteq replaced' \cup {e}
                               \/ held'[e.arg] # 0 /\ fibers'[e.arg] \subseteq replaced'
    <3>1. ASSUME NEW e \in outSubs \ {w}
          PROVE  /\ caller[e.arg] = "open" /\ e.arg \in Sub
                 /\ \/ fibers[e.arg] = {}
                    \/ e \in fibers[e.arg] /\ fibers[e.arg] \subseteq replaced \cup {e}
                    \/ held[e.arg] # 0 /\ fibers[e.arg] \subseteq replaced
      BY <1>6, <2>6 DEF Entries
    <3> QED
      BY <1>1, <2>1, <2>2, <2>3, <2>5, <3>1
  <2>9. ASSUME NEW s \in Sub, caller'[s] = "open", \A e \in outSubs' : e.arg # s
        PROVE  s \in silent' \/ (fibers'[s] # {} /\ fibers'[s] \subseteq replaced' /\ held'[s] = 0)
    <3>1. caller[s] = "open" /\ \A e \in outSubs : e.arg # s
      BY <2>2, <2>3, <2>9
    <3> QED
      BY <1>1, <1>6, <3>1 DEF Entries
  <2>10. \A s \in Sub : fibers'[s] \subseteq Pending(puts')
    BY <1>1, <1>5, <1>6 DEF FibersPending
  <2> QED
    BY <2>7, <2>8, <2>9, <2>10 DEF RegistryKept, Entries
<1> QED
  BY <1>8, <1>9

(* A rotation replays the entries kept, each under its call. *)
LEMMA ResetRegisters ==
    ASSUME NumberInv, RegistryInv, SeamlessReset
    PROVE  RegistryKept
<1> USE DEF ReplayRepl
<1>1. TypeOK /\ CallersTypeOK /\ uid \in Nat
  BY DEF NumberInv, StatusInv, TypeOK, ClientTypeOK, Uid
<1>2. /\ SubscribesEnd(Replays, ReplayFibers, ReplayRepl, ResetCall, Aborted, Aborted)
      /\ puts' = {x \in puts : x.phase = "sent"} \cup Sent(Replays)
  BY <1>1, ResetIs
<1>3. Entries(outSubs, fibers, replaced, caller, held, silent) /\ FibersPending
  BY DEF RegistryInv
<1>4. \A e \in outSubs : e.arg \in Sub /\ e \notin replaced
  BY EntryIds DEF Watch
<1>5. /\ KeptSubs \subseteq outSubs
      /\ \A e \in KeptSubs : Replay(e).arg = e.arg
      /\ \A r \in Replays : \E e \in KeptSubs : r = Replay(e)
      /\ \A e \in KeptSubs : Replay(e) \in Replays
  BY ReplayFields DEF KeptSubs, Replays
<1>6. Replays \in SUBSET Watch /\ \A r \in Replays : r.id # 0 /\ r.uid = uid + 1
  <2>1. outSubs' \subseteq Watch /\ wire' = wire \cup Replays /\ wire' \subseteq Request
    BY <1>1, ResetIs, SeamlessResetTyped DEF TypeOK, CallersTypeOK, ShipTypeOK
  <2>2. \A r \in Replays : r \in Request /\ r.kind = "watch" /\ r.id > 0 /\ r.id \in Nat /\ r.uid = uid + 1
    BY <2>1, ReplaysNumbered
  <2> QED
    BY <2>2 DEF Request, Watch
<1>7. Replays \cap ReplayRepl = {}
  <2>1. \A e \in ReplayRepl : e.uid <= uid /\ e.uid \in Nat
    <3>1. ReplayRepl \subseteq Watch /\ \A e \in Watch : e.uid \in Nat
      BY <1>1, EntryIds DEF CallersTypeOK, KeptSubs, Watch, Uid
    <3> QED
      BY <1>1, <1>5, <3>1 DEF NumberInv, OnCurrent
  <2> QED
    BY <1>1, <1>6, <2>1
<1>8. \A s \in Sub : /\ ReplayFibers[s] = fibers[s] \cup {Replay(e) : e \in KeptSubs \cap fibers[s]}
                     /\ ResetCall[s] = IF \E e \in outSubs \ KeptSubs : e.arg = s
                                       THEN "over" ELSE caller[s]
  BY DEF ReplayFibers, ResetCall
<1>9. \A r, q \in Replays : r.arg = q.arg => r = q
  BY <1>3, <1>5 DEF Entries
<1>10. ASSUME NEW r \in Replays
       PROVE  /\ ResetCall[r.arg] = "open"
              /\ \/ ReplayFibers[r.arg] = {}
                 \/ r \in ReplayFibers[r.arg] /\ ReplayFibers[r.arg] \subseteq ReplayRepl \cup {r}
                 \/ held[r.arg] # 0 /\ ReplayFibers[r.arg] \subseteq ReplayRepl
  <2>1. PICK e \in KeptSubs : r = Replay(e) /\ r.arg = e.arg
    BY <1>5
  <2> DEFINE s == e.arg
  <2>2. s \in Sub /\ e \in outSubs /\ e \notin replaced /\ caller[s] = "open"
    BY <1>3, <1>4, <1>5 DEF Entries
  <2>3. ResetCall[s] = "open"
    BY <1>3, <1>8, <2>2 DEF Entries
  <2>4. ReplayFibers[s] = fibers[s] \cup {Replay(f) : f \in KeptSubs \cap fibers[s]}
    BY <1>8, <2>2
  <2>5. CASE fibers[s] = {}
    BY <2>1, <2>3, <2>4, <2>5
  <2>6. CASE e \in fibers[s] /\ fibers[s] \subseteq replaced \cup {e}
    <3>1. KeptSubs \cap fibers[s] = {e}
      BY <1>4, <1>5, <2>6
    <3>2. e \in Pending(puts)
      BY <1>3, <2>2, <2>6 DEF FibersPending
    <3>3. ReplayFibers[s] = fibers[s] \cup {r}
      BY <2>1, <2>4, <3>1
    <3> QED
      BY <2>1, <2>3, <2>6, <3>2, <3>3
  <2>7. CASE held[s] # 0 /\ fibers[s] \subseteq replaced
    <3>1. KeptSubs \cap fibers[s] = {}
      BY <1>4, <1>5, <2>7
    <3> QED
      BY <2>1, <2>3, <2>4, <2>7, <3>1
  <2> QED
    BY <1>3, <2>2, <2>5, <2>6, <2>7 DEF Entries
<1>11. ASSUME NEW s \in Sub, ResetCall[s] = "open", \A r \in Replays : r.arg # s
       PROVE  \/ s \in silent
              \/ ReplayFibers[s] # {} /\ ReplayFibers[s] \subseteq ReplayRepl /\ held[s] = 0
  <2>1. caller[s] = "open" /\ \A e \in outSubs : e.arg # s
    BY <1>5, <1>8, <1>11
  <2>2. s \in silent \/ (fibers[s] # {} /\ fibers[s] \subseteq replaced /\ held[s] = 0)
    BY <1>3, <2>1 DEF Entries
  <2>3. fibers[s] \subseteq replaced => KeptSubs \cap fibers[s] = {}
    BY <1>4, <1>5
  <2> QED
    BY <1>8, <2>2, <2>3
<1> HIDE DEF ReplayRepl
<1>12. Entries(Replays, ReplayFibers, ReplayRepl, ResetCall, held, silent)
  BY <1>9, <1>10, <1>11 DEF Entries
<1>13. Entries(outSubs', fibers', replaced', caller', held', silent')
  <2>1. \A e \in Replays : e.id # 0
    BY <1>6
  <2> QED
    BY <1>1, <1>2, <1>6, <1>7, <1>12, <2>1, EndKeepsEntries
<1>14. ASSUME NEW s \in Sub PROVE fibers'[s] \subseteq Pending(puts')
  <2>1. fibers'[s] = ReplayFibers[s] \ Aborted
    BY <1>2 DEF SubscribesEnd
  <2>2. ReplayFibers[s] \subseteq Pending(puts) \cup Replays
    BY <1>3, <1>5, <1>8 DEF FibersPending
  <2>3. Pending(puts) \ Aborted \subseteq Pending({x \in puts : x.phase = "sent"})
    BY DEF Pending, Aborted
  <2>4. Pending(puts') = Pending({x \in puts : x.phase = "sent"}) \cup Replays
    <3>1. Pending(Sent(Replays)) = Replays
      BY PendingOf
    <3>2. Pending(puts') = Pending({x \in puts : x.phase = "sent"}) \cup Pending(Sent(Replays))
      BY <1>2, PendingOf
    <3> QED
      BY <3>1, <3>2
  <2> QED
    BY <2>1, <2>2, <2>3, <2>4
<1> QED
  BY <1>13, <1>14 DEF RegistryKept

LEMMA StepRegisters ==
    ASSUME ~StaleUnsubs, NumberInv, RegistryInv, [Next]_vars
    PROVE  RegistryKept
<1>1. ASSUME SubsUnchanged, Pending(puts) \subseteq Pending(puts') PROVE RegistryKept
  BY <1>1, CallsSame DEF SubsUnchanged
<1>2. CASE UNCHANGED vars \/ Arrivals \/ Agents
  <2>1. UNCHANGED <<client, callers>>
    BY <1>2 DEF Arrivals, ArrivePoke, ArriveWatch, ArriveUnsub, ArriveAck, Accept, Agents, Reap,
                Emit, Kick, vars
  <2>2. SubsUnchanged /\ puts' = puts
    BY <2>1 DEF client, callers, SubsUnchanged
  <2> QED
    BY <1>1, <2>2
<1>3. ASSUME NEW p \in Poke, DoPoke(p) PROVE RegistryKept
  <2>1. SubsUnchanged /\ puts \subseteq puts'
    BY <1>3 DEF DoPoke
  <2> QED
    BY <1>1, <2>1 DEF Pending
<1>4. ASSUME NEW x \in puts, PutOk(x) \/ PutOpensStream(x) \/ PutSaysHi(x) \/ PutFail(x)
      PROVE  RegistryKept
  <2>1. CASE PutOk(x)
    <3>1. Pending({x}) = {x.req}
      BY DEF Pending
    <3>2. Settle({x.req}, {}) /\ puts' = puts \ {x}
      BY <2>1 DEF PutOk
    <3>3. Pending(puts) \ {x.req} \subseteq Pending(puts')
      BY <3>1, <3>2, PutsLeft
    <3> QED
      BY <3>2, <3>3, SettleKeepsRegistry
  <2>2. CASE PutFail(x)
    <3>1. PICK gone : Settle(Pending(gone), Pending(gone)) /\ puts' = puts \ gone
      BY <2>2 DEF PutFail
    <3>2. Pending(puts) \ Pending(gone) \subseteq Pending(puts')
      BY <3>1, PutsLeft
    <3> QED
      BY <3>1, <3>2, SettleKeepsRegistry
  <2>3. CASE PutOpensStream(x) \/ PutSaysHi(x)
    <3>1. /\ SubsUnchanged /\ puts \ {x} \subseteq puts'
          /\ \E y \in puts' : y = [x EXCEPT !.phase = "opening"] \/ y = [x EXCEPT !.phase = "hello"]
      BY <2>3 DEF PutOpensStream, PutSaysHi
    <3>2. /\ [x EXCEPT !.phase = "opening"].req = x.req
          /\ [x EXCEPT !.phase = "hello"].req = x.req
      BY DEF NumberInv, StatusInv, TypeOK, ClientTypeOK, Put
    <3>3. Pending(puts) \subseteq Pending(puts')
      BY <3>1, <3>2 DEF Pending
    <3> QED
      BY <1>1, <3>1, <3>3
  <2> QED
    BY <1>4, <2>1, <2>2, <2>3
<1>5. ASSUME NEW e \in outPokes, PokeTimeout(e) PROVE RegistryKept
  <2>1. PICK gone : Settle(Pending(gone), Pending(gone)) /\ puts' = puts \ gone
    BY <1>5 DEF PokeTimeout
  <2>2. Pending(puts) \ Pending(gone) \subseteq Pending(puts')
    BY <2>1, PutsLeft
  <2> QED
    BY <2>1, <2>2, SettleKeepsRegistry
<1>6. CASE StreamOpen
  <2>1. PICK gone : Settle(Pending(gone), {}) /\ puts' = puts \ gone
    BY <1>6 DEF StreamOpen
  <2>2. Pending(puts) \ Pending(gone) \subseteq Pending(puts')
    BY <2>1, PutsLeft
  <2> QED
    BY <2>1, <2>2, SettleKeepsRegistry
<1>7. CASE StreamBreak \/ StreamTear
  BY <1>1, <1>7 DEF StreamBreak, StreamTear, Reconnect
<1>8. CASE HearOld
  BY <1>1, <1>8 DEF HearOld
<1>9. CASE HearFact
  <2>1. SubsUnchanged /\ puts' = (puts \ {}) \cup Sent(AckDue(stream.next) \cup {})
    BY <1>9 DEF HearFact, Receive
  <2>2. Pending(puts) \subseteq Pending(puts')
    BY <2>1 DEF Pending
  <2> QED
    BY <1>1, <2>1, <2>2
<1>10. CASE HearPokeAnswer
  <2>1. PICK gone : /\ Settle(Pending(gone), {})
                    /\ puts' = (puts \ gone) \cup Sent(AckDue(stream.next) \cup {})
    BY <1>10 DEF HearPokeAnswer, Receive
  <2>2. Pending(puts) \ Pending(gone) \subseteq Pending(puts \ gone)
    BY PutsLeft
  <2>3. Pending(puts \ gone) \subseteq Pending(puts')
    BY <2>1 DEF Pending
  <2> QED
    BY <2>1, <2>2, <2>3, SettleKeepsRegistry
<1> QED
  BY <1>2, <1>3, <1>4, <1>5, <1>6, <1>7, <1>8, <1>9, <1>10, SubscribeRegisters,
     UnsubscribeRegisters, RefusedRegisters, KickRegisters, ResetRegisters
  DEF Next, Callers, Responses, Timeouts, Connection, StreamReaped, Rotate, Hearing

LEMMA RegistryStep ==
    ASSUME ~EarlyKicks, ~StaleUnsubs, NumberInv, RegistryInv, [Next]_vars
    PROVE  RegistryInv'
<1>1. RegistryKept
  BY StepRegisters
<1>2. KicksSettled'
  BY StepSends, KicksKept, KicksReset DEF RegistryInv
<1>3. FibersPending'
  BY <1>1, PendingStep DEF RegistryKept, FibersPending
<1> QED
  BY <1>1, <1>2, <1>3 DEF RegistryInv, RegistryKept, Entries

LEMMA RegistryInit == Init => RegistryInv
<1> SUFFICES ASSUME Init PROVE RegistryInv
  OBVIOUS
<1>1. /\ outSubs = {} /\ puts = {}
      /\ \A s \in Sub : fibers[s] = {} /\ caller[s] # "open"
  BY DEF Init
<1> QED
  BY <1>1 DEF RegistryInv, Entries, FibersPending, KicksSettled, Pending

(* The registry agrees with what the callers were told, through failed     *)
(* PUTs, refusals, quits and rotations (outstandingSubscriptions and       *)
(* replayedSubscriptions).  Two hazards break it and are left out: a quit  *)
(* that overtakes the response to its own subscribe PUT, and an            *)
(* unsubscribe by an id of an older channel.                               *)
THEOREM RegistryCorrect ==
    ASSUME ~EarlyKicks, ~StaleUnsubs PROVE Spec => []RegistryAsTold
<1> DEFINE IInv == NumberInv /\ RegistryInv
<1>1. Init => IInv
  BY NumberInit, RegistryInit
<1>2. IInv /\ [Next]_vars => IInv'
  BY NumberStep, RegistryStep
<1>3. IInv => RegistryAsTold
  <2> SUFFICES ASSUME NumberInv, RegistryInv PROVE RegistryAsTold
    OBVIOUS
  <2>1. Entries(outSubs, fibers, replaced, caller, held, silent)
    BY DEF RegistryInv
  <2> QED
    BY <2>1, EntryIds DEF Entries, RegistryAsTold
<1> QED
  BY <1>1, <1>2, <1>3, PTL DEF Spec

-----------------------------------------------------------------------------
(* The ship, when no connection breaks inside an event, a reaped channel   *)
(* stays so and nobody unsubscribes by an id of an older channel.          *)

(* The end of the subscription is logged where the client has yet to hear. *)
EndLogged(c, e) ==
    \E n \in lastHeard + 2 .. Len(c.log) : c.log[n].req = e /\ c.log[n].kind \in {"refused", "kick"}

HeardLogged == lastHeard + 1 <= Len(chan[uid].log)

(* An entry is on its way, watched, or about to be ended... *)
EntriesWatched ==
    chan[uid].state # "reaped" =>
       \A e \in outSubs : e \in wire \/ e \in chan[uid].watches \/ EndLogged(chan[uid], e)

(* ...its PUT is pending while it is on its way... *)
OnItsWay ==
    /\ \A e \in outSubs \cap wire : e \in Pending(puts)
    /\ \A r \in taken : r.kind = "watch" => r \notin wire
    /\ \A x \in puts : x.phase # "sent" /\ x.req.kind = "watch" => x.req \notin wire

(* ...and what is unsubscribed is no entry, now or later. *)
UnsubsGone ==
    \A r \in wire : r.kind = "unsub" /\ r.uid = uid =>
       r.arg <= lastEventId /\ \A e \in outSubs : e.id # r.arg

ShipInv == HeardLogged /\ EntriesWatched /\ OnItsWay /\ UnsubsGone

LEMMA LoggedAt ==
    ASSUME NEW c \in Channel, NEW kind, NEW r, [kind |-> kind, req |-> r] \in Event
    PROVE  /\ Len(Logged(c, kind, r).log) = Len(c.log) + 1 /\ Len(c.log) \in Nat
           /\ Logged(c, kind, r).log[Len(c.log) + 1] = [kind |-> kind, req |-> r]
           /\ \A n \in 1 .. Len(c.log) : Logged(c, kind, r).log[n] = c.log[n]
<1> DEFINE e == [kind |-> kind, req |-> r]
<1>1. c.log \in Seq(Event) /\ e \in Event
  BY ChannelFields
<1>2. Logged(c, kind, r).log = Append(c.log, e)
  BY DEF Logged, Channel
<1>3. /\ Len(Append(c.log, e)) = Len(c.log) + 1 /\ Len(c.log) \in Nat
      /\ Append(c.log, e)[Len(c.log) + 1] = e
      /\ \A n \in 1 .. Len(c.log) : Append(c.log, e)[n] = c.log[n]
  BY <1>1
<1> HIDE DEF e
<1>4. Len(Logged(c, kind, r).log) = Len(c.log) + 1 /\ Logged(c, kind, r).log[Len(c.log) + 1] = e
  BY <1>2, <1>3
<1>5. \A n \in 1 .. Len(c.log) : Logged(c, kind, r).log[n] = c.log[n]
  BY <1>2, <1>3
<1> QED
  BY <1>3, <1>4, <1>5 DEF e

(* What was logged stays, and an end just logged is still to be heard. *)
LEMMA LoggedEnds ==
    ASSUME NEW c \in Channel, NEW kind, NEW r, [kind |-> kind, req |-> r] \in Event,
           lastHeard \in Nat \cup {-1}, lastHeard + 1 <= Len(c.log)
    PROVE  /\ lastHeard + 1 <= Len(Logged(c, kind, r).log)
           /\ \A e : EndLogged(c, e) => EndLogged(Logged(c, kind, r), e)
           /\ kind \in {"refused", "kick"} => EndLogged(Logged(c, kind, r), r)
<1> DEFINE d == Logged(c, kind, r)
<1>1. /\ Len(d.log) = Len(c.log) + 1 /\ Len(c.log) \in Nat
      /\ d.log[Len(c.log) + 1].kind = kind /\ d.log[Len(c.log) + 1].req = r
      /\ \A n \in 1 .. Len(c.log) : d.log[n] = c.log[n]
  BY LoggedAt
<1> HIDE DEF d
<1>2. ASSUME NEW e, EndLogged(c, e) PROVE EndLogged(d, e)
  <2>1. PICK n \in lastHeard + 2 .. Len(c.log) : c.log[n].req = e /\ c.log[n].kind \in {"refused", "kick"}
    BY <1>2 DEF EndLogged
  <2>2. n \in 1 .. Len(c.log) /\ n \in lastHeard + 2 .. Len(d.log)
    BY <1>1, <2>1
  <2> QED
    BY <1>1, <2>1, <2>2 DEF EndLogged
<1>3. ASSUME kind \in {"refused", "kick"} PROVE EndLogged(d, r)
  <2>1. Len(c.log) + 1 \in lastHeard + 2 .. Len(d.log)
    BY <1>1
  <2> QED
    BY <1>1, <1>3, <2>1 DEF EndLogged
<1>4. lastHeard + 1 <= Len(d.log)
  BY <1>1
<1> QED
  BY <1>2, <1>3, <1>4 DEF d

(* The fresh requests are not among those the ship and the client know. *)
LEMMA NewIsNew ==
    ASSUME NumberInv, NEW r \in Request, r.kind # "ack", r.uid = uid, r.id > lastEventId
    PROVE  ~Around(r)
BY DEF NumberInv, IdsInOrder, Numbered, StatusInv, TypeOK, ClientTypeOK, Request

(* The client sends on the same channel, and hears nothing. *)
LEMMA SendingShip ==
    ASSUME NumberInv, ShipInv, NEW new \in SUBSET Request, NextIds(new),
           UNCHANGED <<uid, lastHeard, chan[uid].log, chan[uid].state, chan[uid].watches>>,
           wire' = wire \cup new, taken' \subseteq taken,
           outSubs' \subseteq outSubs \cup {r \in new : r.kind = "watch"},
           \A e \in outSubs' \cap wire : e \in Pending(puts) => e \in Pending(puts'),
           \A e \in outSubs' \cap new : e \in Pending(puts'),
           \A x \in puts' : x.phase # "sent" =>
              x.req \in taken \/ \E y \in puts : y.req = x.req /\ y.phase # "sent",
           \A r \in new : r.kind = "unsub" =>
              r.arg <= lastEventId /\ \A e \in outSubs' : e.id # r.arg
    PROVE  ShipInv'
<1>1. /\ HeardLogged /\ EntriesWatched /\ OnItsWay /\ UnsubsGone
      /\ lastEventId \in Nat /\ lastEventId' \in Nat /\ lastEventId' >= lastEventId
      /\ wire \subseteq Request
  BY DEF ShipInv, NextIds, NumberInv, StatusInv, TypeOK, ClientTypeOK, ShipTypeOK
<1>2. HeardLogged'
  BY <1>1 DEF HeardLogged
<1>3. EntriesWatched'
  BY <1>1 DEF EntriesWatched, EndLogged
<1>4. ASSUME NEW r \in new, r.kind # "ack" PROVE ~Around(r) /\ r.id = lastEventId + 1
  BY <1>1, <1>4, NewIsNew DEF NextIds
<1>5. OnItsWay'
  <2>1. \A e \in outSubs' \cap wire' : e \in Pending(puts')
    <3> SUFFICES ASSUME NEW e \in outSubs', e \in wire, e \notin new PROVE e \in Pending(puts')
      OBVIOUS
    <3> QED
      BY <1>1 DEF OnItsWay
  <2>2. \A r \in taken' : r.kind = "watch" => r \notin wire'
    BY <1>1, <1>4 DEF OnItsWay, Around
  <2>3. ASSUME NEW x \in puts', x.phase # "sent", x.req.kind = "watch" PROVE x.req \notin wire'
    <3>1. x.req \in taken \/ \E y \in puts : y.req = x.req /\ y.phase # "sent"
      BY <2>3
    <3>2. x.req \notin wire
      BY <1>1, <2>3, <3>1 DEF OnItsWay
    <3>3. Around(x.req)
      BY <3>1 DEF Around, Pending
    <3> QED
      BY <1>4, <2>3, <3>2, <3>3
  <2> QED
    BY <2>1, <2>2, <2>3, PendingStep DEF OnItsWay
<1>6. UnsubsGone'
  <2> SUFFICES ASSUME NEW r \in wire', r.kind = "unsub", r.uid = uid
               PROVE  r.arg <= lastEventId' /\ \A e \in outSubs' : e.id # r.arg
    BY DEF UnsubsGone
  <2>0. r \in Request /\ r.arg \in Nat
    BY <1>1 DEF Request
  <2>1. CASE r \in wire
    <3>1. r.arg <= lastEventId /\ \A e \in outSubs : e.id # r.arg
      BY <1>1, <2>1 DEF UnsubsGone
    <3>2. \A e \in outSubs' : e \notin outSubs => e.id = lastEventId + 1 \/ e.kind = "ack"
      BY <1>4
    <3>3. \A e \in outSubs' : e \in outSubs \/ e.kind # "ack"
      OBVIOUS
    <3> QED
      BY <1>1, <2>0, <3>1, <3>2, <3>3
  <2>2. CASE r \in new
    BY <1>1, <2>0, <2>2
  <2> QED
    BY <2>1, <2>2
<1> QED
  BY <1>2, <1>3, <1>5, <1>6 DEF ShipInv

(* Nothing is sent, and the PUTs that settle are not on their way. *)
LEMMA SettlingShip ==
    ASSUME NumberInv, ShipInv,
           UNCHANGED <<uid, lastEventId, lastHeard, wire, chan[uid].log, chan[uid].state, chan[uid].watches>>,
           taken' \subseteq taken, outSubs' \subseteq outSubs,
           NEW gone, puts' = puts \ gone,
           \A x \in gone : x.req \in outSubs' => x.req \notin wire
    PROVE  ShipInv'
<1>1. NextIds({}) /\ wire' = wire \cup {}
  BY DEF NextIds, NumberInv, StatusInv, TypeOK, ClientTypeOK
<1>2. \A e \in outSubs' \cap wire : e \in Pending(puts) => e \in Pending(puts')
  BY DEF Pending
<1>3. \A x \in puts' : x.phase # "sent" => \E y \in puts : y.req = x.req /\ y.phase # "sent"
  OBVIOUS
<1> QED
  BY <1>1, <1>2, <1>3, SendingShip

LEMMA QuietShip ==
    ASSUME ShipInv, UNCHANGED <<uid, lastEventId, lastHeard, outSubs, puts, wire, taken, chan>>
    PROVE  ShipInv'
<1>1. HeardLogged' /\ EntriesWatched'
  BY DEF ShipInv, HeardLogged, EntriesWatched, EndLogged
<1>2. OnItsWay' /\ UnsubsGone'
  BY PendingStep DEF ShipInv, OnItsWay, UnsubsGone
<1> QED
  BY <1>1, <1>2 DEF ShipInv

LEMMA CallersShip == ASSUME ~StaleUnsubs, NumberInv, ShipInv, Callers PROVE ShipInv'
<1>1. /\ TypeOK /\ lastEventId \in Nat /\ uid \in Uid /\ outSubs \subseteq Request
      /\ \A e \in outSubs : e.kind = "watch"
  BY WatchIsRequest DEF NumberInv, StatusInv, TypeOK, ClientTypeOK, CallersTypeOK, Watch
<1>2. ASSUME NEW r \in Request, r.uid = uid, r.id = lastEventId + 1,
             UNCHANGED <<uid, lastHeard, taken, chan>>,
             wire' = wire \cup {r}, puts' = puts \cup Sent({r}), lastEventId' = lastEventId + 1,
             outSubs' \subseteq outSubs \cup {x \in {r} : x.kind = "watch"},
             r.kind = "poke" => poke[r.arg] = "idle" /\ poke'[r.arg] # "idle",
             r.kind = "unsub" => r.arg <= lastEventId /\ \A e \in outSubs' : e.id # r.arg
      PROVE  ShipInv'
  <2>1. NextIds({r})
    BY <1>1, <1>2 DEF NextIds
  <2>2. Pending(puts') = Pending(puts) \cup {r}
    <3>1. Pending(puts \cup Sent({r})) = Pending(puts) \cup Pending(Sent({r})) /\ Pending(Sent({r})) = {r}
      BY PendingOf
    <3> QED
      BY <1>2, <3>1
  <2>3. \A x \in puts' : x.phase # "sent" => x \in puts
    BY <1>2 DEF Sent
  <2>4. UNCHANGED <<uid, lastHeard, chan[uid].log, chan[uid].state, chan[uid].watches>>
    BY <1>2
  <2>5. \A e \in outSubs' \cap {r} : e \in Pending(puts')
    BY <2>2
  <2>6. \A e \in outSubs' \cap wire : e \in Pending(puts) => e \in Pending(puts')
    BY <2>2
  <2> QED
    BY <1>2, <2>1, <2>3, <2>4, <2>5, <2>6, SendingShip
<1>3. ASSUME NEW p \in Poke, DoPoke(p) PROVE ShipInv'
  <2> DEFINE r == NewRequest("poke", p)
  <2>1. r \in Request /\ r.uid = uid /\ r.id = lastEventId + 1 /\ r.kind = "poke" /\ r.arg = p
    BY <1>1 DEF NewRequest, Request
  <2>2. poke[p] = "idle" /\ poke'[p] # "idle"
    BY <1>1, <1>3 DEF DoPoke, TypeOK
  <2> HIDE DEF r
  <2> QED
    BY <1>2, <1>3, <2>1, <2>2 DEF DoPoke, SubsUnchanged, r
<1>4. ASSUME NEW s \in Sub, Subscribe(s) PROVE ShipInv'
  <2> DEFINE r == NewRequest("watch", s)
  <2>1. r \in Request /\ r.uid = uid /\ r.id = lastEventId + 1 /\ r.kind = "watch"
    BY <1>1 DEF NewRequest, Request
  <2> HIDE DEF r
  <2> QED
    BY <1>2, <1>4, <2>1 DEF Subscribe, r
<1>5. ASSUME NEW s \in Sub, Unsubscribe(s) PROVE ShipInv'
  <2> DEFINE r == NewRequest("unsub", held[s])
  <2>1. held[s] \in Nat
    BY <1>1 DEF TypeOK, CallersTypeOK
  <2>2. r \in Request /\ r.uid = uid /\ r.id = lastEventId + 1 /\ r.kind = "unsub" /\ r.arg = held[s]
    BY <1>1, <2>1 DEF NewRequest, Request
  <2>3. PICK e \in outSubs : e.id = held[s]
    BY <1>5 DEF Unsubscribe, Names
  <2>4. held[s] <= lastEventId
    <3>1. e \in Request /\ Numbered(e) /\ e.uid = uid
      BY <1>1, <2>3 DEF Numbered, Around, NumberInv, OnCurrent
    <3> QED
      BY <2>3, <3>1 DEF NumberInv, IdsInOrder
  <2>5. \A g \in outSubs' : g \in outSubs /\ g.id # held[s]
    BY <1>5 DEF Unsubscribe, Without
  <2> HIDE DEF r
  <2> QED
    BY <1>2, <1>5, <2>2, <2>4, <2>5 DEF Unsubscribe, r
<1> QED
  BY <1>3, <1>4, <1>5 DEF Callers

(* What the ship does to the current channel leaves every entry watched,   *)
(* about to be ended, or still on its way.                                 *)
LEMMA ShipKept ==
    ASSUME NumberInv, ShipInv, UNCHANGED <<client, callers>>, wire' \subseteq wire,
           \A r \in taken' : r.kind = "watch" => r \notin wire',
           lastHeard + 1 <= Len(chan'[uid].log),
           chan'[uid].state # "reaped" =>
              \A e \in outSubs : e \in wire' \/ e \in chan'[uid].watches \/ EndLogged(chan'[uid], e)
    PROVE  ShipInv'
<1>1. UNCHANGED <<uid, lastHeard, lastEventId, outSubs, puts>>
  BY DEF client, callers
<1>2. HeardLogged'
  BY <1>1 DEF HeardLogged
<1>3. EntriesWatched'
  BY <1>1 DEF EntriesWatched, EndLogged
<1>4. OnItsWay' /\ UnsubsGone'
  BY <1>1, PendingStep DEF ShipInv, OnItsWay, UnsubsGone
<1> QED
  BY <1>2, <1>3, <1>4 DEF ShipInv

LEMMA AcceptShip ==
    ASSUME ~LatePuts, NumberInv, FeedInv, ShipInv, NEW r \in wire, Reachable(r), NEW c, Accept(r, c),
           LET o == Opened(r.uid)
           IN  r.uid = uid /\ lastHeard + 1 <= Len(o.log) =>
                  /\ lastHeard + 1 <= Len(c.log)
                  /\ \A e \in outSubs : e = r \/ e \in o.watches \/ EndLogged(o, e) =>
                        e \in c.watches \/ EndLogged(c, e)
    PROVE  ShipInv'
<1>1. /\ uid \in Uid /\ r.uid \in Uid /\ chan \in [Uid -> Channel]
      /\ lastHeard + 1 <= Len(chan[uid].log)
      /\ \A e \in outSubs : e.uid = uid
  BY DEF NumberInv, StatusInv, TypeOK, ClientTypeOK, ShipTypeOK, Request, ShipInv, HeardLogged, OnCurrent
<1>2. /\ UNCHANGED <<client, callers>> /\ wire' = wire \ {r} /\ taken' \subseteq taken \cup {r}
      /\ chan' = [chan EXCEPT ![r.uid] = c]
  BY DEF Accept
<1>3. \A x \in taken' : x.kind = "watch" => x \notin wire'
  BY <1>2 DEF ShipInv, OnItsWay
<1>4. CASE r.uid # uid
  <2>1. chan'[uid] = chan[uid]
    BY <1>1, <1>2, <1>4
  <2>2. \A e \in outSubs : e # r
    BY <1>1, <1>4
  <2>3. chan'[uid].state # "reaped" =>
           \A e \in outSubs : e \in wire' \/ e \in chan'[uid].watches \/ EndLogged(chan'[uid], e)
    BY <1>2, <2>1, <2>2 DEF ShipInv, EntriesWatched
  <2> QED
    BY <1>1, <1>2, <1>3, <2>1, <2>3, ShipKept
<1>5. CASE r.uid = uid
  <2> DEFINE o == Opened(uid)
  <2>1. chan'[uid] = c /\ chan[uid] \in Channel /\ chan[uid].state # "reaped"
    BY <1>1, <1>2, <1>5 DEF Reachable
  <2>2. Len(o.log) = Len(chan[uid].log) /\ o.log = chan[uid].log /\ o.watches = chan[uid].watches
    <3>1. CASE chan[uid].state = "live"
      BY <3>1 DEF Opened
    <3>2. CASE chan[uid].state = "new"
      <4>1. chan[uid].log = <<>> /\ chan[uid].watches = {}
        BY <1>1, <3>2 DEF FeedInv, NewIsEmpty, WatchesAtHome
      <4>2. o.log = <<>> /\ o.watches = {}
        BY <3>2 DEF Opened, FreshChannel
      <4> QED
        BY <4>1, <4>2
    <3> QED
      BY <2>1, <3>1, <3>2, ChannelFields
  <2>3. \A e : EndLogged(o, e) <=> EndLogged(chan[uid], e)
    BY <2>2 DEF EndLogged
  <2> HIDE DEF o
  <2>4. /\ lastHeard + 1 <= Len(c.log)
        /\ \A e \in outSubs : e = r \/ e \in o.watches \/ EndLogged(o, e) =>
              e \in c.watches \/ EndLogged(c, e)
    BY <1>1, <1>5, <2>2 DEF o
  <2>5. \A e \in outSubs : e \in wire' \/ e = r \/ e \in o.watches \/ EndLogged(o, e)
    BY <1>2, <2>1, <2>2, <2>3 DEF ShipInv, EntriesWatched
  <2>6. \A e \in outSubs : e \in wire' \/ e \in chan'[uid].watches \/ EndLogged(chan'[uid], e)
    BY <2>1, <2>4, <2>5
  <2> QED
    BY <1>2, <1>3, <2>1, <2>4, <2>6, ShipKept
<1> QED
  BY <1>4, <1>5

LEMMA ArrivalsShip ==
    ASSUME ~LatePuts, NumberInv, FeedInv, ShipInv, Arrivals
    PROVE  ShipInv'
<1> SUFFICES ASSUME NEW r \in wire,
                    ArrivePoke(r) \/ ArriveWatch(r) \/ ArriveUnsub(r) \/ ArriveAck(r)
             PROVE  ShipInv'
  BY DEF Arrivals
<1> DEFINE o == Opened(r.uid)
<1>1. /\ r \in Request /\ r.uid \in Uid /\ o \in Channel /\ Reachable(r)
      /\ lastHeard \in Nat \cup {-1} /\ \A e \in outSubs : e.kind = "watch"
  BY OpenedTyped DEF NumberInv, StatusInv, TypeOK, ClientTypeOK, CallersTypeOK, ShipTypeOK, Request, Watch,
                     ArrivePoke, ArriveWatch, ArriveUnsub, ArriveAck
<1> HIDE DEF o
<1>2. ASSUME NEW c, Accept(r, c),
             r.uid = uid /\ lastHeard + 1 <= Len(o.log) =>
                /\ lastHeard + 1 <= Len(c.log)
                /\ \A e \in outSubs : e = r \/ e \in o.watches \/ EndLogged(o, e) =>
                      e \in c.watches \/ EndLogged(c, e)
      PROVE  ShipInv'
  BY <1>1, <1>2, AcceptShip DEF o
<1>3. ASSUME NEW kind, [kind |-> kind, req |-> r] \in Event, Accept(r, Logged(o, kind, r)),
             kind = "refused" \/ r.kind = "poke"
      PROVE  ShipInv'
  <2> DEFINE c == Logged(o, kind, r)
  <2>1. c.watches = o.watches /\ Accept(r, c)
    BY <1>1, <1>3, LoggedIs
  <2>2. lastHeard + 1 <= Len(o.log) =>
           /\ lastHeard + 1 <= Len(c.log)
           /\ \A e : EndLogged(o, e) => EndLogged(c, e)
           /\ kind \in {"refused", "kick"} => EndLogged(c, r)
    BY <1>1, <1>3, LoggedEnds
  <2>3. r.kind = "poke" => r \notin outSubs
    BY <1>1
  <2> HIDE DEF c
  <2> QED
    BY <1>2, <1>3, <2>1, <2>2, <2>3
<1>4. ASSUME NEW c, Accept(r, c), c.log = o.log,
             \A e \in outSubs : e = r \/ e \in o.watches => e \in c.watches
      PROVE  ShipInv'
  <2>1. \A e : EndLogged(o, e) <=> EndLogged(c, e)
    BY <1>4 DEF EndLogged
  <2>2. Len(o.log) = Len(c.log)
    BY <1>4
  <2> QED
    BY <1>2, <1>4, <2>1, <2>2
<1>5. CASE ArrivePoke(r)
  <2>1. PICK word \in {"ack", "nack"} : Accept(r, Logged(o, word, r))
    BY <1>5 DEF ArrivePoke, o
  <2>2. [kind |-> word, req |-> r] \in Event /\ r.kind = "poke"
    BY <1>1, <1>5 DEF Event, ArrivePoke
  <2> QED
    BY <1>3, <2>1, <2>2
<1>6. CASE ArriveWatch(r)
  <2>1. r \in Watch /\ [kind |-> "refused", req |-> r] \in Event
    BY <1>1, <1>6 DEF ArriveWatch, Request, Watch, Event
  <2>2. CASE Accept(r, [o EXCEPT !.watches = o.watches \cup {r}])
    <3> DEFINE c == [o EXCEPT !.watches = o.watches \cup {r}]
    <3>1. o.watches \cup {r} \in SUBSET Watch
      BY <1>1, <2>1, ChannelFields
    <3>2. c.log = o.log /\ c.watches = o.watches \cup {r} /\ Accept(r, c)
      BY <1>1, <2>2, <3>1, WatchesTyped
    <3> HIDE DEF c
    <3> QED
      BY <1>4, <3>2
  <2>3. CASE Accept(r, Logged(o, "refused", r))
    BY <1>3, <2>1, <2>3
  <2> QED
    BY <1>6, <2>2, <2>3 DEF ArriveWatch, o
<1>7. CASE ArriveUnsub(r)
  <2> DEFINE left == {w \in o.watches : w.id # r.arg}
             c    == [o EXCEPT !.watches = left]
  <2>1. left \in SUBSET Watch /\ Accept(r, c) /\ r.kind = "unsub"
    BY <1>1, <1>7, ChannelFields DEF ArriveUnsub, o
  <2>2. c.log = o.log /\ c.watches = left
    BY <1>1, <2>1, WatchesTyped
  <2>3. r.uid = uid => \A e \in outSubs : e # r /\ e.id # r.arg
    BY <1>1, <2>1 DEF ShipInv, UnsubsGone
  <2>4. r.uid = uid => \A e \in outSubs : e = r \/ e \in o.watches => e \in left
    BY <2>3
  <2> HIDE DEF c, left
  <2>5. \A e : EndLogged(o, e) <=> EndLogged(c, e)
    BY <2>2 DEF EndLogged
  <2>6. Len(o.log) = Len(c.log)
    BY <2>2
  <2> QED
    BY <1>2, <2>1, <2>2, <2>4, <2>5, <2>6
<1>8. CASE ArriveAck(r)
  <2> DEFINE c == Flushed(o, r.arg)
  <2>1. r.arg \in Nat /\ Accept(r, c) /\ r.kind = "ack"
    BY <1>1, <1>8 DEF ArriveAck, Request, o
  <2>2. c.log = o.log /\ c.watches = o.watches
    BY <1>1, <2>1, FlushedIs
  <2> HIDE DEF c
  <2> QED
    BY <1>1, <1>4, <2>1, <2>2
<1> QED
  BY <1>5, <1>6, <1>7, <1>8

LEMMA AgentsShip ==
    ASSUME NumberInv, ShipInv, Agents
    PROVE  ShipInv'
<1>1. /\ uid \in Uid /\ chan[uid] \in Channel /\ chan \in [Uid -> Channel]
      /\ lastHeard \in Nat \cup {-1} /\ lastHeard + 1 <= Len(chan[uid].log)
  BY DEF NumberInv, StatusInv, TypeOK, ClientTypeOK, ShipTypeOK, ShipInv, HeardLogged
<1>2. ASSUME NEW c, chan' = [chan EXCEPT ![uid] = c], UNCHANGED <<client, callers, wire, taken>>,
             lastHeard + 1 <= Len(c.log),
             c.state # "reaped" =>
                \A e \in outSubs : e \in wire \/ e \in c.watches \/ EndLogged(c, e)
      PROVE  ShipInv'
  <2>1. chan'[uid] = c
    BY <1>1, <1>2
  <2>2. \A r \in taken' : r.kind = "watch" => r \notin wire'
    BY <1>2 DEF ShipInv, OnItsWay
  <2> QED
    BY <1>2, <2>1, <2>2, ShipKept
<1>3. CASE Reap(uid)
  <2> DEFINE c == [chan[uid] EXCEPT !.state = "reaped", !.watches = {}]
  <2>1. c.log = chan[uid].log /\ c.state = "reaped"
    BY <1>1 DEF Channel
  <2>2. chan' = [chan EXCEPT ![uid] = c] /\ UNCHANGED <<client, callers, wire, taken>>
    BY <1>1, <1>3 DEF Reap
  <2> HIDE DEF c
  <2> QED
    BY <1>1, <1>2, <2>1, <2>2
<1>4. ASSUME NEW w \in chan[uid].watches, NEW kind, [kind |-> kind, req |-> w] \in Event,
             NEW d \in Channel, d.log = chan[uid].log, d.state = chan[uid].state,
             \A e \in chan[uid].watches : e \in d.watches \/ (e = w /\ kind = "kick"),
             chan' = [chan EXCEPT ![uid] = Logged(d, kind, w)],
             UNCHANGED <<client, callers, wire, taken>>
      PROVE  ShipInv'
  <2> DEFINE c == Logged(d, kind, w)
  <2>1. c.watches = d.watches /\ c.state = d.state
    BY <1>4, LoggedIs
  <2>2. /\ lastHeard + 1 <= Len(c.log)
        /\ \A e : EndLogged(d, e) => EndLogged(c, e)
        /\ kind \in {"refused", "kick"} => EndLogged(c, w)
    <3>1. lastHeard + 1 <= Len(d.log)
      BY <1>1, <1>4
    <3> QED
      BY <1>1, <1>4, <3>1, LoggedEnds
  <2>3. \A e : EndLogged(chan[uid], e) => EndLogged(d, e)
    BY <1>4 DEF EndLogged
  <2>4. chan' = [chan EXCEPT ![uid] = c]
    BY <1>4
  <2> HIDE DEF c
  <2>5. c.state # "reaped" => \A e \in outSubs : e \in wire \/ e \in c.watches \/ EndLogged(c, e)
    BY <1>4, <2>1, <2>2, <2>3 DEF ShipInv, EntriesWatched
  <2> QED
    BY <1>2, <1>4, <2>2, <2>4, <2>5
<1>5. ASSUME NEW w \in chan[uid].watches, Emit(w) PROVE ShipInv'
  <2>1. w \in Watch /\ w.uid = uid /\ [kind |-> "fact", req |-> w] \in Event
    BY <1>1, ChannelFields DEF NumberInv, AtHome, Event
  <2>2. /\ chan' = [chan EXCEPT ![uid] = Logged(chan[uid], "fact", w)]
        /\ UNCHANGED <<client, callers, wire, taken>>
    BY <1>5, <2>1 DEF Emit
  <2> QED
    BY <1>1, <1>4, <2>1, <2>2
<1>6. ASSUME NEW w \in chan[uid].watches, Kick(w) PROVE ShipInv'
  <2>1. w \in Watch /\ w.uid = uid /\ [kind |-> "kick", req |-> w] \in Event
    BY <1>1, ChannelFields DEF NumberInv, AtHome, Event
  <2> DEFINE d == Unwatched(chan[uid], w)
  <2>2. /\ d \in Channel /\ d.log = chan[uid].log /\ d.state = chan[uid].state
        /\ d.watches = chan[uid].watches \ {w}
    <3>1. chan[uid].watches \ {w} \in SUBSET Watch
      BY <1>1, ChannelFields
    <3> QED
      BY <1>1, <3>1, WatchesTyped DEF Unwatched
  <2>3. chan' = [chan EXCEPT ![uid] = Logged(d, "kick", w)] /\ UNCHANGED <<client, callers, wire, taken>>
    BY <1>6, <2>1 DEF Kick
  <2> HIDE DEF d
  <2>4. \A e \in chan[uid].watches : e \in d.watches \/ (e = w /\ "kick" = "kick")
    BY <2>2
  <2> QED
    BY <1>4, <2>1, <2>2, <2>3, <2>4
<1> QED
  BY <1>3, <1>5, <1>6 DEF Agents

LEMMA ResponsesShip == ASSUME NumberInv, ShipInv, Responses PROVE ShipInv'
<1> SUFFICES ASSUME NEW x \in puts,
                    PutOk(x) \/ PutOpensStream(x) \/ PutSaysHi(x) \/ PutFail(x)
             PROVE  ShipInv'
  BY DEF Responses
<1>1. TypeOK /\ OnCurrent /\ OnItsWay /\ lastEventId \in Nat /\ uid \in Uid
  BY DEF NumberInv, StatusInv, TypeOK, ClientTypeOK, ShipInv
<1>2. /\ outSubs \cap replaced = {}
      /\ \A e \in outSubs : e.kind = "watch"
  <2>1. \A e \in outSubs \cup replaced : e.uid \in Nat
    BY <1>1 DEF TypeOK, CallersTypeOK, Watch, Uid
  <2> QED
    BY <1>1, <2>1 DEF OnCurrent, TypeOK, CallersTypeOK, Watch, Uid
<1>3. CASE PutOk(x)
  <2> DEFINE gone == {x}
  <2>1. /\ puts' = puts \ gone /\ taken' \subseteq taken /\ x.req \in taken
        /\ Settle({x.req}, {})
        /\ UNCHANGED <<uid, lastEventId, lastHeard, wire, chan>>
    BY <1>3 DEF PutOk
  <2>2. outSubs' \subseteq outSubs
    BY <2>1, SettleDrops
  <2>3. \A y \in gone : y.req \in outSubs' => y.req \notin wire
    BY <1>1, <1>2, <2>1, <2>2 DEF OnItsWay
  <2> HIDE DEF gone
  <2> QED
    BY <2>1, <2>2, <2>3, SettlingShip
<1>4. CASE PutFail(x)
  <2>1. PICK gone : Settle(Pending(gone), Pending(gone)) /\ puts' = puts \ gone
    BY <1>4 DEF PutFail
  <2>2. taken' \subseteq taken /\ UNCHANGED <<uid, lastEventId, lastHeard, wire, chan>>
    BY <1>4 DEF PutFail
  <2>3. outSubs' = outSubs \ (Pending(gone) \ replaced)
    BY <2>1 DEF Settle, SubscribesEnd, Dropped
  <2>4. \A y \in gone : y.req \notin outSubs'
    BY <1>2, <2>3 DEF Pending
  <2> QED
    BY <2>1, <2>2, <2>3, <2>4, SettlingShip
<1>5. CASE PutOpensStream(x)
  <2> DEFINE y == [x EXCEPT !.phase = "opening"]
  <2>1. /\ puts' = (puts \ {x}) \cup {y} /\ taken' \subseteq taken /\ x.req \in taken
        /\ UNCHANGED <<uid, lastEventId, lastHeard, wire, chan, outSubs>>
    BY <1>5 DEF PutOpensStream, SubsUnchanged
  <2>2. y.req = x.req
    BY <1>1 DEF TypeOK, ClientTypeOK, Put
  <2> HIDE DEF y
  <2>3. \A e \in outSubs' \cap wire : e \in Pending(puts) => e \in Pending(puts')
    BY <2>1, <2>2 DEF Pending
  <2>4. \A z \in puts' : z.phase # "sent" =>
           z.req \in taken \/ \E v \in puts : v.req = z.req /\ v.phase # "sent"
    BY <2>1, <2>2
  <2>5. NextIds({})
    BY <1>1, <2>1 DEF NextIds
  <2> QED
    BY <2>1, <2>3, <2>4, <2>5, SendingShip
<1>6. CASE PutSaysHi(x)
  <2> DEFINE hi == NewRequest("poke", Hi)
             y  == [x EXCEPT !.phase = "hello"]
  <2>1. /\ puts' = (puts \ {x}) \cup {y} \cup Sent({hi})
        /\ wire' = wire \cup {hi}
        /\ lastEventId = 0 /\ lastEventId' = 1
        /\ UNCHANGED <<uid, lastHeard, chan, outSubs>> /\ taken' \subseteq taken /\ x.req \in taken
    BY <1>6 DEF PutSaysHi, SubsUnchanged
  <2>2. y.req = x.req
    BY <1>1 DEF TypeOK, ClientTypeOK, Put
  <2>3. /\ hi.uid = uid /\ hi.id = lastEventId + 1 /\ hi.kind = "poke" /\ hi.arg \notin Poke
        /\ hi \in Request
    BY <1>1, ConstantsAssumption DEF NewRequest, Request
  <2> HIDE DEF hi, y
  <2>4. NextIds({hi})
    BY <2>1, <2>3 DEF NextIds
  <2>5. \A e \in outSubs' \cap wire : e \in Pending(puts) => e \in Pending(puts')
    BY <2>1, <2>2 DEF Pending
  <2>6. \A z \in puts' : z.phase # "sent" =>
           z.req \in taken \/ \E v \in puts : v.req = z.req /\ v.phase # "sent"
    BY <2>1, <2>2 DEF Sent
  <2>7. outSubs' \cap {hi} = {}
    BY <1>2, <2>1, <2>3
  <2> QED
    BY <2>1, <2>3, <2>4, <2>5, <2>6, <2>7, SendingShip
<1> QED
  BY <1>3, <1>4, <1>5, <1>6

LEMMA TimeoutsShip == ASSUME NumberInv, ShipInv, Timeouts PROVE ShipInv'
<1> SUFFICES ASSUME NEW e \in outPokes, PokeTimeout(e) PROVE ShipInv'
  BY DEF Timeouts
<1> DEFINE gone == Greeting({e})
<1>1. /\ puts' = puts \ gone /\ gone \subseteq {x \in puts : x.phase = "hello"}
      /\ Settle(Pending(gone), Pending(gone))
      /\ UNCHANGED <<uid, lastEventId, lastHeard, wire, taken, chan>>
  BY DEF PokeTimeout, ship, Greeting
<1> HIDE DEF gone
<1>2. outSubs' \subseteq outSubs
  BY <1>1, SettleDrops
<1>3. \A g \in outSubs : g.kind = "watch"
  BY DEF NumberInv, StatusInv, TypeOK, CallersTypeOK, Watch
<1>4. \A x \in gone : x.req \in outSubs' => x.req \notin wire
  BY <1>1, <1>2, <1>3 DEF ShipInv, OnItsWay
<1> QED
  BY <1>1, <1>2, <1>4, SettlingShip

(* What the event source does, short of a new channel. *)
LEMMA ConnectionShip ==
    ASSUME NumberInv, ShipInv, StreamOpen \/ StreamBreak \/ StreamTear
    PROVE  ShipInv'
<1>1. TypeOK /\ uid \in Uid /\ chan \in [Uid -> Channel]
  BY DEF NumberInv, StatusInv, TypeOK, ClientTypeOK, ShipTypeOK
<1>2. CASE StreamOpen
  <2> DEFINE c    == Flushed(chan[stream.uid], stream.resume)
             gone == {x \in puts : x.phase = "opening"}
  <2>1. /\ stream.uid \in Uid /\ chan' = [chan EXCEPT ![stream.uid] = c]
        /\ puts' = puts \ gone /\ Settle(Pending(gone), {})
        /\ UNCHANGED <<uid, lastEventId, lastHeard, wire, taken>>
    BY <1>1, <1>2, StreamFields DEF StreamOpen
  <2>2. /\ c.log = chan[stream.uid].log /\ c.watches = chan[stream.uid].watches
        /\ c.state = chan[stream.uid].state
    BY <1>1, StreamFields, FlushedIs
  <2>3. \A x \in gone : x.phase # "sent" /\ x \in puts
    OBVIOUS
  <2> HIDE DEF c, gone
  <2>4. UNCHANGED <<chan[uid].log, chan[uid].state, chan[uid].watches>>
    <3>1. CASE stream.uid = uid
      BY <1>1, <2>1, <2>2, <3>1
    <3>2. CASE stream.uid # uid
      BY <1>1, <2>1, <3>2
    <3> QED
      BY <3>1, <3>2
  <2>5. outSubs' \subseteq outSubs
    BY <2>1, SettleDrops
  <2>6. \A g \in outSubs : g.kind = "watch"
    BY <1>1 DEF TypeOK, CallersTypeOK, Watch
  <2>7. \A x \in gone : x.req \in outSubs' => x.req \notin wire
    BY <2>3, <2>5, <2>6 DEF ShipInv, OnItsWay
  <2> QED
    BY <2>1, <2>4, <2>5, <2>7, SettlingShip
<1>3. CASE StreamBreak \/ StreamTear
  BY <1>3, QuietShip DEF StreamBreak, StreamTear, Reconnect, SubsUnchanged, ship
<1> QED
  BY <1>2, <1>3

(* The next event of the channel is heard: it is the one after the last.   *)
LEMMA ReceiveShip ==
    ASSUME NumberInv, FeedInv, ShipInv, NEW sent \in SUBSET Watch, NEW gone, Receive(sent, gone),
           \A r \in sent : r.uid = uid /\ r.id = lastEventId + 1,
           lastEventId' \in Nat, lastEventId' >= lastEventId,
           sent # {} => lastEventId' >= lastEventId + 1,
           \A x \in gone : x.phase # "sent",
           gone \subseteq puts,
           outSubs' \subseteq outSubs \cup sent,
           HeardEvent.kind \in {"refused", "kick"} =>
              \A e \in outSubs' : e \in sent \/ e.id # HeardEvent.req.id
    PROVE  ShipInv'
<1> DEFINE acks == AckDue(stream.next)
           new  == acks \cup sent
<1>1. /\ uid' = uid /\ taken' = taken /\ chan' = chan /\ Due /\ stream.next > lastHeard
      /\ lastHeard' = stream.next /\ wire' = wire \cup new /\ puts' = (puts \ gone) \cup Sent(new)
  BY DEF Receive
<1>2. /\ TypeOK /\ stream.next \in Nat /\ lastHeard \in Nat \cup {-1} /\ lastEventId \in Nat
      /\ wire \subseteq Request /\ outSubs \subseteq Watch /\ sent \subseteq Request
      /\ chan[uid] \in Channel
  BY StreamFields, WatchIsRequest
  DEF NumberInv, StatusInv, TypeOK, ClientTypeOK, CallersTypeOK, ShipTypeOK
<1>3. stream.uid = uid /\ stream.next = lastHeard + 1 /\ stream.next + 1 <= Len(chan[uid].log)
  <2>1. stream.state = "open" /\ stream.uid = uid /\ stream.next < Len(chan[uid].log)
    BY <1>1 DEF Due, NumberInv, StatusInv, Current
  <2>2. stream.next <= lastHeard + 1
    BY <2>1 DEF FeedInv, StreamHandled
  <2> QED
    BY <1>1, <1>2, <2>1, <2>2, ChannelFields
<1>4. HeardEvent = chan[uid].log[lastHeard + 2]
  BY <1>2, <1>3 DEF HeardEvent
<1>5. \A r \in acks : r.kind = "ack"
  BY DEF AckDue
<1>6. \A r \in Watch : r.kind = "watch"
  BY DEF Watch
<1>7. \A r \in sent : ~Around(r)
  BY <1>2, <1>6, NewIsNew
<1> HIDE DEF acks
<1>8. Pending(puts') = Pending(puts \ gone) \cup new
  <2>1. Pending(puts') = Pending(puts \ gone) \cup Pending(Sent(new)) /\ Pending(Sent(new)) = new
    BY <1>1, PendingOf
  <2> QED
    BY <2>1
<1>9. HeardLogged'
  BY <1>1, <1>3 DEF HeardLogged
<1>10. EntriesWatched'
  <2> SUFFICES ASSUME chan[uid].state # "reaped", NEW e \in outSubs'
               PROVE  \/ e \in wire' \/ e \in chan[uid].watches
                      \/ \E n \in stream.next + 2 .. Len(chan[uid].log) :
                            chan[uid].log[n].req = e /\ chan[uid].log[n].kind \in {"refused", "kick"}
    BY <1>1 DEF EntriesWatched, EndLogged
  <2>1. CASE e \in sent
    BY <1>1, <2>1
  <2>2. CASE e \notin sent
    <3>1. e \in wire \/ e \in chan[uid].watches \/ EndLogged(chan[uid], e)
      BY <2>2 DEF ShipInv, EntriesWatched
    <3>2. ASSUME EndLogged(chan[uid], e)
          PROVE  \E n \in stream.next + 2 .. Len(chan[uid].log) :
                    chan[uid].log[n].req = e /\ chan[uid].log[n].kind \in {"refused", "kick"}
      <4>1. PICK n \in lastHeard + 2 .. Len(chan[uid].log) :
               chan[uid].log[n].req = e /\ chan[uid].log[n].kind \in {"refused", "kick"}
        BY <3>2 DEF EndLogged
      <4>2. n # lastHeard + 2
        BY <1>4, <2>2, <4>1
      <4>3. n \in stream.next + 2 .. Len(chan[uid].log)
        BY <1>2, <1>3, <4>1, <4>2, ChannelFields
      <4> QED
        BY <4>1, <4>3
    <3> QED
      BY <1>1, <3>1, <3>2
  <2> QED
    BY <2>1, <2>2
<1>11. OnItsWay'
  <2>1. \A x \in puts : x.phase # "sent" /\ x.req.kind = "watch" => x.req \notin wire
    BY DEF ShipInv, OnItsWay
  <2>2. ASSUME NEW e \in outSubs', e \in wire' PROVE e \in Pending(puts')
    <3>1. CASE e \in sent
      BY <1>8, <3>1
    <3>2. CASE e \notin sent
      <4>1. e \in outSubs /\ e.kind = "watch" /\ e \in wire
        BY <1>1, <1>2, <1>5, <1>6, <2>2, <3>2
      <4>2. PICK y \in puts : y.req = e
        BY <4>1 DEF ShipInv, OnItsWay, Pending
      <4>3. y \notin gone
        BY <2>1, <4>1, <4>2
      <4> QED
        BY <1>8, <4>2, <4>3 DEF Pending
    <3> QED
      BY <3>1, <3>2
  <2>3. ASSUME NEW r \in taken', r.kind = "watch" PROVE r \notin wire'
    <3>1. r \notin wire /\ Around(r)
      BY <1>1, <2>3 DEF ShipInv, OnItsWay, Around
    <3> QED
      BY <1>1, <1>5, <1>7, <2>3, <3>1
  <2>4. ASSUME NEW x \in puts', x.phase # "sent", x.req.kind = "watch" PROVE x.req \notin wire'
    <3>1. x \in puts
      BY <1>1, <2>4 DEF Sent
    <3>2. x.req \notin wire /\ Around(x.req)
      BY <2>1, <2>4, <3>1 DEF Around, Pending
    <3> QED
      BY <1>1, <1>5, <1>7, <2>4, <3>2
  <2> QED
    BY <2>2, <2>3, <2>4, PendingStep DEF OnItsWay
<1>12. UnsubsGone'
  <2> SUFFICES ASSUME NEW r \in wire', r.kind = "unsub", r.uid = uid
               PROVE  r.arg <= lastEventId' /\ \A e \in outSubs' : e.id # r.arg
    BY <1>1 DEF UnsubsGone
  <2>1. r \in wire
    BY <1>1, <1>5, <1>6
  <2>2. r.arg \in Nat /\ r.arg <= lastEventId /\ \A e \in outSubs : e.id # r.arg
    BY <1>2, <2>1 DEF ShipInv, UnsubsGone, Request
  <2> QED
    BY <1>2, <2>2
<1> QED
  BY <1>9, <1>10, <1>11, <1>12 DEF ShipInv

LEMMA HearingShip == ASSUME NumberInv, FeedInv, ShipInv, Hearing PROVE ShipInv'
<1>1. TypeOK /\ lastEventId \in Nat
  BY DEF NumberInv, StatusInv, TypeOK, ClientTypeOK
<1>2. CASE HearOld
  BY <1>2, QuietShip DEF HearOld, SubsUnchanged, ship
<1>3. CASE HearPokeAnswer
  <2>1. PICK gone : /\ Receive({}, gone) /\ gone \subseteq {x \in puts : x.phase = "hello"}
                    /\ Settle(Pending(gone), {})
    BY <1>3 DEF HearPokeAnswer, Greeting
  <2>2. outSubs' \subseteq outSubs
    BY <2>1, SettleDrops
  <2>3. lastEventId' = lastEventId /\ HeardEvent.kind \notin {"refused", "kick"}
    BY <1>3 DEF HearPokeAnswer
  <2> QED
    BY <1>1, <2>1, <2>2, <2>3, ReceiveShip
<1>4. CASE HearRefused
  <2>1. Receive({}, {}) /\ lastEventId' = lastEventId /\ outSubs' = outSubs \ Listener
    BY <1>4 DEF HearRefused
  <2>2. \A e \in outSubs' : e.id # HeardEvent.req.id
    BY <2>1 DEF Listener
  <2> QED
    BY <1>1, <2>1, <2>2, ReceiveShip
<1>5. CASE HearFact
  <2>1. /\ Receive({}, {}) /\ lastEventId' = lastEventId /\ outSubs' = outSubs
        /\ HeardEvent.kind = "fact"
    BY <1>5 DEF HearFact, SubsUnchanged
  <2> QED
    BY <1>1, <2>1, ReceiveShip
<1>6. CASE HearKick
  <2>1. /\ Receive(Again, {}) /\ Due /\ HeardEvent.kind = "kick"
        /\ outSubs' = (outSubs \ Listener) \cup Again
        /\ lastEventId' = lastEventId + Cardinality(Again)
    BY <1>6 DEF HearKick
  <2>2. \A r \in Again : /\ r.uid = uid /\ r.id = lastEventId + 1
                         /\ lastEventId + Cardinality(Again) >= lastEventId + 1
    BY <2>1, AgainIsOne
  <2>3. Again \subseteq Watch /\ Cardinality(Again) \in Nat
    BY <1>1, AgainTyped
  <2>4. \A e \in outSubs' : e \in Again \/ e.id # HeardEvent.req.id
    BY <2>1 DEF Listener
  <2> QED
    BY <1>1, <2>1, <2>2, <2>3, <2>4, ReceiveShip
<1> QED
  BY <1>2, <1>3, <1>4, <1>5, <1>6 DEF Hearing

(* Everything replayed is on its way to the new channel. *)
LEMMA ResetShip == ASSUME NumberInv, FeedInv, ShipInv, SeamlessReset PROVE ShipInv'
<1>1. /\ TypeOK /\ uid \in Nat /\ wire \subseteq Request /\ taken \subseteq Request
      /\ \A r \in Request : r.uid \in Nat
  BY DEF NumberInv, StatusInv, TypeOK, ClientTypeOK, ShipTypeOK, Uid, Request
<1>2. TypeOK'
  BY <1>1, SeamlessResetTyped
<1>3. /\ uid' = uid + 1 /\ lastHeard' = -1 /\ wire' = wire \cup Replays /\ taken' = taken
      /\ puts' = {x \in puts : x.phase = "sent"} \cup Sent(Replays)
      /\ outSubs' \subseteq Replays
  BY <1>1, ResetIs DEF HeardOnReset, SubscribesEnd, Dropped
<1>4. \A r \in Replays : r.uid = uid + 1 /\ r.kind = "watch"
  BY ReplaysNumbered
<1>5. HeardLogged'
  <2>1. chan'[uid'] \in Channel
    BY <1>2 DEF TypeOK, ClientTypeOK, ShipTypeOK
  <2>2. Len(chan'[uid'].log) >= 0
    BY <2>1, ChannelFields
  <2> QED
    BY <1>3, <2>2 DEF HeardLogged
<1>6. EntriesWatched'
  BY <1>3 DEF EntriesWatched
<1>7. OnItsWay'
  <2>1. Replays \subseteq Pending(puts')
    <3>1. Pending(Sent(Replays)) = Replays
      BY PendingOf
    <3> QED
      BY <1>3, <3>1 DEF Pending
  <2>2. \A r \in taken : r.kind = "watch" => r \notin wire /\ r.uid <= uid
    <3>1. ASSUME NEW r \in taken, r.kind = "watch" PROVE r.uid <= uid
      BY <1>1, <3>1 DEF NumberInv, IdsInOrder, Numbered, Around
    <3> QED
      BY <3>1 DEF ShipInv, OnItsWay
  <2>3. \A x \in puts' : x.phase = "sent"
    BY <1>3 DEF Sent
  <2>4. \A r \in taken' : r.kind = "watch" => r \notin wire'
    BY <1>1, <1>3, <1>4, <2>2
  <2> QED
    BY <1>3, <2>1, <2>3, <2>4, PendingStep DEF OnItsWay
<1>8. UnsubsGone'
  <2>1. \A r \in wire' : r.kind = "unsub" => r.uid <= uid /\ r.uid \in Nat
    BY <1>1, <1>3, <1>4 DEF FeedInv, AcksHandled
  <2>2. \A r \in wire' : ~(r.kind = "unsub" /\ r.uid = uid')
    BY <1>1, <1>3, <2>1
  <2> QED
    BY <2>2 DEF UnsubsGone
<1> QED
  BY <1>5, <1>6, <1>7, <1>8 DEF ShipInv

LEMMA ShipStep ==
    ASSUME ~LatePuts, ~StaleUnsubs, NumberInv, FeedInv, ShipInv, [Next]_vars
    PROVE  ShipInv'
<1>1. CASE UNCHANGED vars
  BY <1>1, QuietShip DEF vars, client, callers, ship
<1> QED
  BY <1>1, CallersShip, ArrivalsShip, AgentsShip, ResponsesShip, TimeoutsShip, ConnectionShip,
     HearingShip, ResetShip
  DEF Next, Connection, StreamReaped, Rotate

LEMMA ShipInit == Init => ShipInv
<1> SUFFICES ASSUME Init PROVE ShipInv
  OBVIOUS
<1>1. /\ outSubs = {} /\ puts = {} /\ wire = {} /\ taken = {} /\ lastHeard = -1
      /\ uid \in Uid /\ chan[uid].log = <<>>
  BY ConstantsAssumption DEF Init, Uid
<1> QED
  BY <1>1 DEF ShipInv, HeardLogged, EntriesWatched, OnItsWay, UnsubsGone

(* The registry and the ship agree about every subscription whose PUT has  *)
(* settled.  A connection that breaks inside an event skips the event that *)
(* ends a subscription, a late PUT creates the channel anew without the    *)
(* others' watches, and an unsubscribe by an old id ends another one: the  *)
(* theorem leaves these three out.                                         *)
THEOREM ShipCorrect ==
    ASSUME ~Torn, ~LatePuts, ~StaleUnsubs PROVE Spec => []ShipAgrees
<1> DEFINE IInv == NumberInv /\ FeedInv /\ ShipInv
<1>1. Init => IInv
  BY NumberInit, FeedInit, ShipInit
<1>2. IInv /\ [Next]_vars => IInv'
  <2> SUFFICES ASSUME NumberInv, FeedInv, ShipInv, [Next]_vars PROVE IInv'
    OBVIOUS
  <2>1. NumberInv'
    BY NumberStep
  <2>2. Handled'
    BY HandledStep DEF Handled, NumberInv
  <2>3. ShipInv'
    BY ShipStep
  <2> QED
    BY <2>1, <2>2, <2>3 DEF Handled
<1>3. IInv => ShipAgrees
  <2> SUFFICES ASSUME ShipInv, NEW e \in outSubs, e \notin Pending(puts), chan[uid].state = "live"
               PROVE  e \in chan[uid].watches \/ EndLogged(chan[uid], e)
    BY DEF ShipAgrees, EndLogged
  <2> QED
    BY DEF ShipInv, EntriesWatched, OnItsWay
<1> QED
  BY <1>1, <1>2, <1>3, PTL DEF Spec

=============================================================================
