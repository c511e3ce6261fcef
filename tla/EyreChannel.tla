------------------------------ MODULE EyreChannel ------------------------------
(***************************************************************************)
(* The channel between the client and its ship: class Urbit of             *)
(* packages/api/src/http-api/Urbit.ts with the event source reader of      *)
(* fetch-event-source/fetch.ts, and the ship's channel server (%eyre) as   *)
(* far as this code relies on it.                                          *)
(*                                                                         *)
(* The client PUTs numbered requests (poke, subscribe, unsubscribe, ack)   *)
(* to the url of its current channel, `uid', and reads the events of the   *)
(* channel from one long GET.  Requests travel in separate fetches, so     *)
(* they may be delayed, reordered or have their response lost.  The ship   *)
(* keeps the events of a channel until the client acknowledges them; a     *)
(* channel that nobody reads is reaped.  seamlessReset then moves the      *)
(* client to a new channel: request ids and event ids start over, the      *)
(* subscriptions are replayed, the pokes in flight are rejected, and PUTs  *)
(* still in flight belong to a channel nobody reads any more.              *)
(***************************************************************************)
EXTENDS Integers, Sequences, FiniteSets

CONSTANTS
    Poke,           \* the pokes callers make, each once
    Sub,            \* the callers of subscribe
    Resub,          \* those with resubOnQuit (subscribeOnce clears it)
    Hi,             \* the helm-hi poke that opens a channel
    AckEvery,       \* events between two acks (20 in the code)
    Torn,           \* may a connection break inside an event?
    LatePuts,       \* may a PUT reach a channel the ship has reaped?
    EarlyKicks,     \* may a subscription end before the response to its PUT is in?
    StaleUnsubs,    \* may a caller unsubscribe by an id of an older channel?
    MaxUid, MaxId,  \* bounds: channels, and requests on each
    Budget          \* bounds: facts, kicks, failed PUTs and broken connections

ASSUME ConstantsAssumption ==
    /\ Resub \subseteq Sub
    /\ Hi \notin Poke
    /\ IsFiniteSet(Sub)
    /\ AckEvery \in Nat /\ MaxUid \in Nat /\ MaxId \in Nat
    /\ {Torn, LatePuts, EarlyKicks, StaleUnsubs} \subseteq BOOLEAN
    /\ Budget \in [facts : Nat, kicks : Nat, fails : Nat, breaks : Nat]

VARIABLES
    \* the client
    uid,                \* the current channel, counted from 0
    lastEventId,        \* the last request id used on it
    lastHeard,          \* lastHeardEventId
    lastAcked,          \* lastAcknowledgedEventId
    outPokes,           \* outstandingPokes
    outSubs,            \* outstandingSubscriptions
    stream,             \* the event source
    status,             \* the last status-update emitted
    puts,               \* PUTs whose promise is pending
    replaced,           \* replayedSubscriptions, as far as a pending PUT consults it
    \* its callers
    poke,               \* what each poke's caller was told
    caller,             \* whether each subscriber believes it is subscribed
    fibers,             \* the PUTs its subscribe promise still waits on
    held,               \* the id its subscribe promise resolves to, 0 if it rejects
    silent,             \* subscribers whose resubscription failed unannounced
    \* the network and the ship
    wire,               \* requests on their way to the ship
    taken,              \* requests it has accepted and whose response is on its way
    chan,               \* the ship's channels
    answer,             \* what the ship did with each poke
    handed,             \* facts handed to a handler: <<whose handler, whose fact>>
    budget              \* what is left of the bounds

client  == <<uid, lastEventId, lastHeard, lastAcked, outPokes, outSubs, stream, status,
             puts, replaced>>
callers == <<poke, caller, fibers, held, silent>>
ship    == <<wire, taken, chan, answer>>
vars    == <<client, callers, ship, handed, budget>>

Uid     == 0 .. MaxUid
Request == [uid : Uid, id : Nat, kind : {"poke"},  arg : Poke \cup {Hi}]
             \cup [uid : Uid, id : Nat, kind : {"watch"}, arg : Sub]
             \cup [uid : Uid, id : Nat, kind : {"unsub", "ack"}, arg : Nat]
Watch   == [uid : Uid, id : Nat, kind : {"watch"}, arg : Sub]
Event   == [kind : {"ack", "nack"}, req : Request]
             \cup [kind : {"refused", "fact", "kick"}, req : Watch]
Stream  == [state : {"none", "connecting", "open"}, uid : Uid, resume : Nat \cup {-1},
            next : Nat, retried : BOOLEAN]
Channel == [state : {"new", "live", "reaped"}, log : Seq(Event), flushed : Nat,
            watches : SUBSET Watch]

PokeWord   == {"idle", "waiting", "acked", "nacked", "reaped", "timeout", "unsent"}
CallerWord == {"idle", "open", "over"}
Status     == {"initial", "opening", "active", "reconnected", "reconnecting"}
Put        == [req : Request, phase : {"sent", "opening", "hello"}]

ClientTypeOK ==
    /\ uid \in Uid
    /\ lastEventId \in Nat
    /\ lastHeard \in Nat \cup {-1} /\ lastAcked \in Nat \cup {-1}
    /\ outPokes \subseteq Request
    /\ stream \in Stream
    /\ status \in Status
    /\ puts \subseteq Put

CallersTypeOK ==
    /\ outSubs \subseteq Watch /\ IsFiniteSet(outSubs)
    /\ replaced \subseteq Watch
    /\ caller \in [Sub -> CallerWord]
    /\ fibers \in [Sub -> SUBSET Watch]
    /\ held \in [Sub -> Nat]
    /\ silent \subseteq Sub

ShipTypeOK ==
    /\ wire \subseteq Request /\ taken \subseteq Request
    /\ chan \in [Uid -> Channel]
    /\ answer \in [Poke -> {"none", "ack", "nack"}]
    /\ budget \in [facts : Nat, kicks : Nat, fails : Nat, breaks : Nat]

TypeOK ==
    /\ ClientTypeOK /\ CallersTypeOK /\ ShipTypeOK
    /\ poke \in [Poke -> PokeWord]
    /\ handed \subseteq Sub \X Sub

NoStream == [state |-> "none", uid |-> 0, resume |-> -1, next |-> 0, retried |-> FALSE]

Init ==
    /\ uid = 0 /\ lastEventId = 0 /\ lastHeard = -1 /\ lastAcked = -1
    /\ outPokes = {} /\ outSubs = {} /\ puts = {} /\ replaced = {}
    /\ stream = NoStream
    /\ status = "initial"
    /\ poke = [p \in Poke |-> "idle"]
    /\ caller = [s \in Sub |-> "idle"]
    /\ fibers = [s \in Sub |-> {}]
    /\ held = [s \in Sub |-> 0]
    /\ silent = {}
    /\ wire = {} /\ taken = {}
    /\ chan = [u \in Uid |-> [state |-> "new", log |-> <<>>, flushed |-> 0, watches |-> {}]]
    /\ answer = [p \in Poke |-> "none"]
    /\ handed = {}
    /\ budget = Budget

-----------------------------------------------------------------------------
(* The parts the client's handlers are made of. *)

Pending(ps) == {x.req : x \in ps}
Sent(reqs)  == {[req |-> r, phase |-> "sent"] : r \in reqs}

\* Mutant of NewRequest: getEventId counts down.
NewRequestDown(kind, arg) == [uid |-> uid, id |-> lastEventId - 1, kind |-> kind, arg |-> arg]

(* getEventId and the message it numbers *)
NewRequest(kind, arg) == [uid |-> uid, id |-> lastEventId + 1, kind |-> kind, arg |-> arg]

(* What poke, subscribe and pokeNoun announce before the first request of a channel *)
StatusOnSend == IF lastEventId = 0 THEN "opening" ELSE status

Spend(what) == budget[what] > 0 /\ budget' = [budget EXCEPT ![what] = @ - 1]

(* The pokes of these entries are answered, if their callers still wait. *)
Tell(entries, word) ==
    poke' = [p \in Poke |-> IF poke[p] = "waiting" /\ \E e \in entries : e.arg = p
                            THEN word ELSE poke[p]]

\* Mutant of Dropped: the slot is cleared by id, whoever holds it by now.
DroppedById(subs, bad) == {e \in subs : \A r \in bad : r.kind = "watch" => e.id # r.id}

\* Mutant of Dropped: a failed subscription stays registered.
DroppedNone(subs, bad) == subs

(* A failed subscribe drops its own entry, if it is still registered. *)
Dropped(subs, bad) == subs \ bad

(***************************************************************************)
(* The ends of the subscribe calls whose PUTs `done' have just settled,    *)
(* `failed' of them badly.  A call that a rotation has replaced takes the  *)
(* replacement's result (`fib' and `repl' say which); another one resolves *)
(* to its id, or drops its entry from `subs' and throws.  Nobody hears it  *)
(* throw when it was a resubscription.                                     *)
(***************************************************************************)
SubscribesEnd(subs, fib, repl, call, done, failed) ==
    LET bad  == failed \ repl
        mine(s) == {r \in done \cap fib[s] : r \notin repl}
    IN  /\ outSubs' = Dropped(subs, bad)
        /\ replaced' = repl \ done
        /\ fibers' = [s \in Sub |-> fib[s] \ done]
        /\ held' = [s \in Sub |->
                      IF mine(s) = {} THEN held[s]
                      ELSE IF mine(s) \subseteq bad THEN 0 ELSE (CHOOSE r \in mine(s) : TRUE).id]
        /\ caller' = [s \in Sub |->
                        IF fib[s] # {} /\ fibers'[s] = {} /\ held'[s] = 0 THEN "over" ELSE call[s]]
        /\ silent' = silent \cup {s \in Sub : \E r \in (bad \cap subs) \ fib[s] : r.arg = s}

(* PUTs settle while the client stays on its channel. *)
Settle(done, failed) == SubscribesEnd(outSubs, fibers, replaced, caller, done, failed)

SubsUnchanged == UNCHANGED <<outSubs, replaced, fibers, held, caller, silent>>

-----------------------------------------------------------------------------
(* The callers. *)

(* poke: registers the handlers and PUTs the message. *)
DoPoke(p) ==
    /\ poke[p] = "idle"
    /\ lastEventId < MaxId
    /\ LET r == NewRequest("poke", p)
       IN  /\ outPokes' = outPokes \cup {r}
           /\ puts' = puts \cup Sent({r})
           /\ wire' = wire \cup {r}
    /\ lastEventId' = lastEventId + 1
    /\ status' = StatusOnSend
    /\ poke' = [poke EXCEPT ![p] = "waiting"]
    /\ SubsUnchanged
    /\ UNCHANGED <<uid, lastHeard, lastAcked, stream, taken, chan, answer, handed, budget>>

(* subscribe, by a caller that is not subscribed: the first time or after a failure. *)
Subscribe(s) ==
    /\ caller[s] \in {"idle", "over"} /\ fibers[s] = {}
    /\ lastEventId < MaxId
    /\ LET r == NewRequest("watch", s)
       IN  /\ outSubs' = outSubs \cup {r}
           /\ puts' = puts \cup Sent({r})
           /\ wire' = wire \cup {r}
           /\ fibers' = [fibers EXCEPT ![s] = {r}]
    /\ lastEventId' = lastEventId + 1
    /\ status' = StatusOnSend
    /\ caller' = [caller EXCEPT ![s] = "open"]
    /\ held' = [held EXCEPT ![s] = 0]
    /\ UNCHANGED <<uid, lastHeard, lastAcked, outPokes, stream, replaced, poke, silent,
                   taken, chan, answer, handed, budget>>

(* The entry that outstandingSubscriptions has under an id is that of s. *)
Names(id, s) == \E e \in outSubs : e.id = id /\ e.arg = s

\* Mutant of Without: the handlers are left in place.
WithoutNone(id) == outSubs

Without(id) == {e \in outSubs : e.id # id}

(* unsubscribe, with the id that subscribe returned.  subscribeOnce checks    *)
(* that the id still names its entry; the other callers of unsubscribe do not. *)
Unsubscribe(s) ==
    /\ caller[s] = "open" /\ fibers[s] = {} /\ held[s] # 0
    /\ StaleUnsubs \/ Names(held[s], s)
    /\ lastEventId < MaxId
    /\ LET r == NewRequest("unsub", held[s])
       IN  /\ puts' = puts \cup Sent({r})
           /\ wire' = wire \cup {r}
    /\ outSubs' = Without(held[s])
    /\ lastEventId' = lastEventId + 1
    /\ caller' = [caller EXCEPT ![s] = "over"]
    /\ UNCHANGED <<uid, lastHeard, lastAcked, outPokes, stream, status, replaced, poke, fibers,
                   held, silent, taken, chan, answer, handed, budget>>

-----------------------------------------------------------------------------
(* The ship. *)

FreshChannel == [state |-> "live", log |-> <<>>, flushed |-> 0, watches |-> {}]

(* A PUT creates the channel it is sent to when the ship does not know it. *)
Opened(u) == IF chan[u].state = "live" THEN chan[u] ELSE FreshChannel

Reachable(r) == r \in wire /\ (chan[r.uid].state # "reaped" \/ LatePuts)

Logged(c, kind, r) == [c EXCEPT !.log = Append(@, [kind |-> kind, req |-> r])]

(* Events up to this id are dropped: the client says it has them. *)
Flushed(c, upTo) ==
    [c EXCEPT !.flushed = IF upTo < @ THEN @ ELSE IF upTo < Len(c.log) THEN upTo + 1 ELSE Len(c.log)]

Accept(r, c) ==
    /\ wire' = wire \ {r}
    /\ taken' = taken \cup ({r} \cap Pending(puts))
    /\ chan' = [chan EXCEPT ![r.uid] = c]
    /\ UNCHANGED <<client, callers, handed, budget>>

ArrivePoke(r) ==
    /\ Reachable(r) /\ r.kind = "poke"
    /\ \E word \in (IF r.arg = Hi THEN {"ack"} ELSE {"ack", "nack"}) :
          /\ answer' = [p \in Poke |-> IF p = r.arg THEN word ELSE answer[p]]
          /\ Accept(r, Logged(Opened(r.uid), word, r))

(* A watch is accepted or refused.  Of the event that says it is accepted the *)
(* client only counts the id, so it is left out.                              *)
ArriveWatch(r) ==
    /\ Reachable(r) /\ r.kind = "watch"
    /\ LET c == Opened(r.uid)
       IN  \/ Accept(r, [c EXCEPT !.watches = @ \cup {r}])
           \/ Accept(r, Logged(c, "refused", r))
    /\ UNCHANGED answer

ArriveUnsub(r) ==
    /\ Reachable(r) /\ r.kind = "unsub"
    /\ Accept(r, [Opened(r.uid) EXCEPT !.watches = {w \in @ : w.id # r.arg}])
    /\ UNCHANGED answer

ArriveAck(r) ==
    /\ Reachable(r) /\ r.kind = "ack"
    /\ Accept(r, Flushed(Opened(r.uid), r.arg))
    /\ UNCHANGED answer

(* The watched agent sends a fact, or ends the subscription. *)
Emit(w) ==
    /\ Spend("facts")
    /\ chan' = [chan EXCEPT ![w.uid] = Logged(@, "fact", w)]
    /\ UNCHANGED <<client, callers, wire, taken, answer, handed>>

Unwatched(c, w) == [c EXCEPT !.watches = @ \ {w}]

Kick(w) ==
    /\ EarlyKicks \/ w \notin Pending(puts)
    /\ Spend("kicks")
    /\ chan' = [chan EXCEPT ![w.uid] = Logged(Unwatched(@, w), "kick", w)]
    /\ UNCHANGED <<client, callers, wire, taken, answer, handed>>

(* A channel whose events nobody reads is reaped, with its subscriptions    *)
(* (the bound on channels leaves the last one alone).                       *)
Reap(u) ==
    /\ chan[u].state = "live" /\ u < MaxUid
    /\ ~(stream.state = "open" /\ stream.uid = u)
    /\ chan' = [chan EXCEPT ![u].state = "reaped", ![u].watches = {}]
    /\ UNCHANGED <<client, callers, wire, taken, answer, handed, budget>>

-----------------------------------------------------------------------------
(* The responses to PUTs. *)

(* A PUT lands while the event source is up: its promise resolves. *)
PutOk(x) ==
    /\ x.phase = "sent" /\ x.req \in taken
    /\ stream.state # "none"
    /\ puts' = puts \ {x}
    /\ Settle({x.req}, {})
    /\ taken' = taken \ {x.req}
    /\ UNCHANGED <<uid, lastEventId, lastHeard, lastAcked, outPokes, stream, status, poke,
                   wire, chan, answer, handed, budget>>

(* A PUT lands before there is an event source: it opens one and waits for it... *)
PutOpensStream(x) ==
    /\ x.phase = "sent" /\ x.req \in taken
    /\ stream.state = "none" /\ lastEventId # 0
    /\ puts' = (puts \ {x}) \cup {[x EXCEPT !.phase = "opening"]}
    /\ stream' = [NoStream EXCEPT !.state = "connecting", !.uid = uid]
    /\ taken' = taken \ {x.req}
    /\ SubsUnchanged
    /\ UNCHANGED <<uid, lastEventId, lastHeard, lastAcked, outPokes, status, poke, wire, chan,
                   answer, handed, budget>>

(* ...after a first poke when the channel is unused, which takes a rotation since the PUT. *)
PutSaysHi(x) ==
    /\ x.phase = "sent" /\ x.req \in taken
    /\ stream.state = "none" /\ lastEventId = 0
    /\ LET hi == NewRequest("poke", Hi)
       IN  /\ puts' = (puts \ {x}) \cup {[x EXCEPT !.phase = "hello"]} \cup Sent({hi})
           /\ outPokes' = outPokes \cup {hi}
           /\ wire' = wire \cup {hi}
    /\ lastEventId' = 1
    /\ status' = "opening"
    /\ taken' = taken \ {x.req}
    /\ SubsUnchanged
    /\ UNCHANGED <<uid, lastHeard, lastAcked, stream, poke, chan, answer, handed, budget>>

(* The PUTs that wait on the helm-hi poke among these entries. *)
Greeting(entries) ==
    IF \E e \in entries : e.arg = Hi THEN {x \in puts : x.phase = "hello"} ELSE {}

(* A PUT fails or its response is lost: the ship may have seen it, or may yet see it. *)
PutFail(x) ==
    /\ x.phase = "sent"
    /\ Spend("fails") \/ (chan[x.req.uid].state = "reaped" /\ UNCHANGED budget)
    /\ LET mine == outPokes \cap {x.req}
           gone == {x} \cup Greeting(mine)
       IN  /\ puts' = puts \ gone
           /\ outPokes' = outPokes \ mine
           /\ Tell(mine, "unsent")
           /\ Settle(Pending(gone), Pending(gone))
    /\ taken' = taken \ {x.req}
    /\ UNCHANGED <<uid, lastEventId, lastHeard, lastAcked, stream, status, wire, chan, answer,
                   handed>>

(* No answer to a poke within DEFAULT_POKE_ACK_TIMEOUT. *)
PokeTimeout(e) ==
    /\ outPokes' = outPokes \ {e}
    /\ puts' = puts \ Greeting({e})
    /\ Tell({e}, "timeout")
    /\ Settle(Pending(Greeting({e})), Pending(Greeting({e})))
    /\ UNCHANGED <<uid, lastEventId, lastHeard, lastAcked, stream, status, ship, handed, budget>>

-----------------------------------------------------------------------------
(* The event source. *)

(* The GET finds the channel: everything it waits for the stream settles. *)
StreamOpen ==
    /\ stream.state = "connecting" /\ chan[stream.uid].state = "live"
    /\ LET c    == Flushed(chan[stream.uid], stream.resume)
           done == {x \in puts : x.phase = "opening"}
       IN  /\ chan' = [chan EXCEPT ![stream.uid] = c]
           /\ stream' = [stream EXCEPT !.state = "open", !.next = c.flushed, !.retried = FALSE]
           /\ puts' = puts \ done
           /\ Settle(Pending(done), {})
    /\ status' = IF stream.retried THEN "reconnected" ELSE "active"
    /\ UNCHANGED <<uid, lastEventId, lastHeard, lastAcked, outPokes, poke, wire, taken, answer,
                   handed, budget>>

(* The connection fails or times out, and create is called again after a delay. *)
Reconnect(resume) ==
    /\ Spend("breaks")
    /\ stream' = [stream EXCEPT !.state = "connecting", !.resume = resume, !.retried = TRUE]
    /\ status' = "reconnecting"
    /\ SubsUnchanged
    /\ UNCHANGED <<uid, lastEventId, lastHeard, lastAcked, outPokes, puts, poke, ship, handed>>

\* Mutant of StreamBreak: the retry asks for the event after the next one.
StreamBreakAhead == stream.state # "none" /\ Reconnect(stream.next)

StreamBreak == stream.state # "none" /\ Reconnect(stream.resume)

Due == stream.state = "open" /\ stream.next < Len(chan[stream.uid].log)

(* It breaks after the id line of an event, which is already last-event-id. *)
StreamTear == Torn /\ Due /\ Reconnect(stream.next)

\* Mutant of StreamOnReset: the old event source is not aborted.
StreamKept == stream

StreamOnReset == NoStream

\* Mutant of HeardOnReset: the last heard event is that of the old channel.
HeardKept == lastHeard

HeardOnReset == -1

\* Mutant of StatusOnReset: the reset announces no status.
StatusKept(new) == status

(* seamlessReset announces 'initial', and the first replay 'opening'. *)
StatusOnReset(new) == IF new = {} THEN "initial" ELSE "opening"

\* Mutant of Aborted: nobody is told that the event source will not open.
AbortedNone == {}

(* The PUTs that wait for the event source, or for the poke before it. *)
Aborted == Pending({x \in puts : x.phase # "sent"})

(***************************************************************************)
(* seamlessReset: a new channel, the old event source aborted.  Who waits  *)
(* for it to open is rejected, after the subscriptions are replayed in the *)
(* order of their ids; subscribers without resubOnQuit only hear quit.     *)
(***************************************************************************)
SeamlessReset ==
    LET kept      == {e \in outSubs : e.arg \in Resub}
        replay(e) == [uid |-> uid + 1, id |-> Cardinality({f \in kept : f.id <= e.id}),
                      kind |-> "watch", arg |-> e.arg]
        new       == {replay(e) : e \in kept}
    IN  /\ uid < MaxUid
        /\ uid' = uid + 1
        /\ lastEventId' = Cardinality(new)
        /\ lastHeard' = HeardOnReset /\ lastAcked' = -1
        /\ stream' = StreamOnReset
        /\ status' = StatusOnReset(new)
        /\ puts' = {x \in puts : x.phase = "sent"} \cup Sent(new)
        /\ wire' = wire \cup new
        /\ outPokes' = {}
        /\ Tell(outPokes, "reaped")
        /\ SubscribesEnd(new,
                         [s \in Sub |-> fibers[s] \cup {replay(e) : e \in kept \cap fibers[s]}],
                         replaced \cup (kept \cap Pending(puts)),
                         [s \in Sub |-> IF \E e \in outSubs \ kept : e.arg = s
                                        THEN "over" ELSE caller[s]],
                         Aborted, Aborted)
        /\ UNCHANGED <<taken, chan, answer, handed, budget>>

(* The GET is answered 404: the ship does not know the channel. *)
StreamReaped ==
    /\ stream.state = "connecting" /\ chan[stream.uid].state # "live"
    /\ SeamlessReset

(* A 500 on the GET, or a login that rotates a channel it can no longer use. *)
Rotate == SeamlessReset

-----------------------------------------------------------------------------
(* onmessage: the next event of the stream. *)

HeardEvent == chan[stream.uid].log[stream.next + 1]

AckDue(id) ==
    IF id - lastAcked > AckEvery
    THEN {[uid |-> uid, id |-> 0, kind |-> "ack", arg |-> id]} ELSE {}

(* What each new event does besides what its kind asks for: `sent' is the    *)
(* request its handler sends, if any, and `gone' the PUTs it answers.        *)
Receive(sent, gone) ==
    /\ Due /\ stream.next > lastHeard
    /\ stream' = [stream EXCEPT !.resume = stream.next, !.next = @ + 1]
    /\ lastHeard' = stream.next
    /\ lastAcked' = IF AckDue(stream.next) = {} THEN lastAcked ELSE stream.next
    /\ puts' = (puts \ gone) \cup Sent(AckDue(stream.next) \cup sent)
    /\ wire' = wire \cup AckDue(stream.next) \cup sent
    /\ UNCHANGED <<uid, taken, chan, answer, budget>>

(* An event with an id that was heard is dropped.  It is a new one when a late *)
(* PUT has created the channel anew.                                           *)
HearOld ==
    /\ Due /\ stream.next <= lastHeard
    /\ stream' = [stream EXCEPT !.resume = stream.next, !.next = @ + 1]
    /\ SubsUnchanged
    /\ UNCHANGED <<uid, lastEventId, lastHeard, lastAcked, outPokes, status, puts, poke, ship,
                   handed, budget>>

HearPokeAnswer ==
    /\ Due /\ HeardEvent.kind \in {"ack", "nack"}
    /\ LET mine == {e \in outPokes : e.id = HeardEvent.req.id}
       IN  /\ Receive({}, Greeting(mine))
           /\ outPokes' = outPokes \ mine
           /\ Tell(mine, IF HeardEvent.kind = "ack" THEN "acked" ELSE "nacked")
           /\ Settle(Pending(Greeting(mine)), {})
    /\ UNCHANGED <<lastEventId, status, handed>>

(* The entry that the event's request id names now, if any. *)
Listener == {e \in outSubs : e.id = HeardEvent.req.id}

HearRefused ==
    /\ Due /\ HeardEvent.kind = "refused"
    /\ Receive({}, {})
    /\ outSubs' = outSubs \ Listener
    /\ caller' = [s \in Sub |-> IF \E e \in Listener : e.arg = s THEN "over" ELSE caller[s]]
    /\ UNCHANGED <<lastEventId, outPokes, status, replaced, poke, fibers, held, silent, handed>>

HearFact ==
    /\ Due /\ HeardEvent.kind = "fact"
    /\ Receive({}, {})
    /\ handed' = handed \cup {<<e.arg, HeardEvent.req.arg>> : e \in Listener}
    /\ SubsUnchanged
    /\ UNCHANGED <<lastEventId, outPokes, status, poke>>

(* The subscriber with resubOnQuit is subscribed again under a new id. *)
Again == {NewRequest("watch", e.arg) : e \in {l \in Listener : l.arg \in Resub}}

(* quit *)
HearKick ==
    /\ Due /\ HeardEvent.kind = "kick"
    /\ lastEventId + Cardinality(Again) <= MaxId
    /\ Receive(Again, {})
    /\ outSubs' = (outSubs \ Listener) \cup Again
    /\ lastEventId' = lastEventId + Cardinality(Again)
    /\ caller' = [s \in Sub |-> IF s \notin Resub /\ (\E e \in Listener : e.arg = s)
                                THEN "over" ELSE caller[s]]
    /\ UNCHANGED <<outPokes, status, replaced, poke, fibers, held, silent, handed>>

-----------------------------------------------------------------------------
Callers == (\E p \in Poke : DoPoke(p)) \/ (\E s \in Sub : Subscribe(s) \/ Unsubscribe(s))

Arrivals == \E r \in wire : ArrivePoke(r) \/ ArriveWatch(r) \/ ArriveUnsub(r) \/ ArriveAck(r)

Agents == Reap(uid) \/ \E w \in chan[uid].watches : Emit(w) \/ Kick(w)

Responses == \E x \in puts : PutOk(x) \/ PutOpensStream(x) \/ PutSaysHi(x) \/ PutFail(x)

Timeouts == \E e \in outPokes : PokeTimeout(e)

Connection == StreamOpen \/ StreamBreak \/ StreamTear \/ StreamReaped \/ Rotate

Hearing == HearOld \/ HearPokeAnswer \/ HearRefused \/ HearFact \/ HearKick

Next == Callers \/ Arrivals \/ Agents \/ Responses \/ Timeouts \/ Connection \/ Hearing

Spec == Init /\ [][Next]_vars

(***************************************************************************)
(* What the runtime and the network see to: a PUT arrives or fails and its *)
(* fetch ends, armed timers fire, a connection is tried again and again    *)
(* and gets an answer, and bytes that have come are read.                  *)
(***************************************************************************)
FairSpec ==
    /\ Spec
    /\ WF_vars(Arrivals) /\ WF_vars(Responses) /\ WF_vars(Timeouts)
    /\ WF_vars(StreamOpen \/ StreamReaped)
    /\ WF_vars(Hearing)

-----------------------------------------------------------------------------
(* A poke is reported acked or nacked only if the ship acked or nacked that   *)
(* very poke: ids start over on every channel, and no late answer or stale    *)
(* PUT settles the poke that now has the id.                                  *)
AnswersAreMine ==
    \A p \in Poke : /\ poke[p] = "acked"  => answer[p] = "ack"
                    /\ poke[p] = "nacked" => answer[p] = "nack"

(* A fact reaches only the handler whose watch produced it. *)
FactsReachTheirHandler == \A h \in handed : h[1] = h[2]

(* The registry agrees with what the callers were told.  A replay never       *)
(* doubles a subscription: an id names one entry, and a subscriber has one.   *)
(* A subscriber told that its subscription ended (its subscribe failed, the   *)
(* ship refused or quit it, it unsubscribed) has no entry that a later reset  *)
(* would replay.  One told no such thing still has its entry, unless the PUT  *)
(* of a resubscription failed, which is reported to nobody.                   *)
RegistryAsTold ==
    /\ \A e, f \in outSubs : e.id = f.id \/ e.arg = f.arg => e = f
    /\ \A e \in outSubs : caller[e.arg] = "open"
    /\ \A s \in Sub : caller[s] = "open" /\ fibers[s] = {} =>
          s \in silent \/ \E e \in outSubs : e.arg = s

(* The registry and the ship agree: a subscription whose PUT has settled is   *)
(* watched on the ship's side, or the event that ends it is on its way.       *)
ShipAgrees ==
    \A e \in outSubs :
        e \notin Pending(puts) /\ chan[uid].state = "live" =>
            \/ e \in chan[uid].watches
            \/ \E n \in lastHeard + 2 .. Len(chan[uid].log) :
                  chan[uid].log[n].req = e /\ chan[uid].log[n].kind \in {"refused", "kick"}

(* The ship never lets go of an event the client has not handled, so whatever *)
(* breaks, the client resumes where it was.  Events are known by their ids    *)
(* here: those of a channel that a late PUT creates anew are other events     *)
(* under the same ids, which is why FeedSpec needs LatePuts to be FALSE.      *)
NothingLostUnheard == chan[uid].flushed <= lastHeard + 1

(* What the channel promises its reader, whatever happens underneath. *)
Feed == INSTANCE EventFeed WITH channel <- uid,
                                emitted <- Len(chan[uid].log),
                                handled <- lastHeard + 1

(* Channel by channel, the events are handled in order, each exactly once. *)
FeedSpec == Feed!Spec

(* The channel counts as connected (queued sends go out) exactly while the    *)
(* event source of the current channel is open.                               *)
StatusIsTrue ==
    status \in {"active", "reconnected"} <=> stream.state = "open" /\ stream.uid = uid

(* Every subscribe call returns or throws, whichever of its PUTs, its replay,  *)
(* the event source or the channel it waits for goes away.  And once the event *)
(* source is started, each event of the channel is heard, or the channel is    *)
(* replaced: the client does not stay silently deaf.                          *)
NeverStuck ==
    /\ \A s \in Sub : (fibers[s] # {}) ~> (fibers[s] = {})
    /\ \A u \in 0 .. MaxUid - 1, n \in 0 .. MaxId :
          (uid = u /\ stream.state # "none" /\ Len(chan[u].log) > n) ~> (lastHeard >= n \/ uid # u)
=============================================================================
