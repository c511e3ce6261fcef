-------------------------- MODULE EyreChannel_proofs --------------------------
(***************************************************************************)
(* Proofs about EyreChannel for every set of pokes and subscribers and     *)
(* every value of the bounds.                                              *)
(***************************************************************************)
EXTENDS EyreChannel, FiniteSetTheorems, TLAPS

-----------------------------------------------------------------------------
(* Types of the parts the actions are made of. *)

LEMMA NewRequestTyped ==
    ASSUME TypeOK
    PROVE  /\ \A p \in Poke \cup {Hi} : NewRequest("poke", p) \in Request
           /\ \A s \in Sub : NewRequest("watch", s) \in Watch
           /\ \A n \in Nat : NewRequest("unsub", n) \in Request
BY DEF TypeOK, ClientTypeOK, NewRequest, Request, Watch

LEMMA WatchIsRequest == Watch \subseteq Request
BY DEF Watch, Request

LEMMA SentTyped == ASSUME NEW reqs \in SUBSET Request PROVE Sent(reqs) \subseteq Put
BY DEF Sent, Put

LEMMA PutsTyped ==
    ASSUME TypeOK, NEW x \in puts
    PROVE  /\ x.req \in Request
           /\ x.phase \in {"sent", "opening", "hello"}
           /\ [x EXCEPT !.phase = "hello"] \in Put
           /\ [x EXCEPT !.phase = "opening"] \in Put
BY DEF TypeOK, ClientTypeOK, Put

LEMMA TellTyped ==
    ASSUME TypeOK, NEW entries, NEW word \in PokeWord, Tell(entries, word)
    PROVE  poke' \in [Poke -> PokeWord]
BY DEF TypeOK, Tell, PokeWord

LEMMA StatusOnSendTyped == ASSUME TypeOK PROVE StatusOnSend \in Status
BY DEF TypeOK, ClientTypeOK, StatusOnSend, Status

LEMMA SpendTyped ==
    ASSUME TypeOK, NEW what \in {"facts", "kicks", "fails", "breaks"}, Spend(what)
    PROVE  budget' \in [facts : Nat, kicks : Nat, fails : Nat, breaks : Nat]
BY DEF TypeOK, ShipTypeOK, Spend

(* Whatever settles, the callers' bookkeeping keeps its type. *)
LEMMA SubscribesEndTyped ==
    ASSUME CallersTypeOK,
           NEW subs \in SUBSET Watch, IsFiniteSet(subs), NEW fib \in [Sub -> SUBSET Watch],
           NEW repl \in SUBSET Watch, NEW call \in [Sub -> CallerWord],
           NEW done, NEW failed,
           SubscribesEnd(subs, fib, repl, call, done, failed)
    PROVE  CallersTypeOK'
<1> DEFINE mine(s) == {r \in done \cap fib[s] : r \notin repl}
           bad     == failed \ repl
<1>1. outSubs' \subseteq Watch /\ replaced' \subseteq Watch /\ silent' \subseteq Sub
  BY DEF CallersTypeOK, SubscribesEnd, Dropped
<1>5. IsFiniteSet(outSubs')
  BY FS_Subset DEF SubscribesEnd, Dropped
<1>2. fibers' \in [Sub -> SUBSET Watch]
  BY DEF SubscribesEnd
<1>3. held' \in [Sub -> Nat]
  <2>1. ASSUME NEW s \in Sub, mine(s) # {}
        PROVE  (CHOOSE r \in mine(s) : TRUE).id \in Nat
    <3>1. (CHOOSE r \in mine(s) : TRUE) \in mine(s)
      BY <2>1
    <3>2. mine(s) \subseteq Watch
      OBVIOUS
    <3> QED
      BY <3>1, <3>2 DEF Watch
  <2>2. held' = [s \in Sub |->
                   IF mine(s) = {} THEN held[s]
                   ELSE IF mine(s) \subseteq bad THEN 0 ELSE (CHOOSE r \in mine(s) : TRUE).id]
    BY DEF SubscribesEnd
  <2> HIDE DEF mine
  <2> QED
    BY <2>1, <2>2 DEF CallersTypeOK
<1>4. caller' \in [Sub -> CallerWord]
  BY DEF SubscribesEnd, CallerWord
<1> QED
  BY <1>1, <1>2, <1>3, <1>4, <1>5 DEF CallersTypeOK

LEMMA SettleTyped ==
    ASSUME TypeOK, NEW done, NEW failed, Settle(done, failed)
    PROVE  CallersTypeOK'
<1>1. CallersTypeOK
  BY DEF TypeOK
<1>2. /\ outSubs \in SUBSET Watch /\ IsFiniteSet(outSubs) /\ fibers \in [Sub -> SUBSET Watch]
      /\ replaced \in SUBSET Watch /\ caller \in [Sub -> CallerWord]
  BY <1>1 DEF CallersTypeOK
<1> QED
  BY <1>1, <1>2, SubscribesEndTyped DEF Settle

LEMMA SubsUnchangedTyped == ASSUME TypeOK, SubsUnchanged PROVE CallersTypeOK'
BY DEF TypeOK, CallersTypeOK, SubsUnchanged

-----------------------------------------------------------------------------
(* What the ship does to a channel. *)

LEMMA ChannelFields ==
    ASSUME NEW c \in Channel
    PROVE  /\ c.state \in {"new", "live", "reaped"}
           /\ c.log \in Seq(Event) /\ Len(c.log) \in Nat
           /\ c.flushed \in Nat
           /\ c.watches \in SUBSET Watch
BY DEF Channel

LEMMA OpenedTyped ==
    ASSUME TypeOK, NEW u \in Uid
    PROVE  Opened(u) \in Channel
BY DEF TypeOK, ShipTypeOK, Opened, FreshChannel, Channel

(* Logging appends one event and touches nothing else. *)
LEMMA LoggedIs ==
    ASSUME NEW c \in Channel, NEW kind, NEW r, [kind |-> kind, req |-> r] \in Event
    PROVE  /\ Logged(c, kind, r) \in Channel
           /\ Logged(c, kind, r).state = c.state
           /\ Len(Logged(c, kind, r).log) = Len(c.log) + 1
           /\ Logged(c, kind, r).flushed = c.flushed
           /\ Logged(c, kind, r).watches = c.watches
<1> DEFINE e == [kind |-> kind, req |-> r]
<1>1. e \in Event
  OBVIOUS
<1>2. c.log \in Seq(Event) /\ Append(c.log, e) \in Seq(Event) /\ Len(Append(c.log, e)) = Len(c.log) + 1
  BY <1>1, ChannelFields
<1>3. Logged(c, kind, r) = [c EXCEPT !.log = Append(c.log, e)]
  BY DEF Logged
<1> HIDE DEF e
<1> QED
  BY <1>2, <1>3 DEF Channel

(* The ship never drops an event it was not told of. *)
LEMMA FlushedIs ==
    ASSUME NEW c \in Channel, NEW n \in Nat \cup {-1}
    PROVE  /\ Flushed(c, n) \in Channel
           /\ Flushed(c, n).state = c.state
           /\ Flushed(c, n).log = c.log
           /\ Flushed(c, n).flushed = c.flushed \/ Flushed(c, n).flushed <= n + 1
           /\ Flushed(c, n).watches = c.watches
BY DEF Flushed, Channel

LEMMA WatchesTyped ==
    ASSUME NEW c \in Channel, NEW W \in SUBSET Watch
    PROVE  /\ [c EXCEPT !.watches = W] \in Channel
           /\ [c EXCEPT !.watches = W].state = c.state
           /\ [c EXCEPT !.watches = W].log = c.log
           /\ [c EXCEPT !.watches = W].flushed = c.flushed
           /\ [c EXCEPT !.watches = W].watches = W
BY DEF Channel

LEMMA AcceptTyped ==
    ASSUME TypeOK, NEW r \in Request, NEW c \in Channel, Accept(r, c),
           answer' \in [Poke -> {"none", "ack", "nack"}]
    PROVE  TypeOK'
<1>1. r.uid \in Uid
  BY DEF Request
<1>2. chan' \in [Uid -> Channel]
  BY <1>1 DEF TypeOK, ShipTypeOK, Accept
<1>3. wire' \subseteq Request /\ taken' \subseteq Request
  BY DEF TypeOK, ShipTypeOK, Accept
<1> QED
  BY <1>2, <1>3 DEF TypeOK, ClientTypeOK, CallersTypeOK, ShipTypeOK, Accept, client, callers

-----------------------------------------------------------------------------
(* Every action preserves the types. *)

LEMMA CallersStepTyped == ASSUME TypeOK, Callers PROVE TypeOK'
<1>1. ASSUME NEW p \in Poke, DoPoke(p) PROVE TypeOK'
  <2>1. NewRequest("poke", p) \in Request
    BY NewRequestTyped
  <2>2. puts' \subseteq Put /\ outPokes' \subseteq Request /\ wire' \subseteq Request
    BY <1>1, <2>1, SentTyped DEF DoPoke, TypeOK, ClientTypeOK, ShipTypeOK
  <2>3. CallersTypeOK'
    BY <1>1, SubsUnchangedTyped DEF DoPoke
  <2>4. status' \in Status
    BY <1>1, StatusOnSendTyped DEF DoPoke
  <2> QED
    <3>1. ClientTypeOK'
      BY <1>1, <2>2, <2>4 DEF DoPoke, TypeOK, ClientTypeOK
    <3>2. ShipTypeOK'
      BY <1>1, <2>2 DEF DoPoke, TypeOK, ShipTypeOK
    <3>3. poke' \in [Poke -> PokeWord] /\ handed' \subseteq Sub \X Sub
      BY <1>1 DEF DoPoke, TypeOK, PokeWord
    <3> QED
      BY <2>3, <3>1, <3>2, <3>3 DEF TypeOK
<1>2. ASSUME NEW s \in Sub, Subscribe(s) PROVE TypeOK'
  <2>1. NewRequest("watch", s) \in Watch /\ NewRequest("watch", s) \in Request
    BY NewRequestTyped, WatchIsRequest
  <2>2. puts' \subseteq Put /\ wire' \subseteq Request
    BY <1>2, <2>1, SentTyped DEF Subscribe, TypeOK, ClientTypeOK, ShipTypeOK
  <2>3. CallersTypeOK'
    BY <1>2, <2>1, FS_AddElement DEF Subscribe, TypeOK, CallersTypeOK, CallerWord
  <2>4. status' \in Status
    BY <1>2, StatusOnSendTyped DEF Subscribe
  <2> QED
    <3>0. /\ lastEventId' = lastEventId + 1
          /\ UNCHANGED <<uid, lastHeard, lastAcked, outPokes, stream>>
      BY <1>2 DEF Subscribe
    <3>1. ClientTypeOK'
      BY <3>0, <2>2, <2>4 DEF TypeOK, ClientTypeOK
    <3>2. ShipTypeOK'
      BY <1>2, <2>2 DEF Subscribe, TypeOK, ShipTypeOK
    <3> QED
      BY <1>2, <2>3, <3>1, <3>2 DEF Subscribe, TypeOK
<1>3. ASSUME NEW s \in Sub, Unsubscribe(s) PROVE TypeOK'
  <2>1. NewRequest("unsub", held[s]) \in Request
    BY NewRequestTyped DEF TypeOK, CallersTypeOK
  <2>2. puts' \subseteq Put /\ wire' \subseteq Request
    BY <1>3, <2>1, SentTyped DEF Unsubscribe, TypeOK, ClientTypeOK, ShipTypeOK
  <2>3. CallersTypeOK'
    BY <1>3, FS_Subset DEF Unsubscribe, Without, TypeOK, CallersTypeOK, CallerWord
  <2> QED
    <3>1. ClientTypeOK'
      BY <1>3, <2>2 DEF Unsubscribe, TypeOK, ClientTypeOK
    <3>2. ShipTypeOK'
      BY <1>3, <2>2 DEF Unsubscribe, TypeOK, ShipTypeOK
    <3> QED
      BY <1>3, <2>3, <3>1, <3>2 DEF Unsubscribe, TypeOK
<1> QED
  BY <1>1, <1>2, <1>3 DEF Callers

LEMMA ArrivalsTyped == ASSUME TypeOK, Arrivals PROVE TypeOK'
<1> SUFFICES ASSUME NEW r \in wire,
                    ArrivePoke(r) \/ ArriveWatch(r) \/ ArriveUnsub(r) \/ ArriveAck(r)
             PROVE  TypeOK'
  BY DEF Arrivals
<1>1. r \in Request /\ r.uid \in Uid /\ Opened(r.uid) \in Channel
  BY OpenedTyped DEF TypeOK, ShipTypeOK, Request
<1>2. answer \in [Poke -> {"none", "ack", "nack"}]
  BY DEF TypeOK, ShipTypeOK
<1>3. CASE ArrivePoke(r)
  <2>1. PICK word \in {"ack", "nack"} :
           /\ answer' = [p \in Poke |-> IF p = r.arg THEN word ELSE answer[p]]
           /\ Accept(r, Logged(Opened(r.uid), word, r))
    BY <1>3 DEF ArrivePoke
  <2>2. Logged(Opened(r.uid), word, r) \in Channel
    BY <1>1, LoggedIs DEF Event
  <2> QED
    BY <1>1, <1>2, <2>1, <2>2, AcceptTyped
<1>4. CASE ArriveWatch(r)
  <2>1. r \in Watch
    BY <1>1, <1>4 DEF ArriveWatch, Request, Watch
  <2>2. /\ [Opened(r.uid) EXCEPT !.watches = Opened(r.uid).watches \cup {r}] \in Channel
        /\ Logged(Opened(r.uid), "refused", r) \in Channel
    BY <1>1, <2>1, LoggedIs, WatchesTyped, ChannelFields DEF Event
  <2>3. \/ Accept(r, [Opened(r.uid) EXCEPT !.watches = Opened(r.uid).watches \cup {r}])
        \/ Accept(r, Logged(Opened(r.uid), "refused", r))
    BY <1>4 DEF ArriveWatch
  <2> QED
    BY <1>1, <1>2, <1>4, <2>2, <2>3, AcceptTyped DEF ArriveWatch
<1>5. CASE ArriveUnsub(r)
  <2> DEFINE left == {w \in Opened(r.uid).watches : w.id # r.arg}
  <2>1. [Opened(r.uid) EXCEPT !.watches = left] \in Channel
    BY <1>1, WatchesTyped, ChannelFields
  <2>2. Accept(r, [Opened(r.uid) EXCEPT !.watches = left])
    BY <1>5 DEF ArriveUnsub
  <2> QED
    BY <1>1, <1>2, <1>5, <2>1, <2>2, AcceptTyped DEF ArriveUnsub
<1>6. CASE ArriveAck(r)
  <2>1. r.arg \in Nat
    BY <1>1, <1>6 DEF ArriveAck, Request
  <2>2. Flushed(Opened(r.uid), r.arg) \in Channel
    BY <1>1, <2>1, FlushedIs
  <2> QED
    BY <1>1, <1>2, <1>6, <2>2, AcceptTyped DEF ArriveAck
<1> QED
  BY <1>3, <1>4, <1>5, <1>6

LEMMA AgentsTyped == ASSUME TypeOK, Agents PROVE TypeOK'
<1>1. chan[uid] \in Channel /\ uid \in Uid /\ chan \in [Uid -> Channel]
  BY DEF TypeOK, ClientTypeOK, ShipTypeOK
<1>2. ASSUME chan' \in [Uid -> Channel],
             budget' \in [facts : Nat, kicks : Nat, fails : Nat, breaks : Nat],
             UNCHANGED <<client, callers, wire, taken, answer, handed>>
      PROVE  TypeOK'
  BY <1>2 DEF TypeOK, ClientTypeOK, CallersTypeOK, ShipTypeOK, client, callers
<1>3. CASE Reap(uid)
  <2> DEFINE c == [chan[uid] EXCEPT !.state = "reaped", !.watches = {}]
  <2>1. c \in Channel
    BY <1>1 DEF Channel
  <2>2. chan' = [chan EXCEPT ![uid] = c]
    BY <1>1, <1>3 DEF Reap
  <2> HIDE DEF c
  <2>3. chan' \in [Uid -> Channel]
    BY <1>1, <2>1, <2>2
  <2>4. budget' \in [facts : Nat, kicks : Nat, fails : Nat, breaks : Nat]
    BY <1>3 DEF Reap, TypeOK, ShipTypeOK
  <2> QED
    BY <1>2, <1>3, <2>3, <2>4 DEF Reap
<1>4. ASSUME NEW w \in chan[uid].watches, Emit(w) \/ Kick(w) PROVE TypeOK'
  <2>1. w \in Watch /\ w \in Request /\ w.uid \in Uid /\ chan[w.uid] \in Channel
    BY <1>1, WatchIsRequest DEF Channel, Watch
  <2>2. budget' \in [facts : Nat, kicks : Nat, fails : Nat, breaks : Nat]
    BY <1>4, SpendTyped DEF Emit, Kick
  <2>3. CASE Emit(w)
    <3>1. Logged(chan[w.uid], "fact", w) \in Channel
      BY <2>1, LoggedIs DEF Event
    <3>2. chan' = [chan EXCEPT ![w.uid] = Logged(chan[w.uid], "fact", w)]
      BY <2>3 DEF Emit
    <3> QED
      BY <1>1, <1>2, <2>1, <2>2, <2>3, <3>1, <3>2 DEF Emit
  <2>4. CASE Kick(w)
    <3> DEFINE c == [chan[w.uid] EXCEPT !.watches = chan[w.uid].watches \ {w}]
    <3>1. c \in Channel
      BY <2>1, ChannelFields, WatchesTyped
    <3>2. chan' = [chan EXCEPT ![w.uid] = Logged(c, "kick", w)]
      BY <2>4 DEF Kick, Unwatched
    <3> HIDE DEF c
    <3>3. Logged(c, "kick", w) \in Channel
      BY <2>1, <3>1, LoggedIs DEF Event
    <3> QED
      BY <1>1, <1>2, <2>1, <2>2, <2>4, <3>2, <3>3 DEF Kick
  <2> QED
    BY <1>4, <2>3, <2>4
<1> QED
  BY <1>3, <1>4 DEF Agents

LEMMA ResponsesTyped == ASSUME TypeOK, Responses PROVE TypeOK'
<1> SUFFICES ASSUME NEW x \in puts,
                    PutOk(x) \/ PutOpensStream(x) \/ PutSaysHi(x) \/ PutFail(x)
             PROVE  TypeOK'
  BY DEF Responses
<1>1. CASE PutOk(x)
  <2>1. CallersTypeOK'
    BY <1>1, SettleTyped DEF PutOk
  <2>2. ClientTypeOK'
    BY <1>1 DEF PutOk, TypeOK, ClientTypeOK
  <2>3. ShipTypeOK'
    BY <1>1 DEF PutOk, TypeOK, ShipTypeOK
  <2> QED
    BY <1>1, <2>1, <2>2, <2>3 DEF PutOk, TypeOK
<1>2. CASE PutOpensStream(x)
  <2>1. CallersTypeOK'
    BY <1>2, SubsUnchangedTyped DEF PutOpensStream
  <2>2. stream' \in Stream /\ puts' \subseteq Put
    BY <1>2, PutsTyped DEF PutOpensStream, NoStream, Stream, TypeOK, ClientTypeOK
  <2>3. ClientTypeOK'
    BY <1>2, <2>2 DEF PutOpensStream, TypeOK, ClientTypeOK
  <2>4. ShipTypeOK'
    BY <1>2 DEF PutOpensStream, TypeOK, ShipTypeOK
  <2> QED
    BY <1>2, <2>1, <2>3, <2>4 DEF PutOpensStream, TypeOK
<1>3. CASE PutSaysHi(x)
  <2>1. CallersTypeOK'
    BY <1>3, SubsUnchangedTyped DEF PutSaysHi
  <2>2. NewRequest("poke", Hi) \in Request
    BY NewRequestTyped
  <2>3. puts' \subseteq Put /\ outPokes' \subseteq Request /\ wire' \subseteq Request
    BY <1>3, <2>2, PutsTyped, SentTyped DEF PutSaysHi, TypeOK, ClientTypeOK, ShipTypeOK
  <2>4. ClientTypeOK'
    BY <1>3, <2>3 DEF PutSaysHi, TypeOK, ClientTypeOK, Status
  <2>5. ShipTypeOK'
    BY <1>3, <2>3 DEF PutSaysHi, TypeOK, ShipTypeOK
  <2> QED
    BY <1>3, <2>1, <2>4, <2>5 DEF PutSaysHi, TypeOK
<1>4. CASE PutFail(x)
  <2>1. CallersTypeOK'
    BY <1>4, SettleTyped DEF PutFail
  <2>2. ClientTypeOK'
    BY <1>4 DEF PutFail, TypeOK, ClientTypeOK
  <2>3. budget' \in [facts : Nat, kicks : Nat, fails : Nat, breaks : Nat]
    <3>1. CASE Spend("fails")
      BY <3>1, SpendTyped
    <3>2. CASE UNCHANGED budget
      BY <3>2 DEF TypeOK, ShipTypeOK
    <3> QED
      BY <1>4, <3>1, <3>2 DEF PutFail
  <2>4. ShipTypeOK'
    BY <1>4, <2>3 DEF PutFail, TypeOK, ShipTypeOK
  <2>5. poke' \in [Poke -> PokeWord]
    BY <1>4, TellTyped DEF PutFail, PokeWord
  <2> QED
    BY <1>4, <2>1, <2>2, <2>4, <2>5 DEF PutFail, TypeOK
<1> QED
  BY <1>1, <1>2, <1>3, <1>4

LEMMA TimeoutsTyped == ASSUME TypeOK, Timeouts PROVE TypeOK'
<1> SUFFICES ASSUME NEW e \in outPokes, PokeTimeout(e) PROVE TypeOK'
  BY DEF Timeouts
<1>1. CallersTypeOK'
  BY SettleTyped DEF PokeTimeout
<1>2. ClientTypeOK'
  BY DEF PokeTimeout, TypeOK, ClientTypeOK
<1>3. ShipTypeOK'
  BY DEF PokeTimeout, TypeOK, ShipTypeOK, ship
<1>4. poke' \in [Poke -> PokeWord]
  BY TellTyped DEF PokeTimeout, PokeWord
<1> QED
  BY <1>1, <1>2, <1>3, <1>4 DEF PokeTimeout, TypeOK

LEMMA ReconnectTyped ==
    ASSUME TypeOK, NEW resume \in Nat \cup {-1}, Reconnect(resume)
    PROVE  TypeOK'
<1>1. CallersTypeOK'
  BY SubsUnchangedTyped DEF Reconnect
<1>2. stream' \in Stream
  BY DEF Reconnect, Stream, TypeOK, ClientTypeOK
<1>3. ClientTypeOK'
  BY <1>2 DEF Reconnect, TypeOK, ClientTypeOK, Status
<1>4. budget' \in [facts : Nat, kicks : Nat, fails : Nat, breaks : Nat]
  BY SpendTyped DEF Reconnect
<1>5. ShipTypeOK'
  BY <1>4 DEF Reconnect, TypeOK, ShipTypeOK, ship
<1> QED
  BY <1>1, <1>3, <1>5 DEF Reconnect, TypeOK

LEMMA StreamFields ==
    ASSUME TypeOK
    PROVE  /\ stream.state \in {"none", "connecting", "open"}
           /\ stream.uid \in Uid
           /\ stream.resume \in Nat \cup {-1}
           /\ stream.next \in Nat
           /\ chan[stream.uid] \in Channel
BY DEF TypeOK, ClientTypeOK, ShipTypeOK, Stream

(* The replayed subscriptions get ids on the new channel. *)
LEMMA SeamlessResetTyped == ASSUME TypeOK, SeamlessReset PROVE TypeOK'
<1> DEFINE kept      == {e \in outSubs : e.arg \in Resub}
           replay(e) == [uid |-> uid + 1, id |-> Cardinality({f \in kept : f.id <= e.id}),
                         kind |-> "watch", arg |-> e.arg]
           new       == {replay(e) : e \in kept}
           fib       == [s \in Sub |-> fibers[s] \cup {replay(e) : e \in kept \cap fibers[s]}]
           repl      == replaced \cup (kept \cap Pending(puts))
           call      == [s \in Sub |-> IF \E e \in outSubs \ kept : e.arg = s
                                      THEN "over" ELSE caller[s]]
<1>1. /\ uid' \in Uid /\ uid' = uid + 1
      /\ lastHeard' = -1 /\ lastAcked' = -1
      /\ stream' \in Stream
      /\ status' \in Status
  <2>1. /\ uid < MaxUid /\ uid' = uid + 1
        /\ lastHeard' = HeardOnReset /\ lastAcked' = -1
        /\ stream' = StreamOnReset
        /\ status' = "initial" \/ status' = "opening"
    BY DEF SeamlessReset, StatusOnReset
  <2>2. StreamOnReset \in Stream
    BY ConstantsAssumption DEF StreamOnReset, NoStream, Stream, Uid
  <2>3. uid' \in Uid
    BY <2>1, ConstantsAssumption DEF Uid, TypeOK, ClientTypeOK
  <2> QED
    BY <2>1, <2>2, <2>3 DEF HeardOnReset, Status
<1>2. kept \subseteq Watch /\ IsFiniteSet(kept)
  BY FS_Subset DEF TypeOK, CallersTypeOK
<1>3. \A e \in kept : replay(e) \in Watch
  <2>1. ASSUME NEW e \in kept PROVE Cardinality({f \in kept : f.id <= e.id}) \in Nat
    BY <1>2, FS_Subset, FS_CardinalityType
  <2> QED
    BY <1>1, <1>2, <2>1 DEF Watch
<1>4. new \subseteq Watch /\ new \subseteq Request
  BY <1>3, WatchIsRequest
<1>5. IsFiniteSet(new) /\ Cardinality(new) \in Nat
  <2> DEFINE f == [e \in kept |-> replay(e)]
  <2>1. f \in Surjection(kept, new)
    BY DEF Surjection
  <2> HIDE DEF f, new
  <2> QED
    BY <1>2, <2>1, FS_Surjection, FS_CardinalityType
<1>6. CallersTypeOK'
  <2>1. fib \in [Sub -> SUBSET Watch]
    BY <1>3 DEF TypeOK, CallersTypeOK
  <2>2. repl \in SUBSET Watch /\ call \in [Sub -> CallerWord]
    BY <1>2 DEF TypeOK, CallersTypeOK, CallerWord
  <2>3. SubscribesEnd(new, fib, repl, call, Aborted, Aborted)
    BY DEF SeamlessReset
  <2>4. CallersTypeOK
    BY DEF TypeOK
  <2> HIDE DEF fib, repl, call, new
  <2> QED
    BY <1>4, <1>5, <2>1, <2>2, <2>3, <2>4, SubscribesEndTyped
<1>7. /\ lastEventId' = Cardinality(new)
      /\ puts' = {x \in puts : x.phase = "sent"} \cup Sent(new)
      /\ wire' = wire \cup new
      /\ outPokes' = {}
      /\ Tell(outPokes, "reaped")
      /\ UNCHANGED <<taken, chan, answer, handed, budget>>
  BY DEF SeamlessReset
<1> HIDE DEF new, kept
<1>8. puts' \subseteq Put
  BY <1>4, <1>7, SentTyped DEF TypeOK, ClientTypeOK
<1>9. ClientTypeOK'
  BY <1>1, <1>5, <1>7, <1>8 DEF TypeOK, ClientTypeOK
<1>10. ShipTypeOK'
  BY <1>4, <1>7 DEF TypeOK, ShipTypeOK
<1>11. poke' \in [Poke -> PokeWord]
  BY <1>7, TellTyped DEF PokeWord
<1> QED
  BY <1>6, <1>7, <1>9, <1>10, <1>11 DEF TypeOK

LEMMA ConnectionTyped == ASSUME TypeOK, Connection PROVE TypeOK'
<1>1. ASSUME StreamOpen PROVE TypeOK'
  <2> DEFINE c    == Flushed(chan[stream.uid], stream.resume)
             done == {x \in puts : x.phase = "opening"}
  <2>1. c \in Channel /\ c.flushed \in Nat
    BY StreamFields, FlushedIs, ChannelFields
  <2>2. CallersTypeOK'
    BY <1>1, SettleTyped DEF StreamOpen
  <2>3. /\ chan' = [chan EXCEPT ![stream.uid] = c]
        /\ stream' = [stream EXCEPT !.state = "open", !.next = c.flushed, !.retried = FALSE]
        /\ puts' = puts \ done
        /\ status' \in Status
        /\ UNCHANGED <<uid, lastEventId, lastHeard, lastAcked, outPokes, poke, wire, taken, answer,
                       handed, budget>>
    BY <1>1 DEF StreamOpen, Status
  <2> HIDE DEF c, done
  <2>4. ClientTypeOK'
    BY <2>1, <2>3 DEF TypeOK, ClientTypeOK, Stream
  <2>5. ShipTypeOK'
    BY <2>1, <2>3 DEF TypeOK, ShipTypeOK
  <2> QED
    BY <2>2, <2>3, <2>4, <2>5 DEF TypeOK
<1>2. ASSUME StreamBreak \/ StreamTear PROVE TypeOK'
  BY <1>2, StreamFields, ReconnectTyped DEF StreamBreak, StreamTear
<1> QED
  BY <1>1, <1>2, SeamlessResetTyped DEF Connection, StreamReaped, Rotate

LEMMA AckDueTyped ==
    ASSUME TypeOK, NEW n \in Nat
    PROVE  AckDue(n) \subseteq Request
BY DEF AckDue, Request, TypeOK, ClientTypeOK

LEMMA HeardEventTyped ==
    ASSUME TypeOK, Due
    PROVE  HeardEvent \in Event /\ stream.next \in Nat
<1>1. /\ chan[stream.uid].log \in Seq(Event)
      /\ stream.next + 1 \in 1 .. Len(chan[stream.uid].log)
      /\ stream.next \in Nat
  BY StreamFields, ChannelFields DEF Due
<1> QED
  BY <1>1 DEF HeardEvent

LEMMA ListenerTyped == ASSUME TypeOK PROVE Listener \subseteq outSubs /\ Listener \subseteq Watch
BY DEF Listener, TypeOK, CallersTypeOK

(* The stream after one more event. *)
LEMMA NextOnStream ==
    ASSUME TypeOK, stream' = [stream EXCEPT !.resume = stream.next, !.next = @ + 1]
    PROVE  stream' \in Stream
<1>1. stream \in Stream
  BY DEF TypeOK, ClientTypeOK
<1>2. stream' = [state |-> stream.state, uid |-> stream.uid, resume |-> stream.next,
                 next |-> stream.next + 1, retried |-> stream.retried]
  BY <1>1 DEF Stream
<1> QED
  BY <1>1, <1>2 DEF Stream

(* Everything the handlers of the events leave to Receive. *)
LEMMA ReceiveTyped ==
    ASSUME TypeOK, NEW sent \in SUBSET Request, NEW gone, Receive(sent, gone),
           lastEventId' \in Nat, outPokes' \subseteq outPokes, status' \in Status
    PROVE  ClientTypeOK' /\ ShipTypeOK'
<1>1. stream.next \in Nat
  BY StreamFields
<1>2. AckDue(stream.next) \cup sent \subseteq Request
  BY <1>1, AckDueTyped
<1>3. puts' \subseteq Put
  BY <1>2, SentTyped DEF Receive, TypeOK, ClientTypeOK
<1>4. stream' \in Stream
  BY NextOnStream DEF Receive
<1>5. lastHeard' \in Nat \cup {-1} /\ lastAcked' \in Nat \cup {-1} /\ uid' \in Uid
  BY <1>1 DEF Receive, TypeOK, ClientTypeOK
<1>6. ClientTypeOK'
  BY <1>3, <1>4, <1>5 DEF TypeOK, ClientTypeOK
<1>7. ShipTypeOK'
  BY <1>2 DEF Receive, TypeOK, ShipTypeOK
<1> QED
  BY <1>6, <1>7

(* A quit that resubscribes takes finitely many new ids. *)
LEMMA AgainTyped ==
    ASSUME TypeOK
    PROVE  /\ Again \subseteq Watch /\ Again \subseteq Request
           /\ IsFiniteSet(Again) /\ Cardinality(Again) \in Nat
<1>1. Again \subseteq {NewRequest("watch", s) : s \in Sub}
  BY ListenerTyped DEF Again, Watch
<1>2. Again \subseteq Watch /\ Again \subseteq Request
  BY <1>1, NewRequestTyped, WatchIsRequest
<1>3. IsFiniteSet(Again) /\ Cardinality(Again) \in Nat
  <2> DEFINE kicked == {l \in Listener : l.arg \in Resub}
             f      == [e \in kicked |-> NewRequest("watch", e.arg)]
  <2>1. IsFiniteSet(kicked)
    BY ListenerTyped, FS_Subset DEF TypeOK, CallersTypeOK
  <2>2. f \in Surjection(kicked, Again)
    BY DEF Surjection, Again
  <2> HIDE DEF f, kicked
  <2> QED
    BY <2>1, <2>2, FS_Surjection, FS_CardinalityType
<1> QED
  BY <1>2, <1>3

LEMMA HearingTyped == ASSUME TypeOK, Hearing PROVE TypeOK'
<1>1. ASSUME HearOld PROVE TypeOK'
  <2>2. stream' \in Stream
    BY <1>1, NextOnStream DEF HearOld
  <2>3. ClientTypeOK'
    BY <1>1, <2>2 DEF HearOld, TypeOK, ClientTypeOK
  <2>4. CallersTypeOK'
    BY <1>1, SubsUnchangedTyped DEF HearOld
  <2>5. ShipTypeOK'
    BY <1>1 DEF HearOld, TypeOK, ShipTypeOK, ship
  <2> QED
    BY <1>1, <2>3, <2>4, <2>5 DEF HearOld, TypeOK
<1>2. ASSUME HearPokeAnswer PROVE TypeOK'
  <2> DEFINE mine == {e \in outPokes : e.id = HeardEvent.req.id}
  <2>1. /\ Receive({}, Greeting(mine))
        /\ outPokes' = outPokes \ mine
        /\ Tell(mine, IF HeardEvent.kind = "ack" THEN "acked" ELSE "nacked")
        /\ Settle(Pending(Greeting(mine)), {})
        /\ UNCHANGED <<lastEventId, status, handed>>
    BY <1>2 DEF HearPokeAnswer
  <2>2. CallersTypeOK'
    BY <2>1, SettleTyped
  <2>3. poke' \in [Poke -> PokeWord]
    BY <2>1, TellTyped DEF PokeWord
  <2> HIDE DEF mine
  <2>4. lastEventId' \in Nat /\ outPokes' \subseteq outPokes /\ status' \in Status
    BY <2>1 DEF TypeOK, ClientTypeOK
  <2>5. ClientTypeOK' /\ ShipTypeOK'
    BY <2>1, <2>4, ReceiveTyped
  <2> QED
    BY <2>1, <2>2, <2>3, <2>5 DEF TypeOK
<1>3. ASSUME HearRefused PROVE TypeOK'
  <2>1. lastEventId' \in Nat /\ outPokes' \subseteq outPokes /\ status' \in Status
    BY <1>3 DEF HearRefused, TypeOK, ClientTypeOK
  <2>2. ClientTypeOK' /\ ShipTypeOK'
    BY <1>3, <2>1, ReceiveTyped DEF HearRefused
  <2>3. CallersTypeOK'
    BY <1>3, FS_Subset DEF HearRefused, TypeOK, CallersTypeOK, CallerWord
  <2> QED
    BY <1>3, <2>2, <2>3 DEF HearRefused, TypeOK
<1>4. ASSUME HearFact PROVE TypeOK'
  <2>1. lastEventId' \in Nat /\ outPokes' \subseteq outPokes /\ status' \in Status
    BY <1>4 DEF HearFact, TypeOK, ClientTypeOK
  <2>2. ClientTypeOK' /\ ShipTypeOK'
    BY <1>4, <2>1, ReceiveTyped DEF HearFact
  <2>3. CallersTypeOK'
    BY <1>4, SubsUnchangedTyped DEF HearFact
  <2>4. handed' \subseteq Sub \X Sub
    <3>1. HeardEvent \in Event /\ HeardEvent.kind = "fact"
      BY <1>4, HeardEventTyped DEF HearFact
    <3>2. handed' = handed \cup {<<e.arg, HeardEvent.req.arg>> : e \in Listener}
      BY <1>4 DEF HearFact
    <3>3. HeardEvent.req.arg \in Sub /\ \A e \in Listener : e.arg \in Sub
      BY <3>1, ListenerTyped DEF Event, Watch
    <3> QED
      BY <3>2, <3>3 DEF TypeOK
  <2> QED
    BY <1>4, <2>2, <2>3, <2>4 DEF HearFact, TypeOK
<1>5. ASSUME HearKick PROVE TypeOK'
  <2>4. /\ Receive(Again, {})
        /\ outSubs' = (outSubs \ Listener) \cup Again
        /\ lastEventId' = lastEventId + Cardinality(Again)
        /\ caller' = [s \in Sub |-> IF s \notin Resub /\ (\E e \in Listener : e.arg = s)
                                    THEN "over" ELSE caller[s]]
        /\ UNCHANGED <<outPokes, status, replaced, poke, fibers, held, silent, handed>>
    BY <1>5 DEF HearKick
  <2>5. lastEventId' \in Nat /\ outPokes' \subseteq outPokes /\ status' \in Status
    BY <2>4, AgainTyped DEF TypeOK, ClientTypeOK
  <2>6. ClientTypeOK' /\ ShipTypeOK'
    BY <2>4, <2>5, AgainTyped, ReceiveTyped
  <2>7. IsFiniteSet(outSubs') /\ outSubs' \subseteq Watch
    BY <2>4, AgainTyped, FS_Subset, FS_Union DEF TypeOK, CallersTypeOK
  <2>8. CallersTypeOK'
    BY <2>4, <2>7 DEF TypeOK, CallersTypeOK, CallerWord
  <2> QED
    BY <2>4, <2>6, <2>8 DEF TypeOK
<1> QED
  BY <1>1, <1>2, <1>3, <1>4, <1>5 DEF Hearing

LEMMA StepTyped == ASSUME TypeOK, [Next]_vars PROVE TypeOK'
<1>1. CASE UNCHANGED vars
  BY <1>1 DEF TypeOK, ClientTypeOK, CallersTypeOK, ShipTypeOK, vars, client, callers, ship
<1> QED
  BY <1>1, CallersStepTyped, ArrivalsTyped, AgentsTyped, ResponsesTyped, TimeoutsTyped,
     ConnectionTyped, HearingTyped
  DEF Next

LEMMA InitTyped == Init => TypeOK
<1> SUFFICES ASSUME Init PROVE TypeOK
  OBVIOUS
<1>1. ClientTypeOK
  BY ConstantsAssumption DEF Init, ClientTypeOK, NoStream, Stream, Uid, Status
<1>2. CallersTypeOK
  BY FS_EmptySet DEF Init, CallersTypeOK, CallerWord
<1>3. chan \in [Uid -> Channel]
  BY DEF Init, Channel
<1>4. ShipTypeOK
  BY <1>3, ConstantsAssumption DEF Init, ShipTypeOK
<1> QED
  BY <1>1, <1>2, <1>4 DEF Init, TypeOK, PokeWord

(* Every variable of the channel keeps its type (urbit's maps and counters). *)
THEOREM TypeCorrect == Spec => []TypeOK
BY InitTyped, StepTyped, PTL DEF Spec

-----------------------------------------------------------------------------
(* The status.  The event source is that of the current channel, on which  *)
(* some request was sent: the next request therefore announces no          *)
(* 'opening' while the event source is up.                                 *)

Current == stream.state # "none" => stream.uid = uid /\ lastEventId > 0

StatusInv == TypeOK /\ Current /\ StatusIsTrue

LEMMA StatusInit == Init => StatusInv
BY InitTyped DEF Init, StatusInv, Current, StatusIsTrue, NoStream

LEMMA StatusKeptWith ==
    ASSUME StatusInv, lastEventId' \in Nat, lastEventId' >= lastEventId,
           UNCHANGED <<uid, stream, status>>
    PROVE  Current' /\ StatusIsTrue'
BY DEF StatusInv, Current, StatusIsTrue, TypeOK, ClientTypeOK

LEMMA StatusStep == ASSUME StatusInv, [Next]_vars PROVE StatusInv'
<1>1. TypeOK /\ TypeOK' /\ lastEventId \in Nat /\ lastEventId' \in Nat
  BY StepTyped DEF StatusInv, TypeOK, ClientTypeOK
<1> SUFFICES Current' /\ StatusIsTrue'
  BY <1>1 DEF StatusInv
<1>2. CASE UNCHANGED vars
  BY <1>1, <1>2, StatusKeptWith DEF vars, client
<1>3. CASE Callers
  <2>1. ASSUME lastEventId' = lastEventId + 1, status' = StatusOnSend, UNCHANGED <<uid, stream>>
        PROVE  Current' /\ StatusIsTrue'
    BY <1>1, <2>1 DEF StatusInv, Current, StatusIsTrue, StatusOnSend
  <2>2. ASSUME NEW s \in Sub, Unsubscribe(s) PROVE Current' /\ StatusIsTrue'
    BY <1>1, <2>2, StatusKeptWith DEF Unsubscribe
  <2> QED
    BY <1>3, <2>1, <2>2 DEF Callers, DoPoke, Subscribe
<1>4. CASE Arrivals \/ Agents
  <2>1. UNCHANGED client
    BY <1>4 DEF Arrivals, ArrivePoke, ArriveWatch, ArriveUnsub, ArriveAck, Accept,
                Agents, Reap, Emit, Kick
  <2> QED
    BY <1>1, <2>1, StatusKeptWith DEF client
<1>5. CASE Responses
  <2> SUFFICES ASSUME NEW x \in puts,
                      PutOk(x) \/ PutOpensStream(x) \/ PutSaysHi(x) \/ PutFail(x)
               PROVE  Current' /\ StatusIsTrue'
    BY <1>5 DEF Responses
  <2>1. CASE PutOk(x) \/ PutFail(x)
    BY <1>1, <2>1, StatusKeptWith DEF PutOk, PutFail
  <2>2. CASE PutOpensStream(x)
    BY <1>1, <2>2 DEF PutOpensStream, NoStream, StatusInv, Current, StatusIsTrue
  <2>3. CASE PutSaysHi(x)
    BY <1>1, <2>3 DEF PutSaysHi, StatusInv, Current, StatusIsTrue
  <2> QED
    BY <2>1, <2>2, <2>3
<1>6. CASE Timeouts
  BY <1>1, <1>6, StatusKeptWith DEF Timeouts, PokeTimeout
<1>7. CASE Connection
  <2>1. stream \in Stream
    BY <1>1 DEF TypeOK, ClientTypeOK
  <2>2. CASE StreamOpen
    BY <2>1, <2>2 DEF StreamOpen, StatusInv, Current, StatusIsTrue, Stream
  <2>3. CASE StreamBreak \/ StreamTear
    BY <2>1, <2>3 DEF StreamBreak, StreamTear, Due, Reconnect, StatusInv, Current, StatusIsTrue,
                      Stream
  <2>4. CASE SeamlessReset
    BY <2>4 DEF SeamlessReset, StreamOnReset, NoStream, StatusOnReset, Current, StatusIsTrue
  <2> QED
    BY <1>7, <2>2, <2>3, <2>4 DEF Connection, StreamReaped, Rotate
<1>8. CASE Hearing
  <2>1. stream \in Stream
    BY <1>1 DEF TypeOK, ClientTypeOK
  <2>2. stream' = [stream EXCEPT !.resume = stream.next, !.next = @ + 1] /\ UNCHANGED uid
    BY <1>8 DEF Hearing, HearOld, HearPokeAnswer, HearRefused, HearFact, HearKick, Receive
  <2>3. UNCHANGED status
    BY <1>8 DEF Hearing, HearOld, HearPokeAnswer, HearRefused, HearFact, HearKick
  <2>4. stream'.state = stream.state /\ stream'.uid = stream.uid
    BY <2>1, <2>2 DEF Stream
  <2>5. lastEventId > 0
    BY <1>1, <1>8 DEF Hearing, HearOld, HearPokeAnswer, HearRefused, HearFact, HearKick, Due,
                      StatusInv, Current
  <2>6. lastEventId' > 0
    <3>1. CASE HearKick
      BY <1>1, <2>5, <3>1, AgainTyped DEF HearKick
    <3> QED
      BY <1>8, <2>5, <3>1 DEF Hearing, HearOld, HearPokeAnswer, HearRefused, HearFact
  <2> QED
    BY <2>2, <2>3, <2>4, <2>6 DEF StatusInv, Current, StatusIsTrue
<1> QED
  BY <1>2, <1>3, <1>4, <1>5, <1>6, <1>7, <1>8 DEF Next

(* The channel counts as connected exactly while its event source is open. *)
THEOREM StatusCorrect == Spec => []StatusIsTrue
<1>1. Spec => []StatusInv
  BY StatusInit, StatusStep, PTL DEF Spec
<1>2. StatusInv => StatusIsTrue
  BY DEF StatusInv
<1> QED
  BY <1>1, <1>2, PTL

-----------------------------------------------------------------------------
(* The feed, when connections break between events.  What the client tells *)
(* the ship it has, in an ack or with Last-Event-ID, it has handled, so    *)
(* the ship's log and the stream are never ahead of lastHeard + 1; and no  *)
(* request reaches a channel before the client is on it.                   *)

NewIsEmpty ==
    \A u \in Uid : /\ u > uid => chan[u].state = "new"
                   /\ chan[u].state = "new" => chan[u].log = <<>> /\ chan[u].flushed = 0

WatchesAtHome ==
    \A u \in Uid : \A w \in chan[u].watches : w.uid = u /\ chan[u].state = "live"

AcksHandled ==
    \A r \in wire : /\ r.uid <= uid
                    /\ r.uid = uid /\ r.kind = "ack" => r.arg <= lastHeard

StreamHandled ==
    /\ stream.resume <= lastHeard
    /\ stream.state = "open" => stream.next <= lastHeard + 1

FeedInv == NewIsEmpty /\ WatchesAtHome /\ AcksHandled /\ StreamHandled /\ NothingLostUnheard

LEMMA FeedInit == Init => FeedInv
<1> SUFFICES ASSUME Init PROVE FeedInv
  OBVIOUS
<1>1. uid = 0 /\ uid \in Uid /\ lastHeard = -1 /\ wire = {} /\ stream = NoStream
  BY ConstantsAssumption DEF Init, Uid
<1>2. \A u \in Uid : chan[u] = [state |-> "new", log |-> <<>>, flushed |-> 0, watches |-> {}]
  BY DEF Init
<1> QED
  BY <1>1, <1>2 DEF FeedInv, NewIsEmpty, WatchesAtHome, AcksHandled, StreamHandled, NoStream,
                    NothingLostUnheard

(* Requests other than acks, sent on the current channel, endanger nothing. *)
LEMMA FeedKeptSending ==
    ASSUME TypeOK, FeedInv, \A r \in wire' \ wire : r.uid = uid /\ r.kind # "ack",
           UNCHANGED <<uid, lastHeard, stream, chan>>
    PROVE  FeedInv'
<1>1. uid \in Nat /\ uid <= uid
  BY DEF TypeOK, ClientTypeOK, Uid
<1>2. AcksHandled'
  BY <1>1 DEF FeedInv, AcksHandled
<1>3. NewIsEmpty' /\ WatchesAtHome' /\ StreamHandled' /\ NothingLostUnheard'
  BY DEF FeedInv, NewIsEmpty, WatchesAtHome, StreamHandled, NothingLostUnheard
<1> QED
  BY <1>2, <1>3 DEF FeedInv

(* A request that arrives leaves its channel live, and flushed no further   *)
(* than an ack it is.                                                       *)
LEMMA FeedKeptAccepting ==
    ASSUME TypeOK, FeedInv, NEW r \in wire, NEW c \in Channel, Accept(r, c),
           c.state = "live",
           \A w \in c.watches : w.uid = r.uid,
           r.uid = uid => c.flushed <= lastHeard + 1
    PROVE  FeedInv'
<1>1. /\ r.uid \in Uid /\ uid \in Uid /\ r.uid <= uid
      /\ chan \in [Uid -> Channel]
      /\ chan' = [chan EXCEPT ![r.uid] = c]
      /\ wire' \subseteq wire
      /\ UNCHANGED <<uid, lastHeard, stream>>
  BY DEF TypeOK, ClientTypeOK, ShipTypeOK, Request, Accept, client, FeedInv, AcksHandled
<1>2. /\ chan'[r.uid] = c
      /\ \A u \in Uid \ {r.uid} : chan'[u] = chan[u]
  BY <1>1
<1>3. NewIsEmpty'
  BY <1>1, <1>2 DEF FeedInv, NewIsEmpty, Uid
<1>4. WatchesAtHome'
  BY <1>1, <1>2 DEF FeedInv, WatchesAtHome
<1>5. AcksHandled' /\ StreamHandled'
  BY <1>1 DEF FeedInv, AcksHandled, StreamHandled
<1>6. NothingLostUnheard'
  BY <1>1, <1>2 DEF FeedInv, NothingLostUnheard
<1> QED
  BY <1>3, <1>4, <1>5, <1>6 DEF FeedInv

(* The channel a request finds when it arrives. *)
LEMMA OpenedIs ==
    ASSUME TypeOK, FeedInv, NEW r \in wire
    PROVE  /\ Opened(r.uid) \in Channel
           /\ Opened(r.uid).state = "live"
           /\ \A w \in Opened(r.uid).watches : w.uid = r.uid
           /\ r.uid = uid => Opened(r.uid).flushed <= lastHeard + 1
<1>1. r.uid \in Uid /\ chan[r.uid] \in Channel /\ lastHeard \in Nat \cup {-1}
  BY DEF TypeOK, ClientTypeOK, ShipTypeOK, Request
<1>2. Opened(r.uid) \in Channel
  BY <1>1, OpenedTyped
<1>3. Opened(r.uid).state = "live"
  BY DEF Opened, FreshChannel
<1>4. \A w \in Opened(r.uid).watches : w.uid = r.uid
  BY <1>1 DEF Opened, FreshChannel, FeedInv, WatchesAtHome
<1>5. r.uid = uid => Opened(r.uid).flushed <= lastHeard + 1
  BY <1>1 DEF Opened, FreshChannel, FeedInv, NothingLostUnheard
<1> QED
  BY <1>2, <1>3, <1>4, <1>5

LEMMA ArrivalsFeed == ASSUME TypeOK, FeedInv, Arrivals PROVE FeedInv'
<1> SUFFICES ASSUME NEW r \in wire,
                    ArrivePoke(r) \/ ArriveWatch(r) \/ ArriveUnsub(r) \/ ArriveAck(r)
             PROVE  FeedInv'
  BY DEF Arrivals
<1>1. r \in Request /\ r.uid \in Uid
  BY DEF TypeOK, ShipTypeOK, Request
<1> DEFINE o == Opened(r.uid)
<1>2. /\ o \in Channel /\ o.state = "live"
      /\ \A w \in o.watches : w.uid = r.uid
      /\ r.uid = uid => o.flushed <= lastHeard + 1
  BY OpenedIs
<1> HIDE DEF o
<1>3. CASE ArrivePoke(r)
  <2>1. PICK word \in {"ack", "nack"} : Accept(r, Logged(o, word, r))
    BY <1>3 DEF ArrivePoke, o
  <2>2. [kind |-> word, req |-> r] \in Event
    BY <1>1 DEF Event
  <2> QED
    BY <1>2, <2>1, <2>2, LoggedIs, FeedKeptAccepting
<1>4. CASE ArriveWatch(r)
  <2>1. r \in Watch /\ [kind |-> "refused", req |-> r] \in Event
    BY <1>1, <1>4 DEF ArriveWatch, Request, Watch, Event
  <2>2. CASE Accept(r, [o EXCEPT !.watches = o.watches \cup {r}])
    <3> DEFINE c == [o EXCEPT !.watches = o.watches \cup {r}]
    <3>1. o.watches \cup {r} \in SUBSET Watch
      BY <1>2, <2>1, ChannelFields
    <3>2. c \in Channel /\ c.state = "live" /\ c.flushed = o.flushed /\ c.watches = o.watches \cup {r}
      BY <1>2, <3>1, WatchesTyped
    <3>3. Accept(r, c)
      BY <2>2
    <3> HIDE DEF c
    <3> QED
      BY <1>2, <3>2, <3>3, FeedKeptAccepting
  <2>3. CASE Accept(r, Logged(o, "refused", r))
    BY <1>2, <2>1, <2>3, LoggedIs, FeedKeptAccepting
  <2> QED
    BY <1>4, <2>2, <2>3 DEF ArriveWatch, o
<1>5. CASE ArriveUnsub(r)
  <2> DEFINE left == {w \in o.watches : w.id # r.arg}
             c    == [o EXCEPT !.watches = left]
  <2>1. left \in SUBSET Watch
    BY <1>2, ChannelFields
  <2>2. Accept(r, c)
    BY <1>5 DEF ArriveUnsub, o
  <2>3. c \in Channel /\ c.state = "live" /\ c.flushed = o.flushed /\ c.watches = left
    BY <1>2, <2>1, WatchesTyped
  <2>4. \A w \in c.watches : w.uid = r.uid
    BY <1>2, <2>3
  <2> HIDE DEF c
  <2> QED
    BY <1>2, <2>2, <2>3, <2>4, FeedKeptAccepting
<1>6. CASE ArriveAck(r)
  <2>1. r.kind = "ack" /\ r.arg \in Nat /\ Accept(r, Flushed(o, r.arg))
    BY <1>1, <1>6 DEF ArriveAck, Request, o
  <2>2. r.uid = uid => r.arg <= lastHeard
    BY <2>1 DEF FeedInv, AcksHandled
  <2> DEFINE c == Flushed(o, r.arg)
  <2>3. /\ c \in Channel /\ c.state = "live" /\ c.watches = o.watches
        /\ c.flushed = o.flushed \/ c.flushed <= r.arg + 1
        /\ c.flushed \in Nat
    BY <1>2, <2>1, FlushedIs, ChannelFields
  <2>4. lastHeard \in Nat \cup {-1}
    BY DEF TypeOK, ClientTypeOK
  <2>5. Accept(r, c)
    BY <2>1
  <2> HIDE DEF c
  <2>6. r.uid = uid => c.flushed <= lastHeard + 1
    BY <1>2, <2>1, <2>2, <2>3, <2>4
  <2> QED
    BY <1>2, <2>3, <2>5, <2>6, FeedKeptAccepting
<1> QED
  BY <1>3, <1>4, <1>5, <1>6

LEMMA AgentsFeed == ASSUME TypeOK, FeedInv, Agents PROVE FeedInv'
<1>1. uid \in Uid /\ chan \in [Uid -> Channel]
  BY DEF TypeOK, ClientTypeOK, ShipTypeOK
<1>2. ASSUME NEW u \in Uid, NEW c \in Channel, chan' = [chan EXCEPT ![u] = c],
             c.state # "new", chan[u].state # "new",
             c.flushed = chan[u].flushed, c.watches \subseteq chan[u].watches,
             c.watches # {} => c.state = "live",
             UNCHANGED <<client, wire>>
      PROVE  FeedInv'
  <2>1. chan'[u] = c /\ \A v \in Uid \ {u} : chan'[v] = chan[v]
    BY <1>1, <1>2
  <2>2. UNCHANGED <<uid, lastHeard, stream>>
    BY <1>2 DEF client
  <2>3. NewIsEmpty' /\ WatchesAtHome'
    BY <1>2, <2>1, <2>2 DEF FeedInv, NewIsEmpty, WatchesAtHome
  <2>4. AcksHandled' /\ StreamHandled'
    BY <1>2, <2>2 DEF FeedInv, AcksHandled, StreamHandled
  <2>5. NothingLostUnheard'
    BY <1>1, <1>2, <2>1, <2>2 DEF FeedInv, NothingLostUnheard
  <2> QED
    BY <2>3, <2>4, <2>5 DEF FeedInv
<1>3. CASE Reap(uid)
  <2> DEFINE c == [chan[uid] EXCEPT !.state = "reaped", !.watches = {}]
  <2>1. /\ c \in Channel /\ c.state = "reaped"
        /\ c.flushed = chan[uid].flushed /\ c.watches = {}
    BY <1>1 DEF Channel
  <2>2. chan' = [chan EXCEPT ![uid] = c]
    BY <1>1, <1>3 DEF Reap
  <2>3. UNCHANGED <<client, wire>> /\ chan[uid].state = "live"
    BY <1>3 DEF Reap
  <2> HIDE DEF c
  <2> QED
    BY <1>1, <1>2, <2>1, <2>2, <2>3
<1>4. ASSUME NEW w \in chan[uid].watches, Emit(w) \/ Kick(w) PROVE FeedInv'
  <2>1. /\ w \in Watch /\ chan[uid] \in Channel /\ w.uid = uid /\ chan[uid].state = "live"
        /\ [kind |-> "fact", req |-> w] \in Event /\ [kind |-> "kick", req |-> w] \in Event
    BY <1>1 DEF Channel, FeedInv, WatchesAtHome, Event
  <2>2. CASE Emit(w)
    <3>1. chan' = [chan EXCEPT ![uid] = Logged(chan[uid], "fact", w)] /\ UNCHANGED <<client, wire>>
      BY <2>1, <2>2 DEF Emit
    <3>2. /\ Logged(chan[uid], "fact", w) \in Channel
          /\ Logged(chan[uid], "fact", w).state = "live"
          /\ Logged(chan[uid], "fact", w).flushed = chan[uid].flushed
          /\ Logged(chan[uid], "fact", w).watches = chan[uid].watches
      BY <2>1, LoggedIs
    <3> QED
      BY <1>1, <1>2, <2>1, <3>1, <3>2
  <2>3. CASE Kick(w)
    <3> DEFINE c == Unwatched(chan[uid], w)
    <3>1. /\ chan' = [chan EXCEPT ![uid] = Logged(c, "kick", w)]
          /\ UNCHANGED <<client, wire>>
      BY <2>1, <2>3 DEF Kick
    <3>2. /\ c \in Channel /\ c.state = "live" /\ c.flushed = chan[uid].flushed
          /\ c.watches \subseteq chan[uid].watches
      <4>1. chan[uid].watches \ {w} \in SUBSET Watch
        BY <2>1, ChannelFields
      <4> QED
        BY <2>1, <4>1, WatchesTyped DEF Unwatched
    <3> HIDE DEF c
    <3> DEFINE l == Logged(c, "kick", w)
    <3>3. l \in Channel /\ l.state = c.state /\ l.flushed = c.flushed /\ l.watches = c.watches
      BY <2>1, <3>2, LoggedIs
    <3>4. chan' = [chan EXCEPT ![uid] = l]
      BY <3>1
    <3> HIDE DEF l
    <3>5. /\ l.state = "live" /\ l.flushed = chan[uid].flushed
          /\ l.watches \subseteq chan[uid].watches
      BY <3>2, <3>3
    <3> HIDE DEF c
    <3> QED
      BY <1>1, <1>2, <2>1, <3>1, <3>3, <3>4, <3>5
  <2> QED
    BY <1>4, <2>2, <2>3
<1> QED
  BY <1>3, <1>4 DEF Agents

LEMMA ConnectionFeed ==
    ASSUME ~Torn, TypeOK, TypeOK', Current, FeedInv, Connection
    PROVE  FeedInv'
<1>1. /\ stream \in Stream /\ uid \in Uid /\ chan \in [Uid -> Channel]
      /\ lastHeard \in Nat \cup {-1} /\ wire \subseteq Request
      /\ stream.uid \in Uid /\ chan[stream.uid] \in Channel /\ stream.resume \in Nat \cup {-1}
  BY StreamFields DEF TypeOK, ClientTypeOK, ShipTypeOK
<1>2. ASSUME UNCHANGED <<uid, lastHeard, chan, wire>>, stream'.resume <= lastHeard,
             stream'.state # "open"
      PROVE  FeedInv'
  <2>1. NewIsEmpty' /\ WatchesAtHome'
    BY <1>2 DEF FeedInv, NewIsEmpty, WatchesAtHome
  <2>2. AcksHandled' /\ NothingLostUnheard'
    BY <1>2 DEF FeedInv, AcksHandled, NothingLostUnheard
  <2>3. StreamHandled'
    BY <1>2 DEF StreamHandled
  <2> QED
    BY <2>1, <2>2, <2>3 DEF FeedInv
<1>3. CASE StreamOpen
  <2> DEFINE c == Flushed(chan[uid], stream.resume)
  <2>1. stream.uid = uid /\ chan[uid].state = "live" /\ chan[uid] \in Channel
    BY <1>1, <1>3 DEF StreamOpen, Current
  <2>2. /\ c \in Channel /\ c.state = "live" /\ c.watches = chan[uid].watches
        /\ c.flushed = chan[uid].flushed \/ c.flushed <= stream.resume + 1
        /\ c.flushed \in Nat
    BY <1>1, <2>1, FlushedIs, ChannelFields
  <2>3. /\ chan' = [chan EXCEPT ![uid] = c]
        /\ stream' = [stream EXCEPT !.state = "open", !.next = c.flushed, !.retried = FALSE]
        /\ UNCHANGED <<uid, lastHeard, wire>>
    BY <1>3, <2>1 DEF StreamOpen
  <2> HIDE DEF c
  <2>4. c.flushed <= lastHeard + 1
    BY <1>1, <2>2 DEF FeedInv, StreamHandled, NothingLostUnheard
  <2>5. chan'[uid] = c /\ \A u \in Uid \ {uid} : chan'[u] = chan[u]
    BY <1>1, <2>3
  <2>6. NewIsEmpty' /\ WatchesAtHome'
    BY <1>1, <2>1, <2>2, <2>3, <2>5 DEF FeedInv, NewIsEmpty, WatchesAtHome
  <2>7. AcksHandled' /\ NothingLostUnheard'
    BY <2>3, <2>4, <2>5 DEF FeedInv, AcksHandled, NothingLostUnheard
  <2>8. stream'.resume = stream.resume /\ stream'.next = c.flushed
    BY <1>1, <2>3 DEF Stream
  <2>9. StreamHandled'
    BY <2>3, <2>4, <2>8 DEF FeedInv, StreamHandled
  <2> QED
    BY <2>6, <2>7, <2>9 DEF FeedInv
<1>4. CASE StreamBreak \/ StreamTear
  <2>1. Reconnect(stream.resume)
    BY <1>4 DEF StreamBreak, StreamTear
  <2>2. stream'.resume = stream.resume /\ stream'.state = "connecting"
    BY <1>1, <2>1 DEF Reconnect, Stream
  <2>3. UNCHANGED <<uid, lastHeard, chan, wire>>
    BY <2>1 DEF Reconnect, ship
  <2> QED
    BY <1>2, <2>2, <2>3 DEF FeedInv, StreamHandled
<1>5. CASE SeamlessReset
  <2>1. \A r \in wire' \ wire : r.uid = uid + 1 /\ r.kind = "watch"
    <3> DEFINE kept      == {e \in outSubs : e.arg \in Resub}
               rank(e)   == Cardinality({f \in kept : f.id <= e.id})
               replay(e) == [uid |-> uid + 1, id |-> rank(e), kind |-> "watch", arg |-> e.arg]
    <3>1. wire' = wire \cup {replay(e) : e \in kept}
      BY <1>5 DEF SeamlessReset
    <3> HIDE DEF rank, kept
    <3> QED
      BY <3>1
  <2>2. /\ uid' = uid + 1 /\ uid' \in Uid
        /\ lastHeard' = -1 /\ stream' = NoStream
        /\ UNCHANGED chan
    BY <1>5 DEF SeamlessReset, HeardOnReset, StreamOnReset, TypeOK, ClientTypeOK
  <2>3. uid \in Nat /\ \A r \in wire : r.uid \in Nat
    BY <1>1 DEF Uid, Request
  <2>4. NewIsEmpty' /\ WatchesAtHome'
    BY <2>2, <2>3 DEF FeedInv, NewIsEmpty, WatchesAtHome, Uid
  <2>5. AcksHandled'
    BY <2>1, <2>2, <2>3 DEF FeedInv, AcksHandled
  <2>6. StreamHandled'
    BY <2>2 DEF StreamHandled, NoStream
  <2>7. NothingLostUnheard'
    BY <2>2, <2>3 DEF FeedInv, NewIsEmpty, NothingLostUnheard
  <2> QED
    BY <2>4, <2>5, <2>6, <2>7 DEF FeedInv
<1> QED
  BY <1>3, <1>4, <1>5 DEF Connection, StreamReaped, Rotate

(* What a new event makes the client send names nothing it has not handled. *)
LEMMA ReceiveSends ==
    ASSUME TypeOK, NEW sent, \A r \in sent : r.uid = uid /\ r.kind = "watch",
           NEW gone, Receive(sent, gone)
    PROVE  /\ lastHeard' = stream.next /\ lastHeard' > lastHeard
           /\ \A r \in wire' \ wire : r.uid = uid /\ (r.kind = "ack" => r.arg <= lastHeard')
<1> DEFINE reqs == AckDue(stream.next) \cup sent
<1>1. lastHeard' = stream.next /\ lastHeard' > lastHeard /\ wire' = wire \cup reqs
  BY DEF Receive
<1>2. stream.next \in Nat
  BY StreamFields
<1>3. \A r \in reqs : r.uid = uid /\ (r.kind = "ack" => r.arg <= lastHeard')
  BY <1>1, <1>2 DEF AckDue
<1> HIDE DEF reqs
<1> QED
  BY <1>1, <1>3

LEMMA HearingFeed ==
    ASSUME TypeOK, FeedInv, Hearing
    PROVE  FeedInv'
<1>1. /\ stream \in Stream /\ stream.next \in Nat /\ lastHeard \in Nat \cup {-1}
      /\ chan[uid] \in Channel /\ uid \in Uid /\ uid \in Nat
  BY StreamFields DEF TypeOK, ClientTypeOK, ShipTypeOK, Uid
<1>2. /\ stream' = [stream EXCEPT !.resume = stream.next, !.next = @ + 1]
      /\ UNCHANGED <<uid, chan>>
      /\ Due
  BY DEF Hearing, HearOld, HearPokeAnswer, HearRefused, HearFact, HearKick, Receive, ship
<1>3. stream'.resume = stream.next /\ stream'.next = stream.next + 1
  BY <1>1, <1>2 DEF Stream
<1>4. /\ lastHeard' >= lastHeard /\ stream.next <= lastHeard' /\ lastHeard' \in Nat \cup {-1}
      /\ \A r \in wire' \ wire : r.uid = uid /\ (r.kind = "ack" => r.arg <= lastHeard')
  <2>1. CASE HearOld
    <3>1. wire' = wire /\ lastHeard' = lastHeard /\ stream.next <= lastHeard
      BY <2>1 DEF HearOld, ship
    <3> QED
      BY <1>1, <3>1
  <2>2. CASE HearKick
    <3>1. \A r \in Again : r.uid = uid /\ r.kind = "watch"
      BY DEF Again, NewRequest
    <3> QED
      BY <1>1, <2>2, <3>1, ReceiveSends DEF HearKick
  <2>3. CASE HearPokeAnswer \/ HearRefused \/ HearFact
    <3>1. PICK gone : Receive({}, gone)
      BY <2>3 DEF HearPokeAnswer, HearRefused, HearFact
    <3> QED
      BY <1>1, <3>1, ReceiveSends
  <2> QED
    BY <2>1, <2>2, <2>3 DEF Hearing
<1>6. AcksHandled'
  <2> SUFFICES ASSUME NEW r \in wire'
               PROVE  r.uid <= uid' /\ (r.uid = uid' /\ r.kind = "ack" => r.arg <= lastHeard')
    BY DEF AcksHandled
  <2>1. CASE r \in wire
    <3>1. r \in Request /\ (r.uid = uid /\ r.kind = "ack" => r.arg <= lastHeard) /\ r.uid <= uid
      BY <2>1 DEF FeedInv, AcksHandled, TypeOK, ShipTypeOK
    <3>2. r.kind = "ack" => r.arg \in Nat
      BY <3>1 DEF Request
    <3> QED
      BY <1>1, <1>2, <1>4, <3>1, <3>2
  <2>2. CASE r \notin wire
    BY <1>1, <1>2, <1>4, <2>2
  <2> QED
    BY <2>1, <2>2
<1>7. StreamHandled'
  BY <1>1, <1>3, <1>4 DEF StreamHandled
<1>8. NothingLostUnheard'
  <2>1. chan[uid].flushed \in Nat /\ chan[uid].flushed <= lastHeard + 1
    BY <1>1, ChannelFields DEF FeedInv, NothingLostUnheard
  <2> QED
    BY <1>1, <1>2, <1>4, <2>1 DEF NothingLostUnheard
<1>9. NewIsEmpty' /\ WatchesAtHome'
  BY <1>2 DEF FeedInv, NewIsEmpty, WatchesAtHome
<1> QED
  BY <1>6, <1>7, <1>8, <1>9 DEF FeedInv

LEMMA FeedStep ==
    ASSUME ~Torn, TypeOK, TypeOK', Current, FeedInv, [Next]_vars
    PROVE  FeedInv'
<1>1. ASSUME UNCHANGED <<uid, lastHeard, stream, chan, wire>> PROVE FeedInv'
  <2>1. wire' \ wire = {}
    BY <1>1
  <2> QED
    BY <1>1, <2>1, FeedKeptSending
<1>2. CASE UNCHANGED vars
  BY <1>1, <1>2 DEF vars, client, ship
<1>3. CASE Callers
  <2>1. /\ \A r \in wire' \ wire : r.uid = uid /\ r.kind # "ack"
        /\ UNCHANGED <<uid, lastHeard, stream, chan>>
    <3>1. CASE \E p \in Poke : DoPoke(p)
      BY <3>1 DEF DoPoke, NewRequest
    <3>2. CASE \E s \in Sub : Subscribe(s)
      BY <3>2 DEF Subscribe, NewRequest
    <3>3. CASE \E s \in Sub : Unsubscribe(s)
      BY <3>3 DEF Unsubscribe, NewRequest
    <3> QED
      BY <1>3, <3>1, <3>2, <3>3 DEF Callers
  <2> QED
    BY <2>1, FeedKeptSending
<1>4. CASE Responses
  <2> SUFFICES ASSUME NEW x \in puts,
                      PutOk(x) \/ PutOpensStream(x) \/ PutSaysHi(x) \/ PutFail(x)
               PROVE  FeedInv'
    BY <1>4 DEF Responses
  <2>1. CASE PutOk(x) \/ PutFail(x)
    BY <1>1, <2>1 DEF PutOk, PutFail
  <2>2. CASE PutSaysHi(x)
    <3>1. /\ \A r \in wire' \ wire : r.uid = uid /\ r.kind # "ack"
          /\ UNCHANGED <<uid, lastHeard, stream, chan>>
      BY <2>2 DEF PutSaysHi, NewRequest
    <3> QED
      BY <3>1, FeedKeptSending
  <2>3. CASE PutOpensStream(x)
    <3>1. /\ UNCHANGED <<uid, lastHeard, chan, wire>>
          /\ stream'.resume = -1 /\ stream'.state = "connecting"
      BY <2>3 DEF PutOpensStream, NoStream
    <3>2. lastHeard >= -1
      BY DEF TypeOK, ClientTypeOK
    <3> QED
      BY <3>1, <3>2 DEF FeedInv, NewIsEmpty, WatchesAtHome, AcksHandled, StreamHandled,
                        NothingLostUnheard
  <2> QED
    BY <2>1, <2>2, <2>3
<1>5. CASE Timeouts
  BY <1>1, <1>5 DEF Timeouts, PokeTimeout, ship
<1> QED
  BY <1>2, <1>3, <1>4, <1>5, ArrivalsFeed, AgentsFeed, ConnectionFeed, HearingFeed DEF Next

Handled == StatusInv /\ FeedInv

LEMMA HandledStep == ASSUME ~Torn, Handled, [Next]_vars PROVE Handled'
BY StatusStep, FeedStep DEF Handled, StatusInv

(* Unless a connection breaks inside an event, the ship never lets go of   *)
(* an event whose id the client has not handled.                           *)
THEOREM NothingLost == ASSUME ~Torn PROVE Spec => []NothingLostUnheard
<1>1. Init => Handled
  BY StatusInit, FeedInit DEF Handled
<1>2. Handled /\ [Next]_vars => Handled'
  BY HandledStep
<1>3. Handled => NothingLostUnheard
  BY DEF Handled, FeedInv
<1> QED
  BY <1>1, <1>2, <1>3, PTL DEF Spec

-----------------------------------------------------------------------------
(* The channel implements the event feed: provided connections break       *)
(* between events and a reaped channel stays reaped.                       *)

Emitted == Len(chan[uid].log)

LEMMA FeedStutter ==
    ASSUME UNCHANGED <<uid, lastHeard>>, Emitted' = Emitted
    PROVE  [Feed!Next]_Feed!vars
BY DEF Feed!vars, Emitted

LEMMA FeedEmit ==
    ASSUME UNCHANGED <<uid, lastHeard>>, Emitted' = Emitted + 1
    PROVE  [Feed!Next]_Feed!vars
BY DEF Feed!Next, Feed!Emit, Emitted

(* A request that arrives logs at most one event on its channel. *)
LEMMA ArrivalsEmit ==
    ASSUME ~LatePuts, Handled, Arrivals
    PROVE  [Feed!Next]_Feed!vars
<1> SUFFICES ASSUME NEW r \in wire,
                    ArrivePoke(r) \/ ArriveWatch(r) \/ ArriveUnsub(r) \/ ArriveAck(r)
             PROVE  [Feed!Next]_Feed!vars
  BY DEF Arrivals
<1> DEFINE o == Opened(r.uid)
<1>1. /\ TypeOK /\ FeedInv /\ r \in Request /\ r.uid \in Uid /\ uid \in Uid
      /\ chan \in [Uid -> Channel]
  BY DEF Handled, StatusInv, TypeOK, ClientTypeOK, ShipTypeOK, Request
<1>2. o \in Channel
  BY <1>1, OpenedTyped
<1>3. o.log = chan[r.uid].log
  <2>1. chan[r.uid].state \in {"new", "live"}
    BY <1>1, ChannelFields DEF Reachable, ArrivePoke, ArriveWatch, ArriveUnsub, ArriveAck
  <2>2. chan[r.uid].state = "new" => chan[r.uid].log = <<>>
    BY <1>1 DEF FeedInv, NewIsEmpty
  <2> QED
    BY <2>1, <2>2 DEF Opened, FreshChannel
<1> HIDE DEF o
<1>4. ASSUME NEW c, Accept(r, c), Len(c.log) = Len(o.log) \/ Len(c.log) = Len(o.log) + 1
      PROVE  [Feed!Next]_Feed!vars
  <2>1. /\ UNCHANGED <<uid, lastHeard>>
        /\ chan' = [chan EXCEPT ![r.uid] = c]
    BY <1>4 DEF Accept, client
  <2>2. CASE r.uid = uid
    <3>1. chan'[uid] = c
      BY <1>1, <2>1, <2>2
    <3> QED
      BY <1>3, <1>4, <2>1, <2>2, <3>1, FeedStutter, FeedEmit DEF Emitted
  <2>3. CASE r.uid # uid
    <3>1. chan'[uid] = chan[uid]
      BY <1>1, <2>1, <2>3
    <3> QED
      BY <2>1, <3>1, FeedStutter DEF Emitted
  <2> QED
    BY <2>2, <2>3
<1>5. CASE ArrivePoke(r)
  <2>1. PICK word \in {"ack", "nack"} : Accept(r, Logged(o, word, r))
    BY <1>5 DEF ArrivePoke, o
  <2>2. [kind |-> word, req |-> r] \in Event
    BY <1>1 DEF Event
  <2> QED
    BY <1>2, <1>4, <2>1, <2>2, LoggedIs
<1>6. CASE ArriveWatch(r)
  <2>1. [kind |-> "refused", req |-> r] \in Event
    BY <1>1, <1>6 DEF ArriveWatch, Request, Watch, Event
  <2>2. CASE Accept(r, [o EXCEPT !.watches = o.watches \cup {r}])
    BY <1>2, <1>4, <2>2 DEF Channel
  <2>3. CASE Accept(r, Logged(o, "refused", r))
    BY <1>2, <1>4, <2>1, <2>3, LoggedIs
  <2> QED
    BY <1>6, <2>2, <2>3 DEF ArriveWatch, o
<1>7. CASE ArriveUnsub(r)
  <2>1. Accept(r, [o EXCEPT !.watches = {w \in o.watches : w.id # r.arg}])
    BY <1>7 DEF ArriveUnsub, o
  <2> QED
    BY <1>2, <1>4, <2>1 DEF Channel
<1>8. CASE ArriveAck(r)
  <2>1. r.arg \in Nat /\ Accept(r, Flushed(o, r.arg))
    BY <1>1, <1>8 DEF ArriveAck, Request, o
  <2> QED
    BY <1>2, <1>4, <2>1, FlushedIs
<1> QED
  BY <1>5, <1>6, <1>7, <1>8

LEMMA AgentsEmit == ASSUME Handled, Agents PROVE [Feed!Next]_Feed!vars
<1>1. uid \in Uid /\ chan \in [Uid -> Channel] /\ chan[uid] \in Channel
  BY DEF Handled, StatusInv, TypeOK, ClientTypeOK, ShipTypeOK
<1>2. UNCHANGED <<uid, lastHeard>>
  BY DEF Agents, Reap, Emit, Kick, client
<1>3. CASE Reap(uid)
  <2>1. chan'[uid].log = chan[uid].log
    BY <1>1, <1>3 DEF Reap, Channel
  <2> QED
    BY <1>2, <2>1, FeedStutter DEF Emitted
<1>4. ASSUME NEW w \in chan[uid].watches, Emit(w) \/ Kick(w) PROVE [Feed!Next]_Feed!vars
  <2>1. /\ w \in Watch /\ w.uid = uid
        /\ [kind |-> "fact", req |-> w] \in Event /\ [kind |-> "kick", req |-> w] \in Event
    BY <1>1 DEF Channel, Handled, FeedInv, WatchesAtHome, Event
  <2>2. CASE Emit(w)
    <3>1. chan'[uid] = Logged(chan[uid], "fact", w)
      BY <1>1, <2>1, <2>2 DEF Emit
    <3> QED
      BY <1>1, <1>2, <2>1, <3>1, LoggedIs, FeedEmit DEF Emitted
  <2>3. CASE Kick(w)
    <3> DEFINE c == Unwatched(chan[uid], w)
    <3>1. chan'[uid] = Logged(c, "kick", w)
      BY <1>1, <2>1, <2>3 DEF Kick
    <3>2. c \in Channel /\ c.log = chan[uid].log
      BY <1>1 DEF Unwatched, Channel
    <3> HIDE DEF c
    <3> DEFINE e == [kind |-> "kick", req |-> w]
    <3>4. e \in Event
      BY <2>1
    <3>3. Len(Logged(c, "kick", w).log) = Len(c.log) + 1
      BY <3>2, <3>4, LoggedIs
    <3> QED
      BY <1>2, <3>1, <3>2, <3>3, FeedEmit DEF Emitted
  <2> QED
    BY <1>4, <2>2, <2>3
<1> QED
  BY <1>3, <1>4 DEF Agents

(* An event that is new is the next one. *)
LEMMA HearingHandles == ASSUME Handled, Hearing PROVE [Feed!Next]_Feed!vars
<1>1. /\ stream.next \in Nat /\ lastHeard \in Nat \cup {-1}
      /\ stream.state = "open" => stream.uid = uid /\ stream.next <= lastHeard + 1
  BY StreamFields DEF Handled, StatusInv, Current, FeedInv, StreamHandled, TypeOK, ClientTypeOK
<1>2. UNCHANGED <<uid, chan>>
  BY DEF Hearing, HearOld, HearPokeAnswer, HearRefused, HearFact, HearKick, Receive, ship
<1>3. CASE HearOld
  BY <1>2, <1>3, FeedStutter DEF HearOld, Emitted
<1>4. ASSUME NEW sent, NEW gone, Receive(sent, gone) PROVE [Feed!Next]_Feed!vars
  <2>1. /\ Due /\ stream.next > lastHeard /\ lastHeard' = stream.next
    BY <1>4 DEF Receive
  <2>2. stream.next = lastHeard + 1 /\ lastHeard + 1 < Emitted
    BY <1>1, <2>1 DEF Due, Emitted
  <2>3. lastHeard' + 1 = (lastHeard + 1) + 1
    BY <1>1, <2>1, <2>2
  <2> QED
    BY <1>2, <2>2, <2>3 DEF Feed!Next, Feed!Handle, Emitted
<1> QED
  BY <1>3, <1>4 DEF Hearing, HearPokeAnswer, HearRefused, HearFact, HearKick

LEMMA ResetRestarts == ASSUME Handled, SeamlessReset PROVE [Feed!Next]_Feed!vars
<1>1. uid' = uid + 1 /\ lastHeard' = -1 /\ chan' = chan /\ uid + 1 \in Uid /\ uid \in Nat
  <2>1. uid' = uid + 1 /\ lastHeard' = -1 /\ chan' = chan /\ uid < MaxUid
    BY DEF SeamlessReset, HeardOnReset
  <2>2. uid \in 0 .. MaxUid
    BY DEF Handled, StatusInv, TypeOK, ClientTypeOK, Uid
  <2> QED
    BY <2>1, <2>2, ConstantsAssumption DEF Uid
<1>2. chan[uid + 1].log = <<>>
  BY <1>1 DEF Handled, FeedInv, NewIsEmpty
<1>3. Len(chan'[uid'].log) = 0 /\ lastHeard' + 1 = 0
  BY <1>1, <1>2
<1> QED
  BY <1>1, <1>3 DEF Feed!Next, Feed!Restart

LEMMA FeedImplemented ==
    ASSUME ~LatePuts, Handled, [Next]_vars
    PROVE  [Feed!Next]_Feed!vars
<1>1. ASSUME UNCHANGED <<uid, lastHeard, chan>> PROVE [Feed!Next]_Feed!vars
  BY <1>1, FeedStutter DEF Emitted
<1>2. CASE UNCHANGED vars
  BY <1>1, <1>2 DEF vars, client, ship
<1>3. CASE Callers
  BY <1>1, <1>3 DEF Callers, DoPoke, Subscribe, Unsubscribe
<1>4. CASE Responses
  BY <1>1, <1>4 DEF Responses, PutOk, PutFail, PutSaysHi, PutOpensStream
<1>5. CASE Timeouts
  BY <1>1, <1>5 DEF Timeouts, PokeTimeout, ship
<1>6. CASE StreamBreak \/ StreamTear
  BY <1>1, <1>6 DEF StreamBreak, StreamTear, Reconnect, ship
<1>7. CASE StreamOpen
  <2>1. /\ TypeOK /\ stream.uid = uid /\ uid \in Uid /\ chan \in [Uid -> Channel]
        /\ chan[uid] \in Channel /\ stream.resume \in Nat \cup {-1}
    BY <1>7, StreamFields
    DEF StreamOpen, Handled, StatusInv, Current, TypeOK, ClientTypeOK, ShipTypeOK
  <2>2. chan'[uid] = Flushed(chan[uid], stream.resume) /\ UNCHANGED <<uid, lastHeard>>
    BY <1>7, <2>1 DEF StreamOpen
  <2> QED
    BY <2>1, <2>2, FlushedIs, FeedStutter DEF Emitted
<1> QED
  BY <1>2, <1>3, <1>4, <1>5, <1>6, <1>7, ArrivalsEmit, AgentsEmit, HearingHandles, ResetRestarts
  DEF Next, Connection, StreamReaped, Rotate

(* Channel by channel, the client handles the events in order and once each,  *)
(* unless a connection breaks inside an event or a late PUT creates a reaped  *)
(* channel anew, with the ids it had before.                                  *)
THEOREM FeedCorrect == ASSUME ~Torn, ~LatePuts PROVE Spec => FeedSpec
<1>1. Init => Handled
  BY StatusInit, FeedInit DEF Handled
<1>2. Init => Feed!Init
  BY ConstantsAssumption DEF Init, Feed!Init, Uid
<1>3. Handled /\ [Next]_vars => Handled'
  BY HandledStep
<1>4. Handled /\ [Next]_vars => [Feed!Next]_Feed!vars
  BY FeedImplemented
<1> QED
  BY <1>1, <1>2, <1>3, <1>4, PTL DEF Spec, FeedSpec, Feed!Spec

=============================================================================
