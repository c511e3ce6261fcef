---------------------------- MODULE Negotiate_proofs ----------------------------
(***************************************************************************)
(* Proofs about Negotiate for any protocols, versions and wires, and any   *)
(* number of upgrades, kicks and resets.                                   *)
(*                                                                         *)
(* A match does not change when what has not been heard of yet is asked    *)
(* for: it was no match before, and is none after.  So what +inflate and   *)
(* +play-card leave open is judged by the versions they leave heard.        *)
(***************************************************************************)
EXTENDS Negotiate, SequenceTheorems, TLAPS

Heeds  == [Protocol -> Version \cup {Absent, Unknown}]
Flows  == Seq(Version \cup {"nack", "kick"})

(* A subscription that has ended was ended by a refusal or a kick, and that is *)
(* the last thing on its way.                                                 *)
Parting(s, d) == s = "none" /\ d # <<>> => d[Len(d)] \in {"nack", "kick"}
EndsAreSaid   == \A p \in Protocol : Parting(sub[p], down[p])

(* Before anything is negotiated, the inner agent has been told of no match.   *)
NoticeOK ==
    resets = 0 /\ ~forgot => told = IF Negotiating /\ Match(know, heed) THEN TRUE ELSE FALSE

Opened(k, h, wt, b) == b = IF Match(k, h) THEN wt ELSE {}
OpenOK == resets = 0 => Opened(know, heed, want, boat)

IInv == TypeOK /\ EndsAreSaid /\ NeverStopsListening /\ OpenOK /\ NoticeOK

-----------------------------------------------------------------------------
(* Asking for what is needed and has not been heard of.                       *)
LEMMA AskingTyped ==
    ASSUME NEW h \in Heeds, NEW ps \in SUBSET Protocol
    PROVE  Asking(h, ps) \in Heeds
BY DEF Asking, Heeds

LEMMA AskingKeepsMatch ==
    ASSUME NEW k \in Configs, NEW h \in Heeds, NEW ps \in SUBSET Missing(k, h)
    PROVE  Match(k, Asking(h, ps)) <=> Match(k, h)
<1>1. ASSUME NEW p \in ps
      PROVE  p \in Need(k) /\ h[p] # k[p] /\ Asking(h, ps)[p] # k[p]
  <2>1. p \in Need(k) /\ p \in Protocol /\ h[p] = Absent
    BY DEF Missing, Need
  <2>2. k[p] \in Version
    BY <2>1 DEF Need, Configs
  <2>3. Asking(h, ps)[p] = Unknown
    BY <2>1 DEF Asking
  <2> QED
    BY <2>1, <2>2, <2>3, ConstantsAssumption
<1>2. \A p \in Protocol \ ps : Asking(h, ps)[p] = h[p]
  BY DEF Asking
<1>3. Need(k) \subseteq Protocol
  BY DEF Need
<1> QED
  BY <1>1, <1>2, <1>3 DEF Match

(* What a watch on the versions ps leaves subscribed. *)
LEMMA WatchTyped ==
    ASSUME TypeOK, NEW ps \in SUBSET Protocol, Watch(ps)
    PROVE  /\ sub' \in [Protocol -> {"none", "asked", "live"}]
           /\ \A p \in Protocol : sub[p] # "none" => sub'[p] = sub[p]
           /\ \A p \in Protocol : p \notin ps => sub'[p] = sub[p]
           /\ \A p \in ps : sub'[p] # "none" \/ down[p] # <<>>
           /\ \A p \in Protocol : sub'[p] = "none" => sub[p] = "none"
BY DEF Watch, TypeOK, Subscribed

(* What +play-card leaves: of the versions not heard of in h it has begun to   *)
(* listen to those that are heeded now, and it has judged the match by k.      *)
Played(k, h, wt, b, asked) ==
    /\ want' \in SUBSET Wire /\ boat' \in SUBSET Wire /\ heed' \in Heeds
    /\ sub' \in [Protocol -> {"none", "asked", "live"}]
    /\ Match(k, heed') <=> Match(k, h)
    /\ Opened(k, h, wt, b) => Opened(k, heed', want', boat')
    /\ \A p \in Protocol : h[p] # Absent => heed'[p] # Absent
    /\ (\E p \in Protocol : heed'[p] # Absent /\ h[p] = Absent) => ~Match(k, h)
    /\ \A p \in Protocol : sub[p] # "none" => sub'[p] = sub[p]
    /\ \A p \in Protocol : sub'[p] = "none" => sub[p] = "none"
    /\ \A p \in Protocol : heed'[p] # Absent /\ (h[p] = Absent \/ p \in asked) =>
             sub'[p] # "none" \/ down[p] # <<>>
    /\ \A p \in Protocol : h[p] # Absent /\ p \notin asked => sub'[p] = sub[p]

LEMMA PlayFacts ==
    ASSUME TypeOK, NEW ws \in SUBSET Wire, NEW wt \in SUBSET Wire, NEW b \in SUBSET Wire,
           NEW k \in Configs, NEW h \in Heeds, NEW asked \in SUBSET Protocol,
           Play(ws, wt, b, k, h, asked),
           \A p \in asked : h[p] # Absent
    PROVE  Played(k, h, wt, b, asked)
<1> DEFINE more == IF ws # {} /\ ~Match(k, h) THEN Missing(k, h) ELSE {}
<1>1. /\ want' = wt \cup ws /\ boat' = IF Match(k, h) THEN b \cup ws ELSE b
      /\ heed' = Asking(h, more) /\ Watch(asked \cup more)
  BY DEF Play
<1>2. more \in SUBSET Missing(k, h) /\ more \in SUBSET Protocol
  BY DEF Missing, Need
<1>3. Match(k, heed') <=> Match(k, h)
  BY <1>1, <1>2, AskingKeepsMatch
<1>4. heed' \in Heeds
  BY <1>1, <1>2, AskingTyped
<1>5. \A p \in Protocol : heed'[p] = IF p \in more THEN Unknown ELSE h[p]
  BY <1>1 DEF Asking
<1>6. /\ sub' \in [Protocol -> {"none", "asked", "live"}]
      /\ \A p \in Protocol : sub[p] # "none" => sub'[p] = sub[p]
      /\ \A p \in Protocol : p \notin asked \cup more => sub'[p] = sub[p]
      /\ \A p \in asked \cup more : sub'[p] # "none" \/ down[p] # <<>>
      /\ \A p \in Protocol : sub'[p] = "none" => sub[p] = "none"
  BY <1>1, <1>2, WatchTyped
<1>7. \A p \in more : h[p] = Absent
  BY <1>2 DEF Missing
<1>8. Unknown # Absent
  BY DEF Unknown, Absent
<1>9. Opened(k, h, wt, b) => Opened(k, heed', want', boat')
  BY <1>1, <1>3 DEF Opened
<1>10. /\ \A p \in Protocol : h[p] # Absent => heed'[p] # Absent
       /\ (\E p \in Protocol : heed'[p] # Absent /\ h[p] = Absent) => ~Match(k, h)
       /\ \A p \in Protocol : heed'[p] # Absent /\ (h[p] = Absent \/ p \in asked) =>
                sub'[p] # "none" \/ down[p] # <<>>
       /\ \A p \in Protocol : h[p] # Absent /\ p \notin asked => sub'[p] = sub[p]
  <2> HIDE DEF more
  <2>1. (\E p \in Protocol : heed'[p] # Absent /\ h[p] = Absent) => more # {}
    BY <1>5
  <2>2. more # {} => ~Match(k, h)
    BY DEF more
  <2> QED
    BY <1>5, <1>6, <1>7, <1>8, <2>1, <2>2
<1>11. want' \in SUBSET Wire /\ boat' \in SUBSET Wire
  BY <1>1
<1> QED
  BY <1>3, <1>4, <1>6, <1>9, <1>10, <1>11 DEF Played

(* What +inflate leaves. *)
Inflated(k, h) ==
    /\ want' \in SUBSET Wire /\ boat' \in SUBSET Wire /\ heed' \in Heeds
    /\ sub' \in [Protocol -> {"none", "asked", "live"}]
    /\ Match(k, heed') <=> Match(k, h)
    /\ boat \subseteq want => Opened(k, heed', want', boat')
    /\ \A p \in Protocol : h[p] # Absent => heed'[p] # Absent /\ sub'[p] = sub[p]
    /\ \A p \in Protocol : sub'[p] = "none" => sub[p] = "none"
    /\ \A p \in Protocol : heed'[p] # Absent /\ h[p] = Absent =>
             ~Match(k, h) /\ (sub'[p] # "none" \/ down[p] # <<>>)

(* +inflate, with the versions k expected and h heard. *)
LEMMA InflateFacts ==
    ASSUME TypeOK,
           NEW ws \in SUBSET Wire, NEW k \in Configs, NEW h \in Heeds, Inflate(k, h, ws)
    PROVE  Inflated(k, h)
<1> DEFINE init == IF Killed(k, h) # {} THEN Missing(k, h) ELSE {}
           open == (boat \ Killed(k, h)) \cup IF Match(k, h) THEN want ELSE {}
           left == want \ Killed(k, h)
           hi   == Asking(h, init)
<1>1. Play(ws, left, open, k, hi, init)
  BY DEF Inflate
<1>2. init \in SUBSET Missing(k, h) /\ init \in SUBSET Protocol
  BY DEF Missing, Need
<1>3. hi \in Heeds /\ (Match(k, hi) <=> Match(k, h))
  BY <1>2, AskingTyped, AskingKeepsMatch
<1>4. left \in SUBSET Wire /\ open \in SUBSET Wire
  BY DEF TypeOK
<1>5. \A p \in Protocol : hi[p] = IF p \in init THEN Unknown ELSE h[p]
  BY DEF Asking
<1>6. Unknown # Absent /\ \A p \in init : h[p] = Absent /\ hi[p] # Absent
  BY <1>2, <1>5 DEF Unknown, Absent, Missing
<1>7. boat \subseteq want => Opened(k, hi, left, open)
  <2>1. CASE Match(k, h)
    BY <2>1, <1>3 DEF Opened, Killed
  <2>2. CASE ~Match(k, h)
    BY <2>2, <1>3 DEF Opened, Killed
  <2> QED
    BY <2>1, <2>2
<1>8. init # {} => ~Match(k, h)
  BY DEF Killed
<1> HIDE DEF init, open, left, hi
<1>9. Played(k, hi, left, open, init)
  <2>1. \A p \in init : hi[p] # Absent
    BY <1>6
  <2> QED
    BY <1>1, <1>2, <1>3, <1>4, <2>1, PlayFacts
<1>10. \A p \in Protocol : h[p] # Absent => heed'[p] # Absent /\ sub'[p] = sub[p]
  BY <1>5, <1>6, <1>9 DEF Played
<1>11. ASSUME NEW p \in Protocol, heed'[p] # Absent, h[p] = Absent
       PROVE  ~Match(k, h) /\ (sub'[p] # "none" \/ down[p] # <<>>)
  <2>1. CASE p \in init
    BY <2>1, <1>8, <1>9, <1>11 DEF Played
  <2>2. CASE p \notin init
    BY <2>2, <1>3, <1>5, <1>9, <1>11 DEF Played
  <2> QED
    BY <2>1, <2>2
<1> QED
  BY <1>3, <1>7, <1>9, <1>10, <1>11 DEF Played, Inflated

-----------------------------------------------------------------------------
LEMMA InitIInv == Init => IInv
<1> SUFFICES ASSUME Init PROVE IInv
  OBVIOUS
<1>1. TypeOK
  <2>1. heed \in [Protocol -> Version \cup {Absent, Unknown}]
    BY DEF Init
  <2>2. /\ timers \in [Protocol -> Nat] /\ sub \in [Protocol -> {"none", "asked", "live"}]
        /\ down \in [Protocol -> Seq(Version \cup {"nack", "kick"})]
    BY DEF Init
  <2>3. told \in BOOLEAN /\ forgot \in BOOLEAN
    BY DEF Init
  <2> QED
    BY <2>1, <2>2, <2>3 DEF Init, TypeOK
<1>2. EndsAreSaid /\ NeverStopsListening
  BY DEF Init, EndsAreSaid, Parting, NeverStopsListening
<1>3. OpenOK /\ NoticeOK
  BY DEF Init, OpenOK, Opened, NoticeOK, Negotiating
<1> QED
  BY <1>1, <1>2, <1>3 DEF IInv

(* A watch, or a kick, of the inner agent: +play-card. *)
LEMMA PlayStep ==
    ASSUME IInv, NEW ws \in SUBSET Wire, NEW wt \in SUBSET Wire, NEW b \in SUBSET Wire,
           Opened(know, heed, want, boat) => Opened(know, heed, wt, b),
           Play(ws, wt, b, know, heed, {}),
           UNCHANGED <<know, notice, timers, down, ours, counts>>
    PROVE  IInv'
<1>1. TypeOK /\ know \in Configs /\ heed \in Heeds
  BY DEF IInv, TypeOK, Heeds
<1>2. Played(know, heed, wt, b, {})
  BY <1>1, PlayFacts
<1>3. TypeOK'
  BY <1>1, <1>2 DEF TypeOK, Played, Heeds, notice, counts
<1>4. EndsAreSaid'
  BY <1>2 DEF Played, IInv, EndsAreSaid, Parting
<1>5. NeverStopsListening'
  BY <1>2 DEF Played, IInv, NeverStopsListening, Subscribed
<1>6. (Match(know, heed))' <=> Match(know, heed)
  BY <1>2 DEF Played, Match, Need
<1>7. OpenOK'
  BY <1>2, <1>6 DEF Played, IInv, OpenOK, Opened, counts
<1>8. NoticeOK'
  <2>1. Negotiating => Negotiating'
    BY <1>2 DEF Played, Negotiating
  <2>2. Negotiating' /\ ~Negotiating => ~Match(know, heed)
    BY <1>2 DEF Played, Negotiating
  <2>3. told' = told /\ forgot' = forgot /\ resets' = resets
    BY DEF notice, counts
  <2> QED
    BY <1>6, <2>1, <2>2, <2>3 DEF IInv, NoticeOK
<1> QED
  BY <1>3, <1>4, <1>5, <1>7, <1>8 DEF IInv

LEMMA InnerWatchStep == ASSUME IInv, NEW w \in Wire, InnerWatch(w) PROVE IInv'
<1>1. {w} \in SUBSET Wire /\ want \in SUBSET Wire /\ boat \in SUBSET Wire
  BY DEF IInv, TypeOK
<1>2. Play({w}, want, boat, know, heed, {}) /\ UNCHANGED <<know, notice, timers, down, ours, counts>>
  BY DEF InnerWatch
<1> QED
  BY <1>1, <1>2, PlayStep

LEMMA InnerKickStep == ASSUME IInv, NEW w \in Wire, InnerKick(w) PROVE IInv'
<1>1. PICK ws \in SUBSET {w} : Play(ws, want \ {w}, boat \ {w}, know, heed, {})
  BY DEF InnerKick
<1>2. ws \in SUBSET Wire /\ want \ {w} \in SUBSET Wire /\ boat \ {w} \in SUBSET Wire
  BY DEF IInv, TypeOK
<1>3. Opened(know, heed, want, boat) => Opened(know, heed, want \ {w}, boat \ {w})
  BY DEF Opened
<1>4. UNCHANGED <<know, notice, timers, down, ours, counts>>
  BY DEF InnerKick
<1> QED
  BY <1>1, <1>2, <1>3, <1>4, PlayStep

LEMMA InnerLeaveStep == ASSUME IInv, NEW w \in Wire, InnerLeave(w) PROVE IInv'
<1>1. TypeOK'
  BY DEF IInv, TypeOK, InnerLeave, notice, counts
<1>2. EndsAreSaid' /\ NeverStopsListening'
  BY DEF IInv, InnerLeave, EndsAreSaid, NeverStopsListening, Subscribed
<1>3. OpenOK'
  BY DEF IInv, InnerLeave, OpenOK, Opened, Match, Need, counts
<1>4. NoticeOK'
  BY DEF IInv, InnerLeave, NoticeOK, Negotiating, Match, Need, notice, counts
<1> QED
  BY <1>1, <1>2, <1>3, <1>4 DEF IInv

LEMMA InitiateStep == ASSUME IInv, Initiate PROVE IInv'
<1>1. TypeOK /\ know \in Configs /\ heed \in Heeds
  BY DEF IInv, TypeOK, Heeds
<1>2. Missing(know, heed) \in SUBSET Protocol /\ Missing(know, heed) \in SUBSET Missing(know, heed)
  BY DEF Missing, Need
<1>3. heed' \in Heeds /\ (Match(know, heed') <=> Match(know, heed))
  BY <1>1, <1>2, AskingTyped, AskingKeepsMatch DEF Initiate
<1>4. /\ sub' \in [Protocol -> {"none", "asked", "live"}]
      /\ \A p \in Missing(know, heed) : sub'[p] # "none" \/ down[p] # <<>>
      /\ \A p \in Protocol : p \notin Missing(know, heed) => sub'[p] = sub[p]
      /\ \A p \in Protocol : sub'[p] = "none" => sub[p] = "none"
  BY <1>1, <1>2, WatchTyped DEF Initiate
<1>5. \A p \in Protocol : heed'[p] = IF p \in Missing(know, heed) THEN Unknown ELSE heed[p]
  BY DEF Initiate, Asking
<1>6. TypeOK'
  BY <1>1, <1>3, <1>4 DEF TypeOK, Initiate, Heeds, inner, notice, counts
<1>7. EndsAreSaid' /\ NeverStopsListening'
  BY <1>4, <1>5 DEF IInv, Initiate, EndsAreSaid, Parting, NeverStopsListening, Subscribed
<1>8. Match(know, heed)' <=> Match(know, heed)
  BY <1>3 DEF Initiate, Match, Need
<1>9. OpenOK'
  BY <1>8 DEF IInv, Initiate, OpenOK, Opened, inner, counts
<1>10. ~Match(know, heed)
  <2>1. PICK p \in Missing(know, heed) : TRUE
    BY DEF Initiate
  <2>2. p \in Need(know) /\ heed[p] = Absent /\ know[p] \in Version
    BY <1>1, <2>1 DEF Missing, Need, Configs
  <2> QED
    BY <2>2, ConstantsAssumption DEF Match
<1>11. NoticeOK'
  BY <1>8, <1>10 DEF IInv, Initiate, NoticeOK, notice, counts
<1> QED
  BY <1>6, <1>7, <1>9, <1>11 DEF IInv

-----------------------------------------------------------------------------
(* The other agent.                                                           *)
LEMMA SaidTyped ==
    ASSUME NEW d \in Flows, NEW m \in Version \cup {"nack", "kick"}
    PROVE  /\ Append(d, m) \in Flows /\ Append(d, m) # <<>>
           /\ Append(d, m)[Len(Append(d, m))] = m
BY DEF Flows

LEMMA WatchArrivesStep == ASSUME IInv, NEW p \in Protocol, WatchArrives(p) PROVE IInv'
<1>1. TypeOK /\ down[p] \in Flows
  BY DEF IInv, TypeOK, Flows
<1>2. PICK s \in {"none", "live"}, m \in Version \cup {"nack", "kick"} :
          /\ sub' = [sub EXCEPT ![p] = s] /\ down' = [down EXCEPT ![p] = Append(@, m)]
          /\ s = "none" => m = "nack"
  BY <1>1 DEF WatchArrives, TypeOK, Configs
<1>3. Append(down[p], m) \in Flows /\ Append(down[p], m) # <<>>
      /\ Append(down[p], m)[Len(Append(down[p], m))] = m
  BY <1>1, SaidTyped
<1>4. TypeOK'
  BY <1>1, <1>2, <1>3 DEF TypeOK, WatchArrives, Flows, inner, notice, counts
<1>5. EndsAreSaid'
  BY <1>1, <1>2, <1>3 DEF IInv, TypeOK, EndsAreSaid, Parting
<1>6. NeverStopsListening'
  BY <1>1, <1>2, <1>3 DEF IInv, TypeOK, NeverStopsListening, Subscribed, WatchArrives
<1>7. OpenOK' /\ NoticeOK'
  BY DEF IInv, WatchArrives, OpenOK, Opened, NoticeOK, Negotiating, Match, Need, inner, notice, counts
<1> QED
  BY <1>4, <1>5, <1>6, <1>7 DEF IInv

LEMMA ClogStep == ASSUME IInv, NEW p \in Protocol, Clog(p) PROVE IInv'
<1>1. TypeOK /\ down[p] \in Flows
  BY DEF IInv, TypeOK, Flows
<1>2. Append(down[p], "kick") \in Flows /\ Append(down[p], "kick") # <<>>
      /\ Append(down[p], "kick")[Len(Append(down[p], "kick"))] = "kick"
  BY <1>1, SaidTyped
<1>3. TypeOK'
  BY <1>1, <1>2 DEF TypeOK, Clog, Flows, inner, notice
<1>4. EndsAreSaid'
  BY <1>1, <1>2 DEF IInv, TypeOK, EndsAreSaid, Parting, Clog
<1>5. NeverStopsListening'
  BY <1>1, <1>2 DEF IInv, TypeOK, NeverStopsListening, Subscribed, Clog
<1>6. OpenOK' /\ NoticeOK'
  BY DEF IInv, Clog, OpenOK, Opened, NoticeOK, Negotiating, Match, Need, inner, notice
<1> QED
  BY <1>3, <1>4, <1>5, <1>6 DEF IInv

LEMMA UpgradeStep == ASSUME IInv, NEW new \in Configs, Upgrade(new) PROVE IInv'
<1> DEFINE changed == {p \in Protocol : sub[p] = "live" /\ new[p] # ours[p]}
           sign(p) == IF new[p] = None THEN "kick" ELSE new[p]
<1>1. TypeOK
  BY DEF IInv
<1>2. /\ sub' = [p \in Protocol |-> IF p \in changed /\ new[p] = None THEN "none" ELSE sub[p]]
      /\ down' = [p \in Protocol |-> IF p \in changed THEN Append(down[p], sign(p)) ELSE down[p]]
      /\ ours' = new /\ upgrades' = upgrades + 1
      /\ UNCHANGED <<know, heed, inner, notice, timers, loads, kicks, resets>>
  BY DEF Upgrade
<1>3. ASSUME NEW p \in Protocol
      PROVE  /\ down'[p] \in Flows /\ (down[p] # <<>> => down'[p] # <<>>)
             /\ Parting(sub'[p], down'[p])
             /\ sub'[p] # sub[p] => down'[p] # <<>>
  <2>1. sign(p) \in Version \cup {"nack", "kick"} /\ down[p] \in Flows
    BY <1>1 DEF TypeOK, Configs, Flows
  <2>2. /\ Append(down[p], sign(p)) \in Flows /\ Append(down[p], sign(p)) # <<>>
        /\ Append(down[p], sign(p))[Len(Append(down[p], sign(p)))] = sign(p)
    BY <2>1, SaidTyped
  <2>3. Parting(sub[p], down[p])
    BY DEF IInv, EndsAreSaid
  <2>4. CASE p \in changed
    BY <1>2, <2>2, <2>4 DEF Parting
  <2>5. CASE p \notin changed
    BY <1>2, <2>1, <2>3, <2>5
  <2> QED
    BY <2>4, <2>5
<1>4. sub' \in [Protocol -> {"none", "asked", "live"}]
  BY <1>1, <1>2 DEF TypeOK
<1>5. down' \in [Protocol -> Flows]
  <2> HIDE DEF changed, sign
  <2> QED BY <1>2, <1>3
<1>6. TypeOK'
  BY <1>1, <1>2, <1>4, <1>5 DEF TypeOK, Flows, inner, notice
<1>7. EndsAreSaid'
  BY <1>3 DEF EndsAreSaid
<1>8. NeverStopsListening'
  BY <1>2, <1>3 DEF IInv, NeverStopsListening, Subscribed
<1>9. OpenOK' /\ NoticeOK'
  BY <1>2 DEF IInv, OpenOK, Opened, NoticeOK, Negotiating, Match, Need, inner, notice
<1> QED
  BY <1>6, <1>7, <1>8, <1>9 DEF IInv

-----------------------------------------------------------------------------
(* What comes of the other agent.                                             *)
LEMMA LastStays ==
    ASSUME NEW d \in Flows, d # <<>>
    PROVE  /\ Tail(d) \in Flows /\ Head(d) \in Version \cup {"nack", "kick"}
           /\ Tail(d) = <<>> => Head(d) = d[Len(d)]
           /\ Tail(d) # <<>> => Tail(d)[Len(Tail(d))] = d[Len(d)]
<1>1. Len(d) \in Nat \ {0} /\ Head(d) = d[1]
  BY EmptySeq DEF Flows
<1>2. /\ Tail(d) \in Flows /\ Head(d) \in Version \cup {"nack", "kick"}
      /\ Len(Tail(d)) = Len(d) - 1
      /\ \A i \in 1 .. Len(Tail(d)) : Tail(d)[i] = d[i + 1]
  BY HeadTailProperties DEF Flows
<1>3. Tail(d) = <<>> => Len(d) = 1
  BY <1>1, <1>2, EmptySeq
<1>4. Tail(d) # <<>> => Len(Tail(d)) \in 1 .. Len(Tail(d))
  BY <1>2, EmptySeq DEF Flows
<1>5. Tail(d) # <<>> => Tail(d)[Len(Tail(d))] = d[Len(d)]
  BY <1>1, <1>2, <1>4
<1> QED
  BY <1>1, <1>2, <1>3, <1>5

LEMMA HeardTyped ==
    ASSUME IInv, NEW p \in Protocol, down[p] # <<>>, Rest(p)
    PROVE  /\ down' \in [Protocol -> Flows]
           /\ \A q \in Protocol \ {p} : down'[q] = down[q]
           /\ Head(down[p]) \in Version \cup {"nack", "kick"}
           /\ Parting(sub[p], down'[p])
           /\ Head(down[p]) \in Version => sub[p] # "none" \/ down'[p] # <<>>
<1>1. down \in [Protocol -> Flows] /\ down[p] \in Flows /\ Parting(sub[p], down[p])
  BY DEF IInv, TypeOK, EndsAreSaid, Flows
<1>2. down' = [down EXCEPT ![p] = Tail(down[p])] /\ down'[p] = Tail(down[p])
  BY <1>1 DEF Rest
<1>3. /\ Tail(down[p]) \in Flows /\ Head(down[p]) \in Version \cup {"nack", "kick"}
      /\ Tail(down[p]) = <<>> => Head(down[p]) = down[p][Len(down[p])]
      /\ Tail(down[p]) # <<>> => Tail(down[p])[Len(Tail(down[p]))] = down[p][Len(down[p])]
  BY <1>1, LastStays
<1>4. down' \in [Protocol -> Flows] /\ \A q \in Protocol \ {p} : down'[q] = down[q]
  BY <1>1, <1>2, <1>3
<1>5. Parting(sub[p], down'[p])
  BY <1>1, <1>2, <1>3 DEF Parting
<1>6. Head(down[p]) \in Version => sub[p] # "none" \/ down'[p] # <<>>
  BY <1>1, <1>2, <1>3, ConstantsAssumption DEF Parting
<1> QED
  BY <1>3, <1>4, <1>5, <1>6

(* A notice, given if the match changes from did to now.                      *)
Noticed(did, now) ==
    /\ told' \in BOOLEAN /\ forgot' \in BOOLEAN
    /\ (did <=> now) => told' = told /\ forgot' = forgot
    /\ ~(did <=> now) => told' = IF now THEN TRUE ELSE FALSE

LEMMA ToldFacts ==
    ASSUME TypeOK, NEW did \in BOOLEAN, NEW now \in BOOLEAN, Told(did, now)
    PROVE  Noticed(did, now)
BY DEF Told, TypeOK, Noticed

(* +heed-changed of a version that is heeded.                                 *)
HeedResult(p) ==
    /\ want' \in SUBSET Wire /\ boat' \in SUBSET Wire /\ heed' \in Heeds
    /\ told' \in BOOLEAN /\ forgot' \in BOOLEAN
    /\ sub' \in [Protocol -> {"none", "asked", "live"}]
    /\ OpenOK' /\ NoticeOK'
    /\ sub'[p] = sub[p]
    /\ \A q \in Protocol : sub'[q] = "none" => sub[q] = "none"
    /\ \A q \in Protocol : heed'[q] # Absent =>
            \/ sub'[q] = sub[q] /\ heed[q] # Absent
            \/ q # p /\ (sub'[q] # "none" \/ down[q] # <<>>)

LEMMA HeedChangedFacts ==
    ASSUME IInv, NEW p \in Protocol, heed[p] # Absent, NEW new \in Version \cup {Unknown},
           HeedChanged(p, new), know' = know, resets' = resets
    PROVE  HeedResult(p)
<1>1. TypeOK /\ know \in Configs /\ heed \in Heeds
  BY DEF IInv, TypeOK, Heeds
<1>2. CASE new = heed[p]
  <2>1. UNCHANGED <<heed, inner, notice, sub>>
    BY <1>2 DEF HeedChanged
  <2>2. OpenOK' /\ NoticeOK'
    BY <2>1 DEF IInv, OpenOK, Opened, NoticeOK, Negotiating, Match, Need, inner, notice
  <2> QED
    BY <1>1, <2>1, <2>2 DEF HeedResult, TypeOK, inner, notice
<1>3. CASE new # heed[p]
  <2> DEFINE h == [heed EXCEPT ![p] = new]
  <2>1. PICK ws \in SUBSET Wire : Inflate(know, h, ws)
    BY <1>3 DEF HeedChanged
  <2>2. Told(Match(know, heed), Match(know, h))
    BY <1>3 DEF HeedChanged
  <2>3. h \in Heeds /\ h[p] # Absent /\ \A q \in Protocol \ {p} : h[q] = heed[q]
    BY <1>1, ConstantsAssumption DEF Heeds, Absent, Unknown
  <2> HIDE DEF h
  <2>4. Inflated(know, h)
    BY <1>1, <2>1, <2>3, InflateFacts
  <2>5. Match(know, heed)' <=> Match(know, h)
    BY <2>4 DEF Inflated, Match, Need
  <2>6. OpenOK'
    BY <2>4, <2>5 DEF IInv, OpenOK, Opened, Inflated
  <2>7. Noticed(Match(know, heed), Match(know, h))
    BY <1>1, <2>2, ToldFacts DEF Match
  <2>8. Negotiating /\ Negotiating'
    BY <2>3, <2>4 DEF Negotiating, Inflated
  <2>9. NoticeOK'
    BY <2>5, <2>7, <2>8 DEF IInv, NoticeOK, Noticed
  <2>10. ASSUME NEW q \in Protocol, heed'[q] # Absent
         PROVE  \/ sub'[q] = sub[q] /\ heed[q] # Absent
                \/ q # p /\ (sub'[q] # "none" \/ down[q] # <<>>)
    <3>1. CASE h[q] = Absent
      BY <2>3, <2>4, <2>10, <3>1 DEF Inflated
    <3>2. CASE h[q] # Absent
      BY <2>3, <2>4, <3>2 DEF Inflated
    <3> QED
      BY <3>1, <3>2
  <2> QED
    BY <2>3, <2>4, <2>6, <2>7, <2>9, <2>10 DEF HeedResult, Inflated, Noticed
<1> QED
  BY <1>2, <1>3

LEMMA FactStep == ASSUME IInv, NEW p \in Protocol, Fact(p) PROVE IInv'
<1>1. /\ down[p] # <<>> /\ Head(down[p]) \in Version /\ heed[p] # Absent
      /\ HeedChanged(p, Head(down[p])) /\ Rest(p)
      /\ UNCHANGED <<know, timers, ours, counts>>
  BY DEF Fact
<1>2. /\ down' \in [Protocol -> Flows] /\ \A q \in Protocol \ {p} : down'[q] = down[q]
      /\ Parting(sub[p], down'[p]) /\ (sub[p] # "none" \/ down'[p] # <<>>)
  BY <1>1, HeardTyped
<1>3. HeedResult(p)
  BY <1>1, HeedChangedFacts DEF counts
<1>4. TypeOK'
  BY <1>1, <1>2, <1>3 DEF IInv, TypeOK, HeedResult, Heeds, Flows, counts
<1>5. EndsAreSaid'
  BY <1>2, <1>3 DEF IInv, EndsAreSaid, Parting, HeedResult
<1>6. NeverStopsListening'
  BY <1>1, <1>2, <1>3 DEF IInv, NeverStopsListening, Subscribed, HeedResult
<1> QED
  BY <1>3, <1>4, <1>5, <1>6 DEF IInv, HeedResult

LEMMA FactUnrequestedStep == ASSUME IInv, NEW p \in Protocol, FactUnrequested(p) PROVE IInv'
<1>1. TypeOK'
  BY DEF IInv, TypeOK, FactUnrequested, inner, notice, counts
<1>2. EndsAreSaid' /\ NeverStopsListening'
  BY DEF IInv, TypeOK, FactUnrequested, EndsAreSaid, Parting, NeverStopsListening, Subscribed
<1>3. OpenOK' /\ NoticeOK'
  BY DEF IInv, FactUnrequested, OpenOK, Opened, NoticeOK, Negotiating, Match, Need, inner, notice, counts
<1> QED
  BY <1>1, <1>2, <1>3 DEF IInv

LEMMA NackStep == ASSUME IInv, NEW p \in Protocol, Nack(p) PROVE IInv'
<1>1. /\ down[p] # <<>> /\ Rest(p) /\ UNCHANGED <<know, ours, counts>>
  BY DEF Nack
<1>2. /\ down' \in [Protocol -> Flows] /\ \A q \in Protocol \ {p} : down'[q] = down[q]
      /\ Parting(sub[p], down'[p])
  BY <1>1, HeardTyped
<1>3. TypeOK /\ heed \in Heeds
  BY DEF IInv, TypeOK, Heeds
<1>4. CASE /\ know[p] = None
           /\ heed' = [heed EXCEPT ![p] = Absent]
           /\ forgot' = (forgot \/ (told /\ \A q \in Protocol \ {p} : heed[q] = Absent))
           /\ UNCHANGED <<inner, told, sub, timers>>
  <2>1. heed' \in Heeds /\ heed'[p] = Absent /\ \A q \in Protocol \ {p} : heed'[q] = heed[q]
    BY <1>3, <1>4 DEF Heeds
  <2>2. TypeOK'
    BY <1>1, <1>2, <1>3, <1>4, <2>1 DEF TypeOK, Heeds, Flows, inner, counts
  <2>3. EndsAreSaid'
    BY <1>2, <1>4 DEF IInv, EndsAreSaid
  <2>4. NeverStopsListening'
    BY <1>2, <1>4, <2>1 DEF IInv, NeverStopsListening, Subscribed
  <2>5. Match(know, heed)' <=> Match(know, heed)
    BY <1>1, <1>4, <2>1 DEF Match, Need
  <2>6. OpenOK'
    BY <1>1, <1>4, <2>5 DEF IInv, OpenOK, Opened, inner, counts
  <2>7. NoticeOK'
    <3>1. Negotiating' => Negotiating
      BY <2>1 DEF Negotiating
    <3>2. Negotiating /\ ~Negotiating' => \A q \in Protocol \ {p} : heed[q] = Absent
      BY <2>1 DEF Negotiating
    <3>3. ~forgot' => ~forgot /\ (~told \/ (Negotiating' <=> Negotiating))
      BY <1>4, <3>1, <3>2
    <3>4. told' = told /\ told \in BOOLEAN /\ resets' = resets
      BY <1>1, <1>3, <1>4 DEF TypeOK, counts
    <3>5. CASE told = TRUE
      BY <2>5, <3>3, <3>4, <3>5 DEF IInv, NoticeOK
    <3>6. CASE told = FALSE
      BY <2>5, <3>1, <3>3, <3>4, <3>6 DEF IInv, NoticeOK
    <3> QED
      BY <3>4, <3>5, <3>6
  <2> QED
    BY <2>2, <2>3, <2>4, <2>6, <2>7 DEF IInv
<1>5. CASE know[p] # None /\ heed[p] # Absent /\ HeedChanged(p, Unknown) /\ Timed(p)
  <2>1. HeedResult(p)
    BY <1>1, <1>5, HeedChangedFacts DEF counts
  <2>2. timers' \in [Protocol -> Nat] /\ timers'[p] > 0 /\ \A q \in Protocol \ {p} : timers'[q] = timers[q]
    BY <1>3, <1>5 DEF TypeOK, Timed
  <2>3. TypeOK'
    BY <1>1, <1>2, <1>3, <2>1, <2>2 DEF TypeOK, HeedResult, Heeds, Flows, counts
  <2>4. EndsAreSaid'
    BY <1>2, <2>1 DEF IInv, EndsAreSaid, Parting, HeedResult
  <2>5. NeverStopsListening'
    BY <1>2, <2>1, <2>2 DEF IInv, NeverStopsListening, Subscribed, HeedResult
  <2> QED
    BY <2>1, <2>3, <2>4, <2>5 DEF IInv, HeedResult
<1>6. CASE know[p] # None /\ heed[p] = Absent /\ UNCHANGED <<heed, inner, notice, sub, timers>>
  <2>1. TypeOK'
    BY <1>1, <1>2, <1>3, <1>6 DEF TypeOK, Flows, inner, notice, counts
  <2>2. EndsAreSaid'
    BY <1>2, <1>6 DEF IInv, EndsAreSaid
  <2>3. NeverStopsListening'
    BY <1>2, <1>6 DEF IInv, NeverStopsListening, Subscribed
  <2>4. OpenOK' /\ NoticeOK'
    BY <1>1, <1>6 DEF IInv, OpenOK, Opened, NoticeOK, Negotiating, Match, Need, inner, notice, counts
  <2> QED
    BY <2>1, <2>2, <2>3, <2>4 DEF IInv
<1> QED
  BY <1>4, <1>5, <1>6 DEF Nack

LEMMA KickStep == ASSUME IInv, NEW p \in Protocol, Kick(p) PROVE IInv'
<1>1. /\ down[p] # <<>> /\ Timed(p) /\ Rest(p)
      /\ UNCHANGED <<know, heed, inner, notice, sub, ours, counts>>
  BY DEF Kick
<1>2. /\ down' \in [Protocol -> Flows] /\ \A q \in Protocol \ {p} : down'[q] = down[q]
      /\ Parting(sub[p], down'[p])
  BY <1>1, HeardTyped
<1>3. timers' \in [Protocol -> Nat] /\ timers'[p] > 0 /\ \A q \in Protocol \ {p} : timers'[q] = timers[q]
  BY <1>1 DEF IInv, TypeOK, Timed
<1>4. TypeOK'
  BY <1>1, <1>2, <1>3 DEF IInv, TypeOK, Flows, inner, notice, counts
<1>5. EndsAreSaid' /\ NeverStopsListening'
  BY <1>1, <1>2, <1>3 DEF IInv, EndsAreSaid, NeverStopsListening, Subscribed
<1>6. OpenOK' /\ NoticeOK'
  BY <1>1 DEF IInv, OpenOK, Opened, NoticeOK, Negotiating, Match, Need, inner, notice, counts
<1> QED
  BY <1>4, <1>5, <1>6 DEF IInv

LEMMA WakeStep == ASSUME IInv, NEW p \in Protocol, Wake(p) PROVE IInv'
<1>1. /\ timers[p] > 0 /\ timers' = [timers EXCEPT ![p] = timers[p] - 1]
      /\ Watch({p}) /\ UNCHANGED <<know, heed, inner, notice, down, ours, counts>>
  BY DEF Wake
<1>2. /\ sub' \in [Protocol -> {"none", "asked", "live"}]
      /\ \A q \in Protocol : q # p => sub'[q] = sub[q]
      /\ sub'[p] # "none" \/ down[p] # <<>>
      /\ \A q \in Protocol : sub'[q] = "none" => sub[q] = "none"
  BY <1>1, WatchTyped DEF IInv
<1>3. timers' \in [Protocol -> Nat] /\ \A q \in Protocol \ {p} : timers'[q] = timers[q]
  BY <1>1 DEF IInv, TypeOK
<1>4. TypeOK'
  BY <1>1, <1>2, <1>3 DEF IInv, TypeOK, inner, notice, counts
<1>5. EndsAreSaid'
  BY <1>1, <1>2 DEF IInv, EndsAreSaid, Parting
<1>6. NeverStopsListening'
  BY <1>1, <1>2, <1>3 DEF IInv, NeverStopsListening, Subscribed
<1>7. OpenOK' /\ NoticeOK'
  BY <1>1 DEF IInv, OpenOK, Opened, NoticeOK, Negotiating, Match, Need, inner, notice, counts
<1> QED
  BY <1>4, <1>5, <1>6, <1>7 DEF IInv

-----------------------------------------------------------------------------
(* An upgrade of this agent, and a reset.                                     *)
LEMMA OnLoadStep == ASSUME IInv, NEW new \in Configs, OnLoad(new) PROVE IInv'
<1>1. PICK ws \in SUBSET Wire : Inflate(new, heed, ws)
  BY DEF OnLoad
<1>2. /\ know' = new /\ loads' = loads + 1
      /\ UNCHANGED <<timers, down, ours, upgrades, kicks, resets>>
      /\ IF Negotiating \/ Killed(new, heed) # {}
         THEN Told(Match(know, heed), Match(new, heed)) ELSE UNCHANGED notice
  BY DEF OnLoad
<1>3. TypeOK /\ heed \in Heeds
  BY DEF IInv, TypeOK, Heeds
<1>4. Inflated(new, heed)
  BY <1>1, <1>3, InflateFacts
<1>5. Match(know, heed)' <=> Match(new, heed)
  BY <1>2, <1>4 DEF Inflated, Match, Need
<1>6. EndsAreSaid'
  BY <1>2, <1>4 DEF IInv, EndsAreSaid, Parting, Inflated
<1>7. NeverStopsListening'
  BY <1>2, <1>4 DEF IInv, NeverStopsListening, Subscribed, Inflated
<1>8. OpenOK'
  BY <1>2, <1>4, <1>5 DEF IInv, OpenOK, Opened, Inflated
<1>9. Negotiating => Negotiating'
  BY <1>4 DEF Negotiating, Inflated
<1>10. CASE Negotiating \/ Killed(new, heed) # {}
  <2>1. Noticed(Match(know, heed), Match(new, heed))
    BY <1>2, <1>3, <1>10, ToldFacts DEF Match
  <2>2. Killed(new, heed) # {} => ~Match(new, heed)
    BY DEF Killed
  <2>3. NoticeOK'
    BY <1>2, <1>5, <1>9, <1>10, <2>1, <2>2 DEF IInv, NoticeOK, Noticed
  <2>4. TypeOK'
    BY <1>2, <1>3, <1>4, <2>1 DEF TypeOK, Heeds, Inflated, Noticed
  <2> QED
    BY <1>6, <1>7, <1>8, <2>3, <2>4 DEF IInv
<1>11. CASE ~Negotiating /\ Killed(new, heed) = {}
  <2>1. UNCHANGED notice
    BY <1>2, <1>11
  <2>2. Negotiating' => ~Match(new, heed)
    BY <1>4, <1>11 DEF Negotiating, Inflated
  <2>3. NoticeOK'
    BY <1>2, <1>5, <1>11, <2>1, <2>2 DEF IInv, NoticeOK, notice
  <2>4. TypeOK'
    BY <1>2, <1>3, <1>4, <2>1 DEF TypeOK, Heeds, Inflated, notice
  <2> QED
    BY <1>6, <1>7, <1>8, <2>3, <2>4 DEF IInv
<1> QED
  BY <1>10, <1>11

LEMMA ResetHeedStep == ASSUME IInv, ResetHeed PROVE IInv'
<1> DEFINE keys == {p \in Protocol : heed[p] # Absent}
<1>1. /\ heed' = Asking(heed, keys) /\ resets' = resets + 1
      /\ sub' = [p \in Protocol |-> IF p \in keys THEN "asked" ELSE sub[p]]
      /\ down' = [p \in Protocol |-> IF p \in keys THEN <<>> ELSE down[p]]
      /\ UNCHANGED <<know, inner, notice, timers, ours, loads, upgrades, kicks>>
  BY DEF ResetHeed
<1>2. TypeOK /\ heed \in Heeds /\ heed' \in Heeds
  BY <1>1, AskingTyped DEF IInv, TypeOK, Heeds
<1>3. down' \in [Protocol -> Flows] /\ sub' \in [Protocol -> {"none", "asked", "live"}]
  BY <1>1, <1>2 DEF TypeOK, Flows
<1>4. TypeOK' /\ resets' # 0
  BY <1>1, <1>2, <1>3 DEF TypeOK, Heeds, Flows, inner, notice
<1>5. EndsAreSaid'
  BY <1>1 DEF IInv, EndsAreSaid, Parting
<1>6. NeverStopsListening'
  BY <1>1 DEF IInv, NeverStopsListening, Subscribed, Asking
<1> QED
  BY <1>4, <1>5, <1>6 DEF IInv, OpenOK, NoticeOK

-----------------------------------------------------------------------------
LEMMA NextIInv == IInv /\ [Next]_vars => IInv'
<1> SUFFICES ASSUME IInv, [Next]_vars PROVE IInv'
  OBVIOUS
<1>1. CASE UNCHANGED vars
  BY <1>1 DEF IInv, vars, counts, TypeOK, EndsAreSaid, NeverStopsListening, Subscribed, OpenOK, Opened,
              NoticeOK, Negotiating, Match, Need
<1>2. CASE \E w \in Wire : InnerWatch(w) \/ InnerLeave(w) \/ InnerKick(w)
  BY <1>2, InnerWatchStep, InnerLeaveStep, InnerKickStep
<1>3. CASE Initiate
  BY <1>3, InitiateStep
<1>4. CASE \E p \in Protocol : WatchArrives(p) \/ Clog(p) \/ Wake(p)
  BY <1>4, WatchArrivesStep, ClogStep, WakeStep
<1>5. CASE \E p \in Protocol : Hear(p)
  BY <1>5, FactStep, FactUnrequestedStep, NackStep, KickStep DEF Hear
<1>6. CASE \E new \in Configs : Upgrade(new) \/ OnLoad(new)
  BY <1>6, UpgradeStep, OnLoadStep
<1>7. CASE ResetHeed
  BY <1>7, ResetHeedStep
<1> QED
  BY <1>1, <1>2, <1>3, <1>4, <1>5, <1>6, <1>7 DEF Next

THEOREM Invariance == Spec => []IInv
<1> QED
  BY InitIInv, NextIInv, PTL DEF Spec

(* The state is well-typed: what is sent on a subscription is a version, a     *)
(* refusal or a kick, and no timer fires more often than it was set.          *)
THEOREM TypeCorrect == Spec => []TypeOK
<1>1. IInv => TypeOK
  BY DEF IInv
<1> QED
  BY Invariance, <1>1, PTL

(* For every protocol that is heeded there is a subscription, something on its *)
(* way or a retry timer (on-agent, on-arvo), however often it is kicked.       *)
THEOREM ListeningNeverStops == Spec => []NeverStopsListening
<1>1. IInv => NeverStopsListening
  BY DEF IInv
<1> QED
  BY Invariance, <1>1, PTL

(* Until a reset, watches are open exactly while the versions match, and the   *)
(* inner agent has been told so (+inflate, +play-card, +heed-changed, on-load).*)
THEOREM WatchesFollowVersions == Spec => []OpenExactlyWhileMatched
<1>1. IInv => OpenExactlyWhileMatched
  <2>1. ASSUME IInv, resets = 0 PROVE boat = IF Match(know, heed) THEN want ELSE {}
    BY <2>1 DEF IInv, OpenOK, Opened
  <2>2. ASSUME IInv, resets = 0, Negotiating, ~forgot PROVE told = Match(know, heed)
    <3>1. told = IF Match(know, heed) THEN TRUE ELSE FALSE
      BY <2>2 DEF IInv, NoticeOK
    <3> QED
      BY <3>1 DEF Match
  <2> QED
    BY <2>1, <2>2 DEF OpenExactlyWhileMatched
<1> QED
  BY Invariance, <1>1, PTL

=============================================================================
