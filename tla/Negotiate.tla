------------------------------- MODULE Negotiate -------------------------------
(***************************************************************************)
(* The version negotiation library (desk/lib/negotiate.hoon): it wraps an  *)
(* agent, keeps the watches the agent wants on another agent, and holds    *)
(* them open exactly while the versions the other exposes are the ones     *)
(* expected of it.  Both ends are upgraded independently, subscriptions    *)
(* are kicked, watches refused and repeated by timers.                     *)
(*                                                                         *)
(* An event of an agent is atomic.  The model is of one other agent (a     *)
(* gill): the library treats each by itself.  What the wrapped, inner      *)
(* agent does is its own choice.  Of a subscription to a version only the  *)
(* current incarnation is kept: gall drops what an older one delivers.     *)
(***************************************************************************)
EXTENDS Naturals, Sequences, FiniteSets

CONSTANTS
    Protocol,       \* the protocols that either agent may name
    Version,        \* their versions
    Wire,           \* the wires of the inner agent's watches
    MaxUpgrades,    \* bound on the upgrades of the other agent
    MaxLoads,       \* bound on the upgrades of this one, and %negotiate-reset
    MaxKicks        \* bound on the kicks of a version subscription

None    == "none"       \* a protocol that is not exposed, or not expected
Absent  == "absent"     \* no key in .heed
Unknown == "unknown"    \* ~ in .heed

ASSUME ConstantsAssumption ==
    /\ {None, Absent, Unknown, "nack", "kick"} \cap Version = {}
    /\ MaxUpgrades \in Nat /\ MaxLoads \in Nat /\ MaxKicks \in Nat

VARIABLES
    know,       \* versions this agent expects of the other
    heed,       \* versions it has heard
    want,       \* wires the inner agent wants to watch on
    boat,       \* wires on which it does: wex.bowl
    told,       \* history: the last match the inner agent was notified of
    forgot,     \* history: it dropped all that it heard, and gave no notice since
    timers,     \* retry timers that are set
    sub,        \* the watch on each version: none, asked of the other or live there
    down,       \* what the other agent has sent on it
    ours,       \* versions the other agent exposes
    loads, upgrades, kicks, resets

inner  == <<want, boat>>
notice == <<told, forgot>>
counts == <<loads, upgrades, kicks, resets>>
vars   == <<know, heed, want, boat, told, forgot, timers, sub, down, ours, counts>>

Configs == [Protocol -> Version \cup {None}]

Init ==
    /\ know \in Configs /\ ours \in Configs
    /\ heed = [p \in Protocol |-> Absent]
    /\ want = {} /\ boat = {} /\ told = FALSE /\ forgot = FALSE
    /\ timers = [p \in Protocol |-> 0]
    /\ sub = [p \in Protocol |-> "none"]
    /\ down = [p \in Protocol |-> <<>>]
    /\ loads = 0 /\ upgrades = 0 /\ kicks = 0 /\ resets = 0

-----------------------------------------------------------------------------
Need(k) == {p \in Protocol : k[p] # None}

(* +match: all versions are negotiated and as expected. *)
Match(k, h) == \A p \in Need(k) : h[p] = k[p]

(* gall refuses a second watch on the same wire.                              *)
Subscribed(p) == sub[p] # "none" \/ down[p] # <<>>
Watch(ps) == sub' = [p \in Protocol |-> IF p \in ps /\ ~Subscribed(p) THEN "asked" ELSE sub[p]]

(* +negotiate, for each protocol of ps.                                       *)
Missing(k, h)    == {p \in Need(k) : h[p] = Absent}
Asking(h, ps)    == [p \in Protocol |-> IF p \in ps THEN Unknown ELSE h[p]]

Negotiating      == \E p \in Protocol : heed[p] # Absent

(* +play-card for the watches ws of the inner agent, which begin negotiation   *)
(* unless they may be opened at once: wt is what was wanted before, b what was *)
(* open, h what is heard and asked what is watched already in this event.     *)
Play(ws, wt, b, k, h, asked) ==
    LET more == IF ws # {} /\ ~Match(k, h) THEN Missing(k, h) ELSE {}
    IN  /\ want' = wt \cup ws
        /\ boat' = IF Match(k, h) THEN b \cup ws ELSE b
        /\ heed' = Asking(h, more)
        /\ Watch(asked \cup more)

\* Mutant of Killed: a version that has not been heard yet is no mismatch.
KilledIfCertain(k, h) ==
    IF \E p \in Need(k) : h[p] \in Version /\ h[p] # k[p] THEN boat ELSE {}

(* +inflate: the watches that are open while versions do not match are left,   *)
(* and what of them has not been negotiated is.  If versions do match all that *)
(* is wanted is opened.  The inner agent, if it runs now, watches on the wires *)
(* ws: when it is loaded, or told of a kick for what was left.                *)
Killed(k, h) == IF Match(k, h) THEN {} ELSE boat

Inflate(k, h, ws) ==
    LET init == IF Killed(k, h) # {} THEN Missing(k, h) ELSE {}
        open == (boat \ Killed(k, h)) \cup IF Match(k, h) THEN want ELSE {}
    IN  Play(ws, want \ Killed(k, h), open, k, Asking(h, init), init)

Told(did, now) == told' = (IF did = now THEN told ELSE now) /\ forgot' = (forgot /\ did = now)

-----------------------------------------------------------------------------
(* The inner agent.                                                           *)
InnerWatch(w) ==
    /\ w \notin want
    /\ Play({w}, want, boat, know, heed, {})
    /\ UNCHANGED <<know, notice, timers, down, ours, counts>>

InnerLeave(w) ==
    /\ w \in want
    /\ want' = want \ {w} /\ boat' = boat \ {w}
    /\ UNCHANGED <<know, heed, notice, timers, sub, down, ours, counts>>

(* +initiate, or a poke that is let through although nothing is known yet.     *)
Initiate ==
    /\ Missing(know, heed) # {}
    /\ heed' = Asking(heed, Missing(know, heed))
    /\ Watch(Missing(know, heed))
    /\ UNCHANGED <<know, inner, notice, timers, down, ours, counts>>

(* A kick or a refusal of the other agent on a watch of the inner agent, which *)
(* may watch again.                                                           *)
InnerKick(w) ==
    /\ w \in boat
    /\ \E ws \in SUBSET {w} : Play(ws, want \ {w}, boat \ {w}, know, heed, {})
    /\ UNCHANGED <<know, notice, timers, down, ours, counts>>

-----------------------------------------------------------------------------
(* The other agent: on-watch, ours-changed, and the network or a full queue,   *)
(* which end subscriptions.                                                   *)
WatchArrives(p) ==
    /\ sub[p] = "asked"
    /\ IF ours[p] # None
       THEN /\ sub' = [sub EXCEPT ![p] = "live"]
            /\ down' = [down EXCEPT ![p] = Append(@, ours[p])]
       ELSE /\ sub' = [sub EXCEPT ![p] = "none"]
            /\ down' = [down EXCEPT ![p] = Append(@, "nack")]
    /\ UNCHANGED <<know, heed, inner, notice, timers, ours, counts>>

\* Mutant of Upgrade: subscribers hear of dropped protocols only.
UpgradeSilent(new) ==
    LET dropped == {p \in Protocol : sub[p] = "live" /\ new[p] = None}
    IN  /\ upgrades < MaxUpgrades /\ new # ours
        /\ upgrades' = upgrades + 1
        /\ ours' = new
        /\ sub' = [p \in Protocol |-> IF p \in dropped THEN "none" ELSE sub[p]]
        /\ down' = [p \in Protocol |-> IF p \in dropped THEN Append(down[p], "kick") ELSE down[p]]
        /\ UNCHANGED <<know, heed, inner, notice, timers, loads, kicks, resets>>

\* Mutant of Upgrade: a dropped protocol is given as a fact.
UpgradeFactsOnly(new) ==
    LET changed == {p \in Protocol : sub[p] = "live" /\ new[p] # ours[p]}
    IN  /\ upgrades < MaxUpgrades /\ new # ours
        /\ upgrades' = upgrades + 1
        /\ ours' = new
        /\ down' = [p \in Protocol |-> IF p \in changed THEN Append(down[p], new[p]) ELSE down[p]]
        /\ UNCHANGED <<know, heed, inner, notice, timers, sub, loads, kicks, resets>>

Upgrade(new) ==
    LET changed == {p \in Protocol : sub[p] = "live" /\ new[p] # ours[p]}
        sign(p) == IF new[p] = None THEN "kick" ELSE new[p]
    IN  /\ upgrades < MaxUpgrades /\ new # ours
        /\ upgrades' = upgrades + 1
        /\ ours' = new
        /\ sub' = [p \in Protocol |-> IF p \in changed /\ new[p] = None THEN "none" ELSE sub[p]]
        /\ down' = [p \in Protocol |-> IF p \in changed THEN Append(down[p], sign(p)) ELSE down[p]]
        /\ UNCHANGED <<know, heed, inner, notice, timers, loads, kicks, resets>>

Clog(p) ==
    /\ sub[p] = "live" /\ kicks < MaxKicks
    /\ kicks' = kicks + 1
    /\ sub' = [sub EXCEPT ![p] = "none"]
    /\ down' = [down EXCEPT ![p] = Append(@, "kick")]
    /\ UNCHANGED <<know, heed, inner, notice, timers, ours, loads, upgrades, resets>>

-----------------------------------------------------------------------------
(* +heed-changed *)
HeedChanged(p, new) ==
    IF new = heed[p] THEN UNCHANGED <<heed, inner, notice, sub>>
    ELSE LET h == [heed EXCEPT ![p] = new]
         IN  /\ \E ws \in SUBSET Wire :
                    /\ Killed(know, h) = {} => ws = {}
                    /\ Inflate(know, h, ws)
             /\ Told(Match(know, heed), Match(know, h))

Rest(p) == down' = [down EXCEPT ![p] = Tail(@)]

\* Mutant of Timed: nothing renews the watch.
TimedNever(p) == UNCHANGED timers

Timed(p) == timers' = [timers EXCEPT ![p] = @ + 1]

(* on-agent, on a heed wire.                                                  *)
Fact(p) ==
    /\ down[p] # <<>> /\ Head(down[p]) \in Version /\ heed[p] # Absent
    /\ HeedChanged(p, Head(down[p]))
    /\ Rest(p)
    /\ UNCHANGED <<know, timers, ours, counts>>

(* ... a fact that was not asked for crashes the event and gall leaves, and so *)
(* does a refusal (in Nack), which leaves nothing to end.                     *)
FactUnrequested(p) ==
    /\ down[p] # <<>> /\ Head(down[p]) \in Version /\ heed[p] = Absent
    /\ sub' = [sub EXCEPT ![p] = "none"]
    /\ down' = [down EXCEPT ![p] = <<>>]
    /\ UNCHANGED <<know, heed, inner, notice, timers, ours, counts>>

Nack(p) ==
    /\ down[p] # <<>> /\ Head(down[p]) = "nack"
    /\ \/ /\ know[p] = None
          /\ heed' = [heed EXCEPT ![p] = Absent]
          /\ forgot' = (forgot \/ (told /\ \A q \in Protocol \ {p} : heed[q] = Absent))
          /\ UNCHANGED <<inner, told, sub, timers>>
       \/ /\ know[p] # None /\ heed[p] # Absent
          /\ HeedChanged(p, Unknown)
          /\ Timed(p)
       \/ /\ know[p] # None /\ heed[p] = Absent
          /\ UNCHANGED <<heed, inner, notice, sub, timers>>
    /\ Rest(p)
    /\ UNCHANGED <<know, ours, counts>>

Kick(p) ==
    /\ down[p] # <<>> /\ Head(down[p]) = "kick"
    /\ Timed(p) /\ Rest(p)
    /\ UNCHANGED <<know, heed, inner, notice, sub, ours, counts>>

(* on-arvo *)
Wake(p) ==
    /\ timers[p] > 0
    /\ timers' = [timers EXCEPT ![p] = @ - 1]
    /\ Watch({p})
    /\ UNCHANGED <<know, heed, inner, notice, down, ours, counts>>

(* on-load, with other versions expected.  The inner agent's own on-load may   *)
(* watch, too.                                                                *)
OnLoad(new) ==
    /\ loads + resets < MaxLoads /\ new # know
    /\ loads' = loads + 1
    /\ know' = new
    /\ \E ws \in SUBSET Wire : Inflate(new, heed, ws)
    /\ IF Negotiating \/ Killed(new, heed) # {}
       THEN Told(Match(know, heed), Match(new, heed)) ELSE UNCHANGED notice
    /\ UNCHANGED <<timers, down, ours, upgrades, kicks, resets>>

(* %negotiate-reset: +reset-heed leaves and watches anew.                     *)
ResetHeed ==
    LET keys == {p \in Protocol : heed[p] # Absent}
    IN  /\ loads + resets < MaxLoads /\ keys # {}
        /\ resets' = resets + 1
        /\ heed' = Asking(heed, keys)
        /\ sub' = [p \in Protocol |-> IF p \in keys THEN "asked" ELSE sub[p]]
        /\ down' = [p \in Protocol |-> IF p \in keys THEN <<>> ELSE down[p]]
        /\ UNCHANGED <<know, inner, notice, timers, ours, loads, upgrades, kicks>>

-----------------------------------------------------------------------------
Hear(p) == Fact(p) \/ FactUnrequested(p) \/ Nack(p) \/ Kick(p)

Next ==
    \/ \E w \in Wire : InnerWatch(w) \/ InnerLeave(w) \/ InnerKick(w)
    \/ Initiate
    \/ \E p \in Protocol : WatchArrives(p) \/ Clog(p) \/ Hear(p) \/ Wake(p)
    \/ \E new \in Configs : Upgrade(new) \/ OnLoad(new)
    \/ ResetHeed

Spec == Init /\ [][Next]_vars

(* The network delivers, the other ship answers, and timers fire.             *)
FairSpec ==
    /\ Spec
    /\ \A p \in Protocol : WF_vars(WatchArrives(p)) /\ WF_vars(Hear(p)) /\ WF_vars(Wake(p))

-----------------------------------------------------------------------------
TypeOK ==
    /\ know \in Configs /\ ours \in Configs
    /\ heed \in [Protocol -> Version \cup {Absent, Unknown}]
    /\ want \subseteq Wire /\ boat \subseteq Wire /\ told \in BOOLEAN /\ forgot \in BOOLEAN
    /\ timers \in [Protocol -> Nat]
    /\ sub \in [Protocol -> {"none", "asked", "live"}]
    /\ down \in [Protocol -> Seq(Version \cup {"nack", "kick"})]
    /\ loads \in Nat /\ upgrades \in Nat /\ kicks \in Nat /\ resets \in Nat

(* What the inner agent wants to watch is open while the versions match, and   *)
(* nothing is while they do not, whichever end was upgraded, and though the    *)
(* inner agent watches, leaves and is kicked in between (+inflate, +play-card).*)
(* And the last notification it was given says whether versions match, unless  *)
(* all that was heard had been dropped as no longer expected: when it is again *)
(* nothing is said (inflate notes only what it has heard of before).          *)
(* A reset suspends this: it forgets the versions and closes nothing.          *)
OpenExactlyWhileMatched ==
    resets = 0 => /\ boat = IF Match(know, heed) THEN want ELSE {}
                  /\ Negotiating /\ ~forgot => told = Match(know, heed)

(* "Once the library starts negotiating it never stops listening": for every   *)
(* version it heeds there is a subscription, a message on it, or a timer that  *)
(* will renew it, and so no kick or refusal leaves it deaf.                   *)
NeverStopsListening ==
    \A p \in Protocol : heed[p] # Absent => Subscribed(p) \/ timers[p] > 0

(* In the end it has heard the versions that the other agent exposes, and      *)
(* knows of no other ones.                                                    *)
Heard == \A p \in Protocol :
            heed[p] # Absent => heed[p] = IF ours[p] = None THEN Unknown ELSE ours[p]
HearsInTheEnd == <>[]Heard

(* "Only once it has heard a matching version for all protocols will the       *)
(* library establish the subscriptions for which intent has been signalled",   *)
(* and "changing the library arguments should generally suffice": once both    *)
(* ends agree what is wanted is opened.                                       *)
Agree == \A p \in Need(know) : ours[p] = know[p]
WantedOpens == <>[](Agree => boat = want)

=============================================================================
