---------------------------- MODULE SyncStart_proofs ----------------------------
(***************************************************************************)
(* Proofs about SyncStart for any number of starts, logins, gaps and       *)
(* fetches.  The inductive invariant has two halves: what the starts, the  *)
(* lock, the desk and the subscriptions of a login owe each other, and     *)
(* what the fetches owe the gaps.  They meet in the probe: a start that    *)
(* probes will fetch.                                                      *)
(***************************************************************************)
EXTENDS SyncStart, TLAPS

OneStart == [st : {"none", "ended"} \cup Running, gen : Nat, warm : BOOLEAN, prior : BOOLEAN,
             high : {"none", "pending", "up", "failed"},
             low : {"none", "pending", "up", "early", "failed"}, lowIn : Nat, again : BOOLEAN]
OneFetch == [st : {"none", "asked", "answered", "inserted"},
             from : 0 .. MaxGaps, begun : 0 .. MaxGaps, upto : 0 .. MaxGaps, of : Nat]
OneDesk  == [st : {"none", "probing", "incompatible", "ok"}, known : BOOLEAN, subscribed : BOOLEAN,
             of : Nat]

-----------------------------------------------------------------------------
(* A start of login g has tried to subscribe. *)
Tried(g) == \E t \in Start : starts[t].gen = g /\ starts[t].high # "none"

(* ... or a late reset has forestalled the login's own start. *)
Had(g) == Tried(g) \/ g \in forestalled

(* A start of this login that will subscribe is still probing. *)
Cold == \E s \in Start : starts[s].st = "probe" /\ starts[s].gen = gen /\ ~starts[s].warm

(* A start that outlived its login overwrote the marker of login g.            *)
Overwritten(g) == \E t \in Start : starts[t].gen < g /\ starts[t].lowIn = g

SlotOK(q) ==
    /\ q.st = "none" => q = NoStart
    /\ q.st # "none" => q.gen > 0 /\ q.gen <= gen
    /\ q.prior /\ q.gen = gen => client
    /\ q.st = "probe" => q.high = "none"
    /\ q.st \in {"probe", "high"} => q.low = "none"
    /\ q.low \in {"none", "pending"} => q.lowIn = 0
    /\ q.low = "up" => q.high = "up"
    /\ q.warm => Had(q.gen)
    /\ q.again => Overwritten(q.gen)

SlotsOK == \A s \in Start : SlotOK(starts[s])

LifeOK ==
    /\ client => gen > 0
    /\ due => client

(* Once the shell has called, the login has tried to subscribe or will, unless  *)
(* it is shown a notice or was forestalled.                                   *)
DeskOK ==
    /\ DeskIsOwn
    /\ desk.subscribed => Gated /\ Had(gen)
    /\ client /\ ~due /\ ~Gated => Had(gen) \/ Cold

SubsOK ==
    /\ subscribedGeneration # None => Tried(subscribedGeneration)
    /\ \A t \in Start : Complete(t) /\ starts[t].gen = gen =>
            subscribedGeneration = gen \/ Overwritten(gen)

StartsInv == SlotsOK /\ LifeOK /\ LockIsOwned /\ DeskOK /\ SubsOK

(* What was missed when a fetch began it brings, if it is of this login.       *)
FetchOK(q) ==
    q.st # "none" =>
        /\ q.begun <= gaps
        /\ q.st = "answered" => q.begun <= q.upto
        /\ \A g \in missed \ early : g > q.begun \/ (q.st # "inserted" /\ q.of = gen /\ g > q.from)

(* Of a gap before there was a cursor no later fetch knows: it is one that was *)
(* under way that brings it.                                                  *)
FetchesInv ==
    /\ cursor <= gaps /\ missed \subseteq 1 .. gaps /\ early \subseteq 1 .. gaps
    /\ cursor = None => missed \subseteq early
    /\ ~client => missed = {}
    /\ \A f \in Fetch : FetchOK(fetches[f])
    /\ CursorIsSound
    /\ \A g \in (missed \cap early) \ excused : Brought(g)
    /\ GapsAreFetched

IInv == TypeOK /\ StartsInv /\ FetchesInv

-----------------------------------------------------------------------------
LEMMA TypeParts ==
    TypeOK <=> /\ client \in BOOLEAN /\ due \in BOOLEAN /\ gen \in 0 .. 2 * MaxLogins
               /\ desk \in OneDesk /\ isSyncing \in BOOLEAN
               /\ syncLockGeneration \in Nat \cup {None} /\ subscribedGeneration \in Nat \cup {None}
               /\ starts \in [Start -> OneStart] /\ fetches \in [Fetch -> OneFetch]
               /\ cursor \in 0 .. MaxGaps \cup {None} /\ gaps \in 0 .. MaxGaps
               /\ missed \subseteq Gap /\ early \subseteq Gap /\ excused \subseteq Gap
               /\ forestalled \subseteq Nat
BY DEF TypeOK, OneStart, OneFetch, OneDesk

LEMMA NoOnesTyped == NoStart \in OneStart /\ NoFetch \in OneFetch /\ NoDesk \in OneDesk
BY ConstantsAssumption DEF NoStart, NoFetch, NoDesk, OneStart, OneFetch, OneDesk

LEMMA InitIInv == Init => IInv
<1> SUFFICES ASSUME Init PROVE IInv
  OBVIOUS
<1>1. starts \in [Start -> OneStart] /\ fetches \in [Fetch -> OneFetch] /\ desk \in OneDesk
  BY NoOnesTyped DEF Init
<1>2. TypeOK
  <2>1. gen \in 0 .. 2 * MaxLogins /\ gaps \in 0 .. MaxGaps
    BY ConstantsAssumption DEF Init
  <2>3. client \in BOOLEAN /\ due \in BOOLEAN
    BY DEF Init
  <2>2. /\ isSyncing \in BOOLEAN /\ syncLockGeneration \in Nat \cup {None}
        /\ subscribedGeneration \in Nat \cup {None} /\ cursor \in 0 .. MaxGaps \cup {None}
        /\ missed \subseteq Gap /\ early \subseteq Gap /\ excused \subseteq Gap
        /\ forestalled \subseteq Nat
    BY DEF Init
  <2> QED
    BY <1>1, <2>1, <2>2, <2>3, TypeParts
<1>3. \A s \in Start : starts[s] = NoStart
  BY DEF Init
<1>4. /\ NoStart.st = "none" /\ NoStart.high = "none" /\ NoStart.low = "none" /\ NoStart.lowIn = 0
      /\ NoStart.warm = FALSE /\ NoStart.again = FALSE /\ NoStart.prior = FALSE
  BY DEF NoStart
<1>5. SlotsOK
  BY <1>3, <1>4 DEF SlotsOK, SlotOK
<1>6. LifeOK
  BY DEF Init, LifeOK
<1>7. LockIsOwned
  BY <1>3, <1>4 DEF Init, LockIsOwned, Running
<1>8. DeskOK
  BY DEF Init, DeskOK, DeskIsOwn, Gated, NoDesk
<1>9. SubsOK
  BY <1>3, <1>4 DEF Init, SubsOK, Complete
<1>10. FetchesInv
  BY DEF Init, FetchesInv, FetchOK, NoFetch, CursorIsSound, GapsAreFetched, None
<1> QED
  BY <1>2, <1>5, <1>6, <1>7, <1>8, <1>9, <1>10 DEF IInv, StartsInv

-----------------------------------------------------------------------------
(* Logins and logouts.                                                        *)
LEMMA LoginStep == ASSUME IInv, Login PROVE IInv'
<1>1. /\ ~client /\ gen < 2 * MaxLogins /\ client' = TRUE /\ gen' = gen + 1 /\ due' = TRUE
      /\ UNCHANGED <<desk, isSyncing, syncLockGeneration, subscribedGeneration, starts, fetches>>
      /\ UNCHANGED <<cursor, gaps, missed, early, excused, forestalled>>
  BY DEF Login, lock, data
<1>2. TypeOK /\ gen \in Nat
  BY TypeParts DEF IInv
<1>3. TypeOK'
  BY <1>1, <1>2, ConstantsAssumption DEF TypeOK
<1>4. \A s \in Start : starts[s] \in OneStart
  BY <1>2, TypeParts
<1>5. \A s \in Start : starts[s].gen # gen'
  <2>1. ASSUME NEW s \in Start PROVE starts[s].gen # gen + 1
    <3>1. SlotOK(starts[s]) /\ NoStart.gen = 0
      BY DEF IInv, StartsInv, SlotsOK, NoStart
    <3> QED
      BY <3>1, <1>2, <1>4 DEF SlotOK, OneStart
  <2> QED
    BY <1>1, <2>1
<1>6. SlotsOK'
  <2>1. ASSUME NEW s \in Start PROVE SlotOK(starts[s])'
    <3>1. SlotOK(starts[s])
      BY DEF IInv, StartsInv, SlotsOK
    <3> QED
      BY <1>1, <1>2, <1>4, <1>5, <3>1 DEF SlotOK, Had, Tried, Overwritten, OneStart
  <2> QED
    BY <2>1 DEF SlotsOK
<1>7. LifeOK'
  BY <1>1, <1>2 DEF IInv, StartsInv, LifeOK
<1>8. LockIsOwned'
  <2>1. isSyncing => syncLockGeneration = gen
    BY <1>1 DEF IInv, StartsInv, LockIsOwned
  <2> QED
    BY <1>1, <1>2, <1>5, <2>1 DEF IInv, StartsInv, LockIsOwned
<1>9. ~Gated /\ ~desk.subscribed /\ (desk.st = "ok" => desk.of = gen)
  BY <1>1 DEF IInv, StartsInv, DeskOK, DeskIsOwn, Gated
<1>10. DeskOK'
  BY <1>1, <1>2, <1>9 DEF DeskOK, DeskIsOwn, Gated
<1>11. SubsOK'
  BY <1>1, <1>5 DEF IInv, StartsInv, SubsOK, Tried
<1>12. missed = {}
  BY <1>1 DEF IInv, FetchesInv
<1>13. FetchesInv'
  BY <1>1, <1>12 DEF IInv, FetchesInv, FetchOK, CursorIsSound, GapsAreFetched
<1> QED
  BY <1>3, <1>6, <1>7, <1>8, <1>10, <1>11, <1>13 DEF IInv, StartsInv

LEMMA LogoutStep == ASSUME IInv, Logout PROVE IInv'
<1>1. /\ client /\ ~due /\ gen + 1 < 2 * MaxLogins
      /\ client' = FALSE /\ gen' = gen + 1 /\ desk' = NoDesk
      /\ isSyncing' = FALSE /\ syncLockGeneration' = None
      /\ cursor' = None /\ missed' = {}
      /\ UNCHANGED <<due, subscribedGeneration, starts, fetches, gaps, early, excused, forestalled>>
  BY DEF Logout
<1>2. TypeOK /\ gen \in Nat
  BY TypeParts DEF IInv
<1>3. TypeOK'
  <2>1. desk' \in OneDesk
    BY <1>1, NoOnesTyped
  <2>2. gen' \in 0 .. 2 * MaxLogins
    BY <1>1, <1>2, ConstantsAssumption
  <2> QED
    BY <1>1, <1>2, <2>1, <2>2 DEF TypeOK, OneDesk
<1>4. \A s \in Start : starts[s] \in OneStart
  BY <1>2, TypeParts
<1>5. \A s \in Start : starts[s].gen # gen' /\ starts[s].gen # None
  <2>1. ASSUME NEW s \in Start PROVE starts[s].gen # gen + 1 /\ starts[s].gen # None
    <3>1. SlotOK(starts[s]) /\ NoStart.gen = 0
      BY DEF IInv, StartsInv, SlotsOK, NoStart
    <3> QED
      BY <3>1, <1>2, <1>4 DEF SlotOK, OneStart, None
  <2> QED
    BY <1>1, <2>1
<1>6. SlotsOK'
  <2>1. ASSUME NEW s \in Start PROVE SlotOK(starts[s])'
    <3>1. SlotOK(starts[s])
      BY DEF IInv, StartsInv, SlotsOK
    <3> QED
      BY <1>1, <1>2, <1>4, <1>5, <3>1 DEF SlotOK, Had, Tried, Overwritten, OneStart
  <2> QED
    BY <2>1 DEF SlotsOK
<1>7. LifeOK'
  BY <1>1 DEF LifeOK
<1>8. LockIsOwned'
  BY <1>1, <1>5 DEF IInv, StartsInv, LockIsOwned
<1>9. DeskOK'
  BY <1>1 DEF DeskOK, DeskIsOwn, Gated, NoDesk
<1>10. SubsOK'
  BY <1>1, <1>5 DEF IInv, StartsInv, SubsOK, Tried
<1>11. FetchesInv'
  BY <1>1, <1>2 DEF IInv, FetchesInv, FetchOK, CursorIsSound, GapsAreFetched, TypeOK, None
<1> QED
  BY <1>3, <1>6, <1>7, <1>8, <1>9, <1>10, <1>11 DEF IInv, StartsInv

-----------------------------------------------------------------------------
(* A start takes the lock. *)
Begun ==
    /\ starts' \in [Start -> OneStart] /\ desk' \in OneDesk
    /\ isSyncing' \in BOOLEAN /\ syncLockGeneration' \in Nat \cup {None}
    /\ StartsInv' /\ Probing'

LEMMA SyncStartFacts ==
    ASSUME IInv, NEW already \in BOOLEAN, gen > 0, ~isSyncing, SyncStart(already),
           already => Had(gen)', already \/ client, forestalled \subseteq forestalled',
           due' \in {FALSE, due}, UNCHANGED <<client, gen, subscribedGeneration>>
    PROVE  Begun
<1> DEFINE warm  == IsSubscribed(already)
           rerun == ~warm /\ \E t \in Start : starts[t].gen = gen /\ Complete(t)
<1>1. PICK s \in Start :
          /\ starts[s].st = "none" /\ isSyncing' = TRUE /\ syncLockGeneration' = gen
          /\ starts' = [starts EXCEPT ![s] =
                [NoStart EXCEPT !.st = "probe", !.gen = gen, !.warm = warm, !.prior = Gated /\ desk.known,
                                !.again = rerun]]
          /\ desk' = IF Gated \/ (~warm /\ desk.st = "none") THEN [desk EXCEPT !.st = "probing"] ELSE desk
  BY DEF SyncStart
<1>2. TypeOK /\ gen \in Nat /\ starts \in [Start -> OneStart] /\ desk \in OneDesk
  BY TypeParts DEF IInv
<1>3. /\ starts[s] = NoStart
      /\ NoStart.gen = 0 /\ NoStart.high = "none" /\ NoStart.lowIn = 0 /\ NoStart.low = "none"
  BY <1>1 DEF IInv, StartsInv, SlotsOK, SlotOK, NoStart
<1>4. /\ starts'[s].st = "probe" /\ starts'[s].gen = gen /\ starts'[s].high = "none"
      /\ starts'[s].prior = (Gated /\ desk.known)
      /\ starts'[s].low = "none" /\ starts'[s].lowIn = 0 /\ starts'[s].warm = warm
      /\ starts'[s].again = rerun
      /\ starts'[s] \in OneStart
  <2>1. warm \in BOOLEAN /\ (Gated /\ desk.known) \in BOOLEAN
        /\ rerun \in BOOLEAN
    BY DEF IsSubscribed
  <2> HIDE DEF warm, rerun
  <2> QED
    BY <1>1, <1>2, <2>1 DEF NoStart, OneStart, Running
<1>5. \A t \in Start \ {s} : starts'[t] = starts[t]
  BY <1>1, <1>2
<1>6. starts' \in [Start -> OneStart]
  BY <1>1, <1>2, <1>4, <1>5
<1>7. \A g : Had(g) => Had(g)'
  BY <1>3, <1>5 DEF Had, Tried
<1>8. \A g : g # 0 /\ Overwritten(g) => Overwritten(g)'
  BY <1>3, <1>5 DEF Overwritten
<1>9. \A t \in Start : starts[t].st # "none" => starts[t].gen # 0
  BY DEF IInv, StartsInv, SlotsOK, SlotOK
<1>10. warm => Had(gen)'
  BY <1>2, <1>7 DEF IsSubscribed, IInv, StartsInv, SubsOK, Had, None
<1>11. rerun => Overwritten(gen)
  BY DEF IsSubscribed, IInv, StartsInv, SubsOK
<1>12. SlotsOK'
  <2>1. SlotOK(starts[s])'
    <3> HIDE DEF warm, rerun
    <3>1. starts'[s].warm => Had(starts[s].gen)'
      BY <1>4, <1>10
    <3>3. starts'[s].prior => client
      BY <1>4 DEF Gated, IInv, StartsInv, DeskOK, DeskIsOwn
    <3>2. starts'[s].again => Overwritten(starts[s].gen)'
      BY <1>4, <1>8, <1>9, <1>11
    <3> QED
      BY <1>2, <1>4, <1>9, <3>1, <3>2, <3>3 DEF SlotOK
  <2>2. ASSUME NEW t \in Start \ {s} PROVE SlotOK(starts[t])'
    <3>1. SlotOK(starts[t]) /\ NoStart.again = FALSE
      BY DEF IInv, StartsInv, SlotsOK, NoStart
    <3> QED
      BY <1>5, <1>7, <1>8, <1>9, <3>1 DEF SlotOK
  <2> QED
    BY <2>1, <2>2 DEF SlotsOK
<1>13. LifeOK'
  <2>1. due' = FALSE \/ due' = due
    OBVIOUS
  <2>2. client' = client /\ gen' = gen
    OBVIOUS
  <2> QED
    BY <2>1, <2>2 DEF IInv, StartsInv, LifeOK
<1>14. LockIsOwned'
  <2>1. \A t \in Start : starts[t].st \in Running => starts[t].gen # gen
    BY <1>2 DEF IInv, StartsInv, LockIsOwned
  <2>2. "probe" \in Running
    BY DEF Running
  <2> QED
    BY <1>1, <1>4, <1>5, <2>1, <2>2 DEF IInv, StartsInv, LockIsOwned
<1>15. /\ desk' \in OneDesk /\ desk'.subscribed = desk.subscribed /\ desk'.of = desk.of
       /\ (desk'.st = "probing" \/ (desk'.st = desk.st /\ ~Gated))
       /\ desk'.st = "probing" => Gated \/ ~warm
  BY <1>1, <1>2 DEF OneDesk, Gated
<1>16. DeskOK'
  <2>1. Gated \/ ~warm => client
    BY DEF IsSubscribed, Gated, IInv, StartsInv, DeskOK, DeskIsOwn
  <2>2. DeskIsOwn'
    <3> HIDE DEF warm
    <3>1. desk'.st = "probing" => client'
      BY <1>15, <2>1
    <3>2. DeskIsOwn /\ desk.st # "probing"
      BY DEF IInv, StartsInv, DeskOK, DeskIsOwn, LockIsOwned, Running
    <3>3. desk'.st # "incompatible"
      BY <1>15 DEF Gated
    <3>4. desk'.st = "ok" => desk.st = "ok"
      BY <1>15
    <3> QED
      BY <1>4, <1>15, <3>1, <3>2, <3>3, <3>4 DEF DeskIsOwn
  <2>5. Had(gen) => Had(gen)'
    BY <1>7 DEF Had, Tried
  <2>3. desk'.subscribed => Gated' /\ Had(gen)'
    BY <1>15, <2>5 DEF IInv, StartsInv, DeskOK, Gated
  <2>4. Had(gen)' \/ Cold'
    BY <1>4, <1>10 DEF Cold
  <2> QED
    BY <2>2, <2>3, <2>4 DEF DeskOK
<1>17. SubsOK'
  <2>3. \A g : Tried(g) => Tried(g)'
    BY <1>3, <1>5 DEF Tried
  <2>1. ~Complete(s)'
    BY <1>4 DEF Complete
  <2>2. \A t \in Start \ {s} : Complete(t)' <=> Complete(t)
    BY <1>5 DEF Complete
  <2> QED
    BY <1>5, <1>8, <1>9, <2>1, <2>2, <2>3 DEF IInv, StartsInv, SubsOK
<1>18. Probing'
  BY <1>4 DEF Probing
<1>19. isSyncing' \in BOOLEAN /\ syncLockGeneration' \in Nat \cup {None}
  BY <1>1, <1>2
<1> QED
  BY <1>6, <1>12, <1>13, <1>14, <1>15, <1>16, <1>17, <1>18, <1>19 DEF Begun, StartsInv

LEMMA FetchesKept ==
    ASSUME IInv, UNCHANGED <<client, gen, fetches, data>>, Probing => Probing'
    PROVE  FetchesInv'
BY DEF IInv, FetchesInv, FetchOK, CursorIsSound, GapsAreFetched, Brought, Brings, data

(* The fetches when a start begins: nothing is lost, as it probes.             *)
LEMMA BegunKeepsFetches ==
    ASSUME IInv, Begun, UNCHANGED <<client, gen, fetches, data>>
    PROVE  FetchesInv'
BY FetchesKept DEF Begun

LEMMA BegunTyped ==
    ASSUME IInv, Begun, client' \in BOOLEAN, due' \in BOOLEAN, UNCHANGED <<gen, subscribedGeneration, fetches>>,
           cursor' \in 0 .. MaxGaps \cup {None}, gaps' \in 0 .. MaxGaps,
           missed' \subseteq Gap, early' \subseteq Gap, excused' \subseteq Gap, forestalled' \subseteq Nat
    PROVE  TypeOK'
BY DEF IInv, Begun, TypeOK, OneStart, OneDesk, OneFetch

(* The lock is taken: the start or the reset leaves the starts as they are. *)
LEMMA BusyKeepsStarts ==
    ASSUME IInv, UNCHANGED <<client, gen, desk, isSyncing, syncLockGeneration, subscribedGeneration, starts>>,
           due' = due \/ (due' = FALSE /\ Had(gen)'), forestalled \subseteq forestalled'
    PROVE  StartsInv'
<1>1. \A g : Tried(g)' <=> Tried(g)
  BY DEF Tried
<1>2. \A g : Had(g) => Had(g)'
  BY <1>1 DEF Had
<1>3. \A g : Overwritten(g)' <=> Overwritten(g)
  BY DEF Overwritten
<1>4. SlotsOK'
  BY <1>2, <1>3 DEF IInv, StartsInv, SlotsOK, SlotOK
<1>5. LifeOK' /\ LockIsOwned'
  BY DEF IInv, StartsInv, LifeOK, LockIsOwned
<1>6. DeskOK'
  <2>1. Cold' <=> Cold
    BY DEF Cold
  <2>2. DeskIsOwn'
    BY DEF IInv, StartsInv, DeskOK, DeskIsOwn
  <2> QED
    BY <1>2, <2>1, <2>2 DEF IInv, StartsInv, DeskOK, Gated
<1>7. SubsOK'
  BY <1>1, <1>3 DEF IInv, StartsInv, SubsOK, Complete
<1> QED
  BY <1>4, <1>5, <1>6, <1>7 DEF StartsInv

(* A changes fetch goes on: the starts see nothing of it. *)
LEMMA FetchKeepsStarts ==
    ASSUME IInv, UNCHANGED <<app, desk, lock, subscribedGeneration, starts, forestalled>>
    PROVE  StartsInv'
BY BusyKeepsStarts DEF app, lock

LEMMA ShellStartStep == ASSUME IInv, ShellStart PROVE IInv'
<1>1. /\ client /\ due' = FALSE
      /\ IF isSyncing
         THEN /\ forestalled' = IF due THEN forestalled \cup {gen} ELSE forestalled
              /\ UNCHANGED <<desk, lock, starts>>
         ELSE SyncStart(FALSE) /\ UNCHANGED forestalled
      /\ UNCHANGED <<client, gen, subscribedGeneration, fetches, data>>
  BY DEF ShellStart
<1>2. TypeOK /\ gen \in Nat /\ gen > 0 /\ due \in BOOLEAN
  BY <1>1, TypeParts DEF IInv, StartsInv, LifeOK
<1>3. forestalled' \subseteq Nat /\ forestalled \subseteq forestalled'
  BY <1>1, <1>2, TypeParts
<1>4. CASE isSyncing
  <2>1. /\ UNCHANGED <<desk, isSyncing, syncLockGeneration, starts>>
        /\ due => gen \in forestalled'
    BY <1>1, <1>4 DEF lock
  <2>2. due' = due \/ (due' = FALSE /\ Had(gen)')
    BY <1>1, <1>2, <2>1 DEF Had
  <2>3. StartsInv'
    BY <1>1, <1>3, <2>1, <2>2, BusyKeepsStarts
  <2>4. TypeOK'
    BY <1>1, <1>2, <1>3, <2>1 DEF TypeOK, data
  <2>5. FetchesInv'
    BY <1>1, <2>1 DEF IInv, FetchesInv, FetchOK, CursorIsSound, GapsAreFetched, Probing, Brought, Brings, data
  <2> QED
    BY <2>3, <2>4, <2>5 DEF IInv
<1>5. CASE ~isSyncing
  <2>1. Begun
    BY <1>1, <1>2, <1>5, SyncStartFacts
  <2>2. TypeOK'
    BY <1>1, <1>3, <2>1, BegunTyped DEF IInv, TypeOK, data
  <2> QED
    BY <1>1, <2>1, <2>2, BegunKeepsFetches DEF IInv, Begun
<1> QED
  BY <1>4, <1>5

LEMMA SyncStartKeepsTried ==
    ASSUME IInv, NEW already, SyncStart(already), UNCHANGED gen
    PROVE  Tried(gen) => Tried(gen)'
<1>1. PICK s \in Start : starts[s].st = "none" /\ \A t \in Start \ {s} : starts'[t] = starts[t]
  BY TypeParts DEF SyncStart, IInv
<1>2. starts[s].high = "none"
  BY <1>1 DEF IInv, StartsInv, SlotsOK, SlotOK, NoStart
<1> QED
  BY <1>1, <1>2 DEF Tried

LEMMA RetryStep == ASSUME IInv, RetryDeskCompatibility PROVE IInv'
<1>1. /\ client /\ ~isSyncing /\ desk.st = "incompatible" /\ SyncStart(desk.subscribed)
      /\ UNCHANGED <<client, gen, due, subscribedGeneration, fetches, data, forestalled>>
  BY DEF RetryDeskCompatibility
<1>2. desk.subscribed \in BOOLEAN /\ gen > 0
  BY <1>1, TypeParts DEF IInv, StartsInv, LifeOK, OneDesk
<1>3. desk.subscribed => Had(gen)'
  <2>1. desk.subscribed => Had(gen)
    BY DEF IInv, StartsInv, DeskOK
  <2>2. Tried(gen) => Tried(gen)'
    BY <1>1, SyncStartKeepsTried
  <2> QED
    BY <1>1, <2>1, <2>2 DEF Had
<1>4. Begun
  BY <1>1, <1>2, <1>3, SyncStartFacts
<1>5. TypeOK'
  BY <1>1, <1>2, <1>4, BegunTyped DEF IInv, TypeOK, data
<1> QED
  BY <1>1, <1>4, <1>5, BegunKeepsFetches DEF IInv, Begun

(* A gap comes, or a reset that loses nothing: what is missed is owed to a      *)
(* start that probes, or excused.                                             *)
LEMMA GapsMet ==
    ASSUME IInv, NEW lost \in BOOLEAN, UNCHANGED <<client, gen, fetches, cursor>>,
           IF lost THEN client /\ gaps < MaxGaps /\ Discontinuity
           ELSE UNCHANGED <<gaps, missed, early, excused>>
    PROVE  /\ cursor' \in 0 .. MaxGaps \cup {None} /\ gaps' \in 0 .. MaxGaps
           /\ missed' \subseteq Gap /\ early' \subseteq Gap /\ excused' \subseteq Gap
           /\ ((Probing \/ ~isSyncing) => Probing') => FetchesInv'
<1>1. CASE ~lost
  <2>1. UNCHANGED <<client, gen, fetches, data>>
    BY <1>1 DEF data
  <2>2. ((Probing \/ ~isSyncing) => Probing') => FetchesInv'
    BY <2>1, FetchesKept
  <2> QED
    BY <2>1, <2>2, TypeParts DEF IInv, data
<1>2. CASE lost
  <2>1. /\ client /\ gaps < MaxGaps /\ gaps' = gaps + 1 /\ missed' = missed \cup {gaps + 1}
        /\ early' = IF cursor = None THEN early \cup {gaps + 1} ELSE early
        /\ excused' = IF Brought(gaps + 1) \/ (cursor # None /\ (Probing \/ ~isSyncing))
                      THEN excused ELSE excused \cup {gaps + 1}
    BY <1>2 DEF Discontinuity
  <2>2. TypeOK /\ gaps \in 0 .. MaxGaps /\ gaps + 1 \in Gap
    BY <2>1, ConstantsAssumption DEF IInv, TypeOK, Gap
  <2>3. /\ cursor' \in 0 .. MaxGaps \cup {None} /\ gaps' \in 0 .. MaxGaps
        /\ missed' \subseteq Gap /\ early' \subseteq Gap /\ excused' \subseteq Gap
    <3>1. missed' \subseteq Gap /\ early' \subseteq Gap
      BY <2>1, <2>2 DEF TypeOK
    <3>2. excused' \subseteq Gap
      <4>1. excused' \in {excused, excused \cup {gaps + 1}}
        BY <2>1
      <4> QED
        BY <2>2, <4>1 DEF TypeOK
    <3> QED
      BY <2>1, <2>2, <3>1, <3>2, ConstantsAssumption DEF TypeOK
  <2>4. ASSUME (Probing \/ ~isSyncing) => Probing' PROVE FetchesInv'
    <3>1. \A g : Brought(g)' <=> Brought(g)
      BY DEF Brought, Brings
    <3>2. gaps + 1 \notin missed \cup early
      BY <2>2 DEF IInv, FetchesInv
    <3>3. ASSUME NEW f \in Fetch PROVE FetchOK(fetches[f])'
      <4>1. FetchOK(fetches[f]) /\ fetches[f].begun \in 0 .. MaxGaps
        BY <2>2, TypeParts DEF IInv, FetchesInv, OneFetch
      <4> QED
        BY <2>1, <2>2, <4>1, ConstantsAssumption DEF FetchOK
    <3>4. CursorIsSound'
      BY <2>1, <2>2, ConstantsAssumption DEF IInv, TypeOK, FetchesInv, CursorIsSound, None
    <3>5. ASSUME NEW g \in (missed' \cap early') \ excused' PROVE Brought(g)
      <4>1. CASE g = gaps + 1
        BY <2>1, <3>2, <3>5, <4>1
      <4>2. CASE g # gaps + 1
        BY <2>1, <3>5, <4>2 DEF IInv, FetchesInv
      <4> QED
        BY <4>1, <4>2
    <3>6. ASSUME NEW g \in missed' \ excused' PROVE Probing' \/ Brought(g)
      <4>1. CASE g = gaps + 1
        BY <2>1, <2>4, <3>6, <4>1
      <4>2. CASE g # gaps + 1
        BY <2>1, <2>4, <3>6, <4>2 DEF IInv, FetchesInv, GapsAreFetched
      <4> QED
        BY <4>1, <4>2
    <3>7. /\ cursor' <= gaps' /\ missed' \subseteq 1 .. gaps' /\ early' \subseteq 1 .. gaps'
          /\ cursor' = None => missed' \subseteq early'
          /\ ~client' => missed' = {}
      BY <2>1, <2>2, ConstantsAssumption DEF IInv, FetchesInv, TypeOK, None
    <3> QED
      BY <3>1, <3>3, <3>4, <3>5, <3>6, <3>7 DEF FetchesInv, GapsAreFetched
  <2> QED
    BY <2>3, <2>4
<1> QED
  BY <1>1, <1>2

LEMMA DiscontinuityStep == ASSUME IInv, NEW lost \in BOOLEAN, HandleDiscontinuity(lost) PROVE IInv'
<1>1. /\ gen > 0
      /\ IF lost THEN client /\ gaps < MaxGaps /\ Discontinuity
         ELSE UNCHANGED <<gaps, missed, early, excused>>
      /\ IF isSyncing THEN UNCHANGED <<desk, lock, starts, forestalled>>
         ELSE /\ SyncStart(Already)
              /\ forestalled' = IF ~client \/ due THEN forestalled \cup {gen} ELSE forestalled
      /\ UNCHANGED <<client, gen, due, subscribedGeneration, fetches, cursor>>
  BY DEF HandleDiscontinuity
<1>2. /\ cursor' \in 0 .. MaxGaps \cup {None} /\ gaps' \in 0 .. MaxGaps
      /\ missed' \subseteq Gap /\ early' \subseteq Gap /\ excused' \subseteq Gap
      /\ ((Probing \/ ~isSyncing) => Probing') => FetchesInv'
  BY <1>1, GapsMet
<1>3. TypeOK /\ gen \in Nat /\ client \in BOOLEAN /\ due \in BOOLEAN
  BY TypeParts DEF IInv
<1>4. CASE isSyncing
  <2>1. UNCHANGED <<desk, isSyncing, syncLockGeneration, starts, forestalled>>
    BY <1>1, <1>4 DEF lock
  <2>2. TypeOK'
    BY <1>1, <1>2, <1>3, <2>1 DEF TypeOK
  <2>3. StartsInv'
    BY <1>1, <2>1, BusyKeepsStarts
  <2>4. Probing' <=> Probing
    BY <1>1, <2>1 DEF Probing
  <2> QED
    BY <1>2, <1>4, <2>2, <2>3, <2>4 DEF IInv
<1>5. CASE ~isSyncing
  <2>1. /\ SyncStart(Already)
        /\ forestalled' = IF ~client \/ due THEN forestalled \cup {gen} ELSE forestalled
    BY <1>1, <1>5
  <2>2. desk.st \in {"none", "probing", "incompatible", "ok"} /\ desk.subscribed \in BOOLEAN
    BY TypeParts DEF IInv, OneDesk
  <2>3. desk.st # "probing" /\ ~Cold
    BY <1>5 DEF IInv, StartsInv, LockIsOwned, DeskOK, DeskIsOwn, Cold, Running
  <2>4. forestalled \subseteq forestalled' /\ forestalled' \subseteq Nat
    BY <1>3, <2>1, TypeParts
  <2>5. Had(gen) => Had(gen)'
    BY <1>1, <2>1, <2>4, SyncStartKeepsTried DEF Had
  <2>6. Already => Had(gen)'
    <3>1. CASE Gated
      BY <2>5, <3>1 DEF Already, IInv, StartsInv, DeskOK
    <3>2. CASE ~Gated /\ (~client \/ due)
      BY <1>1, <2>1, <3>2 DEF Had
    <3>3. CASE ~Gated /\ client /\ ~due
      BY <2>3, <2>5, <3>3 DEF IInv, StartsInv, DeskOK
    <3> QED
      BY <3>1, <3>2, <3>3
  <2>7. Already \in BOOLEAN /\ (Already \/ client)
    BY <2>2 DEF Already, Gated, IInv, StartsInv, DeskOK, DeskIsOwn
  <2>8. Begun
    BY <1>1, <1>5, <2>1, <2>4, <2>6, <2>7, SyncStartFacts
  <2>9. TypeOK'
    BY <1>1, <1>2, <1>3, <2>4, <2>8, BegunTyped
  <2> QED
    BY <1>2, <2>8, <2>9 DEF Begun, IInv
<1> QED
  BY <1>4, <1>5

-----------------------------------------------------------------------------
(* A start s goes on: of what the invariant says of others nothing is lost.    *)
Advances(s) ==
    /\ starts' \in [Start -> OneStart]
    /\ \A t \in Start \ {s} : starts'[t] = starts[t]
    /\ starts[s].st # "none" /\ starts'[s].st # "none"
    /\ starts'[s].gen = starts[s].gen /\ starts'[s].warm = starts[s].warm
    /\ starts'[s].again = starts[s].again /\ starts'[s].prior = starts[s].prior
    /\ starts[s].high # "none" => starts'[s].high # "none"
    /\ starts[s].lowIn # 0 => starts'[s].lowIn = starts[s].lowIn

(* One start's record changes. *)
LEMMA StartAt ==
    ASSUME NEW ss \in [Start -> OneStart], NEW s \in Start, NEW w \in OneStart
    PROVE  LET new == [ss EXCEPT ![s] = w]
           IN  /\ new \in [Start -> OneStart] /\ new[s] = w
               /\ \A t \in Start \ {s} : new[t] = ss[t]
OBVIOUS

LEMMA AdvanceKeeps ==
    ASSUME NEW s \in Start, Advances(s)
    PROVE  /\ \A g : Tried(g) => Tried(g)'
           /\ UNCHANGED forestalled => \A g : Had(g) => Had(g)'
           /\ \A g : g # 0 /\ Overwritten(g) => Overwritten(g)'
<1>1. \A g : Tried(g) => Tried(g)'
  BY DEF Advances, Tried
<1>2. \A g : g # 0 /\ Overwritten(g) => Overwritten(g)'
  BY DEF Advances, Overwritten
<1> QED
  BY <1>1, <1>2 DEF Had

(* ... and the slots are as they should be if that of s is.                   *)
LEMMA AdvanceSlots ==
    ASSUME IInv, NEW s \in Start, Advances(s), UNCHANGED <<app, forestalled>>,
           /\ starts'[s].st = "probe" => starts'[s].high = "none"
           /\ starts'[s].st \in {"probe", "high"} => starts'[s].low = "none"
           /\ starts'[s].low \in {"none", "pending"} => starts'[s].lowIn = 0
           /\ starts'[s].low = "up" => starts'[s].high = "up"
    PROVE  SlotsOK'
<1>1. \A t \in Start : SlotOK(starts[t])
  BY DEF IInv, StartsInv, SlotsOK
<1>2. \A g : Had(g) => Had(g)'
  BY AdvanceKeeps
<1>3. \A g : g # 0 /\ Overwritten(g) => Overwritten(g)'
  BY AdvanceKeeps
<1>4. \A t \in Start : starts[t].st # "none" => starts[t].gen # 0
  BY <1>1 DEF SlotOK
<1>5. SlotOK(starts[s])'
  BY <1>1, <1>2, <1>3, <1>4 DEF SlotOK, Advances, app
<1>6. ASSUME NEW t \in Start \ {s} PROVE SlotOK(starts[t])'
  <2>1. starts[t].again => starts[t].gen # 0
    BY <1>1, <1>4 DEF SlotOK, NoStart
  <2> QED
    BY <1>1, <1>2, <1>3, <2>1 DEF SlotOK, Advances, app
<1> QED
  BY <1>5, <1>6 DEF SlotsOK

(* A start that ends releases the lock if it is its own. *)
LEMMA EndedLock ==
    ASSUME IInv, NEW s \in Start, starts[s].st \in Running, Advances(s), starts'[s].st = "ended",
           Unlocked(s), UNCHANGED app
    PROVE  /\ LockIsOwned' /\ isSyncing' \in BOOLEAN /\ syncLockGeneration' \in Nat \cup {None}
           /\ isSyncing' => isSyncing
<1>1. TypeOK /\ isSyncing \in BOOLEAN /\ syncLockGeneration \in Nat \cup {None}
      /\ \A t \in Start : starts[t].gen \in Nat
  BY TypeParts DEF IInv, OneStart
<1>2. "ended" \notin Running
  BY DEF Running
<1>3. CASE syncLockGeneration = starts[s].gen
  <2>1. isSyncing' = FALSE /\ syncLockGeneration' = None
    BY <1>3 DEF Unlocked
  <2>2. \A t \in Start : starts'[t].gen # None
    BY <1>1 DEF Advances, None
  <2>3. ASSUME NEW t \in Start, starts'[t].st \in Running PROVE starts'[t].gen # gen
    <3>1. t # s
      BY <1>2, <2>3
    <3>2. starts[t].st \in Running /\ starts[t].gen # starts[s].gen
      BY <2>3, <3>1 DEF Advances, IInv, StartsInv, LockIsOwned
    <3> QED
      BY <1>3, <3>1, <3>2 DEF Advances, IInv, StartsInv, LockIsOwned
  <2>4. \A t, u \in Start :
            starts'[t].st \in Running /\ starts'[u].st \in Running /\ starts'[t].gen = starts'[u].gen
              => t = u
    BY <1>2 DEF Advances, IInv, StartsInv, LockIsOwned
  <2>5. LockIsOwned'
    <3>1. gen' = gen /\ due' = due
      BY DEF app
    <3> QED
      BY <2>1, <2>2, <2>3, <2>4, <3>1 DEF LockIsOwned
  <2> QED
    BY <2>1, <2>5
<1>4. CASE syncLockGeneration # starts[s].gen
  BY <1>1, <1>2, <1>4 DEF Unlocked, lock, Advances, IInv, StartsInv, LockIsOwned, app
<1> QED
  BY <1>3, <1>4

LEMMA AdvanceLock ==
    ASSUME IInv, NEW s \in Start, starts[s].st \in Running <=> starts'[s].st \in Running, Advances(s),
           UNCHANGED <<app, lock>>
    PROVE  LockIsOwned'
BY DEF Advances, IInv, StartsInv, LockIsOwned, app, lock

LEMMA EndFacts ==
    ASSUME IInv, NEW s \in Start, starts[s].st \in Running, End(s)
    PROVE  /\ Advances(s) /\ Unlocked(s) /\ starts'[s].st = "ended"
           /\ starts'[s].high = starts[s].high /\ starts'[s].low = starts[s].low
           /\ starts'[s].lowIn = starts[s].lowIn
<1>1. starts \in [Start -> OneStart] /\ "none" \notin Running
  BY TypeParts DEF IInv, Running
<1>2. starts' = [starts EXCEPT ![s].st = "ended"] /\ Unlocked(s)
  BY DEF End
<1> QED
  BY <1>1, <1>2 DEF Advances, OneStart

LEMMA AdvanceSubs ==
    ASSUME IInv, NEW s \in Start, Advances(s), Complete(s)' => Complete(s), UNCHANGED <<app, subscribedGeneration>>
    PROVE  SubsOK'
<1>1. gen # 0 \/ \A t \in Start : ~(Complete(t) /\ starts[t].gen = gen)
  BY DEF IInv, StartsInv, SlotsOK, SlotOK, Complete, NoStart
<1>2. Tried(subscribedGeneration) => Tried(subscribedGeneration)'
  BY AdvanceKeeps DEF app
<1>3. gen # 0 /\ Overwritten(gen) => Overwritten(gen)'
  BY AdvanceKeeps DEF app
<1>4. \A t \in Start : Complete(t)' => Complete(t)
  BY DEF Advances, Complete
<1>5. \A t \in Start : starts'[t].gen = starts[t].gen
  BY DEF Advances
<1> QED
  BY <1>1, <1>2, <1>3, <1>4, <1>5 DEF IInv, StartsInv, SubsOK, app

LEMMA AdvanceDesk ==
    ASSUME IInv, NEW s \in Start, Advances(s), UNCHANGED <<app, desk, forestalled>>, isSyncing' => isSyncing,
           starts[s].st = "probe" /\ starts[s].gen = gen => starts'[s].st = "probe"
    PROVE  DeskOK'
<1>1. Had(gen) => Had(gen)'
  BY AdvanceKeeps DEF app
<1>2. Cold => Cold'
  BY DEF Cold, Advances, app
<1>3. DeskIsOwn'
  BY DEF IInv, StartsInv, DeskOK, DeskIsOwn, Advances, app
<1> QED
  BY <1>1, <1>2, <1>3 DEF IInv, StartsInv, DeskOK, Gated, app

LEMMA AdvanceTyped ==
    ASSUME IInv, NEW s \in Start, Advances(s), desk' \in OneDesk,
           isSyncing' \in BOOLEAN, syncLockGeneration' \in Nat \cup {None},
           subscribedGeneration' \in Nat \cup {None}, fetches' \in [Fetch -> OneFetch], excused' \subseteq Gap,
           UNCHANGED <<app, cursor, gaps, missed, early, forestalled>>
    PROVE  TypeOK'
BY DEF IInv, TypeOK, Advances, OneStart, OneDesk, OneFetch, app

LEMMA ProbingKept ==
    ASSUME NEW s \in Start, Advances(s), UNCHANGED gen,
           starts[s].st = "probe" /\ starts[s].gen = gen => starts'[s].st = "probe"
    PROVE  Probing => Probing'
BY DEF Advances, Probing

-----------------------------------------------------------------------------
LEMMA ProbeAbandonedStep == ASSUME IInv, NEW s \in Start, ProbeAbandoned(s) PROVE IInv'
<1>1. /\ starts[s].st = "probe" /\ gen # starts[s].gen /\ End(s)
      /\ UNCHANGED <<app, desk, subscribedGeneration, fetches, data, forestalled>>
  BY DEF ProbeAbandoned, LoginEnded
<1>2. starts[s].st \in Running
  BY <1>1 DEF Running
<1>3. /\ Advances(s) /\ Unlocked(s) /\ starts'[s].st = "ended"
      /\ starts'[s].high = starts[s].high /\ starts'[s].low = starts[s].low /\ starts'[s].lowIn = starts[s].lowIn
  BY <1>1, <1>2, EndFacts
<1>4. /\ LockIsOwned' /\ isSyncing' \in BOOLEAN /\ syncLockGeneration' \in Nat \cup {None}
      /\ isSyncing' => isSyncing
  BY <1>1, <1>2, <1>3, EndedLock
<1>5. SlotsOK'
  BY <1>1, <1>3, AdvanceSlots DEF IInv, StartsInv, SlotsOK, SlotOK
<1>6. LifeOK'
  BY <1>1 DEF IInv, StartsInv, LifeOK, app
<1>7. DeskOK'
  BY <1>1, <1>3, <1>4, AdvanceDesk
<1>8. SubsOK'
  BY <1>1, <1>3, AdvanceSubs DEF Complete
<1>9. FetchesInv'
  BY <1>1, <1>3, ProbingKept, FetchesKept DEF app
<1>10. TypeOK'
  BY <1>1, <1>3, <1>4, AdvanceTyped, TypeParts DEF IInv, data
<1> QED
  BY <1>4, <1>5, <1>6, <1>7, <1>8, <1>9, <1>10 DEF IInv, StartsInv

LEMMA ProbeGatedStep ==
    ASSUME IInv, NEW s \in Start, NEW version \in {"old", "unknown"}, ProbeGated(s, version)
    PROVE  IInv'
<1>1. /\ starts[s].st = "probe" /\ gen = starts[s].gen /\ End(s)
      /\ IF version = "old" THEN client ELSE starts[s].prior
      /\ desk' = [st |-> "incompatible", known |-> TRUE, of |-> starts[s].gen,
                   subscribed |-> IF version = "old" THEN starts[s].warm ELSE desk.subscribed]
      /\ excused' = excused \cup {g \in missed : ~Brought(g)}
      /\ UNCHANGED <<app, subscribedGeneration, fetches, cursor, gaps, missed, early, forestalled>>
  BY DEF ProbeGated, LoginEnded
<1>2. starts[s].st \in Running
  BY <1>1 DEF Running
<1>3. /\ Advances(s) /\ Unlocked(s) /\ starts'[s].st = "ended"
      /\ starts'[s].high = starts[s].high /\ starts'[s].low = starts[s].low /\ starts'[s].lowIn = starts[s].lowIn
  BY <1>1, <1>2, EndFacts
<1>4. /\ LockIsOwned' /\ isSyncing' \in BOOLEAN /\ syncLockGeneration' \in Nat \cup {None}
      /\ isSyncing' => isSyncing
  BY <1>1, <1>2, <1>3, EndedLock
<1>5. SlotsOK'
  BY <1>1, <1>3, AdvanceSlots DEF IInv, StartsInv, SlotsOK, SlotOK
<1>6. client /\ ~isSyncing'
  <2>1. syncLockGeneration = starts[s].gen
    BY <1>1, <1>2 DEF IInv, StartsInv, LockIsOwned
  <2> QED
    BY <1>1, <1>3, <2>1 DEF Unlocked, IInv, StartsInv, SlotsOK, SlotOK
<1>7. LifeOK'
  BY <1>1 DEF IInv, StartsInv, LifeOK, app
<1>8. starts[s] \in OneStart /\ desk \in OneDesk
  BY TypeParts DEF IInv
<1>9. /\ desk'.st = "incompatible" /\ desk'.of = gen /\ desk' \in OneDesk
      /\ desk'.subscribed \in {starts[s].warm, desk.subscribed}
  BY <1>1, <1>8 DEF OneDesk, OneStart
<1>10. desk'.subscribed => Had(gen)
  BY <1>1, <1>9 DEF IInv, StartsInv, SlotsOK, SlotOK, DeskOK
<1>11. Had(gen) => Had(gen)'
  BY <1>1, <1>3, AdvanceKeeps DEF app
<1>12. DeskOK'
  BY <1>1, <1>6, <1>9, <1>10, <1>11 DEF DeskOK, DeskIsOwn, Gated, app
<1>13. SubsOK'
  BY <1>1, <1>3, AdvanceSubs DEF Complete
<1>14. FetchesInv'
  BY <1>1 DEF IInv, FetchesInv, FetchOK, CursorIsSound, GapsAreFetched, Brought, Brings, app
<1>15. excused' \subseteq Gap /\ fetches' \in [Fetch -> OneFetch] /\ subscribedGeneration' \in Nat \cup {None}
  BY <1>1, TypeParts DEF IInv, TypeOK
<1>16. TypeOK'
  BY <1>1, <1>3, <1>4, <1>9, <1>15, AdvanceTyped
<1> QED
  BY <1>4, <1>5, <1>7, <1>12, <1>13, <1>14, <1>16 DEF IInv, StartsInv

-----------------------------------------------------------------------------
(* A fetch begins: it brings every gap that nothing under way brings, so that  *)
(* no start has to probe any more.                                            *)
LEMMA SyncSinceFacts ==
    ASSUME IInv, SyncSince, UNCHANGED <<client, gen, data>>
    PROVE  fetches' \in [Fetch -> OneFetch] /\ FetchesInv'
<1>1. PICK f \in Fetch :
          /\ fetches[f].st = "none"
          /\ fetches' = [fetches EXCEPT ![f] =
                 [NoFetch EXCEPT !.st = "asked", !.begun = gaps, !.of = Whom,
                                 !.from = IF cursor = None THEN gaps ELSE cursor]]
  BY DEF SyncSince
<1> DEFINE from == IF cursor = None THEN gaps ELSE cursor
<1>2. /\ fetches \in [Fetch -> OneFetch] /\ gaps \in 0 .. MaxGaps /\ Whom \in Nat
      /\ cursor \in 0 .. MaxGaps \cup {None} /\ from \in 0 .. MaxGaps
      /\ missed \subseteq Int
  BY TypeParts DEF IInv, FetchesInv, Gap, Whom
<1>3. UNCHANGED <<cursor, gaps, missed, early, excused>>
  BY DEF data
<1>4. /\ fetches'[f].st = "asked" /\ fetches'[f].begun = gaps /\ fetches'[f].of = Whom
      /\ fetches'[f].from = from /\ fetches'[f] \in OneFetch
  <2> HIDE DEF from
  <2>1. fetches' = [fetches EXCEPT ![f] = [NoFetch EXCEPT !.st = "asked", !.begun = gaps, !.of = Whom, !.from = from]]
    BY <1>1 DEF from
  <2> QED
    BY <1>2, <2>1, NoOnesTyped DEF OneFetch, NoFetch
<1>5. \A e \in Fetch \ {f} : fetches'[e] = fetches[e]
  BY <1>1, <1>2
<1>6. fetches' \in [Fetch -> OneFetch]
  BY <1>1, <1>2, <1>4, <1>5
<1>7. ASSUME NEW g \in missed \ early PROVE cursor # None /\ g > from /\ Whom = gen
  BY <1>7 DEF IInv, FetchesInv, CursorIsSound, Whom
<1>8. FetchOK(fetches[f])'
  BY <1>2, <1>3, <1>4, <1>7 DEF FetchOK
<1>9. ASSUME NEW e \in Fetch PROVE FetchOK(fetches[e])'
  <2>1. FetchOK(fetches[e])
    BY DEF IInv, FetchesInv
  <2> QED
    BY <1>3, <1>5, <1>8, <2>1 DEF FetchOK
<1>10. ASSUME NEW g \in missed, Brought(g) PROVE Brought(g)'
  BY <1>1, <1>3, <1>5, <1>10 DEF Brought, Brings
<1>11. ASSUME NEW g \in missed \ excused PROVE Brought(g)'
  <2>1. CASE Brought(g)
    BY <1>10, <2>1
  <2>2. CASE ~Brought(g)
    <3>1. g \notin early
      BY <2>2 DEF IInv, FetchesInv
    <3> QED
      BY <1>2, <1>4, <1>7, <3>1 DEF Brought, Brings
  <2> QED
    BY <2>1, <2>2
<1>12. FetchesInv'
  BY <1>3, <1>9, <1>11 DEF IInv, FetchesInv, CursorIsSound, GapsAreFetched
<1> QED
  BY <1>6, <1>12

LEMMA ForegroundStep == ASSUME IInv, Foreground PROVE IInv'
<1>1. SyncSince /\ UNCHANGED <<app, desk, lock, subscribedGeneration, starts, data, forestalled>>
  BY DEF Foreground
<1>2. fetches' \in [Fetch -> OneFetch] /\ FetchesInv'
  BY <1>1, SyncSinceFacts DEF app
<1>3. TypeOK'
  BY <1>1, <1>2 DEF IInv, TypeOK, OneFetch, app, lock, data
<1>4. StartsInv'
  BY <1>1, FetchKeepsStarts
<1> QED
  BY <1>2, <1>3, <1>4 DEF IInv

LEMMA ProbeOkStep ==
    ASSUME IInv, NEW s \in Start, NEW version \in {"new", "unknown"}, ProbeOk(s, version)
    PROVE  IInv'
<1>1. /\ starts[s].st = "probe" /\ gen = starts[s].gen
      /\ desk' = [NoDesk EXCEPT !.st = "ok", !.of = starts[s].gen]
      /\ starts' = [starts EXCEPT ![s].st = "high",
                                  ![s].high = IF starts[s].warm THEN "none" ELSE "pending"]
      /\ SyncSince
      /\ UNCHANGED <<app, lock, subscribedGeneration, data, forestalled>>
  BY DEF ProbeOk, LoginEnded
<1>2. starts \in [Start -> OneStart] /\ gen \in Nat
  BY TypeParts DEF IInv
<1>3. starts[s].high = "none" /\ starts[s].low = "none" /\ starts[s].lowIn = 0
  BY <1>1 DEF IInv, StartsInv, SlotsOK, SlotOK
<1>4. /\ starts' \in [Start -> OneStart]
      /\ starts'[s].st = "high" /\ starts'[s].low = "none" /\ starts'[s].lowIn = 0
      /\ ~starts[s].warm => starts'[s].high # "none"
  <2> DEFINE high == IF starts[s].warm THEN "none" ELSE "pending"
  <2>1. high \in {"none", "pending"} /\ (~starts[s].warm => high # "none")
    OBVIOUS
  <2>2. starts' = [starts EXCEPT ![s].st = "high", ![s].high = high]
    BY <1>1
  <2> HIDE DEF high
  <2> DEFINE w == [starts[s] EXCEPT !.st = "high", !.high = high]
  <2>3. w \in OneStart
    BY <1>2, <2>1 DEF OneStart, Running
  <2>4. starts' = [starts EXCEPT ![s] = w]
    BY <1>2, <2>2
  <2>6. w.st = "high" /\ w.high = high /\ w.gen = starts[s].gen /\ w.warm = starts[s].warm
        /\ w.again = starts[s].again /\ w.prior = starts[s].prior /\ w.lowIn = starts[s].lowIn /\ w.low = starts[s].low
    BY <1>2 DEF OneStart
  <2> HIDE DEF w
  <2>5. /\ starts' \in [Start -> OneStart] /\ starts'[s] = w
        /\ \A t \in Start \ {s} : starts'[t] = starts[t]
    BY <1>2, <2>3, <2>4, StartAt
  <2> QED
    BY <1>3, <2>1, <2>5, <2>6
<1>5. Advances(s)
  BY <1>1, <1>2, <1>3, <1>4 DEF Advances, OneStart
<1>6. fetches' \in [Fetch -> OneFetch] /\ FetchesInv'
  BY <1>1, SyncSinceFacts DEF app
<1>7. SlotsOK'
  BY <1>1, <1>4, <1>5, AdvanceSlots
<1>8. LifeOK'
  BY <1>1 DEF IInv, StartsInv, LifeOK, app
<1>9. LockIsOwned'
  BY <1>1, <1>4, <1>5, AdvanceLock DEF Running
<1>10. desk'.st = "ok" /\ desk'.of = gen /\ ~desk'.subscribed /\ desk' \in OneDesk
  BY <1>1, <1>2, NoOnesTyped DEF NoDesk, OneDesk
<1>11. Had(gen)'
  <2>1. CASE starts[s].warm
    <3>1. Had(gen)
      BY <1>1, <2>1 DEF IInv, StartsInv, SlotsOK, SlotOK
    <3> QED
      BY <1>1, <1>5, <3>1, AdvanceKeeps DEF app
  <2>2. CASE ~starts[s].warm
    BY <1>1, <1>4, <1>5, <2>2 DEF Had, Tried, Advances, app
  <2> QED
    BY <2>1, <2>2
<1>12. DeskOK'
  BY <1>1, <1>10, <1>11 DEF DeskOK, DeskIsOwn, app
<1>13. SubsOK'
  BY <1>1, <1>4, <1>5, AdvanceSubs DEF Complete
<1>14. isSyncing' \in BOOLEAN /\ syncLockGeneration' \in Nat \cup {None}
       /\ subscribedGeneration' \in Nat \cup {None} /\ excused' \subseteq Gap
  BY <1>1, TypeParts DEF IInv, lock, data
<1>15. TypeOK'
  BY <1>1, <1>5, <1>6, <1>10, <1>14, AdvanceTyped DEF data
<1> QED
  BY <1>6, <1>7, <1>8, <1>9, <1>12, <1>13, <1>15 DEF IInv, StartsInv

-----------------------------------------------------------------------------
(* The batches and the sets of subscriptions. *)
LEMMA HighEndsStep == ASSUME IInv, NEW s \in Start, HighEnds(s) PROVE IInv'
<1>1. /\ starts[s].st = "high"
      /\ starts' = [starts EXCEPT ![s].st = "low", ![s].low = IF starts[s].warm THEN "none" ELSE "pending"]
      /\ UNCHANGED <<app, desk, lock, subscribedGeneration, fetches, data, forestalled>>
  BY DEF HighEnds
<1>2. starts \in [Start -> OneStart] /\ starts[s].low = "none" /\ starts[s].lowIn = 0
  BY <1>1, TypeParts DEF IInv, StartsInv, SlotsOK, SlotOK
<1>3. /\ starts' \in [Start -> OneStart] /\ starts'[s].st = "low" /\ starts'[s].lowIn = 0
      /\ starts'[s].low # "up" /\ Advances(s)
  <2> DEFINE low == IF starts[s].warm THEN "none" ELSE "pending"
  <2>1. low \in {"none", "pending"}
    OBVIOUS
  <2>2. starts' = [starts EXCEPT ![s].st = "low", ![s].low = low]
    BY <1>1
  <2> HIDE DEF low
  <2> DEFINE w == [starts[s] EXCEPT !.st = "low", !.low = low]
  <2>3. w \in OneStart
    BY <1>2, <2>1 DEF OneStart, Running
  <2>4. starts' = [starts EXCEPT ![s] = w]
    BY <1>2, <2>2
  <2>6. w.st = "low" /\ w.low = low /\ w.gen = starts[s].gen /\ w.warm = starts[s].warm
        /\ w.again = starts[s].again /\ w.prior = starts[s].prior /\ w.lowIn = starts[s].lowIn /\ w.high = starts[s].high
    BY <1>2 DEF OneStart
  <2> HIDE DEF w
  <2>5. /\ starts' \in [Start -> OneStart] /\ starts'[s] = w
        /\ \A t \in Start \ {s} : starts'[t] = starts[t]
    BY <1>2, <2>3, <2>4, StartAt
  <2> QED
    BY <1>1, <1>2, <2>1, <2>5, <2>6 DEF Advances
<1>4. SlotsOK'
  BY <1>1, <1>3, AdvanceSlots
<1>5. LifeOK'
  BY <1>1 DEF IInv, StartsInv, LifeOK, app, lock
<1>6. LockIsOwned'
  BY <1>1, <1>3, AdvanceLock DEF Running
<1>7. DeskOK'
  BY <1>1, <1>3, AdvanceDesk DEF lock
<1>8. SubsOK'
  BY <1>1, <1>3, AdvanceSubs DEF Complete
<1>9. FetchesInv'
  BY <1>1, <1>3, ProbingKept, FetchesKept DEF app
<1>10. TypeOK'
  BY <1>1, <1>3, AdvanceTyped, TypeParts DEF IInv, lock, data
<1> QED
  BY <1>4, <1>5, <1>6, <1>7, <1>8, <1>9, <1>10 DEF IInv, StartsInv

LEMMA LowEndsStep == ASSUME IInv, NEW s \in Start, LowEnds(s) PROVE IInv'
<1>1. starts[s].st = "low" /\ End(s) /\ UNCHANGED <<app, desk, subscribedGeneration, fetches, data, forestalled>>
  BY DEF LowEnds
<1>2. starts[s].st \in Running
  BY <1>1 DEF Running
<1>3. /\ Advances(s) /\ Unlocked(s) /\ starts'[s].st = "ended"
      /\ starts'[s].high = starts[s].high /\ starts'[s].low = starts[s].low /\ starts'[s].lowIn = starts[s].lowIn
  BY <1>1, <1>2, EndFacts
<1>4. /\ LockIsOwned' /\ isSyncing' \in BOOLEAN /\ syncLockGeneration' \in Nat \cup {None}
      /\ isSyncing' => isSyncing
  BY <1>1, <1>2, <1>3, EndedLock
<1>5. SlotsOK'
  BY <1>1, <1>3, AdvanceSlots DEF IInv, StartsInv, SlotsOK, SlotOK
<1>6. LifeOK'
  BY <1>1 DEF IInv, StartsInv, LifeOK, app
<1>7. DeskOK'
  BY <1>1, <1>3, <1>4, AdvanceDesk
<1>8. SubsOK'
  BY <1>1, <1>3, AdvanceSubs DEF Complete
<1>9. FetchesInv'
  BY <1>1, <1>3, ProbingKept, FetchesKept DEF app
<1>10. TypeOK'
  BY <1>1, <1>3, <1>4, AdvanceTyped, TypeParts DEF IInv, data
<1> QED
  BY <1>4, <1>5, <1>6, <1>7, <1>8, <1>9, <1>10 DEF IInv, StartsInv

(* A set that was not up was not complete, and the high one is not completed   *)
(* by itself: the low set is up only after it.                                *)
LEMMA HighSettlesStep == ASSUME IInv, NEW s \in Start, HighSettles(s) PROVE IInv'
<1>1. PICK res \in {"up", "failed"} :
        /\ starts[s].high = "pending"
        /\ starts' = [starts EXCEPT ![s].high = res]
        /\ UNCHANGED <<app, desk, lock, subscribedGeneration, fetches, data, forestalled>>
  BY DEF HighSettles
<1>2. starts \in [Start -> OneStart] /\ SlotOK(starts[s]) /\ starts[s].st # "none" /\ starts[s].st # "probe"
      /\ starts[s].low # "up"
  BY <1>1, TypeParts DEF IInv, StartsInv, SlotsOK, SlotOK, NoStart
<1>3. /\ starts'[s].st = starts[s].st /\ starts'[s].low = starts[s].low
      /\ starts'[s].lowIn = starts[s].lowIn /\ Advances(s)
  BY <1>1, <1>2 DEF OneStart, Advances
<1>4. SlotsOK'
  BY <1>1, <1>2, <1>3, AdvanceSlots DEF SlotOK
<1>5. LifeOK'
  BY <1>1 DEF IInv, StartsInv, LifeOK, app, lock
<1>6. LockIsOwned'
  BY <1>1, <1>3, AdvanceLock
<1>7. DeskOK'
  BY <1>1, <1>3, AdvanceDesk DEF lock
<1>8. SubsOK'
  BY <1>1, <1>2, <1>3, AdvanceSubs DEF Complete
<1>9. FetchesInv'
  BY <1>1, <1>3, ProbingKept, FetchesKept DEF app
<1>10. TypeOK'
  BY <1>1, <1>3, AdvanceTyped, TypeParts DEF IInv, lock, data
<1> QED
  BY <1>4, <1>5, <1>6, <1>7, <1>8, <1>9, <1>10 DEF IInv, StartsInv

LEMMA LowSettlesStep == ASSUME IInv, NEW s \in Start, LowSettles(s) PROVE IInv'
<1>1. /\ starts[s].low = "pending" /\ UNCHANGED <<app, desk, lock, fetches, data, forestalled>>
      /\ \/ /\ starts' = [starts EXCEPT ![s].lowIn = gen,
                                         ![s].low = IF starts[s].high = "up" THEN "up" ELSE "early"]
            /\ subscribedGeneration' = IF starts[s].high = "up" THEN starts[s].gen ELSE subscribedGeneration
         \/ /\ starts' = [starts EXCEPT ![s].low = "failed"]
            /\ UNCHANGED subscribedGeneration
  BY DEF LowSettles
<1>2. /\ starts \in [Start -> OneStart] /\ gen \in Nat /\ subscribedGeneration \in Nat \cup {None}
      /\ SlotOK(starts[s]) /\ starts[s].st \notin {"none", "probe", "high"}
      /\ starts[s].lowIn = 0 /\ starts[s].gen <= gen
  BY <1>1, TypeParts DEF IInv, StartsInv, SlotsOK, SlotOK, NoStart
<1>3. PICK low \in {"up", "early", "failed"}, in \in {0, gen} :
          /\ starts' = [starts EXCEPT ![s].lowIn = in, ![s].low = low]
          /\ low = "up" => starts[s].high = "up" /\ subscribedGeneration' = starts[s].gen
          /\ subscribedGeneration' # subscribedGeneration =>
                 subscribedGeneration' = starts[s].gen /\ starts[s].high = "up" /\ in = gen
  <2>1. CASE starts' = [starts EXCEPT ![s].low = "failed"] /\ UNCHANGED subscribedGeneration
    <3>1. [starts EXCEPT ![s].low = "failed"] = [starts EXCEPT ![s].lowIn = 0, ![s].low = "failed"]
      BY <1>2 DEF OneStart
    <3> QED
      BY <2>1, <3>1
  <2>2. CASE /\ starts' = [starts EXCEPT ![s].lowIn = gen,
                                         ![s].low = IF starts[s].high = "up" THEN "up" ELSE "early"]
             /\ subscribedGeneration' = IF starts[s].high = "up" THEN starts[s].gen ELSE subscribedGeneration
    <3>1. CASE starts[s].high = "up"
      BY <2>2, <3>1
    <3>2. CASE starts[s].high # "up"
      BY <2>2, <3>2
    <3> QED
      BY <3>1, <3>2
  <2> QED
    BY <1>1, <2>1, <2>2
<1>4. /\ starts'[s].st = starts[s].st /\ starts'[s].low = low /\ starts'[s].lowIn = in
      /\ starts'[s].high = starts[s].high /\ starts'[s].gen = starts[s].gen /\ Advances(s)
  <2> DEFINE w == [starts[s] EXCEPT !.lowIn = in, !.low = low]
  <2>1. w \in OneStart
    <3>1. starts[s] \in OneStart /\ in \in Nat /\ low \in {"none", "pending", "up", "early", "failed"}
      BY <1>2
    <3> QED
      BY <3>1 DEF OneStart
  <2>2. /\ w.st = starts[s].st /\ w.low = low /\ w.lowIn = in /\ w.high = starts[s].high
        /\ w.gen = starts[s].gen /\ w.warm = starts[s].warm /\ w.again = starts[s].again /\ w.prior = starts[s].prior
    BY <1>2 DEF OneStart
  <2>3. starts' = [starts EXCEPT ![s] = w]
    BY <1>2, <1>3
  <2> HIDE DEF w
  <2>4. /\ starts' \in [Start -> OneStart] /\ starts'[s] = w
        /\ \A t \in Start \ {s} : starts'[t] = starts[t]
    BY <1>2, <2>1, <2>3, StartAt
  <2> QED
    BY <1>2, <2>2, <2>4 DEF Advances
<1>5. SlotsOK'
  BY <1>1, <1>2, <1>3, <1>4, AdvanceSlots DEF SlotOK
<1>6. LifeOK'
  BY <1>1 DEF IInv, StartsInv, LifeOK, app, lock
<1>7. LockIsOwned'
  BY <1>1, <1>4, AdvanceLock
<1>8. DeskOK'
  BY <1>1, <1>4, AdvanceDesk DEF lock
<1>9. SubsOK'
  <2>1. \A g : Tried(g) => Tried(g)'
    BY <1>4, AdvanceKeeps
  <2>2. \A g : g # 0 /\ Overwritten(g) => Overwritten(g)'
    BY <1>4, AdvanceKeeps
  <2>3. starts[s].high = "up" => Tried(starts[s].gen)
    BY DEF Tried
  <2>4. subscribedGeneration' # None => Tried(subscribedGeneration)'
    BY <1>3, <2>1, <2>3 DEF IInv, StartsInv, SubsOK
  <2>5. ASSUME NEW t \in Start, Complete(t)', starts'[t].gen = gen
        PROVE  subscribedGeneration' = gen \/ Overwritten(gen)'
    <3>1. CASE t = s
      BY <1>3, <1>4, <2>5, <3>1 DEF Complete
    <3>2. CASE t # s
      <4>1. Complete(t) /\ starts[t].gen = gen
        BY <1>4, <2>5, <3>2 DEF Complete, Advances
      <4>2. gen # 0
        BY <4>1 DEF IInv, StartsInv, SlotsOK, SlotOK, Complete, NoStart
      <4>3. subscribedGeneration = gen \/ Overwritten(gen)
        BY <4>1 DEF IInv, StartsInv, SubsOK
      <4>4. CASE subscribedGeneration' # subscribedGeneration /\ starts[s].gen # gen
        <5>1. starts'[s].gen < gen /\ starts'[s].lowIn = gen
          BY <1>2, <1>3, <1>4, <4>4 DEF OneStart
        <5> QED
          BY <1>1, <5>1 DEF Overwritten, app
      <4>5. CASE subscribedGeneration' = subscribedGeneration \/ starts[s].gen = gen
        BY <1>1, <1>3, <2>2, <4>2, <4>3, <4>5 DEF app
      <4> QED
        BY <4>4, <4>5
    <3> QED
      BY <3>1, <3>2
  <2> QED
    BY <1>1, <2>4, <2>5 DEF SubsOK, app
<1>10. FetchesInv'
  BY <1>1, <1>4, ProbingKept, FetchesKept DEF app
<1>11. subscribedGeneration' \in Nat \cup {None}
  BY <1>2, <1>3 DEF OneStart
<1>12. TypeOK'
  BY <1>1, <1>4, <1>11, AdvanceTyped, TypeParts DEF IInv, lock, data
<1> QED
  BY <1>5, <1>6, <1>7, <1>8, <1>9, <1>10, <1>12 DEF IInv, StartsInv

-----------------------------------------------------------------------------
(* What a step of a changes fetch f leaves. *)
LEMMA FetchTyped ==
    ASSUME IInv, UNCHANGED <<app, desk, lock, subscribedGeneration, starts, gaps, early, forestalled>>,
           fetches' \in [Fetch -> OneFetch], cursor' \in 0 .. MaxGaps \cup {None},
           missed' \subseteq missed, excused' \subseteq Gap
    PROVE  TypeOK'
BY DEF IInv, TypeOK, OneFetch, app, lock

(* What the gaps are owed once f goes on: those still missed are brought as    *)
(* they were, or excused.                                                     *)
LEMMA FetchKeepsGaps ==
    ASSUME IInv, NEW f \in Fetch, UNCHANGED <<app, starts, gaps, early>>,
           missed' \subseteq missed, excused \subseteq excused',
           \A e \in Fetch \ {f} : fetches'[e] = fetches[e],
           FetchOK(fetches[f])',
           cursor' = cursor \/ (cursor' \in 0 .. gaps /\ \A g \in missed \ early : g > cursor'),
           \A g \in missed' \ excused' : Brings(fetches[f], g) => Brings(fetches[f], g)'
    PROVE  FetchesInv'
<1>1. \A e \in Fetch : FetchOK(fetches[e])
  BY DEF IInv, FetchesInv
<1>2. ASSUME NEW e \in Fetch PROVE FetchOK(fetches[e])'
  BY <1>1 DEF FetchOK, app
<1>3. ASSUME NEW g \in missed' \ excused', Brought(g) PROVE Brought(g)'
  BY <1>3 DEF Brought, Brings, app
<1>4. Probing => Probing'
  BY DEF Probing, app
<1>5. /\ cursor' <= gaps' /\ missed' \subseteq 1 .. gaps' /\ early' \subseteq 1 .. gaps'
      /\ cursor' = None => missed' \subseteq early'
      /\ ~client' => missed' = {}
  BY DEF IInv, FetchesInv, None, app
<1>6. CursorIsSound'
  BY DEF IInv, FetchesInv, CursorIsSound
<1> QED
  BY <1>2, <1>3, <1>4, <1>5, <1>6 DEF IInv, FetchesInv, GapsAreFetched

LEMMA FetchArrivesStep == ASSUME IInv, NEW f \in Fetch, FetchArrives(f) PROVE IInv'
<1>1. PICK of \in ({fetches[f].of} \ {0}) \cup IF client THEN {gen} ELSE {} :
          /\ fetches[f].st = "asked"
          /\ fetches' = [fetches EXCEPT ![f].st = "answered", ![f].upto = gaps, ![f].of = of]
          /\ UNCHANGED <<app, desk, lock, subscribedGeneration, starts, data, forestalled>>
  BY DEF FetchArrives
<1>2. /\ fetches \in [Fetch -> OneFetch] /\ gaps \in 0 .. MaxGaps /\ gen \in Nat
      /\ cursor \in 0 .. MaxGaps \cup {None} /\ excused \subseteq Gap
  BY TypeParts DEF IInv
<1>3. of \in Nat /\ of \in {fetches[f].of, gen}
  BY <1>1, <1>2 DEF OneFetch
<1>4. /\ fetches'[f] = [fetches[f] EXCEPT !.st = "answered", !.upto = gaps, !.of = of]
      /\ \A e \in Fetch \ {f} : fetches'[e] = fetches[e]
  BY <1>1, <1>2
<1>5. /\ fetches'[f].st = "answered" /\ fetches'[f].upto = gaps /\ fetches'[f].of = of
      /\ fetches'[f].from = fetches[f].from /\ fetches'[f].begun = fetches[f].begun
      /\ fetches'[f] \in OneFetch
  BY <1>2, <1>3, <1>4 DEF OneFetch
<1>6. fetches' \in [Fetch -> OneFetch]
  BY <1>1, <1>2, <1>4, <1>5
<1>7. FetchOK(fetches[f])'
  <2>1. FetchOK(fetches[f])
    BY DEF IInv, FetchesInv
  <2> QED
    BY <1>1, <1>3, <1>5, <2>1 DEF FetchOK, app, data
<1>8. ASSUME NEW g \in missed', Brings(fetches[f], g) PROVE Brings(fetches[f], g)'
  <2>1. g <= gaps
    BY <1>1, <1>2 DEF IInv, FetchesInv, data
  <2> QED
    BY <1>1, <1>3, <1>5, <1>8, <2>1 DEF Brings, app
<1>9. FetchesInv'
  BY <1>1, <1>4, <1>7, <1>8, FetchKeepsGaps DEF data
<1> QED
  BY <1>1, <1>2, <1>6, <1>9, FetchKeepsStarts, FetchTyped DEF IInv, data

LEMMA InsertChangesStep == ASSUME IInv, NEW f \in Fetch, InsertChanges(f) PROVE IInv'
<1>1. /\ fetches[f].st = "answered"
      /\ fetches' = [fetches EXCEPT ![f].st = "inserted"]
      /\ missed' = IF fetches[f].of = gen THEN missed \ (fetches[f].from + 1 .. fetches[f].upto) ELSE missed
      /\ UNCHANGED <<app, desk, lock, subscribedGeneration, starts, cursor, gaps, early, excused, forestalled>>
  BY DEF InsertChanges
<1>2. /\ fetches \in [Fetch -> OneFetch] /\ gaps \in 0 .. MaxGaps
      /\ cursor \in 0 .. MaxGaps \cup {None} /\ excused \subseteq Gap /\ missed \subseteq Int
  BY TypeParts DEF IInv, Gap
<1>3. /\ fetches'[f] = [fetches[f] EXCEPT !.st = "inserted"]
      /\ \A e \in Fetch \ {f} : fetches'[e] = fetches[e]
  BY <1>1, <1>2
<1>4. /\ fetches'[f].st = "inserted" /\ fetches'[f].begun = fetches[f].begun
      /\ fetches'[f] \in OneFetch
  BY <1>2, <1>3 DEF OneFetch
<1>5. fetches' \in [Fetch -> OneFetch]
  BY <1>1, <1>2, <1>4
<1>6. fetches[f].from \in Nat /\ fetches[f].upto \in Nat /\ fetches[f].begun \in Nat
  BY <1>2 DEF OneFetch
<1>7. missed' \subseteq missed
  BY <1>1
<1>8. ASSUME NEW g \in missed', Brings(fetches[f], g) PROVE FALSE
  BY <1>1, <1>2, <1>6, <1>7, <1>8 DEF Brings
<1>9. FetchOK(fetches[f])'
  <2>1. FetchOK(fetches[f])
    BY DEF IInv, FetchesInv
  <2>2. ASSUME NEW g \in missed' \ early PROVE g > fetches[f].begun
    <3>1. g \in missed \ early /\ g \in Int /\ fetches[f].begun <= fetches[f].upto
      BY <1>1, <1>2, <1>7, <2>1 DEF FetchOK
    <3>2. CASE fetches[f].of = gen /\ g > fetches[f].from
      BY <1>1, <1>6, <2>2, <3>1, <3>2
    <3> QED
      BY <1>1, <2>1, <3>1, <3>2 DEF FetchOK
  <2> QED
    BY <1>1, <1>4, <2>1, <2>2 DEF FetchOK
<1>10. FetchesInv'
  BY <1>1, <1>3, <1>7, <1>8, <1>9, FetchKeepsGaps
<1> QED
  BY <1>1, <1>2, <1>5, <1>7, <1>10, FetchKeepsStarts, FetchTyped DEF IInv

LEMMA SetChangesSyncedAtStep == ASSUME IInv, NEW f \in Fetch, SetChangesSyncedAt(f) PROVE IInv'
<1>1. /\ fetches[f].st = "inserted" /\ cursor' = fetches[f].begun
      /\ fetches' = [fetches EXCEPT ![f] = NoFetch]
      /\ UNCHANGED <<app, desk, lock, subscribedGeneration, starts, gaps, missed, early, excused, forestalled>>
  BY DEF SetChangesSyncedAt, SyncedAt
<1>2. /\ fetches \in [Fetch -> OneFetch] /\ gaps \in 0 .. MaxGaps /\ excused \subseteq Gap
      /\ fetches[f].begun \in 0 .. MaxGaps
  BY TypeParts DEF IInv, OneFetch
<1>3. /\ fetches'[f] = NoFetch /\ \A e \in Fetch \ {f} : fetches'[e] = fetches[e]
      /\ fetches' \in [Fetch -> OneFetch]
  BY <1>1, <1>2, NoOnesTyped
<1>4. FetchOK(fetches[f])'
  BY <1>3 DEF FetchOK, NoFetch
<1>5. cursor' \in 0 .. gaps /\ \A g \in missed \ early : g > cursor'
  <2>1. FetchOK(fetches[f])
    BY DEF IInv, FetchesInv
  <2> QED
    BY <1>1, <1>2, <2>1 DEF FetchOK
<1>6. \A g : ~Brings(fetches[f], g)
  BY <1>1 DEF Brings
<1>7. FetchesInv'
  BY <1>1, <1>3, <1>4, <1>5, <1>6, FetchKeepsGaps
<1> QED
  BY <1>1, <1>2, <1>3, <1>7, FetchKeepsStarts, FetchTyped DEF IInv

LEMMA FetchFailsStep == ASSUME IInv, NEW f \in Fetch, FetchFails(f) PROVE IInv'
<1>1. /\ fetches' = [fetches EXCEPT ![f] = NoFetch]
      /\ excused' = excused \cup {g \in missed : Brings(fetches[f], g)}
      /\ UNCHANGED <<app, desk, lock, subscribedGeneration, starts, cursor, gaps, missed, early, forestalled>>
  BY DEF FetchFails
<1>2. /\ fetches \in [Fetch -> OneFetch] /\ cursor \in 0 .. MaxGaps \cup {None}
      /\ excused \subseteq Gap /\ missed \subseteq Gap
  BY TypeParts DEF IInv
<1>3. /\ fetches'[f] = NoFetch /\ \A e \in Fetch \ {f} : fetches'[e] = fetches[e]
      /\ fetches' \in [Fetch -> OneFetch]
  BY <1>1, <1>2, NoOnesTyped
<1>4. FetchOK(fetches[f])'
  BY <1>3 DEF FetchOK, NoFetch
<1>5. \A g \in missed' \ excused' : ~Brings(fetches[f], g)
  BY <1>1
<1>6. FetchesInv'
  BY <1>1, <1>3, <1>4, <1>5, FetchKeepsGaps
<1>7. excused' \subseteq Gap
  BY <1>1, <1>2
<1> QED
  BY <1>1, <1>2, <1>3, <1>6, <1>7, FetchKeepsStarts, FetchTyped DEF IInv

-----------------------------------------------------------------------------
LEMMA NextIInv == IInv /\ [Next]_vars => IInv'
<1> SUFFICES ASSUME IInv, [Next]_vars PROVE IInv'
  OBVIOUS
<1>1. CASE Login
  BY <1>1, LoginStep
<1>2. CASE Logout
  BY <1>2, LogoutStep
<1>3. CASE ShellStart
  BY <1>3, ShellStartStep
<1>4. CASE RetryDeskCompatibility
  BY <1>4, RetryStep
<1>5. CASE \E lost \in BOOLEAN : HandleDiscontinuity(lost)
  BY <1>5, DiscontinuityStep
<1>6. CASE Foreground
  BY <1>6, ForegroundStep
<1>7. ASSUME NEW s \in Start, Probe(s) PROVE IInv'
  BY <1>7, ProbeAbandonedStep, ProbeOkStep, ProbeGatedStep DEF Probe
<1>8. ASSUME NEW s \in Start, Settles(s) \/ Phase(s) PROVE IInv'
  BY <1>8, HighSettlesStep, LowSettlesStep, HighEndsStep, LowEndsStep DEF Settles, Phase
<1>9. ASSUME NEW f \in Fetch, Changes(f) PROVE IInv'
  BY <1>9, FetchArrivesStep, InsertChangesStep, SetChangesSyncedAtStep, FetchFailsStep DEF Changes
<1>10. CASE UNCHANGED vars
  <2>1. UNCHANGED <<app, desk, lock, subscribedGeneration, starts, fetches, data, forestalled>>
    BY <1>10 DEF vars
  <2>2. TypeOK'
    BY <2>1 DEF IInv, TypeOK, app, lock, data
  <2>3. FetchesInv'
    BY <2>1, FetchesKept DEF Probing, app
  <2> QED
    BY <2>1, <2>2, <2>3, FetchKeepsStarts DEF IInv
<1> QED
  BY <1>1, <1>2, <1>3, <1>4, <1>5, <1>6, <1>7, <1>8, <1>9, <1>10 DEF Next

(* The inductive invariant holds in every state the start-up sync reaches.     *)
THEOREM Invariance == Spec => []IInv
BY InitIInv, NextIInv, PTL DEF Spec

(* Every variable keeps its type. *)
THEOREM TypeCorrect == Spec => []TypeOK
<1>1. IInv => TypeOK
  BY DEF IInv
<1> QED
  BY <1>1, Invariance, PTL

(* At most one start of a login runs and it holds the lock; a start that        *)
(* outlives its login neither frees the lock of the next nor, unless a late    *)
(* reset began it just before the login, keeps the next out.                   *)
THEOREM OneStartAtATime == Spec => []LockIsOwned
<1>1. IInv => LockIsOwned
  BY DEF IInv, StartsInv
<1> QED
  BY <1>1, Invariance, PTL

(* No login is shown a notice or a spinner on another one's desk, however many  *)
(* logins, late resets and probes overlap; of a good word it may be that of    *)
(* the reset just before it.                                                  *)
THEOREM VerdictsAreOwn == Spec => []DeskIsOwn
<1>1. IInv => DeskIsOwn
  BY DEF IInv, StartsInv, DeskOK
<1> QED
  BY <1>1, Invariance, PTL

(* A login whose two sets are up does not register them again, unless a start   *)
(* that outlived its login overwrote the marker; a start that skips them       *)
(* follows one that tried, or a late reset that came before the shell.         *)
THEOREM SubscribesOnce == Spec => []SubscribedOnce
<1>1. IInv => SubscribedOnce
  BY DEF IInv, StartsInv, SlotsOK, SlotOK, SubscribedOnce, Overwritten, Had, Tried
<1> QED
  BY <1>1, Invariance, PTL

(* The cursor never passes a gap whose facts are missing, for any number of     *)
(* overlapping fetches.                                                       *)
THEOREM CursorNeverPasses == Spec => []CursorIsSound
<1>1. IInv => CursorIsSound
  BY DEF IInv, FetchesInv
<1> QED
  BY <1>1, Invariance, PTL

(* Every gap that is not excused is owed to a probing start or a fetch.         *)
THEOREM GapsAreMadeGood == Spec => []GapsAreFetched
<1>1. IInv => GapsAreFetched
  BY DEF IInv, FetchesInv
<1> QED
  BY <1>1, Invariance, PTL

=============================================================================
