------------------------------- MODULE SyncStart -------------------------------
(***************************************************************************)
(* The start-up sync of the app (shared/store/sync/sync.ts): the lock that *)
(* lets one start run at a time, the probe of the ship's desk version that *)
(* may refuse it, the two sets of subscriptions it registers, the changes  *)
(* it fetches from a cursor on, and the restarts after a gap in the event  *)
(* stream.  A logout or a login may come at any await, and so may a reset  *)
(* of the channel of a client that was removed; the generation of the      *)
(* client tells what belongs to whom.                                      *)
(*                                                                         *)
(* Time is counted in gaps: intervals in which the ship's facts were lost. *)
(* The cursor lies behind the gaps 1 .. cursor, and a fetch heals those    *)
(* between the cursor it read and the moment the ship answers it.          *)
(***************************************************************************)
EXTENDS Integers, FiniteSets

CONSTANTS
    MaxStarts,  \* bound on the starts that take the lock
    MaxGaps,    \* bound on the gaps in the event stream
    MaxLogins,  \* bound on the logins
    MaxFetches  \* bound on the changes fetches under way at once

ASSUME ConstantsAssumption ==
    MaxStarts \in Nat /\ MaxGaps \in Nat /\ MaxLogins \in Nat /\ MaxFetches \in Nat

VARIABLES
    client,             \* initializedClient
    gen,                \* clientGeneration
    due,                \* the shell of this login has not called syncStart yet
    desk,               \* deskCompat of the session
    isSyncing, syncLockGeneration, subscribedGeneration,
    starts,             \* the starts that took the lock, one after another
    fetches,            \* the changes fetches under way
    cursor,             \* changesSyncedAt, None if it is not set
    gaps,               \* gaps so far
    missed,             \* those whose facts are not in the database
    early,              \* history: those that came before there was a cursor
    excused,            \* history: those that nothing under way will fetch
    forestalled         \* history: generations in which a late reset came before the shell's start

lock  == <<isSyncing, syncLockGeneration>>
app   == <<client, gen, due>>
data  == <<cursor, gaps, missed, early, excused>>
vars  == <<app, desk, lock, subscribedGeneration, starts, fetches, data, forestalled>>

Start   == 1 .. MaxStarts
Fetch   == 1 .. MaxFetches
Gap     == 1 .. MaxGaps
None    == -1
Running == {"probe", "high", "low"}

NoDesk  == [st |-> "none", known |-> FALSE, subscribed |-> FALSE, of |-> 0]
Gated   == desk.st \in {"probing", "incompatible"}

NoStart == [st |-> "none", gen |-> 0, warm |-> FALSE, prior |-> FALSE, high |-> "none", low |-> "none",
            lowIn |-> 0, again |-> FALSE]
NoFetch == [st |-> "none", from |-> 0, begun |-> 0, upto |-> 0, of |-> 0]

Init ==
    /\ client = FALSE /\ gen = 0 /\ due = FALSE
    /\ desk = NoDesk
    /\ isSyncing = FALSE /\ syncLockGeneration = None /\ subscribedGeneration = None
    /\ starts = [s \in Start |-> NoStart]
    /\ fetches = [f \in Fetch |-> NoFetch]
    /\ cursor = None /\ gaps = 0 /\ missed = {} /\ early = {} /\ excused = {}
    /\ forestalled = {}

-----------------------------------------------------------------------------
(* configureClient, followed by the shell's own syncStart.  The session stays:  *)
(* a reset since the logout may have filled it.                               *)
Login ==
    /\ ~client /\ gen < 2 * MaxLogins
    /\ client' = TRUE /\ gen' = gen + 1 /\ due' = TRUE
    /\ UNCHANGED <<desk, lock, subscribedGeneration, starts, fetches, data, forestalled>>

(* useHandleLogout, from a screen of the shell; the database is reset with it.  *)
(* What is under way goes on.                                                 *)
Logout ==
    /\ client /\ ~due /\ gen + 1 < 2 * MaxLogins
    /\ client' = FALSE /\ gen' = gen + 1
    /\ desk' = NoDesk
    /\ isSyncing' = FALSE /\ syncLockGeneration' = None
    /\ cursor' = None /\ missed' = {}
    /\ UNCHANGED <<due, subscribedGeneration, starts, fetches, gaps, early, excused, forestalled>>

-----------------------------------------------------------------------------
Complete(s)  == starts[s].high = "up" /\ starts[s].low = "up"

\* Mutant of IsSubscribed: the marker is not consulted.
IsSubscribedAsTold(already) == already

IsSubscribed(already) == already \/ subscribedGeneration = gen

(* syncStart once it has the lock, and checkDeskCompatibility up to the        *)
(* request.                                                                   *)
SyncStart(already) ==
    \E s \in Start :
        LET warm  == IsSubscribed(already)
        IN  /\ starts[s].st = "none" /\ \A t \in 1 .. s - 1 : starts[t].st # "none"
            /\ isSyncing' = TRUE /\ syncLockGeneration' = gen
            /\ starts' = [starts EXCEPT ![s] =
                  [NoStart EXCEPT !.st = "probe", !.gen = gen, !.warm = warm, !.prior = Gated /\ desk.known,
                                  !.again = ~warm /\ \E t \in Start : starts[t].gen = gen /\ Complete(t)]]
            /\ desk' = IF Gated \/ (~warm /\ desk.st = "none") THEN [desk EXCEPT !.st = "probing"] ELSE desk

(* The shell's own start after a login, or that of another screen.  While the  *)
(* lock is taken ('busy') it does nothing: not again later, either.           *)
ShellStart ==
    /\ client
    /\ due' = FALSE
    /\ IF isSyncing
       THEN /\ forestalled' = IF due THEN forestalled \cup {gen} ELSE forestalled
            /\ UNCHANGED <<desk, lock, starts>>
       ELSE SyncStart(FALSE) /\ UNCHANGED forestalled
    /\ UNCHANGED <<client, gen, subscribedGeneration, fetches, data>>

(* retryDeskCompatibility: the notice's button, which is disabled while a probe *)
(* is under way.  The lock is free then (see DeskIsOwn), and  restoreNotice   *)
(* is never reached.                                                          *)
RetryDeskCompatibility ==
    /\ client /\ ~isSyncing /\ desk.st = "incompatible"
    /\ SyncStart(desk.subscribed)
    /\ UNCHANGED <<client, gen, due, subscribedGeneration, fetches, data, forestalled>>

\* Mutant of Already: a gated login is taken for one that has subscribed.
AlreadyAlways == TRUE

Already == IF Gated THEN desk.subscribed ELSE TRUE

(* A fetch that is going to bring what was missed in gap g.                    *)
Brings(q, g) ==
    /\ q.from < g /\ q.of = gen
    /\ q.st = "asked" \/ (q.st = "answered" /\ g <= q.upto)

Brought(g) == \E f \in Fetch : Brings(fetches[f], g)
Probing    == \E s \in Start : starts[s].st = "probe" /\ starts[s].gen = gen

(* handleDiscontinuity: the channel is reset or a subscription quits, and facts *)
(* of this login are lost.  The hook on the channel outlives the client, so    *)
(* that of an earlier login may be reset now; nobody asks whose it is.        *)
Discontinuity ==
    /\ gaps' = gaps + 1 /\ missed' = missed \cup {gaps + 1}
    /\ early' = IF cursor = None THEN early \cup {gaps + 1} ELSE early
    /\ excused' = IF Brought(gaps + 1) \/ (cursor # None /\ (Probing \/ ~isSyncing))
                  THEN excused ELSE excused \cup {gaps + 1}

HandleDiscontinuity(lost) ==
    /\ gen > 0
    /\ IF lost THEN client /\ gaps < MaxGaps /\ Discontinuity
       ELSE UNCHANGED <<gaps, missed, early, excused>>
    /\ IF isSyncing THEN UNCHANGED <<desk, lock, starts, forestalled>>
       ELSE /\ SyncStart(Already)
            /\ forestalled' = IF ~client \/ due THEN forestalled \cup {gen} ELSE forestalled
    /\ UNCHANGED <<client, gen, due, subscribedGeneration, fetches, cursor>>

-----------------------------------------------------------------------------
\* Mutant of Unlocked: whoever ends releases the lock.
UnlockedAnyway(s) == isSyncing' = FALSE /\ syncLockGeneration' = None

Unlocked(s) ==
    IF syncLockGeneration = starts[s].gen
    THEN isSyncing' = FALSE /\ syncLockGeneration' = None
    ELSE UNCHANGED lock

End(s) == starts' = [starts EXCEPT ![s].st = "ended"] /\ Unlocked(s)

\* Mutant of LoginEnded: any login passes for this one.
LoginEndedByLogout(s) == ~client

LoginEnded(s) == gen # starts[s].gen

Whom == IF client THEN gen ELSE 0

\* Mutant of SyncSince: a cursor that is not set is read like any other.
SyncSinceUnset ==
    \E f \in Fetch :
        /\ fetches[f].st = "none" /\ \A e \in 1 .. f - 1 : fetches[e].st # "none"
        /\ fetches' = [fetches EXCEPT ![f] =
               [NoFetch EXCEPT !.st = "asked", !.begun = gaps, !.of = Whom, !.from = cursor]]

(* syncLatestChanges up to its request, which has nobody to go to while there   *)
(* is no client.                                                              *)
SyncSince ==
    \E f \in Fetch :
        /\ fetches[f].st = "none" /\ \A e \in 1 .. f - 1 : fetches[e].st # "none"
        /\ fetches' = [fetches EXCEPT ![f] =
               [NoFetch EXCEPT !.st = "asked", !.begun = gaps, !.of = Whom,
                               !.from = IF cursor = None THEN gaps ELSE cursor]]

(* The rest of checkDeskCompatibility: the ship's desk is new enough, or its   *)
(* version could not be told (nobody tells it without a client), or it is      *)
(* outdated.                                                                  *)
ProbeAbandoned(s) ==
    /\ starts[s].st = "probe" /\ LoginEnded(s)
    /\ End(s)
    /\ UNCHANGED <<app, desk, subscribedGeneration, fetches, data, forestalled>>

\* Mutant of ProbeOk: a recovery fetches nothing.
ProbeOkCold(s, version) ==
    /\ starts[s].st = "probe" /\ ~LoginEnded(s)
    /\ IF version = "new" THEN client ELSE ~starts[s].prior
    /\ desk' = [NoDesk EXCEPT !.st = "ok", !.of = starts[s].gen]
    /\ starts' = [starts EXCEPT ![s].st = "high",
                                ![s].high = IF starts[s].warm THEN "none" ELSE "pending"]
    /\ IF starts[s].warm THEN UNCHANGED fetches ELSE SyncSince
    /\ UNCHANGED <<app, lock, subscribedGeneration, data, forestalled>>

ProbeOk(s, version) ==
    /\ starts[s].st = "probe" /\ ~LoginEnded(s)
    /\ IF version = "new" THEN client ELSE ~starts[s].prior
    /\ desk' = [NoDesk EXCEPT !.st = "ok", !.of = starts[s].gen]
    /\ starts' = [starts EXCEPT ![s].st = "high",
                                ![s].high = IF starts[s].warm THEN "none" ELSE "pending"]
    /\ SyncSince
    /\ UNCHANGED <<app, lock, subscribedGeneration, data, forestalled>>

ProbeGated(s, version) ==
    /\ starts[s].st = "probe" /\ ~LoginEnded(s)
    /\ IF version = "old" THEN client ELSE starts[s].prior
    /\ desk' = [st |-> "incompatible", known |-> TRUE, of |-> starts[s].gen,
                subscribed |-> IF version = "old" THEN starts[s].warm ELSE desk.subscribed]
    /\ excused' = excused \cup {g \in missed : ~Brought(g)}
    /\ End(s)
    /\ UNCHANGED <<app, subscribedGeneration, fetches, cursor, gaps, missed, early, forestalled>>

(* The batch of high priority ends, by an error perhaps, and that of low       *)
(* priority begins; it ends with its last part or the first error.            *)
HighEnds(s) ==
    /\ starts[s].st = "high"
    /\ starts' = [starts EXCEPT ![s].st = "low", ![s].low = IF starts[s].warm THEN "none" ELSE "pending"]
    /\ UNCHANGED <<app, desk, lock, subscribedGeneration, fetches, data, forestalled>>

LowEnds(s) ==
    /\ starts[s].st = "low"
    /\ End(s)
    /\ UNCHANGED <<app, desk, subscribedGeneration, fetches, data, forestalled>>

(* setupHighPrioritySubscriptions and setupLowPrioritySubscriptions: with the  *)
(* client of the moment.  The low set is early if the high one is not up yet.  *)
HighSettles(s) ==
    /\ starts[s].high = "pending"
    /\ \E res \in {"up", "failed"} :
          /\ res = "up" => client
          /\ starts' = [starts EXCEPT ![s].high = res]
    /\ UNCHANGED <<app, desk, lock, subscribedGeneration, fetches, data, forestalled>>

LowSettles(s) ==
    /\ starts[s].low = "pending"
    /\ \/ /\ client
          /\ starts' = [starts EXCEPT ![s].lowIn = gen,
                                      ![s].low = IF starts[s].high = "up" THEN "up" ELSE "early"]
          /\ subscribedGeneration' = IF starts[s].high = "up" THEN starts[s].gen ELSE subscribedGeneration
       \/ /\ starts' = [starts EXCEPT ![s].low = "failed"]
          /\ UNCHANGED subscribedGeneration
    /\ UNCHANGED <<app, desk, lock, fetches, data, forestalled>>

-----------------------------------------------------------------------------
(* The app returns to the foreground. *)
Foreground ==
    /\ client /\ ~Gated
    /\ SyncSince
    /\ UNCHANGED <<app, desk, lock, subscribedGeneration, starts, data, forestalled>>

(* The ship answers: the one that was asked or, if the request still waited in  *)
(* the sync queue when the login ended, that of the next login.               *)
FetchArrives(f) ==
    /\ fetches[f].st = "asked"
    /\ \E g \in ({fetches[f].of} \ {0}) \cup IF client THEN {gen} ELSE {} :
          fetches' = [fetches EXCEPT ![f].st = "answered", ![f].upto = gaps, ![f].of = g]
    /\ UNCHANGED <<app, desk, lock, subscribedGeneration, starts, data, forestalled>>

(* insertChanges, and then the cursor. *)
InsertChanges(f) ==
    LET q == fetches[f]
    IN  /\ q.st = "answered"
        /\ fetches' = [fetches EXCEPT ![f].st = "inserted"]
        /\ missed' = IF q.of = gen THEN missed \ (q.from + 1 .. q.upto) ELSE missed
        /\ UNCHANGED <<app, desk, lock, subscribedGeneration, starts, cursor, gaps, early, excused, forestalled>>

\* Mutant of SyncedAt: the end of the sync instead of its start.
SyncedAtEnd(q) == gaps

SyncedAt(q) == q.begun

SetChangesSyncedAt(f) ==
    /\ fetches[f].st = "inserted"
    /\ cursor' = SyncedAt(fetches[f])
    /\ fetches' = [fetches EXCEPT ![f] = NoFetch]
    /\ UNCHANGED <<app, desk, lock, subscribedGeneration, starts, gaps, missed, early, excused, forestalled>>

(* An error, or an answer after more than two minutes (FRESHNESS_THRESHOLD).  *)
FetchFails(f) ==
    /\ fetches[f].st \in {"asked", "answered"}
    /\ fetches' = [fetches EXCEPT ![f] = NoFetch]
    /\ excused' = excused \cup {g \in missed : Brings(fetches[f], g)}
    /\ UNCHANGED <<app, desk, lock, subscribedGeneration, starts, cursor, gaps, missed, early, forestalled>>

-----------------------------------------------------------------------------
Probe(s)   == \/ ProbeAbandoned(s)
              \/ \E version \in {"new", "unknown"} : ProbeOk(s, version)
              \/ \E version \in {"old", "unknown"} : ProbeGated(s, version)
Settles(s) == HighSettles(s) \/ LowSettles(s)
Phase(s)   == HighEnds(s) \/ LowEnds(s)
Changes(f) == FetchArrives(f) \/ InsertChanges(f) \/ SetChangesSyncedAt(f) \/ FetchFails(f)

Next ==
    \/ Login \/ Logout \/ ShellStart \/ RetryDeskCompatibility
    \/ (\E lost \in BOOLEAN : HandleDiscontinuity(lost))
    \/ Foreground
    \/ \E s \in Start : Probe(s) \/ Settles(s) \/ Phase(s)
    \/ \E f \in Fetch : Changes(f)

Spec == Init /\ [][Next]_vars

-----------------------------------------------------------------------------
TypeOK ==
    /\ client \in BOOLEAN /\ due \in BOOLEAN
    /\ gen \in 0 .. 2 * MaxLogins
    /\ desk \in [st : {"none", "probing", "incompatible", "ok"}, known : BOOLEAN, subscribed : BOOLEAN,
                 of : Nat]
    /\ isSyncing \in BOOLEAN
    /\ {syncLockGeneration, subscribedGeneration} \subseteq Nat \cup {None}
    /\ starts \in [Start -> [st : {"none", "ended"} \cup Running, gen : Nat, warm : BOOLEAN, prior : BOOLEAN,
                             high : {"none", "pending", "up", "failed"},
                             low : {"none", "pending", "up", "early", "failed"}, lowIn : Nat, again : BOOLEAN]]
    /\ fetches \in [Fetch -> [st : {"none", "asked", "answered", "inserted"},
                              from : 0 .. MaxGaps, begun : 0 .. MaxGaps, upto : 0 .. MaxGaps, of : Nat]]
    /\ cursor \in 0 .. MaxGaps \cup {None} /\ gaps \in 0 .. MaxGaps
    /\ missed \subseteq Gap /\ early \subseteq Gap /\ excused \subseteq Gap
    /\ forestalled \subseteq Nat

(* The lock is held exactly while the start that took it runs, and by a start   *)
(* of the login that is on or, if a reset came late, of the time just before    *)
(* it: one that outlives its login neither keeps the next one out nor releases *)
(* its lock.                                                                  *)
LockIsOwned ==
    /\ isSyncing <=> \E s \in Start : starts[s].st \in Running /\ starts[s].gen = syncLockGeneration
    /\ \A s \in Start : starts[s].st \in Running /\ starts[s].gen = gen => syncLockGeneration = gen
    /\ isSyncing => syncLockGeneration = gen \/ (client /\ syncLockGeneration = gen - 1)
    /\ \A s, t \in Start :
          starts[s].st \in Running /\ starts[t].st \in Running /\ starts[s].gen = starts[t].gen => s = t

(* A login is not shown a verdict on another one's desk, nor a spinner while    *)
(* nobody probes: checkDeskCompatibility drops what outlives its login.  Only  *)
(* the good word of a late reset, which found no ship to ask, stays until the  *)
(* login that follows it has heard from its own.  Who is shown the notice      *)
(* finds the lock free to try again.                                          *)
DeskIsOwn ==
    /\ desk.st = "probing" => client /\ \E s \in Start : starts[s].st = "probe" /\ starts[s].gen = gen
    /\ desk.st = "incompatible" => client /\ desk.of = gen /\ ~isSyncing
    /\ desk.st = "ok" => desk.of = gen \/ (client /\ desk.of = gen - 1)

(* Each login subscribes once: a start that finds both sets up, the high one   *)
(* first, does not register them again, unless a start that outlived its      *)
(* login has overwritten the marker; and one that goes on without subscribing *)
(* follows one that did or tried, unless a reset of a removed client came      *)
(* before the shell.                                                          *)
SubscribedOnce ==
    \A s \in Start :
        /\ starts[s].again => \E t \in Start : starts[t].gen < starts[s].gen /\ starts[t].lowIn = starts[s].gen
        /\ starts[s].warm /\ starts[s].st \in {"high", "low"} =>
              \/ \E t \in Start : starts[t].gen = starts[s].gen /\ starts[t].high # "none"
              \/ starts[s].gen \in forestalled

(* Whatever was missed before the cursor is in the database, for no later      *)
(* fetch asks for it; a gap before there was a cursor is left to the initial   *)
(* sync.                                                                      *)
CursorIsSound == \A g \in missed \ early : g > cursor

(* A gap in the event stream is made good, though it comes while a start is    *)
(* running: a start that will fetch is probing, or a fetch is under way that   *)
(* brings what was missed; unless there was no cursor yet, the changes were    *)
(* already answered or a start of before the login held the lock when the gap  *)
(* came, the fetch fails or the desk is refused.                              *)
GapsAreFetched == \A g \in missed \ excused : Probing \/ Brought(g)

=============================================================================
