------------------------------ MODULE PostDelivery ------------------------------
(***************************************************************************)
(* The way of a message from the composer to the channel, and what the     *)
(* local database says of it meanwhile.                                    *)
(*                                                                         *)
(* Sending writes an optimistic row (deliveryStatus `enqueued', sequence   *)
(* number 0) and queues an action on the SessionActionQueue, which runs    *)
(* its actions one by one while the session is connected.  The action      *)
(* writes `pending' and pokes the ship; what comes of the poke decides the *)
(* next status.  The ship's own events (markPostSent, addPost), the        *)
(* delivery polls, the verification of doubtful sends and the end of a     *)
(* sync all write the same row, each after reading something earlier.      *)
(*                                                                         *)
(* A post of a group channel comes back from its host under another id: it *)
(* is a row of its own, which deletes the optimistic one.  A direct        *)
(* message keeps its id: the server's copy overwrites the optimistic row.  *)
(* Posts of one kind share a channel here.                                 *)
(***************************************************************************)
EXTENDS Integers, Sequences, FiniteSets

CONSTANTS
    Post,           \* the messages the user composes
    Dm,             \* those that go to a direct message channel
    MaxSends,       \* bound: actions queued, retries included
    PollTries,      \* numOfAttempts of syncChannelWithBackoff (20 in the code)
    Budget          \* bounds: lost connections, restarts and resyncs

ASSUME ConstantsAssumption ==
    /\ Dm \subseteq Post
    /\ MaxSends \in Nat /\ PollTries \in Nat \ {0}
    /\ Budget \in [drops : Nat, restarts : Nat, syncs : Nat]

VARIABLES
    \* the database, which outlives the app
    row,        \* the optimistic row of each post
    copied,     \* the posts whose server copy is stored
    \* the app's memory
    queue,      \* pendingOperations, an attempt to send or to delete each
    woken,      \* is a flushPending call due?
    running,    \* the action being awaited, if any
    settling,   \* what the _sendPost calls whose action has ended will write
    verifying,  \* verifyPostDelivery calls: asked, or with the ship's answer
    failing,    \* enqueued posts that failEnqueuedPosts has read
    poll,       \* polls left to syncChannelMessageDelivery, for each channel
    tapped,     \* posts just retried, which the screen still shows as failed
    removals,   \* deletePost calls that await their action, with the row each has read
    status,     \* channelStatus of the session
    fresh,      \* has no sync ended since the app started?
    \* the network and the ships
    wire,       \* attempts to send on their way to the ship
    log,        \* the attempts the ship has taken, in that order
    sequenced,  \* the posts the channel has given a sequence number
    facts,      \* channel events on their way to the client
    \* history
    sends,      \* attempts so far
    posted,     \* posts the user has sent
    cleared,    \* posts the user has removed after a failure
    acked,      \* attempts whose acknowledgement _sendPost has handled
    stranded,   \* rows left pending by a restart, or by polls that ran out
    restored,   \* rows whose newer delivery state a failed deletePost has undone
    budget

app  == <<queue, woken, running, settling, verifying, failing, poll>>
net  == <<wire, log, sequenced, facts>>
held == <<tapped, removals>>
hist == <<sends, posted, cleared, acked, stranded, restored>>
vars == <<row, copied, app, status, fresh, net, hist, budget, held>>

Attempt == [post : Post, n : 1 .. MaxSends, kind : {"send", "delete"}]
Status  == {"absent", "enqueued", "pending", "needs_verification", "failed", "sent", "null"}
Row     == [status : Status, draft : BOOLEAN, gone : BOOLEAN]
Up      == {"active", "reconnected"}

DatabaseTypeOK == row \in [Post -> Row] /\ copied \subseteq Post

AppTypeOK ==
    /\ queue \in Seq(Attempt) /\ woken \in BOOLEAN
    /\ running \subseteq [att : Attempt, phase : {"finalizing", "poked", "removing"}]
    /\ settling \subseteq [att : Attempt, outcome : {"ok", "doubt", "failed", "refused"}]
    /\ verifying \subseteq [post : Post, answer : {"asked", "found", "missing"}]
    /\ failing \subseteq Post
    /\ poll \in [BOOLEAN -> 0 .. PollTries]
    /\ tapped \subseteq Post /\ removals \subseteq [att : Attempt, was : Row]
    /\ status \in Up \cup {"down", "starting"} /\ fresh \in BOOLEAN

NetTypeOK ==
    /\ wire \subseteq Attempt /\ log \in Seq(Attempt)
    /\ sequenced \subseteq Post
    /\ facts \in Seq([kind : {"pending", "post"}, post : Post])

HistoryTypeOK ==
    /\ sends \in 0 .. MaxSends /\ posted \subseteq Post /\ cleared \subseteq Post
    /\ acked \subseteq Attempt /\ stranded \subseteq Post /\ restored \subseteq Post
    /\ budget \in [drops : Nat, restarts : Nat, syncs : Nat]

TypeOK == DatabaseTypeOK /\ AppTypeOK /\ NetTypeOK /\ HistoryTypeOK

Absent == [status |-> "absent", draft |-> FALSE, gone |-> FALSE]

Init ==
    /\ row = [p \in Post |-> Absent] /\ copied = {}
    /\ queue = <<>> /\ woken = FALSE /\ running = {} /\ settling = {}
    /\ verifying = {} /\ failing = {} /\ poll = [c \in BOOLEAN |-> 0]
    /\ tapped = {} /\ removals = {}
    /\ status = "starting" /\ fresh = TRUE
    /\ wire = {} /\ log = <<>> /\ sequenced = {} /\ facts = <<>>
    /\ sends = 0 /\ posted = {} /\ cleared = {} /\ acked = {} /\ stranded = {}
    /\ restored = {}
    /\ budget = Budget

-----------------------------------------------------------------------------
Is(p, statuses) == row[p].status \in statuses

(* updatePost: an update by id, which does nothing when the row is gone *)
Written(p, s) == IF Is(p, {"absent"}) THEN row ELSE [row EXCEPT ![p].status = s]

(* The optimistic row still stands for the post: its sequence number is 0. *)
Unsequenced(p, copies) == p \notin Dm \cap copies

(* insertPosts with the ship's copies: a group post deletes its optimistic    *)
(* row (deleteReplacedCachedPosts), a direct message has the row's own id.    *)
Inserted(ps) ==
    [p \in Post |-> IF p \notin ps THEN row[p]
                    ELSE IF p \in Dm THEN [Absent EXCEPT !.status = "null"] ELSE Absent]

(* getDeliveryPendingPosts *)
InFlight(rows, copies) ==
    {p \in Post : \/ rows[p].status \in {"enqueued", "pending"}
                  \/ rows[p].status = "sent" /\ Unsequenced(p, copies)}

ChannelOf(p)   == p \in Dm
InChannel(c)   == {p \in Post : ChannelOf(p) = c}
Spend(what)    == budget[what] > 0 /\ budget' = [budget EXCEPT ![what] = @ - 1]
Taken          == {log[i] : i \in DOMAIN log}
PostsOf(atts)  == {a.post : a \in atts}

-----------------------------------------------------------------------------
(* The user. *)

(* sessionActionQueue.add: flushPending is called only for a queue that was empty. *)
Enqueue(p, kind) ==
    /\ sends < MaxSends
    /\ sends' = sends + 1
    /\ queue' = Append(queue, [post |-> p, n |-> sends + 1, kind |-> kind])
    /\ woken' = (woken \/ queue = <<>>)

(* sendPost: the optimistic row, then the action. *)
Send(p) ==
    /\ p \notin posted
    /\ Enqueue(p, "send")
    /\ row' = [row EXCEPT ![p] = [status |-> "enqueued", draft |-> TRUE, gone |-> FALSE]]
    /\ posted' = posted \cup {p}
    /\ UNCHANGED <<copied, running, settling, verifying, failing, poll, status, fresh, net,
                   cleared, acked, stranded, restored, budget, held>>

(* What retrySendPost tests of the row that its caller has rendered. *)
ShownFailed(p) == p \in tapped \/ (Is(p, {"failed"}) /\ row[p].draft /\ ~row[p].gone)

(* retrySendPost, offered for failed rows, and refused without a draft: until *)
(* the row is rendered anew, another tap does the same, whatever the row is.  *)
Retry(p) ==
    /\ ShownFailed(p)
    /\ Enqueue(p, "send")
    /\ row' = Written(p, "enqueued")
    /\ tapped' = tapped \cup {p}
    /\ stranded' = stranded \ {p}
    /\ UNCHANGED <<copied, running, settling, verifying, failing, poll, removals, status, fresh,
                   net, posted, cleared, acked, restored, budget>>

Rendered(p) ==
    /\ p \in tapped
    /\ tapped' = tapped \ {p}
    /\ UNCHANGED <<row, copied, app, removals, status, fresh, net, hist, budget>>

IsUnsentOptimisticRow(p) == Is(p, {"failed"}) /\ Unsequenced(p, copied)

(* deletePost or deleteFailedPost of a row that isUnsentOptimisticRow. *)
ClearUnsent(p) ==
    /\ IsUnsentOptimisticRow(p) /\ ~row[p].gone
    /\ row' = [row EXCEPT ![p] = Absent]
    /\ cleared' = cleared \cup {p}
    /\ UNCHANGED <<copied, app, status, fresh, net, sends, posted, acked, stranded, restored,
                   budget, held>>

(* deletePost of any other row: it is marked as deleted, which hides it, and *)
(* the call waits for its action with the row as it was.                     *)
Remove(p) ==
    /\ ~Is(p, {"absent"}) /\ ~row[p].gone /\ ~IsUnsentOptimisticRow(p)
    /\ Enqueue(p, "delete")
    /\ row' = [row EXCEPT ![p].gone = TRUE]
    /\ removals' = removals \cup {[att |-> queue'[Len(queue')], was |-> row[p]]}
    /\ UNCHANGED <<copied, running, settling, verifying, failing, poll, tapped, status, fresh,
                   net, posted, cleared, acked, stranded, restored, budget>>

(* deleteFailedPost of a failed row that the ship has numbered. *)
HideFailed(p) ==
    /\ Is(p, {"failed"}) /\ ~row[p].gone /\ ~IsUnsentOptimisticRow(p)
    /\ row' = [row EXCEPT ![p].gone = TRUE]
    /\ UNCHANGED <<copied, app, status, fresh, net, hist, budget, held>>

-----------------------------------------------------------------------------
(* SessionActionQueue. *)

\* Mutant of MayTakeNext: isProcessing is not consulted.
MayTakeNextAnyway == status \in Up /\ queue # <<>>

(* The queue is not processing, the session is connected, something is pending. *)
MayTakeNext == running = {} /\ status \in Up /\ queue # <<>>

(* The action of a deletePost pokes at once. *)
PhaseOf(a) == IF a.kind = "delete" THEN "removing" ELSE "finalizing"

(* flushPending, up to the await of the action it starts, if it starts one. *)
FlushPending ==
    /\ woken
    /\ woken' = FALSE
    /\ IF MayTakeNext
       THEN /\ running' = running \cup {[att |-> Head(queue), phase |-> PhaseOf(Head(queue))]}
            /\ queue' = Tail(queue)
       ELSE UNCHANGED <<running, queue>>
    /\ UNCHANGED <<row, copied, settling, verifying, failing, poll, status, fresh, net, hist,
                   budget, held>>

(* The action: its content is final, the row is pending, and the poke goes out. *)
SendPoke(x) ==
    /\ x.phase = "finalizing"
    /\ running' = (running \ {x}) \cup {[x EXCEPT !.phase = "poked"]}
    /\ row' = Written(x.att.post, "pending")
    /\ wire' = wire \cup {x.att}
    /\ UNCHANGED <<copied, queue, woken, settling, verifying, failing, poll, status, fresh,
                   log, sequenced, facts, hist, budget, held>>

(* The action ends: _sendPost will write the outcome, and the loop goes round. *)
Ends(x, outcome) ==
    /\ running' = running \ {x}
    /\ settling' = settling \cup {[att |-> x.att, outcome |-> outcome]}
    /\ woken' = TRUE
    /\ UNCHANGED <<row, copied, queue, verifying, failing, poll, status, fresh, net, hist,
                   budget, held>>

(* The poke of a deletePost is taken: the call has nothing left to write. *)
RemovalAcked(x) ==
    /\ x.phase = "removing"
    /\ running' = running \ {x}
    /\ removals' = {m \in removals : m.att # x.att}
    /\ woken' = TRUE
    /\ UNCHANGED <<row, copied, queue, settling, verifying, failing, poll, tapped, status, fresh,
                   net, hist, budget>>

(* It is nacked, fails, or is not answered in time. *)
RemovalFails(x) == x.phase = "removing" /\ Ends(x, "refused")

(* An upload fails or times out. *)
FinalizeFails(x) == x.phase = "finalizing" /\ Ends(x, "failed")

PokeAcked(x) ==
    /\ x.phase = "poked" /\ x.att \in Taken
    /\ Ends(x, "ok")

(* A nack, or a PUT that fails, whether or not the ship has seen it or will. *)
PokeFails(x) == x.phase = "poked" /\ Ends(x, "failed")

(* No answer in time, or the channel was reaped meanwhile. *)
PokeInDoubt(x) == x.phase = "poked" /\ Ends(x, "doubt")

-----------------------------------------------------------------------------
(* The rest of _sendPost. *)

\* Mutant of Polling: each delivery starts a loop of its own.
PollingStacked(c) == [poll EXCEPT ![c] = @ + PollTries]

(* The draft has served its purpose. *)
Delivered(p) == [row EXCEPT ![p].draft = FALSE]

(* syncChannelMessageDelivery, unless it already runs for this channel. *)
Polling(c) == [poll EXCEPT ![c] = IF @ = 0 THEN PollTries ELSE @]

\* Mutant of Doubtful: the draft goes with the doubt.
DoubtfulDropsDraft(p) == [Written(p, "needs_verification") EXCEPT ![p].draft = FALSE]

Doubtful(p) == Written(p, "needs_verification")

Settle(x) ==
    /\ settling' = settling \ {x}
    /\ \/ /\ x.outcome = "ok"
          /\ row' = Delivered(x.att.post)
          /\ poll' = Polling(ChannelOf(x.att.post))
          /\ acked' = acked \cup {x.att}
       \/ /\ \/ x.outcome = "doubt"  /\ row' = Doubtful(x.att.post)
             \/ x.outcome = "failed" /\ row' = Written(x.att.post, "failed")
          /\ UNCHANGED <<poll, acked>>
    /\ UNCHANGED <<copied, queue, woken, running, verifying, failing, status, fresh, net, sends,
                   posted, cleared, stranded, restored, budget, held>>

(* The row as deletePost has read it, put in the place of what it is now. *)
RolledBack(p, was) == IF Is(p, {"absent"}) THEN row ELSE [row EXCEPT ![p] = was]

Delivery(r) == <<r.status, r.draft>>

(* The rest of a deletePost whose poke has failed: its rollback writes every *)
(* column of the row it has read, those of the delivery too.                 *)
RollBack(x) ==
    /\ x.outcome = "refused"
    /\ settling' = settling \ {x}
    /\ \E m \in removals :
          /\ m.att = x.att
          /\ removals' = removals \ {m}
          /\ row' = RolledBack(x.att.post, m.was)
          /\ restored' = IF Delivery(row'[x.att.post]) = Delivery(row[x.att.post]) THEN restored
                         ELSE restored \cup {x.att.post}
    /\ UNCHANGED <<copied, queue, woken, running, verifying, failing, poll, tapped, status, fresh,
                   net, sends, posted, cleared, acked, stranded, budget>>

-----------------------------------------------------------------------------
(* The ships. *)

Emitted(kind, p) == Append(facts, [kind |-> kind, post |-> p])

(* A group post is proxied to its host; the ship keeps it as pending meanwhile. *)
TakeForHost(a) ==
    /\ a.post \notin Dm
    /\ facts' = Emitted("pending", a.post)
    /\ UNCHANGED sequenced

(* A direct message is sequenced right away, once. *)
TakeDm(a) ==
    /\ a.post \in Dm
    /\ sequenced' = sequenced \cup {a.post}
    /\ facts' = IF a.post \in sequenced THEN facts ELSE Emitted("post", a.post)

Take(a) ==
    /\ wire' = wire \ {a}
    /\ log' = Append(log, a)
    /\ TakeForHost(a) \/ TakeDm(a)
    /\ UNCHANGED <<row, copied, app, status, fresh, hist, budget, held>>

(* It is nacked, or it never arrives. *)
Lose(a) ==
    /\ wire' = wire \ {a}
    /\ UNCHANGED <<row, copied, app, status, fresh, log, sequenced, facts, hist, budget, held>>

(* The host takes the post into the channel and tells its subscribers. *)
HostSequences(p) ==
    /\ p \in PostsOf(Taken) \ sequenced
    /\ sequenced' = sequenced \cup {p}
    /\ facts' = Emitted("post", p)
    /\ UNCHANGED <<row, copied, app, status, fresh, wire, log, hist, budget, held>>

-----------------------------------------------------------------------------
(* What comes back. *)

\* Mutant of MarkedSent: the row is deleted when the ship has the post.
MarkedGone(p) == [row EXCEPT ![p] = Absent]

(* markPostSent *)
MarkedSent(p) == Written(p, "sent")

HearFact ==
    /\ facts # <<>> /\ status \in Up
    /\ facts' = Tail(facts)
    /\ LET f == Head(facts) IN
          \/ /\ f.kind = "pending"
             /\ row' = MarkedSent(f.post)
             /\ UNCHANGED copied
          \/ /\ f.kind = "post"
             /\ row' = Inserted({f.post})
             /\ copied' = copied \cup {f.post}
    /\ UNCHANGED <<app, status, fresh, wire, log, sequenced, hist, budget, held>>

(* Posts that stay pending after the last poll. *)
GivenUp(c, left) ==
    IF left > 0 THEN {} ELSE {p \in InChannel(c) : row'[p].status = "pending"}

(* checkDelivered: nothing is in flight any more, or the newest posts are *)
(* fetched (the fetch may fail) and the rest is left to the next attempt. *)
Poll(c) ==
    /\ poll[c] > 0
    /\ \E fetched \in {{}, sequenced \cap InChannel(c)} :
          LET got  == IF InFlight(row, copied) \cap InChannel(c) = {} THEN {} ELSE fetched
              rows == Inserted(got)
              left == IF InFlight(rows, copied \cup got) \cap InChannel(c) = {}
                      THEN 0 ELSE poll[c] - 1
          IN  /\ row' = rows
              /\ copied' = copied \cup got
              /\ poll' = [poll EXCEPT ![c] = left]
              /\ stranded' = stranded \cup GivenUp(c, left)
    /\ UNCHANGED <<queue, woken, running, settling, verifying, failing, status, fresh, net,
                   sends, posted, cleared, acked, restored, budget, held>>

(* verifyPostDelivery asks for the newest posts, and may find too few or fail. *)
VerifyAnswered(v) ==
    /\ v.answer = "asked"
    /\ \/ \E answer \in {"missing"} \cup (IF v.post \in sequenced THEN {"found"} ELSE {}) :
             verifying' = (verifying \ {v}) \cup {[v EXCEPT !.answer = answer]}
       \/ verifying' = verifying \ {v}
    /\ UNCHANGED <<row, copied, queue, woken, running, settling, failing, poll, status, fresh,
                   net, hist, budget, held>>

(* It then writes its verdict, whatever the row has become. *)
VerifyWrites(v) ==
    /\ v.answer # "asked"
    /\ verifying' = verifying \ {v}
    /\ row' = IF v.answer = "missing" THEN Written(v.post, "failed")
              ELSE [Written(v.post, "sent") EXCEPT ![v.post].draft = FALSE]
    /\ UNCHANGED <<copied, queue, woken, running, settling, failing, poll, status, fresh, net,
                   hist, budget, held>>

\* Mutant of Enqueued: the rows of an earlier run of the app are overlooked.
EnqueuedHere == {p \in Post : Is(p, {"enqueued"}) /\ \E i \in DOMAIN queue : queue[i].post = p}

Enqueued == {p \in Post : Is(p, {"enqueued"})}

(* The end of syncStart: failEnqueuedPosts reads the enqueued rows... *)
SyncEnds ==
    /\ status \in Up
    /\ (fresh /\ UNCHANGED budget) \/ (~fresh /\ Spend("syncs"))
    /\ fresh' = FALSE
    /\ failing' = failing \cup Enqueued
    /\ UNCHANGED <<row, copied, queue, woken, running, settling, verifying, poll, status, net,
                   hist, held>>

(* ...and marks each as failed. *)
FailEnqueued(p) ==
    /\ p \in failing
    /\ failing' = failing \ {p}
    /\ row' = Written(p, "failed")
    /\ UNCHANGED <<copied, queue, woken, running, settling, verifying, poll, status, fresh, net,
                   hist, budget, held>>

-----------------------------------------------------------------------------
(* The connection and the app. *)

\* Mutant of OnSession: the listener only notes the status.
OnSessionAsleep == woken

(* The queue's session listener calls flushPending. *)
OnSession == TRUE

(* A channel that is opened anew: the events of the gap are lost, and the *)
(* posts in doubt are verified.                                           *)
GoActive ==
    /\ status \in {"down", "starting"}
    /\ status' = "active"
    /\ woken' = OnSession
    /\ facts' = <<>>
    /\ verifying' = verifying
          \cup {[post |-> p, answer |-> "asked"] : p \in {q \in Post : Is(q, {"needs_verification"})}}
    /\ UNCHANGED <<row, copied, queue, running, settling, failing, poll, fresh, wire, log,
                   sequenced, hist, budget, held>>

(* The same channel again: the events have waited. *)
GoReconnected ==
    /\ status = "down"
    /\ status' = "reconnected"
    /\ woken' = OnSession
    /\ UNCHANGED <<row, copied, queue, running, settling, verifying, failing, poll, fresh, net,
                   hist, budget, held>>

Drop ==
    /\ status \in Up /\ Spend("drops")
    /\ status' = "down"
    /\ woken' = TRUE
    /\ UNCHANGED <<row, copied, queue, running, settling, verifying, failing, poll, fresh, net,
                   hist, held>>

(* The app is killed and started again: only the database is left. *)
Restart ==
    /\ Spend("restarts")
    /\ queue' = <<>> /\ woken' = FALSE /\ running' = {} /\ settling' = {}
    /\ verifying' = {} /\ failing' = {} /\ poll' = [c \in BOOLEAN |-> 0]
    /\ tapped' = {} /\ removals' = {}
    /\ status' = "starting" /\ fresh' = TRUE
    /\ facts' = <<>>
    /\ stranded' = stranded \cup {p \in Post : Is(p, {"pending"})}
    /\ UNCHANGED <<row, copied, wire, log, sequenced, sends, posted, cleared, acked, restored>>

-----------------------------------------------------------------------------
User     == \E p \in Post : Send(p) \/ Retry(p) \/ ClearUnsent(p) \/ Remove(p) \/ HideFailed(p)
Screen   == \E p \in Post : Rendered(p)
Action   == \E x \in running : SendPoke(x) \/ FinalizeFails(x)
Answer   == \E x \in running : PokeAcked(x) \/ PokeFails(x) \/ PokeInDoubt(x)
                               \/ RemovalAcked(x) \/ RemovalFails(x)
Settling == \E x \in settling : Settle(x) \/ RollBack(x)
Ships    == (\E a \in wire : Take(a) \/ Lose(a)) \/ \E p \in Post : HostSequences(p)
Polls    == \E c \in BOOLEAN : Poll(c)
Verify   == \E v \in verifying : VerifyAnswered(v) \/ VerifyWrites(v)
Failing  == \E p \in Post : FailEnqueued(p)
GoUp     == GoActive \/ GoReconnected

Next == User \/ Screen \/ FlushPending \/ Action \/ Answer \/ Settling \/ Ships \/ HearFact \/ Polls
          \/ Verify \/ SyncEnds \/ Failing \/ GoUp \/ Drop \/ Restart

Spec == Init /\ [][Next]_vars

(***************************************************************************)
(* What the runtime and the timers see to: due calls run, uploads and      *)
(* pokes end one way or another (both have timeouts), answers are handled, *)
(* polls go on, the connection is tried again, and the first sync ends.    *)
(* Nothing is assumed of the ships, of later syncs or of the user.         *)
(***************************************************************************)
FairSpec ==
    /\ Spec
    /\ WF_vars(FlushPending) /\ WF_vars(Action) /\ WF_vars(Answer) /\ WF_vars(Settling)
    /\ WF_vars(HearFact) /\ WF_vars(Polls) /\ WF_vars(Verify) /\ WF_vars(Failing)
    /\ WF_vars(fresh /\ SyncEnds) /\ WF_vars(GoUp)

-----------------------------------------------------------------------------
Behind(p) == \E x \in running \cup settling : x.att.post = p /\ x.att.kind = "send"
Queued(p) == \E i \in DOMAIN queue : queue[i].post = p /\ queue[i].kind = "send"

(* A message the user has sent and has not removed stays in the database, as  *)
(* the optimistic row or as the ship's copy, however deletions by sentAt,     *)
(* late events, polls and restarts interleave.                                *)
NothingVanishes ==
    \A p \in posted \ cleared : ~Is(p, {"absent"}) \/ p \in copied

(* A row that says failed is right about whether to retry it.  One that offers *)
(* it, having its draft still, is not a message whose acknowledgement was      *)
(* handled, whatever older or newer attempts, syncs and verifications wrote     *)
(* since, unless a failed deletePost has put an older state in place of a     *)
(* newer one; one whose draft is dropped is a message the ship has, so no     *)
(* unsent text is lost.                                                       *)
FailedIsRetryable ==
    \A p \in Post : Is(p, {"failed"}) =>
        IF row[p].draft THEN p \notin PostsOf(acked) \/ p \in restored ELSE p \in PostsOf(Taken)

(* A row that waits its turn has an action that will send it, or the sync     *)
(* that follows a restart will fail it; the one exception is a row that a     *)
(* failed deletePost has put back to an older state.                          *)
EnqueuedHasSender ==
    \A p \in Post : Is(p, {"enqueued"}) =>
        Queued(p) \/ Behind(p) \/ fresh \/ p \in failing \/ p \in restored

(* Messages whose sends are acknowledged reach the ship in the order in which *)
(* the user sent them, retries counted anew.                                  *)
AckedInOrder ==
    \A i, j \in DOMAIN log : i < j /\ {log[i], log[j]} \subseteq acked => log[i].n < log[j].n

(* Every send comes to an end the user sees: the row leaves `enqueued' and    *)
(* `pending', unless a restart or polls that ran out leave it there, or a     *)
(* failed deletePost puts it back.                                            *)
EverySendSettles ==
    \A p \in Post : Is(p, {"enqueued"}) ~>
        (~Is(p, {"enqueued", "pending"}) \/ p \in stranded \cup restored)
=============================================================================
