------------------------------- MODULE ChannelLog -------------------------------
(***************************************************************************)
(* A channel and its copy on a subscriber's ship: the host's agent keeps   *)
(* the posts and a log of updates (channels-server.hoon), the subscriber's *)
(* (channels.hoon) fetches the newest page, watches the updates, fetches   *)
(* the older posts, the backlog, and watches anew when it is kicked.       *)
(*                                                                         *)
(* An event of an agent is atomic.  Each watch has a flow of messages of    *)
(* its own: what comes on one is in order, but two flows are not ordered   *)
(* with each other.  Of a watch only the current incarnation is kept: what *)
(* an older one delivers is dropped by gall.                               *)
(*                                                                         *)
(* A time is the position in the log of the update made then; a post's id   *)
(* is the time of its creation.  Each post has at most one reply.  The      *)
(* channel's order, view, sort, perm and meta are left out.                *)
(***************************************************************************)
EXTENDS Integers, Sequences, FiniteSets

CONSTANTS
    Message,        \* what the subscriber's user posts: author and time of sending
    PageSize,       \* posts in a checkpoint
    MaxLog,         \* bound on updates
    MaxSends,       \* bound on the pokes of the user's client
    MaxFaults       \* bound on kicks, revocations, upgrades and leaves

ASSUME ConstantsAssumption ==
    /\ PageSize \in Nat \ {0}
    /\ {MaxLog, MaxSends, MaxFaults} \subseteq Nat

VARIABLES
    \* the host
    log,        \* its log
    posts,      \* its posts
    total,      \* its count of posts, which numbers them
    allowed,    \* whether the subscriber may read
    \* the subscriber
    joined,     \* it has the channel
    load,       \* load.net: the checkpoint is in
    copy,       \* its posts
    count,      \* its count of posts
    pending,    \* messages shown as pending
    debounce,   \* messages that were sent
    rolling,    \* updates of the fact it is handling, still to be applied
    \* in between
    flow,       \* each watch: st at the host, its path's argument, retry timer, messages
    cmds,       \* commands on their way to the host
    news,       \* permission changes on their way to the subscriber
    \* history
    snap, heard, lost, refused, stalled,
    \* counters
    sends, faults

host    == <<log, posts, total, allowed>>
sub     == <<joined, load, copy, count, rolling>>
user    == <<pending, debounce>>
history == <<snap, heard, lost, refused, stalled>>
counts  == <<sends, faults>>
vars    == <<host, sub, user, flow, cmds, news, history, counts>>

Time  == 1 .. MaxLog
Wires == {"updates", "checkpoint", "backlog"}
Never == -1         \* no retry is set
NoMessage == "none"

NoReply == 0
Deleted == -1       \* the reply was deleted

(* A post: its essay and its reactions with their revisions, and its reply's.  *)
Absent == [st |-> "absent", seq |-> 0, rev |-> 0, reacts |-> 0, reply |-> NoReply, msg |-> NoMessage]
Tombstone(v) == [Absent EXCEPT !.st = "dead", !.seq = v.seq]

Empty      == [i \in Time |-> Absent]
Present(c) == {i \in Time : c[i].st # "absent"}
Newest(c)  == IF Present(c) = {} THEN 0 ELSE CHOOSE i \in Present(c) : \A j \in Present(c) : j <= i
Oldest(c)  == IF Present(c) = {} THEN 0 ELSE CHOOSE i \in Present(c) : \A j \in Present(c) : i <= j
Larger(m, n) == IF m < n THEN n ELSE m

Closed == [st |-> "none", arg |-> 0, retry |-> Never, down |-> <<>>]

Init ==
    /\ log = <<>> /\ posts = Empty /\ total = 0 /\ allowed = TRUE
    /\ joined = FALSE /\ load = FALSE /\ copy = Empty /\ count = 0 /\ rolling = <<>>
    /\ pending = {} /\ debounce = {}
    /\ flow = [w \in Wires |-> Closed]
    /\ cmds = <<>> /\ news = <<>>
    /\ snap = 0 /\ heard = 0 /\ lost = {} /\ refused = {} /\ stalled = FALSE
    /\ sends = 0 /\ faults = 0

-----------------------------------------------------------------------------
(* The host.                                                                  *)
Tell(w, msg) == [flow EXCEPT ![w].down = Append(@, msg)]
End(w, sign) == [flow EXCEPT ![w].st = "none", ![w].down = Append(@, sign)]

Fault == faults < MaxFaults /\ faults' = faults + 1

Sign(k) == [kind |-> k, us |-> <<>>, posts |-> Empty, count |-> 0, at |-> 0]
Logs(us) == [Sign("logs") EXCEPT !.us = us]

(* ca-update and ca-give-update.                                              *)
Update(id, kind, v) ==
    LET u == [time |-> Len(log) + 1, id |-> id, kind |-> kind, v |-> v]
    IN  /\ Len(log) < MaxLog
        /\ log' = Append(log, u)
        /\ posts' = [posts EXCEPT ![id] = v]
        /\ flow' = IF flow["updates"].st = "live" THEN Tell("updates", Logs(<<u>>)) ELSE flow

(* ca-c-post %add. *)
Add(m) ==
    /\ total' = total + 1
    /\ Update(Len(log) + 1, "set", [Absent EXCEPT !.st = "live", !.seq = total + 1, !.msg = m])

Revised(id) ==
    LET v == posts[id]
    IN  \/ Update(id, "set", [v EXCEPT !.rev = @ + 1])
        \/ Update(id, "set", Tombstone(v))
        \/ Update(id, "reacts", [v EXCEPT !.reacts = @ + 1])
        \/ v.reply # Deleted /\ Update(id, "reply", [v EXCEPT !.reply = @ + 1])
        \/ v.reply > NoReply /\ Update(id, "reply", [v EXCEPT !.reply = Deleted])

(* A command of another ship that the host takes. *)
HostPosts ==
    /\ Add(NoMessage)
    /\ UNCHANGED <<allowed, sub, user, cmds, news, history, counts>>

HostRevises(id) ==
    /\ posts[id].st = "live"
    /\ Revised(id)
    /\ UNCHANGED <<total, allowed, sub, user, cmds, news, history, counts>>

(* ... of the subscriber: it is taken, is refused, or is blocked by a hook,     *)
(* after it was given its number.                                             *)
HostTakes ==
    /\ cmds # <<>>
    /\ cmds' = Tail(cmds)
    /\ \/ Add(Head(cmds)) /\ UNCHANGED <<allowed, refused>>
       \/ /\ refused' = refused \cup {Head(cmds)}
          /\ total' \in {total, total + 1}
          /\ UNCHANGED <<log, posts, allowed, flow>>
    /\ UNCHANGED <<sub, user, news, snap, heard, lost, stalled, counts>>

Page(n)   == {i \in Present(posts) : Cardinality({j \in Present(posts) : j > i}) < n}
Before(t) == {i \in Present(posts) : i < t}

Checkpoint(ids) ==
    [Sign("checkpoint") EXCEPT !.posts = [i \in Time |-> IF i \in ids THEN posts[i] ELSE Absent],
                               !.count = total, !.at = Len(log)]

\* Mutant of LogAfter: the update at the time given is left for the next.
LogAfterNext(t) == SubSeq(log, t + 2, Len(log))

LogAfter(t) == SubSeq(log, t + 1, Len(log))

(* watch: ca-watch-updates, and the checkpoints, which are followed by a kick. *)
WatchArrives(w) ==
    /\ flow[w].st = "asked"
    /\ flow' = IF ~allowed THEN End(w, Sign("nack"))
               ELSE IF w = "updates"
               THEN [Tell(w, Logs(LogAfter(flow[w].arg))) EXCEPT ![w].st = "live"]
               ELSE LET ids == IF w = "checkpoint" THEN Page(PageSize) ELSE Before(flow[w].arg)
                    IN  [flow EXCEPT ![w].st = "none",
                                     ![w].down = @ \o <<Checkpoint(ids), Sign("kick")>>]
    /\ UNCHANGED <<host, sub, user, cmds, news, history, counts>>

(* The group changes who may read: ca-revoke kicks.                           *)
Revoke ==
    /\ allowed /\ Fault
    /\ allowed' = FALSE
    /\ flow' = IF flow["updates"].st = "live" THEN End("updates", Sign("kick")) ELSE flow
    /\ news' = Append(news, FALSE)
    /\ UNCHANGED <<log, posts, total, sub, user, cmds, history, sends>>

Restore ==
    /\ ~allowed
    /\ allowed' = TRUE
    /\ news' = Append(news, TRUE)
    /\ UNCHANGED <<log, posts, total, sub, user, flow, cmds, history, counts>>

(* gall ends a watch, before its fact was given perhaps.                      *)
Clog(w) ==
    /\ Fault /\ flow[w].st = IF w = "updates" THEN "live" ELSE "asked"
    /\ flow' = End(w, Sign("kick"))
    /\ UNCHANGED <<host, sub, user, cmds, news, history, sends>>

-----------------------------------------------------------------------------
(* The subscriber: safe-watch and lib/subscriber.  f is the state of the       *)
(* flows in the event.                                                        *)
Open(f, w) == f[w].st # "none" \/ f[w].down # <<>>

SafeWatch(f, w, arg, delay) ==
    IF Open(f, w) \/ f[w].retry # Never THEN f
    ELSE IF delay THEN [f EXCEPT ![w].retry = arg]
    ELSE [f EXCEPT ![w].st = "asked", ![w].arg = arg]

\* Mutant of StartUpdates: an off-by-one in the time.
StartUpdatesLate(f, c, delay) == SafeWatch(f, "updates", Newest(c) + 1, delay)

StartUpdates(f, c, delay) == SafeWatch(f, "updates", Newest(c), delay)
SyncBacklog(f, c, delay) ==
    IF Present(c) = {} THEN f ELSE SafeWatch(f, "backlog", Oldest(c), delay)

SafeSub(f, c, delay) ==
    IF Open(f, "updates") THEN f
    ELSE IF Present(c) # {} THEN StartUpdates(f, c, delay)
    ELSE SafeWatch(f, "checkpoint", 0, delay)

(* ca-safe-sub, which forgets that the checkpoint is in if it asks for one.    *)
Subscribes(f, delay) ==
    /\ flow' = SafeSub(f, copy, delay)
    /\ load' = (load /\ (Open(f, "updates") \/ Present(copy) # {}))
    /\ stalled' = (stalled /\ flow' = f)

Idle == rolling = <<>>

(* ca-join.  The client asks, or the group's or the channel's host.            *)
Join ==
    /\ Idle
    /\ IF joined
       THEN Subscribes(flow, FALSE) /\ UNCHANGED joined
       ELSE /\ joined' = TRUE /\ load' = FALSE
            /\ flow' = SafeSub(flow, Empty, FALSE)
            /\ stalled' = FALSE
    /\ UNCHANGED <<host, copy, count, rolling, user, cmds, news, snap, heard, lost, refused, counts>>

(* ca-leave *)
Leave ==
    /\ Idle /\ joined /\ Fault
    /\ joined' = FALSE /\ load' = FALSE /\ copy' = Empty /\ count' = 0 /\ pending' = {}
    /\ flow' = [w \in Wires |-> Closed]
    /\ snap' = 0 /\ heard' = 0 /\ lost' = {} /\ stalled' = FALSE
    /\ UNCHANGED <<host, rolling, debounce, cmds, news, refused, sends>>

(* The older posts that are not there yet.                                     *)
Missing == {i \in Present(posts) : i < Newest(copy) /\ copy[i].st = "absent"}

(* A fetch of the backlog that is kicked is begun again from the oldest post:   *)
(* if that came with an update meanwhile, those between it and where the fetch *)
(* was to end are not fetched.                                                *)
Skipped == {i \in Missing : i > Oldest(copy)}

(* on-load: inflate-io leaves the watches it does not recognize, and a fetch    *)
(* of the checkpoint or the backlog is not one of them; those that are expected *)
(* are looked for among the watches there were before.                        *)
OnLoad ==
    LET given == {w \in Wires : w # "updates" /\ Open(flow, w)}
        f     == SafeSub(flow, copy, FALSE)
    IN  /\ Idle /\ Fault
        /\ debounce' = {}
        /\ flow' = [w \in Wires |-> IF w \in given THEN Closed ELSE IF joined THEN f[w] ELSE flow[w]]
        /\ load' = (load /\ (Open(flow, "updates") \/ Present(copy) # {}))
        /\ lost' = IF "backlog" \in given THEN lost \cup Missing ELSE lost
        /\ stalled' = (("checkpoint" \in given) \/ (stalled /\ f = flow))
        /\ UNCHANGED <<host, joined, copy, count, rolling, pending, cmds, news, snap, heard,
                       refused, sends>>

(* ca-recheck: "if our read permissions restored, re-subscribe".               *)
Recheck ==
    /\ Idle /\ news # <<>>
    /\ news' = Tail(news)
    /\ IF joined /\ Head(news) THEN Subscribes(flow, FALSE) ELSE UNCHANGED <<flow, load, stalled>>
    /\ UNCHANGED <<host, joined, copy, count, rolling, user, cmds, snap, heard, lost, refused, counts>>

(* on-arvo: the retry timer of a watch. *)
Wake(w) ==
    /\ Idle /\ flow[w].retry # Never
    /\ flow' = [flow EXCEPT ![w].st = "asked", ![w].arg = flow[w].retry, ![w].retry = Never]
    /\ UNCHANGED <<host, sub, user, cmds, news, history, counts>>

-----------------------------------------------------------------------------
(* ca-apply-reply takes the one that arrives later.                           *)
MergeReply(old, new) ==
    IF old = Deleted \/ new = NoReply THEN old ELSE new

\* Mutant of MergePost: what arrives later is newer.
MergePostLater(old, new) ==
    IF old.st = "dead" \/ new.st = "absent" THEN old ELSE new

(* ca-apply-may-post, and the %set of ca-u-post: what is newer is kept.        *)
MergePost(old, new) ==
    IF old.st = "dead" \/ new.st = "absent" THEN old
    ELSE IF old.st = "absent" \/ new.st = "dead" THEN new
    ELSE [old EXCEPT !.rev = Larger(@, new.rev), !.reacts = Larger(@, new.reacts),
                     !.reply = MergeReply(@, new.reply)]

(* ca-u-post: an update of a post that is not there is ignored, for the        *)
(* window it could be in is empty.                                            *)
ApplyUpdate(old, u) ==
    IF u.kind = "set" THEN MergePost(old, u.v)
    ELSE IF old.st # "live" THEN old
    ELSE IF u.kind = "reacts" THEN [old EXCEPT !.reacts = Larger(@, u.v.reacts)]
    ELSE [old EXCEPT !.reply = MergeReply(@, u.v.reply)]

(* A fact on the updates wire: the updates of a log are applied one after the  *)
(* other, in the same event.                                                  *)
TakeLogs ==
    /\ Idle /\ flow["updates"].down # <<>> /\ Head(flow["updates"].down).kind = "logs"
    /\ rolling' = Head(flow["updates"].down).us
    /\ flow' = [flow EXCEPT !["updates"].down = Tail(@)]
    /\ UNCHANGED <<host, joined, load, copy, count, user, cmds, news, history, counts>>

\* Mutant of Cleared: a message is pending until it is refused.
ClearedNever(u) == pending

(* ca-u-post on a new post: it is not pending any more.                       *)
Cleared(u) ==
    IF u.kind = "set" /\ copy[u.id].st = "absent" /\ u.v.st = "live" THEN pending \ {u.v.msg} ELSE pending

Roll ==
    LET u == Head(rolling)
    IN  /\ rolling # <<>>
        /\ rolling' = Tail(rolling)
        /\ copy' = [copy EXCEPT ![u.id] = ApplyUpdate(@, u)]
        /\ count' = IF u.kind = "set" /\ copy[u.id].st = "absent" THEN Larger(count, u.v.seq) ELSE count
        /\ pending' = Cleared(u)
        /\ heard' = Larger(heard, u.time)
        /\ lost' = IF count' # count THEN lost \ {0} ELSE lost
        /\ UNCHANGED <<host, joined, load, debounce, flow, cmds, news, snap, refused, stalled, counts>>

(* ca-apply-checkpoint *)
Merged(c, ps) == [i \in Time |-> MergePost(c[i], ps[i])]
Applies(q)    == copy' = Merged(copy, q.posts) /\ count' = q.count

TakeCheckpoint ==
    LET q == Head(flow["checkpoint"].down)
        f == StartUpdates(flow, copy', FALSE)
    IN  /\ Idle /\ flow["checkpoint"].down # <<>> /\ q.kind = "checkpoint"
        /\ Applies(q)
        /\ load' = TRUE
        /\ flow' = [SyncBacklog(f, copy', FALSE) EXCEPT !["checkpoint"] = Closed]
        /\ snap' = q.at
        /\ UNCHANGED <<host, joined, rolling, user, cmds, news, heard, lost, refused, stalled, counts>>

(* What was heard before the backlog, though made after it was given: an update *)
(* of a post that was not there, or of a reply, which the backlog's replaces;   *)
(* and the count of posts.                                                    *)
Overtaken(q) ==
    {i \in Present(q.posts) : /\ \E t \in q.at + 1 .. heard : log[t].id = i
                              /\ \/ copy[i].st = "absent"
                                 \/ MergePost(copy[i], q.posts[i]).reply # copy[i].reply}
    \cup IF q.count < count THEN {0} ELSE {}

TakeBacklog ==
    LET q == Head(flow["backlog"].down)
    IN  /\ Idle /\ flow["backlog"].down # <<>> /\ q.kind = "checkpoint"
        /\ Applies(q)
        /\ flow' = [flow EXCEPT !["backlog"] = Closed]
        /\ lost' = lost \cup Overtaken(q)
        /\ UNCHANGED <<host, joined, load, rolling, user, cmds, news, snap, heard, refused, stalled, counts>>

\* Mutant of TakeKick: the updates are watched only if the checkpoint is wanted.
TakeKickOnce(w) ==
    LET f == [flow EXCEPT ![w].down = Tail(@)]
    IN  /\ Idle /\ flow[w].down # <<>> /\ Head(flow[w].down).kind = "kick"
        /\ IF w = "backlog" \/ load
           THEN flow' = (IF w = "backlog" THEN SyncBacklog(f, copy, TRUE) ELSE f) /\ UNCHANGED <<load, stalled>>
           ELSE Subscribes(f, TRUE)
        /\ lost' = IF w = "backlog" THEN lost \cup Skipped ELSE lost
        /\ UNCHANGED <<host, joined, copy, count, rolling, user, cmds, news, snap, heard, refused, counts>>

(* A kick: watch again after a while. *)
TakeKick(w) ==
    LET f == [flow EXCEPT ![w].down = Tail(@)]
    IN  /\ Idle /\ flow[w].down # <<>> /\ Head(flow[w].down).kind = "kick"
        /\ IF w = "backlog" \/ (w = "checkpoint" /\ load)
           THEN flow' = (IF w = "backlog" THEN SyncBacklog(f, copy, TRUE) ELSE f) /\ UNCHANGED <<load, stalled>>
           ELSE Subscribes(f, TRUE)
        /\ lost' = IF w = "backlog" THEN lost \cup Skipped ELSE lost
        /\ UNCHANGED <<host, joined, copy, count, rolling, user, cmds, news, snap, heard, refused, counts>>

(* A refusal: nothing is done. *)
TakeNack(w) ==
    /\ Idle /\ flow[w].down # <<>> /\ Head(flow[w].down).kind = "nack"
    /\ flow' = [flow EXCEPT ![w].down = Tail(@)]
    /\ stalled' = (stalled \/ w # "backlog")
    /\ lost' = IF w = "backlog" THEN lost \cup Missing ELSE lost
    /\ UNCHANGED <<host, sub, user, cmds, news, snap, heard, refused, counts>>

(* The client's poke, or its repetition: ca-a-channel and ca-send-command.     *)
Send(m) ==
    /\ Idle /\ joined /\ sends < MaxSends /\ m \notin debounce
    /\ sends' = sends + 1
    /\ debounce' = debounce \cup {m} /\ pending' = pending \cup {m}
    /\ cmds' = Append(cmds, m)
    /\ UNCHANGED <<host, sub, flow, news, history, faults>>

-----------------------------------------------------------------------------
Takes(w) ==
    \/ TakeKick(w)
    \/ TakeNack(w)
    \/ w = "updates" /\ TakeLogs
    \/ w = "checkpoint" /\ TakeCheckpoint
    \/ w = "backlog" /\ TakeBacklog

Next ==
    \/ HostPosts \/ (\E id \in Time : HostRevises(id)) \/ HostTakes
    \/ Revoke \/ Restore
    \/ \E w \in Wires : WatchArrives(w) \/ Clog(w) \/ Takes(w) \/ Wake(w)
    \/ Roll \/ Join \/ Leave \/ OnLoad \/ Recheck
    \/ \E m \in Message : Send(m)

Spec == Init /\ [][Next]_vars

(* The network delivers, the host answers, and timers fire.                   *)
FairSpec ==
    /\ Spec
    /\ WF_vars(Roll) /\ WF_vars(Recheck) /\ WF_vars(HostTakes)
    /\ \A w \in Wires : WF_vars(WatchArrives(w)) /\ WF_vars(Takes(w)) /\ WF_vars(Wake(w))

-----------------------------------------------------------------------------
Versions == [st : {"absent", "live", "dead"}, seq : Nat, rev : Nat, reacts : Nat, reply : Int,
             msg : Message \cup {NoMessage}]
Updates  == [time : Time, id : Time, kind : {"set", "reacts", "reply"}, v : Versions]
Signs    == [kind : {"logs", "checkpoint", "kick", "nack"}, us : Seq(Updates),
             posts : [Time -> Versions],
             count : Nat, at : 0 .. MaxLog]

TypeOK ==
    /\ log \in Seq(Updates) /\ Len(log) <= MaxLog
    /\ posts \in [Time -> Versions] /\ total \in Nat /\ allowed \in BOOLEAN
    /\ joined \in BOOLEAN /\ load \in BOOLEAN
    /\ copy \in [Time -> Versions] /\ count \in Nat /\ rolling \in Seq(Updates)
    /\ pending \subseteq Message /\ debounce \subseteq Message
    /\ flow \in [Wires -> [st : {"none", "asked", "live"}, arg : 0 .. MaxLog,
                           retry : 0 .. MaxLog \cup {Never}, down : Seq(Signs)]]
    /\ cmds \in Seq(Message) /\ news \in Seq(BOOLEAN)
    /\ snap \in 0 .. MaxLog /\ heard \in 0 .. MaxLog /\ lost \subseteq 0 .. MaxLog
    /\ refused \subseteq Message /\ stalled \in BOOLEAN
    /\ sends \in 0 .. MaxSends /\ faults \in 0 .. MaxFaults

(* Nothing is on its way to the subscriber, and it watches the updates.        *)
Quiet ==
    /\ joined /\ Idle
    /\ flow["updates"].st = "live" /\ flow["updates"].down = <<>>
    /\ \A w \in {"checkpoint", "backlog"} : ~Open(flow, w) /\ flow[w].retry = Never

(* "$global: should be identical between ships": what has arrived is what the  *)
(* host has, however often the subscriber was kicked, refused or upgraded on   *)
(* the way; but for older posts that were lost with a fetch of the backlog, or *)
(* were updated ahead of it, and for the count when the backlog's was older, or *)
(* when a hook took the number given last.                                    *)
SameWhenQuiet ==
    Quiet => /\ \A i \in Time : i \in lost \/ copy[i] = posts[i]
             /\ 0 \in lost \/ count = total \/ \A i \in Time : posts[i].seq # total

(* A message is shown as pending only while it is: its command is on its way,  *)
(* or its post is; unless it was refused, of which the subscriber takes no     *)
(* note, or came with the checkpoint, which does not look at what is pending.   *)
Posting(m) == {t \in DOMAIN log : log[t].id = t /\ log[t].v.msg = m}
PendingIsTrue ==
    \A m \in pending :
        \/ \E i \in DOMAIN cmds : cmds[i] = m
        \/ m \in refused
        \/ \E t \in Posting(m) : t > heard \/ t <= snap

(* The copy only goes forward, and never ahead of the host, whatever is heard  *)
(* twice or in the wrong order.  Replies are not looked at.                   *)
Plain(v) == [st |-> v.st, rev |-> v.rev, reacts |-> v.reacts]
Feed == INSTANCE Replica WITH Id <- Time, posts <- [i \in Time |-> Plain(posts[i])],
                              copy <- [i \in Time |-> Plain(copy[i])]
ReplicaSpec == Feed!Spec

(* In the end a subscriber that may read watches, and has heard everything;    *)
(* unless its last watch was refused, or an upgrade gave its checkpoint up: it  *)
(* is then deaf until it is made to watch again.                              *)
CatchesUp == <>[](~joined \/ ~allowed \/ stalled \/ Quiet)

=============================================================================
